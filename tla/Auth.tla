-------------------------------- MODULE Auth --------------------------------
(***************************************************************************)
(* The auth service: identities made by signups, and the codes by which     *)
(* their contacts are verified.  Logins and token refreshes write nothing.  *)
(*                                                                          *)
(* A contact is an e-mail or a phone with the account type, the unit of     *)
(* the two unique indexes of identities.  An identity is named by the       *)
(* signup that made it, a code by the request that drew it: that two draws  *)
(* of six digits agree by chance is left out.                               *)
(***************************************************************************)
EXTENDS Naturals, SignupEvent

CONSTANTS
    Sends, Verifies,   \* requests, as are Signups
    Contacts,
    Emails,        \* ... those that are e-mails; the others are phones
    ContactsOf,    \* what each signup names: an e-mail, a phone or both
    Typed,         \* signups whose contacts were not typed in the normal form
    NoCode, NoContact

ASSUME SignupAssumption == ContactsOf \in [Signups -> (SUBSET Contacts) \ {{}}]
ASSUME ContactAssumption ==
    \A s \in Signups : \A c, d \in ContactsOf[s] : (c \in Emails <=> d \in Emails) => c = d
ASSUME TypedAssumption == Typed \subseteq Signups
ASSUME NoneAssumption == NoCode \notin Sends /\ NoContact \notin Signups \X Contacts

\* An identity and one of its contacts: one row of each type at most is verified
\* and looked for, so the contact stands for the type.
Claim == {c \in Signups \X Contacts : c[2] \in ContactsOf[c[1]]}

\* A row of identity_verifications, unique by identity, type and value.
Row == Claim \X {"typed", "normal"}

VARIABLES
    identities,   \* signups whose identity is stored
    records,      \* rows of identity_verifications
    verified,     \* ... that have verifiedAt
    code,         \* ... column otpHash
    expired,      \* codes whose ten minutes are over
    signup,       \* where each signup is
    left,         \* ... and the contacts it has made no row for yet
    send,         \* the requests for a code
    verify,       \* the requests that enter one
    published,    \* codes handed to the notification service
    known,        \* codes that reached the owner of the contact
    before        \* for the properties: sends that had ended when a send began

identityVars == <<identities, records, verified, code>>
signupVars == <<signup, left, announced>>
sendVars == <<send, published, before>>
authVars == <<identityVars, expired, signupVars, sendVars, verify, known>>

SignupPc == {"idle", "insert", "records", "publish", "close", "done", "failed"}
SendPc == {"idle", "find", "write", "publish", "done", "failed"}
VerifyPc == {"idle", "mark", "done", "failed"}

SendState == [pc : SendPc, claim : Claim \cup {NoContact}, found : BOOLEAN]

AuthTypeOK ==
    /\ identities \subseteq Signups
    /\ records \subseteq Row
    /\ verified \subseteq records
    /\ code \in [Row -> Sends \cup {NoCode}]
    /\ expired \subseteq Sends
    /\ signup \in [Signups -> SignupPc]
    /\ left \in [Signups -> SUBSET Contacts]
    /\ \A s \in Signups : left[s] \subseteq ContactsOf[s]
    /\ announced \subseteq Signups
    /\ send \in [Sends -> SendState]
    /\ \A q \in Sends : send[q].claim = NoContact <=> send[q].pc = "idle"
    /\ verify \in [Verifies -> [pc : VerifyPc, claim : Claim \cup {NoContact}]]
    /\ \A v \in Verifies : verify[v].claim = NoContact <=> verify[v].pc = "idle"
    /\ published \subseteq Sends
    /\ known \subseteq published
    /\ before \in [Sends -> SUBSET Sends]

AuthInit ==
    /\ identities = {} /\ records = {} /\ verified = {}
    /\ code = [r \in Row |-> NoCode]
    /\ expired = {}
    /\ signup = [s \in Signups |-> "idle"]
    /\ left = ContactsOf
    /\ announced = {}
    /\ send = [q \in Sends |-> [pc |-> "idle", claim |-> NoContact, found |-> FALSE]]
    /\ verify = [v \in Verifies |-> [pc |-> "idle", claim |-> NoContact]]
    /\ published = {} /\ known = {}
    /\ before = [q \in Sends |-> {}]

-----------------------------------------------------------------------------
(***************************************************************************)
(* signup                                                                   *)
(***************************************************************************)
\* Mutant: e-mail and phone were made indexes that are not unique.
ContactTakenNever(s) == FALSE

\* @@unique([email, accountType]), @@unique([phone, accountType])
ContactTaken(s) == \E t \in identities : ContactsOf[t] \cap ContactsOf[s] # {}

SignupAt(s, pc) == signup' = [signup EXCEPT ![s] = pc]

\* existsByEmail, existsByPhone
SignupCheck(s) ==
    /\ signup[s] = "idle"
    /\ SignupAt(s, IF \E t \in identities : ContactsOf[t] \cap ContactsOf[s] # {}
                   THEN "failed" ELSE "insert")
    /\ UNCHANGED <<identityVars, expired, left, announced, sendVars, verify, known>>

\* createIdentity
SignupInsert(s) ==
    /\ signup[s] = "insert"
    /\ IF ContactTaken(s)
       THEN SignupAt(s, "failed") /\ UNCHANGED identities
       ELSE SignupAt(s, "records") /\ identities' = identities \cup {s}
    /\ UNCHANGED <<records, verified, code, expired, left, announced,
                   sendVars, verify, known>>

\* The row keeps the contact as it was typed, the identity in the normal form.
SignupRow(s, c) == <<<<s, c>>, IF s \in Typed THEN "typed" ELSE "normal">>

SignupRows(s) == {SignupRow(s, c) : c \in ContactsOf[s]}

\* createVerification, for the e-mail and then for the phone.  The row may be
\* there: whoever can log in can ask for a code by now.
SignupRecord(s, c) ==
    /\ signup[s] = "records"
    /\ c \in left[s]
    /\ c \in Emails \/ left[s] \cap Emails = {}
    /\ IF SignupRow(s, c) \in records
       THEN SignupAt(s, "failed") /\ UNCHANGED <<records, left>>
       ELSE /\ records' = records \cup {SignupRow(s, c)}
            /\ left' = [left EXCEPT ![s] = @ \ {c}]
            /\ SignupAt(s, IF left[s] = {c} THEN "publish" ELSE "records")
    /\ UNCHANGED <<identities, verified, code, expired, announced, sendVars, verify, known>>

\* Mutant: the event is published before the rows are all written.
SignupPublishEarly(s) ==
    /\ signup[s] \in {"records", "publish"}
    /\ SignupAt(s, "close") /\ announced' = announced \cup {s}
    /\ UNCHANGED <<identityVars, expired, left, sendVars, verify, known>>

\* publishUserSignedUpEvent: no channel, and the signup fails with everything
\* stored; an error after that is logged.
SignupPublish(s) ==
    /\ signup[s] = "publish"
    /\ \/ SignupAt(s, "close") /\ announced' = announced \cup {s}
       \/ SignupAt(s, "close") /\ UNCHANGED announced
       \/ SignupAt(s, "failed") /\ UNCHANGED announced
    /\ UNCHANGED <<identityVars, expired, left, sendVars, verify, known>>

\* ... its finally: the channel may be closed by now, and nothing catches that.
\* The tokens and the answer come after it.
SignupClose(s) ==
    /\ signup[s] = "close"
    /\ SignupAt(s, "done") \/ SignupAt(s, "failed")
    /\ UNCHANGED <<identityVars, expired, left, announced, sendVars, verify, known>>

\* The instance stops, or a statement throws.
SignupDies(s) ==
    /\ signup[s] \in {"insert", "records", "publish", "close"}
    /\ SignupAt(s, "failed")
    /\ UNCHANGED <<identityVars, expired, left, announced, sendVars, verify, known>>

-----------------------------------------------------------------------------
(***************************************************************************)
(* sendVerification                                                         *)
(***************************************************************************)
SendEnded == {q \in Sends : send[q].pc \in {"done", "failed"}}

SendAt(q, pc) == send' = [send EXCEPT ![q].pc = pc]

NormalRow(claim) == <<claim, "normal">>

\* isVerified: a row of this identity and type.
isVerified(claim) == \E v \in {"typed", "normal"} : <<claim, v>> \in verified

\* findPendingByIdentityTypeValue, and the same query in upsertVerificationOtp
Pending(claim) == NormalRow(claim) \in records \ verified

\* The identity is there, the value is its own, and it is not verified yet.
SendCheck(q, claim) ==
    /\ send[q].pc = "idle"
    /\ claim[1] \in identities
    /\ send' = [send EXCEPT ![q] =
         [pc |-> IF isVerified(claim) THEN "done" ELSE "find",
          claim |-> claim, found |-> FALSE]]
    /\ before' = [before EXCEPT ![q] = SendEnded]
    /\ UNCHANGED <<identityVars, expired, signupVars, published, verify, known>>

\* upsertVerificationOtp: the query
SendFind(q) ==
    /\ send[q].pc = "find"
    /\ send' = [send EXCEPT ![q] =
         [pc |-> "write", claim |-> @.claim, found |-> Pending(@.claim)]]
    /\ UNCHANGED <<identityVars, expired, signupVars, published, before, verify, known>>

\* Mutant: a code that is still good is left in the row.
SendWriteOnce(q) ==
    LET row == NormalRow(send[q].claim)
    IN  /\ send[q].pc = "write"
        /\ IF send[q].found \/ row \notin records
           THEN /\ records' = records \cup {row}
                /\ code' = [code EXCEPT ![row] = IF @ = NoCode THEN q ELSE @]
                /\ SendAt(q, "publish")
           ELSE SendAt(q, "failed") /\ UNCHANGED <<records, code>>
        /\ UNCHANGED <<identities, verified, expired, signupVars, published, before,
                       verify, known>>

\* ... the update by id of the row found, verified or not by now, or the insert,
\* which the unique index refuses when the row is there by now or was verified.
SendWrite(q) ==
    LET row == NormalRow(send[q].claim)
    IN  /\ send[q].pc = "write"
        /\ IF send[q].found \/ row \notin records
           THEN /\ records' = records \cup {row}
                /\ code' = [code EXCEPT ![row] = q]
                /\ SendAt(q, "publish")
           ELSE SendAt(q, "failed") /\ UNCHANGED <<records, code>>
        /\ UNCHANGED <<identities, verified, expired, signupVars, published, before,
                       verify, known>>

\* publishAuthNotification.  The close of the channel that follows writes nothing
\* and its errors are caught: a send that stops there leaves what this leaves.
SendPublish(q) ==
    /\ send[q].pc = "publish"
    /\ SendAt(q, "done")
    /\ published' = published \cup {q}
    /\ UNCHANGED <<identityVars, expired, signupVars, before, verify, known>>

\* publishAuthNotification swallows its errors: the answer is a success.
SendUnpublished(q) ==
    /\ send[q].pc = "publish"
    /\ SendAt(q, "done")
    /\ UNCHANGED <<identityVars, expired, signupVars, published, before, verify, known>>

SendDies(q) ==
    /\ send[q].pc \in {"find", "write", "publish"}
    /\ SendAt(q, "failed")
    /\ UNCHANGED <<identityVars, expired, signupVars, published, before, verify, known>>

\* The notification service delivers the code.
Arrive(q) ==
    /\ q \in published \ known
    /\ known' = known \cup {q}
    /\ UNCHANGED <<identityVars, expired, signupVars, sendVars, verify>>

\* otpExpiresAt passes.
CodeExpires(q) ==
    /\ q \in {code[r] : r \in records}
    /\ q \notin expired
    /\ expired' = expired \cup {q}
    /\ UNCHANGED <<identityVars, signupVars, sendVars, verify, known>>

-----------------------------------------------------------------------------
(***************************************************************************)
(* verify                                                                   *)
(***************************************************************************)
\* Mutant: the code is looked for, not compared.
CodeCountsUncompared(row, q) == code[row] # NoCode /\ code[row] \notin expired

\* verifyOtp, of the record read
CodeCounts(row, q) == code[row] = q /\ q \notin expired

\* A pending row, a code in it, and the code that was entered; all that is
\* compared was read at once.  Any code that reached a user may be entered.
VerifyFind(v, claim, q) ==
    /\ verify[v].pc = "idle"
    /\ q \in known
    /\ verify' = [verify EXCEPT ![v] =
         [pc |-> IF Pending(claim) /\ CodeCounts(NormalRow(claim), q)
                 THEN "mark" ELSE "failed",
          claim |-> claim]]
    /\ UNCHANGED <<identityVars, expired, signupVars, sendVars, known>>

\* markVerified: every row of the identity and type, whatever its value.
VerifyMark(v) ==
    /\ verify[v].pc = "mark"
    /\ verified' = verified \cup {r \in records : r[1] = verify[v].claim}
    /\ verify' = [verify EXCEPT ![v].pc = "done"]
    /\ UNCHANGED <<identities, records, code, expired, signupVars, sendVars, known>>

VerifyDies(v) ==
    /\ verify[v].pc = "mark"
    /\ verify' = [verify EXCEPT ![v].pc = "failed"]
    /\ UNCHANGED <<identityVars, expired, signupVars, sendVars, known>>

-----------------------------------------------------------------------------
\* What the service does by itself; SendPublish and Arrive also move what the
\* notification service keeps.
AuthInner ==
    \/ \E s \in Signups :
         \/ SignupCheck(s) \/ SignupInsert(s) \/ SignupPublish(s) \/ SignupClose(s)
         \/ SignupDies(s)
         \/ \E c \in Contacts : SignupRecord(s, c)
    \/ \E q \in Sends :
         \/ \E claim \in Claim : SendCheck(q, claim)
         \/ SendFind(q) \/ SendWrite(q) \/ SendUnpublished(q) \/ SendDies(q)
         \/ CodeExpires(q)
    \/ \E v \in Verifies :
         \/ \E claim \in Claim, q \in Sends : VerifyFind(v, claim, q)
         \/ VerifyMark(v) \/ VerifyDies(v)

AuthNext == AuthInner \/ \E q \in Sends : SendPublish(q) \/ Arrive(q)

AuthSpec == AuthInit /\ [][AuthNext]_authVars

-----------------------------------------------------------------------------
(***************************************************************************)
(* Properties                                                               *)
(***************************************************************************)
\* A contact has one identity of each account type, however many signups with
\* it run at one time.
OneIdentityPerContact ==
    \A s, t \in identities : s # t => ContactsOf[s] \cap ContactsOf[t] = {}

\* An event published is of an identity that is stored with a row for each of its
\* contacts, whatever becomes of the signup: it may still fail, or never end.
AnnouncedIsStored ==
    \A s \in announced :
        /\ s \in identities
        /\ SignupRows(s) \subseteq records

\* A contact is verified only after a code drawn for it, and for no other
\* contact or identity, has reached its owner.
VerifiedByOwner ==
    \A r \in verified : \E q \in known : send[q].claim = r[1]

\* A code sent to a user is the one that counts until another is asked for,
\* unless another request was under way: then the row may keep the one and the
\* last message carry the other.
LastCodeCounts ==
    \A q \in published :
        \/ code[NormalRow(send[q].claim)] = q
        \/ \E r \in Sends \ {q} :
             /\ send[r].claim = send[q].claim
             /\ r \notin before[q]
=============================================================================
