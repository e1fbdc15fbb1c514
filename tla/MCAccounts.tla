----------------------------- MODULE MCAccounts -----------------------------
(***************************************************************************)
(* Small instances for TLC of the services around an account.  The auth     *)
(* service, the notification service, an address book and a provider's      *)
(* staff share nothing, so a behaviour is that of one of them, or of a      *)
(* verification code on its way through the first two; part says which, and *)
(* no product of them is explored.                                          *)
(***************************************************************************)
EXTENDS Accounts, Addresses, ServicePersons, TLC

CONSTANTS s1, s2, q1, q2, v1, e1, ph1, b1, x1, o1, o2, o3, p1, p2

VARIABLE part

Parts == {"auth", "notifications", "code", "addresses", "staff"}

\* A user who types an e-mail in capitals, and another signup with the e-mail.
MCContactsOf == s1 :> {e1, ph1} @@ s2 :> {e1}

\* A booking's notification, and a message that is not one.
BookingNote ==
    [id |-> b1, userAuthId |-> s1, channel |-> "both", emailTo |-> FALSE, complete |-> TRUE]
Malformed ==
    [id |-> x1, userAuthId |-> s2, channel |-> "in_app", emailTo |-> FALSE, complete |-> FALSE]

MCNotes ==
    {CodeNote(q, claim) : q \in Sends, claim \in Claim} \cup {BookingNote, Malformed}

\* Two offerings of one provider and one of another, each with a person.
MCOwnerOf == o1 :> "A" @@ o2 :> "A" @@ o3 :> "B"
MCEmployerOf == p1 :> "A" @@ p2 :> "B"

\* Where a code is followed from: s1 has signed up, s2 was refused, and a first
\* request for a code has died.
SignedUp ==
    /\ identities = {s1} /\ records = SignupRows(s1) /\ verified = {}
    /\ code = [r \in Row |-> NoCode]
    /\ expired = {}
    /\ signup = [s \in Signups |-> IF s = s1 THEN "done" ELSE "failed"]
    /\ left = [s \in Signups |-> IF s = s1 THEN {} ELSE ContactsOf[s]]
    /\ announced = {s1}
    /\ send = [q \in Sends |->
         IF q = q2 THEN [pc |-> "failed", claim |-> <<s1, ph1>>, found |-> FALSE]
         ELSE [pc |-> "idle", claim |-> NoContact, found |-> FALSE]]
    /\ verify = [v \in Verifies |-> [pc |-> "idle", claim |-> NoContact]]
    /\ published = {} /\ known = {}
    /\ before = [q \in Sends |-> {}]

\* ... while the notification service has lost its channel once.
Restarting ==
    /\ consumer = "closed"
    /\ queue = <<>> /\ handling = Nothing /\ todo = {}
    /\ late = [n \in Notes \X Channels |-> 0]
    /\ rows = [n \in Notes |-> 0]
    /\ unread = rows /\ mails = rows
    /\ closes = 1
    /\ routed = {} /\ tried = {}

MCInit ==
    /\ part \in Parts
    /\ IF part = "code" THEN SignedUp /\ Restarting ELSE AuthInit /\ NoteInit
    /\ AddressInit /\ StaffInit

\* The notifications the consumer is checked with by itself.
Publications == {BookingNote, Malformed, CodeNote(q1, <<s1, e1>>)}

MCNext ==
    /\ UNCHANGED part
    /\ \/ /\ part = "auth"
          /\ AuthNext /\ UNCHANGED <<noteVars, addressVars, staffVars>>
       \/ /\ part = "notifications"
          /\ NoteInner \/ \E n \in Publications : Publish(n)
          /\ UNCHANGED <<authVars, addressVars, staffVars>>
       \/ /\ part = "code"
          /\ AccountsNext /\ UNCHANGED <<addressVars, staffVars>>
       \/ /\ part = "addresses"
          /\ AddressNext /\ UNCHANGED <<noteVars, authVars, staffVars>>
       \/ /\ part = "staff"
          /\ StaffNext /\ UNCHANGED <<noteVars, authVars, addressVars>>

mcVars == <<part, accountVars, addressVars, staffVars>>

\* The fairness of FairNotes and FairAccounts.
MCWork ==
    /\ Work
    /\ \/ part = "notifications" /\ UNCHANGED authVars
       \/ part = "code" /\ NoteStep
    /\ UNCHANGED <<part, addressVars, staffVars>>

MCSpec == MCInit /\ [][MCNext]_mcVars /\ WF_mcVars(MCWork)
=============================================================================
