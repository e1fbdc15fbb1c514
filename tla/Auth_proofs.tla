----------------------------- MODULE Auth_proofs -----------------------------
(***************************************************************************)
(* The auth service, for any contacts and any number of signups, requests   *)
(* for a code and verifications at one time.                                *)
(***************************************************************************)
EXTENDS Auth, TLAPS

\* The three groups of steps that AuthNext is made of, and what comes from
\* outside.
SignupStep(s) ==
    \/ SignupCheck(s) \/ SignupInsert(s) \/ SignupPublish(s) \/ SignupClose(s)
    \/ SignupDies(s)
    \/ \E c \in Contacts : SignupRecord(s, c)

SendStep(q) ==
    \/ \E claim \in Claim : SendCheck(q, claim)
    \/ SendFind(q) \/ SendWrite(q) \/ SendUnpublished(q) \/ SendDies(q)
    \/ SendPublish(q)

VerifyStep(v) ==
    \/ \E claim \in Claim, q \in Sends : VerifyFind(v, claim, q)
    \/ VerifyMark(v) \/ VerifyDies(v)

LEMMA AuthSteps ==
    ASSUME AuthNext
    PROVE  \/ \E s \in Signups : SignupStep(s)
           \/ \E q \in Sends : SendStep(q) \/ Arrive(q) \/ CodeExpires(q)
           \/ \E v \in Verifies : VerifyStep(v)
  BY DEF AuthNext, AuthInner, SignupStep, SendStep, VerifyStep

LEMMA ClaimType == \A claim \in Claim : NormalRow(claim) \in Row /\ claim # NoContact
  BY NoneAssumption DEF Claim, Row, NormalRow

LEMMA RowType ==
    ASSUME NEW s \in Signups, NEW c \in ContactsOf[s]
    PROVE  <<s, c>> \in Claim /\ SignupRow(s, c) \in Row
  BY SignupAssumption DEF Claim, Row, SignupRow

-----------------------------------------------------------------------------
LEMMA SignupType ==
    ASSUME AuthTypeOK, NEW s \in Signups, SignupStep(s)
    PROVE  AuthTypeOK'
<1> USE DEF AuthTypeOK, SignupAt, SignupPc, sendVars, identityVars
<1>1. CASE SignupCheck(s)
  BY <1>1 DEF SignupCheck
<1>2. CASE SignupInsert(s)
  BY <1>2 DEF SignupInsert
<1>3. CASE SignupPublish(s)
  BY <1>3 DEF SignupPublish
<1>4. CASE SignupClose(s) \/ SignupDies(s)
  BY <1>4 DEF SignupClose, SignupDies
<1>5. ASSUME NEW c \in Contacts, SignupRecord(s, c) PROVE AuthTypeOK'
  <2>1. CASE SignupRow(s, c) \in records
    BY <1>5, <2>1 DEF SignupRecord
  <2>2. CASE SignupRow(s, c) \notin records
    <3>1. left' \in [Signups -> SUBSET Contacts] /\ signup' \in [Signups -> SignupPc]
      BY <1>5, <2>2 DEF SignupRecord
    <3>2. c \in left[s] /\ records' = records \cup {SignupRow(s, c)}
      BY <1>5, <2>2 DEF SignupRecord
    <3>3. SignupRow(s, c) \in Row
      BY <3>2, RowType
    <3> QED
      BY <1>5, <3>1, <3>2, <3>3 DEF SignupRecord
  <2> QED
    BY <2>1, <2>2
<1> QED
  BY <1>1, <1>2, <1>3, <1>4, <1>5 DEF SignupStep

LEMMA SendType ==
    ASSUME AuthTypeOK, NEW q \in Sends, SendStep(q)
    PROVE  AuthTypeOK'
<1> USE DEF AuthTypeOK, SendAt, SendState, SendPc, signupVars, identityVars
<1>1. ASSUME NEW claim \in Claim, SendCheck(q, claim) PROVE AuthTypeOK'
  BY <1>1, ClaimType DEF SendCheck, SendEnded
<1>2. CASE SendFind(q)
  BY <1>2 DEF SendFind, Pending
<1>3. CASE SendWrite(q)
  <2> DEFINE row == NormalRow(send[q].claim)
  <2>1. send[q].claim \in Claim /\ row \in Row
    BY <1>3, ClaimType DEF SendWrite
  <2>2. \/ records' = records \cup {row} /\ code' = [code EXCEPT ![row] = q] /\ SendAt(q, "publish")
        \/ UNCHANGED <<records, code>> /\ SendAt(q, "failed")
    BY <1>3 DEF SendWrite
  <2>3. UNCHANGED <<identities, verified, expired, signupVars, published, before, verify, known>>
    BY <1>3 DEF SendWrite
  <2>4. PICK pc \in {"publish", "failed"} : SendAt(q, pc)
    BY <2>2
  <2>5. send' \in [Sends -> SendState]
    BY <2>4
  <2>6. \A r \in Sends : send'[r].claim = NoContact <=> send'[r].pc = "idle"
    BY <2>1, <2>4, ClaimType
  <2>7. records \subseteq records' /\ records' \subseteq Row
        /\ code' \in [Row -> Sends \cup {NoCode}]
    <3> HIDE DEF row
    <3> QED
      BY <2>1, <2>2
  <2> QED
    BY <2>3, <2>5, <2>6, <2>7
<1>4. CASE SendUnpublished(q)
  BY <1>4 DEF SendUnpublished
<1>5. CASE SendDies(q)
  BY <1>5 DEF SendDies
<1>6. CASE SendPublish(q)
  BY <1>6 DEF SendPublish
<1> QED
  BY <1>1, <1>2, <1>3, <1>4, <1>5, <1>6 DEF SendStep

LEMMA VerifyType ==
    ASSUME AuthTypeOK, NEW v \in Verifies, VerifyStep(v)
    PROVE  AuthTypeOK'
<1> USE DEF AuthTypeOK, VerifyPc, signupVars, sendVars, identityVars
<1>1. ASSUME NEW claim \in Claim, NEW q \in Sends, VerifyFind(v, claim, q) PROVE AuthTypeOK'
  BY <1>1, ClaimType DEF VerifyFind
<1>2. CASE VerifyMark(v)
  <2>1. verified' \subseteq records'
    BY <1>2 DEF VerifyMark
  <2> QED
    BY <1>2, <2>1 DEF VerifyMark
<1>3. CASE VerifyDies(v)
  BY <1>3 DEF VerifyDies
<1> QED
  BY <1>1, <1>2, <1>3 DEF VerifyStep

LEMMA OutsideType ==
    ASSUME AuthTypeOK, NEW q \in Sends, Arrive(q) \/ CodeExpires(q)
    PROVE  AuthTypeOK'
  BY DEF AuthTypeOK, Arrive, CodeExpires, signupVars, sendVars, identityVars

LEMMA AuthTypeKept ==
    ASSUME AuthTypeOK, [AuthNext]_authVars
    PROVE  AuthTypeOK'
<1>1. CASE UNCHANGED authVars
  BY <1>1 DEF AuthTypeOK, authVars, identityVars, signupVars, sendVars
<1>2. CASE AuthNext
  BY <1>2, AuthSteps, SignupType, SendType, VerifyType, OutsideType
<1> QED
  BY <1>1, <1>2

\* Every variable keeps its type.
THEOREM AuthTypeCorrect == AuthSpec => []AuthTypeOK
<1>1. AuthInit => AuthTypeOK
  BY SignupAssumption DEF AuthInit, AuthTypeOK, SendState, SendPc, SignupPc, VerifyPc
<1>2. AuthTypeOK /\ [AuthNext]_authVars => AuthTypeOK'
  BY AuthTypeKept
<1> QED
  BY <1>1, <1>2, PTL DEF AuthSpec

-----------------------------------------------------------------------------
(***************************************************************************)
(* Signups                                                                  *)
(***************************************************************************)
\* A contact for which the signup has made its row already.
Recorded(s) == \A c \in ContactsOf[s] : c \notin left[s] => SignupRow(s, c) \in records

\* How far each signup is: the inductive form of AnnouncedIsStored.
SignupInv ==
    /\ \A s \in Signups : signup[s] \in {"records", "publish"} => s \in identities /\ Recorded(s)
    /\ \A s \in Signups : signup[s] = "publish" => left[s] = {}
    /\ \A s \in Signups : signup[s] \in {"idle", "insert"} => left[s] = ContactsOf[s]
    /\ AnnouncedIsStored

\* Steps of other requests leave the signups where they are, and no row is deleted.
LEMMA SignupInvElsewhere ==
    ASSUME SignupInv, UNCHANGED <<identities, signupVars>>, records \subseteq records'
    PROVE  SignupInv'
  BY DEF SignupInv, Recorded, AnnouncedIsStored, SignupRows, signupVars

LEMMA SignupInvKept ==
    ASSUME AuthTypeOK, SignupInv, NEW s \in Signups, SignupStep(s)
    PROVE  SignupInv'
<1> USE DEF AuthTypeOK, SignupAt, SignupPc, SignupInv, Recorded, AnnouncedIsStored, SignupRows
<1>1. CASE SignupCheck(s)
  BY <1>1 DEF SignupCheck, identityVars
<1>2. CASE SignupInsert(s)
  BY <1>2 DEF SignupInsert
<1>3. CASE SignupPublish(s)
  BY <1>3 DEF SignupPublish, identityVars
<1>4. CASE SignupClose(s) \/ SignupDies(s)
  BY <1>4 DEF SignupClose, SignupDies, identityVars
<1>5. ASSUME NEW c \in Contacts, SignupRecord(s, c) PROVE SignupInv'
  <2>1. CASE SignupRow(s, c) \in records
    BY <1>5, <2>1 DEF SignupRecord
  <2>2. CASE SignupRow(s, c) \notin records
    BY <1>5, <2>2 DEF SignupRecord
  <2> QED
    BY <2>1, <2>2
<1> QED
  BY <1>1, <1>2, <1>3, <1>4, <1>5 DEF SignupStep

\* What the steps of the other requests leave alone.
LEMMA OnlySignupsStore ==
    ASSUME \/ \E q \in Sends : SendStep(q) \/ Arrive(q) \/ CodeExpires(q)
           \/ \E v \in Verifies : VerifyStep(v)
    PROVE  UNCHANGED <<identities, signupVars>> /\ records \subseteq records'
  BY DEF SendStep, SendCheck, SendFind, SendWrite, SendUnpublished, SendDies, SendPublish,
         Arrive, CodeExpires, VerifyStep, VerifyFind, VerifyMark, VerifyDies, identityVars

\* An event that was published is of an identity that is stored with its rows,
\* though its signup may be open or have failed.
THEOREM AnnouncedSignupsAreStored == AuthSpec => []AnnouncedIsStored
<1>1. AuthInit => SignupInv
  BY SignupAssumption DEF AuthInit, SignupInv, AnnouncedIsStored, Recorded
<1>2. AuthTypeOK /\ SignupInv /\ [AuthNext]_authVars => SignupInv'
  <2>1. CASE UNCHANGED authVars
    BY <2>1, SignupInvElsewhere DEF authVars, identityVars
  <2>2. CASE AuthTypeOK /\ SignupInv /\ AuthNext
    BY <2>2, AuthSteps, SignupInvKept, SignupInvElsewhere, OnlySignupsStore
  <2> QED
    BY <2>1, <2>2, SignupInvElsewhere
<1>3. SignupInv => AnnouncedIsStored
  BY DEF SignupInv
<1> QED
  BY <1>1, <1>2, <1>3, AuthTypeCorrect, PTL DEF AuthSpec

\* However many signups with a contact pass the check, one of them is stored.
THEOREM ContactsAreUnique == AuthSpec => []OneIdentityPerContact
<1>1. AuthInit => OneIdentityPerContact
  BY DEF AuthInit, OneIdentityPerContact
<1>2. AuthTypeOK /\ OneIdentityPerContact /\ [AuthNext]_authVars => OneIdentityPerContact'
  <2> SUFFICES ASSUME AuthTypeOK, OneIdentityPerContact, AuthNext, identities' # identities
               PROVE  OneIdentityPerContact'
    BY DEF OneIdentityPerContact, authVars, identityVars
  <2>1. PICK s \in Signups : SignupInsert(s)
    <3>1. PICK s \in Signups : SignupStep(s)
      BY AuthSteps, OnlySignupsStore
    <3> QED
      BY <3>1 DEF SignupStep, SignupCheck, SignupPublish, SignupClose, SignupDies, SignupRecord,
             identityVars
  <2>2. identities' = identities \cup {s} /\ \A t \in identities : ContactsOf[t] \cap ContactsOf[s] = {}
    BY <2>1 DEF SignupInsert, ContactTaken
  <2> QED
    BY <2>2 DEF OneIdentityPerContact
<1> QED
  BY <1>1, <1>2, AuthTypeCorrect, PTL DEF AuthSpec

-----------------------------------------------------------------------------
(***************************************************************************)
(* Codes                                                                    *)
(***************************************************************************)
\* A code in a row, or handed to the notification service, was drawn for the
\* contact of the row by a request that has begun; a verification that is about
\* to mark a contact had a code of that contact from its owner.
DrawnFor ==
    /\ \A r \in Row : code[r] # NoCode => send[code[r]].claim = r[1]
    /\ \A q \in published : send[q].pc = "done"
    /\ \A v \in Verifies : verify[v].pc = "mark" =>
         \E q \in known : send[q].claim = verify[v].claim
    /\ VerifiedByOwner

\* A request for a code keeps its contact from its beginning to its end.
Begun(q) == send[q].pc # "idle"

LEMMA SendKeeps ==
    ASSUME AuthTypeOK, NEW q \in Sends, SendStep(q)
    PROVE  /\ \A r \in Sends : Begun(r) => Begun(r)' /\ send'[r].claim = send[r].claim
           /\ \A r \in Sends \ {q} : send'[r] = send[r]
           /\ send[q].pc \notin {"done", "failed"}
           /\ UNCHANGED <<verified, verify, known>>
  BY DEF AuthTypeOK, SendState, SendPc, SendStep, SendCheck, SendFind, SendWrite, SendAt,
         SendUnpublished, SendDies, SendPublish, Begun, identityVars

\* Only the request that wrote its code goes on to publish it.
LEMMA OnlyWritesPublish ==
    ASSUME AuthTypeOK, NEW q \in Sends, SendStep(q), ~SendWrite(q)
    PROVE  send'[q].pc # "publish"
<1> USE DEF AuthTypeOK
<1>1. CASE \E claim \in Claim : SendCheck(q, claim)
  BY <1>1 DEF SendCheck
<1>2. CASE SendFind(q)
  BY <1>2 DEF SendFind
<1>3. CASE SendUnpublished(q) \/ SendPublish(q)
  <2>1. SendAt(q, "done")
    BY <1>3 DEF SendUnpublished, SendPublish
  <2> QED
    BY <2>1 DEF SendAt, SendState
<1>4. CASE SendDies(q)
  <2>1. SendAt(q, "failed")
    BY <1>4 DEF SendDies
  <2> QED
    BY <2>1 DEF SendAt, SendState
<1> QED
  BY <1>1, <1>2, <1>3, <1>4 DEF SendStep

LEMMA SendDrawnFor ==
    ASSUME AuthTypeOK, DrawnFor, NEW q \in Sends, SendStep(q)
    PROVE  DrawnFor'
<1>1. \A r \in Row : code[r] # NoCode => Begun(code[r])
  <2> SUFFICES ASSUME NEW r \in Row, code[r] # NoCode PROVE Begun(code[r])
    OBVIOUS
  <2>1. code[r] \in Sends /\ r[1] \in Claim /\ send[code[r]].claim = r[1]
    BY DEF AuthTypeOK, Row, DrawnFor
  <2> QED
    BY <2>1, ClaimType DEF AuthTypeOK, Begun
<1>2. \A r \in Row : code'[r] # NoCode => send'[code'[r]].claim = r[1]
  <2> SUFFICES ASSUME NEW r \in Row, code'[r] # NoCode PROVE send'[code'[r]].claim = r[1]
    OBVIOUS
  <2>1. CASE code'[r] = code[r]
    BY <1>1, <2>1, SendKeeps DEF DrawnFor, AuthTypeOK
  <2>2. CASE code'[r] # code[r]
    <3>1. SendWrite(q)
      BY <2>2 DEF SendStep, SendCheck, SendFind, SendUnpublished, SendDies, SendPublish,
                  identityVars
    <3>2. r = NormalRow(send[q].claim) /\ code'[r] = q
      BY <2>2, <3>1 DEF SendWrite, AuthTypeOK
    <3>3. send'[q].claim = send[q].claim
      BY <3>1, SendKeeps DEF SendWrite, Begun
    <3> QED
      BY <3>2, <3>3 DEF NormalRow
  <2> QED
    BY <2>1, <2>2
<1>3. \A p \in published' : send'[p].pc = "done"
  <2>1. published' \subseteq published \cup {q} /\ (q \in published' => q \in published \/ SendPublish(q))
    BY DEF SendStep, SendCheck, SendFind, SendWrite, SendUnpublished, SendDies, SendPublish
  <2>2. q \notin published
    BY SendKeeps DEF DrawnFor
  <2>3. SendPublish(q) => send'[q].pc = "done"
    BY DEF SendPublish, SendAt, AuthTypeOK, SendState
  <2> QED
    BY <2>1, <2>2, <2>3, SendKeeps DEF DrawnFor, AuthTypeOK
<1>4. \A p \in known : send'[p].claim = send[p].claim
  BY SendKeeps DEF DrawnFor, AuthTypeOK, Begun
<1> QED
  BY <1>2, <1>3, <1>4, SendKeeps DEF DrawnFor, VerifiedByOwner

LEMMA VerifyDrawnFor ==
    ASSUME AuthTypeOK, DrawnFor, NEW v \in Verifies, VerifyStep(v)
    PROVE  DrawnFor'
<1>1. UNCHANGED <<code, send, published, known>>
  BY DEF VerifyStep, VerifyFind, VerifyMark, VerifyDies, identityVars, sendVars
<1>2. ASSUME NEW claim \in Claim, NEW q \in Sends, VerifyFind(v, claim, q) PROVE DrawnFor'
  <2>1. verify'[v].pc = "mark" => verify'[v].claim = claim /\ send[q].claim = claim
    <3>1. code[NormalRow(claim)] = q => send[q].claim = claim
      BY ClaimType, NoneAssumption DEF DrawnFor, NormalRow
    <3> QED
      BY <1>2, <3>1 DEF VerifyFind, CodeCounts, AuthTypeOK, VerifyPc
  <2>2. q \in known /\ verified' = verified /\ \A w \in Verifies \ {v} : verify'[w] = verify[w]
    BY <1>2 DEF VerifyFind, AuthTypeOK, identityVars
  <2> QED
    BY <1>1, <2>1, <2>2 DEF DrawnFor, VerifiedByOwner
<1>3. CASE VerifyMark(v)
  <2>1. PICK q \in known : send[q].claim = verify[v].claim
    BY <1>3 DEF VerifyMark, DrawnFor
  <2>2. \A r \in verified' : r \in verified \/ r[1] = verify[v].claim
    BY <1>3 DEF VerifyMark
  <2>3. \A w \in Verifies : verify'[w].pc = "mark" => verify'[w] = verify[w]
    BY <1>3 DEF VerifyMark, AuthTypeOK, VerifyPc
  <2> QED
    BY <1>1, <2>1, <2>2, <2>3 DEF DrawnFor, VerifiedByOwner
<1>4. CASE VerifyDies(v)
  <2>1. verified' = verified /\ \A w \in Verifies : verify'[w].pc = "mark" => verify'[w] = verify[w]
    BY <1>4 DEF VerifyDies, AuthTypeOK, VerifyPc, identityVars
  <2> QED
    BY <1>1, <2>1 DEF DrawnFor, VerifiedByOwner
<1> QED
  BY <1>2, <1>3, <1>4 DEF VerifyStep

LEMMA ElsewhereDrawnFor ==
    ASSUME AuthTypeOK, DrawnFor,
           (\E s \in Signups : SignupStep(s)) \/ (\E q \in Sends : Arrive(q) \/ CodeExpires(q))
    PROVE  DrawnFor'
<1>1. UNCHANGED <<code, verified, send, published, verify>> /\ known \subseteq known'
  BY DEF SignupStep, SignupCheck, SignupInsert, SignupPublish, SignupClose, SignupDies,
         SignupRecord, Arrive, CodeExpires, identityVars, sendVars
<1> QED
  BY <1>1 DEF DrawnFor, VerifiedByOwner

LEMMA DrawnForHolds == AuthSpec => []DrawnFor
<1>1. AuthInit => DrawnFor
  BY DEF AuthInit, DrawnFor, VerifiedByOwner
<1>2. AuthTypeOK /\ DrawnFor /\ [AuthNext]_authVars => DrawnFor'
  <2>1. CASE DrawnFor /\ UNCHANGED authVars
    BY <2>1 DEF DrawnFor, VerifiedByOwner, authVars, identityVars, sendVars
  <2>2. CASE AuthTypeOK /\ DrawnFor /\ AuthNext
    BY <2>2, AuthSteps, SendDrawnFor, VerifyDrawnFor, ElsewhereDrawnFor
  <2> QED
    BY <2>1, <2>2
<1> QED
  BY <1>1, <1>2, AuthTypeCorrect, PTL DEF AuthSpec

\* A contact is verified only after one of its own codes has reached its owner.
THEOREM OwnersVerify == AuthSpec => []VerifiedByOwner
<1>1. DrawnFor => VerifiedByOwner
  BY DEF DrawnFor
<1> QED
  BY <1>1, DrawnForHolds, PTL

-----------------------------------------------------------------------------
\* Another request for a code of the same contact that had not ended when q began.
Contested(q) == \E r \in Sends \ {q} : send[r].claim = send[q].claim /\ r \notin before[q]

\* From its write on a code is the one in the row, or the request has a rival:
\* the inductive form of LastCodeCounts.
LastCodeInv ==
    /\ \A q \in Sends : \A r \in before[q] : send[r].pc \in {"done", "failed"}
    /\ \A q \in Sends : send[q].pc = "publish" \/ q \in published =>
         code[NormalRow(send[q].claim)] = q \/ Contested(q)

\* A rival remains one.
LEMMA ContestedStays ==
    ASSUME AuthTypeOK, NEW p \in Sends, SendStep(p), NEW q \in Sends, Begun(q), Contested(q)
    PROVE  Contested(q)'
<1>1. PICK r \in Sends \ {q} : send[r].claim = send[q].claim /\ r \notin before[q]
  BY DEF Contested
<1>2. Begun(r)
  BY <1>1 DEF AuthTypeOK, Begun
<1>3. send'[r].claim = send[r].claim /\ send'[q].claim = send[q].claim
  BY <1>2, SendKeeps
<1>4. before'[q] = before[q]
  BY DEF SendStep, SendCheck, SendFind, SendWrite, SendUnpublished, SendDies, SendPublish,
         Begun, AuthTypeOK
<1> QED
  BY <1>1, <1>3, <1>4 DEF Contested

LEMMA SendLastCode ==
    ASSUME AuthTypeOK, DrawnFor, LastCodeInv, NEW p \in Sends, SendStep(p)
    PROVE  LastCodeInv'
<1>1. \A q \in Sends : \A r \in before'[q] : send'[r].pc \in {"done", "failed"}
  <2>1. \A q \in Sends : before'[q] = before[q] \/ before'[q] = SendEnded
    BY DEF SendStep, SendCheck, SendFind, SendWrite, SendUnpublished, SendDies, SendPublish,
           AuthTypeOK
  <2>2. \A r \in Sends : send[r].pc \in {"done", "failed"} => send'[r] = send[r]
    BY SendKeeps
  <2> QED
    BY <2>1, <2>2 DEF LastCodeInv, SendEnded, AuthTypeOK
<1>2. ASSUME NEW q \in Sends, send'[q].pc = "publish" \/ q \in published'
      PROVE  code'[NormalRow(send'[q].claim)] = q \/ Contested(q)'
  <2>1. CASE SendWrite(p)
    <3>1. send[p].claim \in Claim /\ send'[p].claim = send[p].claim /\ Begun(p)
      BY <2>1, SendKeeps DEF SendWrite, Begun, AuthTypeOK, SendState
    <3>2. \/ code' = [code EXCEPT ![NormalRow(send[p].claim)] = p]
          \/ code' = code /\ send'[p].pc = "failed"
      BY <2>1 DEF SendWrite, SendAt, AuthTypeOK, SendState
    <3>3. CASE q = p
      <4>1. p \notin published
        BY <2>1 DEF SendWrite, DrawnFor
      <4>2. send'[p].pc = "publish"
        BY <1>2, <2>1, <3>3, <4>1 DEF SendWrite
      <4> QED
        BY <3>1, <3>2, <3>3, <4>2, ClaimType DEF AuthTypeOK
    <3>4. CASE q # p
      <4>1. send'[q] = send[q] /\ (send[q].pc = "publish" \/ q \in published)
        BY <1>2, <2>1, <3>4, SendKeeps DEF SendWrite
      <4>2. Begun(q) /\ send[q].claim \in Claim
        BY <4>1 DEF DrawnFor, Begun, AuthTypeOK, SendState
      <4>3. CASE Contested(q)
        BY <4>2, <4>3, ContestedStays
      <4>4. CASE code[NormalRow(send[q].claim)] = q /\ send[p].claim # send[q].claim
        <5>1. NormalRow(send[p].claim) # NormalRow(send[q].claim)
          BY <4>4 DEF NormalRow
        <5> QED
          BY <3>2, <4>1, <4>2, <4>4, <5>1, ClaimType DEF AuthTypeOK
      <4>5. CASE send[p].claim = send[q].claim
        <5>1. p \notin before[q]
          BY <2>1 DEF SendWrite, LastCodeInv
        <5>2. Contested(q)
          BY <3>4, <4>5, <5>1 DEF Contested
        <5> QED
          BY <4>2, <5>2, ContestedStays
      <4> QED
        BY <4>1, <4>3, <4>4, <4>5 DEF LastCodeInv
    <3> QED
      BY <3>3, <3>4
  <2>2. CASE ~SendWrite(p)
    <3>1. code' = code
      BY <2>2 DEF SendStep, SendCheck, SendFind, SendUnpublished, SendDies, SendPublish,
                  identityVars
    <3>2. send[q].pc = "publish" \/ q \in published
      <4>1. send'[q].pc = "publish" => send[q].pc = "publish"
        BY <2>2, OnlyWritesPublish, SendKeeps
      <4>2. q \in published' => q \in published \/ send[q].pc = "publish"
        <5>1. CASE SendPublish(p)
          <6>1. published' = published \cup {p} /\ send[p].pc = "publish"
            BY <5>1, Zenon DEF SendPublish
          <6> QED
            BY <6>1
        <5>2. CASE ~SendPublish(p)
          <6>1. published' = published
            BY <2>2, <5>2, Zenon DEF SendStep, SendCheck, SendFind, SendUnpublished, SendDies
          <6> QED
            BY <6>1
        <5> QED
          BY <5>1, <5>2
      <4> QED
        BY <1>2, <4>1, <4>2
    <3>3. Begun(q)
      BY <3>2 DEF DrawnFor, Begun
    <3>4. send'[q].claim = send[q].claim
      BY <3>3, SendKeeps
    <3> QED
      BY <3>1, <3>2, <3>3, <3>4, ContestedStays DEF LastCodeInv
  <2> QED
    BY <2>1, <2>2
<1> QED
  BY <1>1, <1>2 DEF LastCodeInv

\* A code that a user was sent counts until another is asked for, unless two
\* requests for one contact overlap.
THEOREM LastCodeIsTheOne == AuthSpec => []LastCodeCounts
<1>1. AuthInit => LastCodeInv
  BY DEF AuthInit, LastCodeInv
<1>2. AuthTypeOK /\ DrawnFor /\ LastCodeInv /\ [AuthNext]_authVars => LastCodeInv'
  <2> SUFFICES ASSUME AuthTypeOK, DrawnFor, LastCodeInv, [AuthNext]_authVars
               PROVE  LastCodeInv'
    OBVIOUS
  <2>1. CASE \E q \in Sends : SendStep(q)
    BY <2>1, SendLastCode
  <2>2. CASE UNCHANGED <<code, sendVars>>
    BY <2>2 DEF LastCodeInv, Contested, sendVars
  <2>3. (\E q \in Sends : SendStep(q)) \/ UNCHANGED <<code, sendVars>>
    BY AuthSteps DEF authVars, identityVars, SignupStep, SignupCheck, SignupInsert,
       SignupPublish, SignupClose, SignupDies, SignupRecord, Arrive, CodeExpires,
       VerifyStep, VerifyFind, VerifyMark, VerifyDies
  <2> QED
    BY <2>1, <2>2, <2>3
<1>3. LastCodeInv /\ AuthTypeOK => LastCodeCounts
  BY DEF LastCodeInv, LastCodeCounts, Contested, AuthTypeOK
<1> QED
  BY <1>1, <1>2, <1>3, AuthTypeCorrect, DrawnForHolds, PTL DEF AuthSpec
=============================================================================
