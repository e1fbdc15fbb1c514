--------------------------- MODULE Profiles_proofs ---------------------------
(***************************************************************************)
(* The two tables that users and providers edit themselves: the addresses   *)
(* of a user, of which one is the default, and the service persons of a     *)
(* provider with their offerings; for any number of rows, owners and        *)
(* requests at one time.                                                    *)
(***************************************************************************)
EXTENDS Addresses, ServicePersons, TLAPS

-----------------------------------------------------------------------------
(***************************************************************************)
(* Addresses: what can go wrong with the default needs a race.              *)
(***************************************************************************)
Ended(r) == request[r].pc \in {"done", "failed"}

\* What a request is about: an address that is there, or one that it alone knows.
Targets ==
    /\ \A r \in AddressRequests : request[r].pc # "idle" => request[r].address \in Places
    /\ \A r \in AddressRequests : request[r].pc \in {"update", "transaction", "delete"} =>
         request[r].address \in saved
    /\ \A r, s \in AddressRequests :
         request[r].pc \in {"insert", "unset"} /\ request[r].address \notin saved /\ s # r
           => request[s].address # request[r].address
    /\ \A r \in AddressRequests : request[r].pc = "insert" => request[r].address \notin saved

\* The requests the history names have ended, and only such are earlier ones.
History ==
    /\ \A r \in AddressRequests : \A s \in earlier[r] : Ended(s)
    /\ \A a \in defaults : setter[a] # NoRequest
    /\ \A a \in Places : setter[a] # NoRequest => Ended(setter[a])
    /\ \A a \in Places : \A d \in deleters[a] : Ended(d)

AddressInv == AddressTypeOK /\ Targets /\ History

\* The steps of a request, from the first to the last.
Begins(r) ==
    \E a \in Places :
        \/ SetDefault(r, a) \/ DeleteAddress(r, a)
        \/ \E d \in BOOLEAN : CreateAddress(r, a, d) \/ UpdateAddress(r, a, d)

Goes(r) ==
    UnsetDefault(r) \/ InsertAddress(r) \/ WriteAddress(r) \/ SetAsDefault(r)
      \/ SoftDelete(r) \/ AddressDies(r)

LEMMA AddressSteps == AddressNext => \E r \in AddressRequests : Begins(r) \/ Goes(r)
  BY DEF AddressNext, Begins, Goes

\* A request that begins: its address is one that is there, or it is to insert it.
LEMMA BeginCases ==
    ASSUME NEW r \in AddressRequests, Begins(r)
    PROVE  \E a \in Places, d \in BOOLEAN, pc \in AddressPc :
             /\ Begin(r, pc, a, d)
             /\ \/ pc \in {"unset", "insert"} /\ Unused(a)
                \/ pc \in {"unset", "update", "transaction"} /\ a \in active
                \/ pc = "delete" /\ a \in saved
             /\ pc \in {"insert", "update"} => d = FALSE
             /\ pc = "unset" => d = TRUE
  BY DEF Begins, SetDefault, DeleteAddress, CreateAddress, UpdateAddress, AddressPc

LEMMA BeginKeeps ==
    ASSUME AddressInv, NEW r \in AddressRequests, Begins(r)
    PROVE  AddressInv'
<1>1. PICK a \in Places, d \in BOOLEAN, pc \in AddressPc :
             /\ Begin(r, pc, a, d)
             /\ \/ pc \in {"unset", "insert"} /\ Unused(a)
                \/ pc \in {"unset", "update", "transaction"} /\ a \in active
                \/ pc = "delete" /\ a \in saved
  BY BeginCases
<1>2. /\ request[r].pc = "idle"
      /\ request' = [request EXCEPT ![r] = [pc |-> pc, address |-> a, isDefault |-> d]]
      /\ earlier' = [earlier EXCEPT ![r] = AddressEnded]
      /\ UNCHANGED <<saved, active, defaults, setter, deleters, wantedBy>>
  BY <1>1 DEF Begin, addressRows
<1>3. AddressTypeOK'
  BY <1>2 DEF AddressInv, AddressTypeOK, AddressEnded
<1>4. Targets'
  BY <1>1, <1>2 DEF AddressInv, AddressTypeOK, Targets, Unused
<1>5. History'
  BY <1>2 DEF AddressInv, AddressTypeOK, History, Ended, AddressEnded
<1> QED
  BY <1>3, <1>4, <1>5 DEF AddressInv

\* What a request that goes on leaves alone.
LEMMA GoKeeps ==
    ASSUME AddressInv, NEW r \in AddressRequests, Goes(r)
    PROVE  /\ earlier' = earlier
           /\ saved \subseteq saved'
           /\ request[r].pc # "idle" /\ ~Ended(r)
           /\ \E pc \in AddressPc : RequestAt(r, pc)
           /\ \A s \in AddressRequests \ {r} : request'[s] = request[s]
           /\ request'[r].address = request[r].address
           /\ request'[r].isDefault = request[r].isDefault
<1>1. earlier' = earlier /\ saved \subseteq saved' /\ request[r].pc # "idle" /\ ~Ended(r)
  BY DEF Goes, UnsetDefault, InsertAddress, WriteAddress, SetAsDefault, SoftDelete, AddressDies,
         Ended, addressRows, addressHistory, AddressInv, AddressTypeOK, AddressPc
<1>2. \E pc \in AddressPc : RequestAt(r, pc)
  BY DEF Goes, UnsetDefault, InsertAddress, WriteAddress, SetAsDefault, SoftDelete, AddressDies,
         AddressPc
<1>3. request \in [AddressRequests ->
         [pc : AddressPc, address : Places \cup {NoAddress}, isDefault : BOOLEAN]]
  BY DEF AddressInv, AddressTypeOK
<1> QED
  BY <1>1, <1>2, <1>3 DEF RequestAt

LEMMA GoTypes ==
    ASSUME AddressInv, NEW r \in AddressRequests, Goes(r)
    PROVE  AddressTypeOK' /\ Targets'
<1> USE DEF AddressInv
<1>1. request \in [AddressRequests ->
         [pc : AddressPc, address : Places \cup {NoAddress}, isDefault : BOOLEAN]]
  BY DEF AddressTypeOK
<1>2. request' \in [AddressRequests ->
         [pc : AddressPc, address : Places \cup {NoAddress}, isDefault : BOOLEAN]]
  BY <1>1, GoKeeps DEF RequestAt
<1>3. request[r].address \in Places
  BY GoKeeps DEF Targets
<1>4. CASE UnsetDefault(r)
  <2>1. UNCHANGED <<saved, active, setter, deleters>> /\ defaults' \subseteq defaults
        /\ wantedBy' = r
        /\ request'[r].pc = (IF request[r].address \in saved THEN "update" ELSE "insert")
        /\ request[r].pc = "unset"
    BY <1>1, <1>4 DEF UnsetDefault, RequestAt
  <2>2. AddressTypeOK'
    BY <1>2, <2>1, GoKeeps DEF AddressTypeOK
  <2>3. Targets'
    BY <1>3, <2>1, GoKeeps DEF Targets
  <2> QED
    BY <2>2, <2>3
<1>5. CASE InsertAddress(r)
  <2>1. /\ saved' = saved \cup {request[r].address} /\ active' = active \cup {request[r].address}
        /\ defaults' \subseteq defaults \cup {request[r].address}
        /\ setter' \in {setter, [setter EXCEPT ![request[r].address] = r]}
        /\ UNCHANGED <<deleters, wantedBy>>
        /\ request[r].pc = "insert" /\ request'[r].pc = "done"
    BY <1>1, <1>5, SMTT(60) DEF InsertAddress, RequestAt, MadeDefault
  <2>2. AddressTypeOK'
    BY <1>2, <1>3, <2>1, GoKeeps DEF AddressTypeOK
  <2>3. Targets'
    BY <1>3, <2>1, GoKeeps DEF Targets
  <2> QED
    BY <2>2, <2>3
<1>6. CASE WriteAddress(r) \/ SetAsDefault(r) \/ SoftDelete(r)
  <2>1. /\ saved' = saved /\ active' \subseteq active
        /\ defaults' \subseteq defaults \cup {request[r].address}
        /\ setter' \in {setter, [setter EXCEPT ![request[r].address] = r]}
        /\ deleters' \in {deleters, [deleters EXCEPT ![request[r].address] = @ \cup {r}]}
        /\ wantedBy' \in {wantedBy, r, NoRequest}
        /\ request[r].pc \in {"update", "transaction", "delete"} /\ request'[r].pc = "done"
    BY <1>1, <1>6 DEF WriteAddress, SetAsDefault, SoftDelete, RequestAt, MadeDefault, NoLongerWanted
  <2>2. request[r].address \in saved
    BY <2>1 DEF Targets
  <2>3. AddressTypeOK'
    <3>1. setter' \in [Places -> AddressRequests \cup {NoRequest}]
      BY <1>3, <2>1 DEF AddressTypeOK
    <3>2. deleters' \in [Places -> SUBSET AddressRequests]
      BY <1>3, <2>1 DEF AddressTypeOK
    <3>3. active' \subseteq saved' /\ defaults' \subseteq saved' /\ saved' \subseteq Places
          /\ wantedBy' \in AddressRequests \cup {NoRequest}
      BY <2>1, <2>2 DEF AddressTypeOK
    <3>4. earlier' \in [AddressRequests -> SUBSET AddressRequests]
      BY GoKeeps DEF AddressTypeOK
    <3> QED
      BY <1>2, <3>1, <3>2, <3>3, <3>4 DEF AddressTypeOK
  <2>4. Targets'
    BY <1>3, <2>1, GoKeeps DEF Targets
  <2> QED
    BY <2>3, <2>4
<1>7. CASE AddressDies(r)
  <2>1. UNCHANGED <<saved, active, defaults, setter, deleters, wantedBy>> /\ request'[r].pc = "failed"
    BY <1>1, <1>7 DEF AddressDies, RequestAt, addressRows, addressHistory
  <2>2. AddressTypeOK'
    BY <1>2, <2>1, GoKeeps DEF AddressTypeOK
  <2>3. Targets'
    BY <1>3, <2>1, GoKeeps DEF Targets
  <2> QED
    BY <2>2, <2>3
<1> QED
  BY <1>4, <1>5, <1>6, <1>7 DEF Goes

LEMMA GoHistory ==
    ASSUME AddressInv, NEW r \in AddressRequests, Goes(r)
    PROVE  History'
<1> USE DEF AddressInv
<1>1. request[r].address \in Places
  BY GoKeeps DEF Targets
<1>2. \A s \in AddressRequests : Ended(s) => Ended(s)'
  BY GoKeeps DEF Ended
<1>3. /\ \/ defaults' \subseteq defaults
         \/ defaults' \subseteq defaults \cup {request[r].address} /\ setter'[request[r].address] = r
      /\ \A a \in Places : setter'[a] = setter[a] \/ (setter'[a] = r /\ Ended(r)')
      /\ \A a \in Places : deleters'[a] = deleters[a] \/ (deleters'[a] = deleters[a] \cup {r} /\ Ended(r)')
  <2> USE <1>1 DEF AddressTypeOK, RequestAt, Ended
  <2>1. CASE UnsetDefault(r)
    <3>1. UNCHANGED <<setter, deleters>> /\ defaults' \subseteq defaults
      BY <2>1 DEF UnsetDefault
    <3> QED
      BY <3>1
  <2>2. CASE InsertAddress(r)
    BY <2>2 DEF InsertAddress, MadeDefault
  <2>3. CASE WriteAddress(r)
    BY <2>3 DEF WriteAddress, MadeDefault
  <2>4. CASE SetAsDefault(r)
    BY <2>4 DEF SetAsDefault, MadeDefault
  <2>5. CASE SoftDelete(r)
    BY <2>5 DEF SoftDelete
  <2>6. CASE AddressDies(r)
    BY <2>6 DEF AddressDies, addressRows, addressHistory
  <2> QED
    BY <2>1, <2>2, <2>3, <2>4, <2>5, <2>6 DEF Goes
<1>4. \A s \in AddressRequests : \A t \in earlier'[s] : Ended(t)'
  BY <1>2, GoKeeps DEF History, AddressTypeOK
<1>5. \A a \in defaults' : setter'[a] # NoRequest
  BY <1>1, <1>3, NoAddressAssumption DEF History, AddressTypeOK
<1>6. ASSUME NEW a \in Places, setter'[a] # NoRequest
      PROVE  request'[setter'[a]].pc \in {"done", "failed"}
  <2>1. CASE setter'[a] = setter[a]
    BY <1>2, <1>6, <2>1 DEF History, AddressTypeOK, Ended
  <2>2. CASE setter'[a] = r /\ Ended(r)'
    BY <2>2 DEF Ended
  <2> QED
    BY <1>3, <2>1, <2>2
<1>7. \A a \in Places : \A d \in deleters'[a] : Ended(d)'
  BY <1>2, <1>3 DEF History, AddressTypeOK
<1> QED
  BY <1>4, <1>5, <1>6, <1>7 DEF History, Ended

LEMMA AddressInvKept ==
    ASSUME AddressInv, [AddressNext]_addressVars
    PROVE  AddressInv'
<1>1. CASE UNCHANGED addressVars
  BY <1>1 DEF AddressInv, AddressTypeOK, Targets, History, Ended, addressVars, addressRows,
              addressHistory
<1>2. ASSUME NEW r \in AddressRequests, Goes(r) PROVE AddressInv'
  BY <1>2, GoTypes, GoHistory DEF AddressInv
<1> QED
  BY <1>1, <1>2, AddressSteps, BeginKeeps

LEMMA AddressInvHolds == AddressSpec => []AddressInv
<1>1. AddressInit => AddressInv
  BY DEF AddressInit, AddressInv, AddressTypeOK, Targets, History, Ended, AddressPc
<1> QED
  BY <1>1, AddressInvKept, PTL DEF AddressSpec

\* Every variable keeps its type.
THEOREM AddressTypeCorrect == AddressSpec => []AddressTypeOK
<1>1. AddressInv => AddressTypeOK
  BY DEF AddressInv
<1> QED
  BY <1>1, AddressInvHolds, PTL

-----------------------------------------------------------------------------
(***************************************************************************)
(* Races                                                                    *)
(***************************************************************************)
\* A request under way and one that ends now overlap.
LEMMA EndsNow ==
    ASSUME AddressInv, NEW r \in AddressRequests, Goes(r),
           NEW s \in AddressRequests, s # r, ~Ended(s)
    PROVE  Overlap(r, s)' /\ Overlap(s, r)'
<1>1. earlier' = earlier /\ ~Ended(r)
  BY GoKeeps
<1>2. r \notin earlier[s] /\ s \notin earlier[r]
  BY <1>1 DEF AddressInv, History
<1> QED
  BY <1>1, <1>2 DEF Overlap

\* Requests that have begun keep their overlaps.
LEMMA OverlapStays ==
    ASSUME AddressInv, AddressNext, NEW r \in AddressRequests, NEW s \in AddressRequests,
           request[r].pc # "idle", request[s].pc # "idle", Overlap(r, s)
    PROVE  Overlap(r, s)'
<1>1. ASSUME NEW q \in AddressRequests, Goes(q) PROVE earlier' = earlier
  BY <1>1, GoKeeps
<1>2. ASSUME NEW q \in AddressRequests, Begins(q)
      PROVE  earlier'[r] = earlier[r] /\ earlier'[s] = earlier[s]
  BY <1>2, BeginCases DEF Begin, AddressInv, AddressTypeOK
<1>3. earlier'[r] = earlier[r] /\ earlier'[s] = earlier[s]
  BY <1>1, <1>2, AddressSteps
<1> QED
  BY <1>3 DEF Overlap

\* A request past its unset, and before it makes its address the default.
Unsetted(r) == request[r].pc \in {"insert", "update"} /\ request[r].isDefault

\* Since its unset, only requests that overlap it have made a default: the
\* inductive form of TwoDefaultsNeedRace.
DefaultRaces ==
    /\ TwoDefaultsNeedRace
    /\ \A r \in AddressRequests : Unsetted(r) =>
         \A a \in defaults \cap active : a # request[r].address => Overlap(setter[a], r)

\* What each step does to the defaults that are not deleted.
LEMMA DefaultSteps ==
    ASSUME AddressInv, NEW r \in AddressRequests, Goes(r)
    PROVE  \/ /\ UnsetDefault(r) /\ defaults' \cap active' = {}
           \/ /\ ~UnsetDefault(r)
              /\ defaults' \cap active' \subseteq defaults \cap active
              /\ \A a \in defaults' \cap active' : setter'[a] = setter[a]
              /\ ~Unsetted(r)'
           \/ /\ SetAsDefault(r) /\ defaults' \cap active' \subseteq {request[r].address}
              /\ setter' = [setter EXCEPT ![request[r].address] = r] /\ ~Unsetted(r)'
           \/ /\ Unsetted(r) /\ ~Unsetted(r)'
              /\ defaults' \cap active' \subseteq (defaults \cap active) \cup {request[r].address}
              /\ setter' = [setter EXCEPT ![request[r].address] = r]
<1> USE DEF AddressInv, AddressTypeOK
<1>1. CASE UnsetDefault(r)
  BY <1>1 DEF UnsetDefault
<1>2. CASE InsertAddress(r)
  <2>1. request[r].pc = "insert" /\ request'[r].pc = "done" /\ ~UnsetDefault(r)
        /\ active' = active \cup {request[r].address} /\ request[r].address \notin defaults
    BY <1>2 DEF InsertAddress, RequestAt, UnsetDefault, Targets
  <2>2. CASE request[r].isDefault
    BY <1>2, <2>1, <2>2 DEF InsertAddress, MadeDefault, Unsetted
  <2>3. CASE ~request[r].isDefault
    BY <1>2, <2>1, <2>3 DEF InsertAddress, Unsetted
  <2> QED
    BY <2>2, <2>3
<1>3. CASE WriteAddress(r)
  <2>1. request[r].pc = "update" /\ request'[r].pc = "done" /\ ~UnsetDefault(r) /\ active' = active
    BY <1>3 DEF WriteAddress, RequestAt, UnsetDefault
  <2>2. CASE request[r].isDefault
    BY <1>3, <2>1, <2>2 DEF WriteAddress, MadeDefault, Unsetted
  <2>3. CASE ~request[r].isDefault
    BY <1>3, <2>1, <2>3 DEF WriteAddress, Unsetted
  <2> QED
    BY <2>2, <2>3
<1>4. CASE SetAsDefault(r)
  BY <1>4 DEF SetAsDefault, MadeDefault, RequestAt, Unsetted
<1>5. CASE SoftDelete(r)
  BY <1>5 DEF SoftDelete, RequestAt, Unsetted, UnsetDefault
<1>6. CASE AddressDies(r)
  <2>1. UNCHANGED <<active, defaults, setter>> /\ ~Unsetted(r)'
    BY <1>6 DEF AddressDies, RequestAt, Unsetted, addressRows, addressHistory
  <2>2. ~UnsetDefault(r)
    <3>1. request'[r].pc = "failed"
      BY <1>6 DEF AddressDies, RequestAt
    <3> QED
      BY <3>1 DEF UnsetDefault, RequestAt
  <2> QED
    BY <2>1, <2>2
<1> QED
  BY <1>1, <1>2, <1>3, <1>4, <1>5, <1>6 DEF Goes

LEMMA BeginRaces ==
    ASSUME AddressInv, DefaultRaces, NEW r \in AddressRequests, Begins(r)
    PROVE  DefaultRaces'
<1> USE DEF AddressInv, AddressTypeOK
<1>1. PICK a \in Places, d \in BOOLEAN, pc \in AddressPc :
             Begin(r, pc, a, d) /\ (pc \in {"insert", "update"} => d = FALSE)
  BY BeginCases
<1>2. /\ request[r].pc = "idle"
      /\ request' = [request EXCEPT ![r] = [pc |-> pc, address |-> a, isDefault |-> d]]
      /\ earlier' = [earlier EXCEPT ![r] = AddressEnded]
      /\ UNCHANGED <<active, defaults, setter>>
  BY <1>1 DEF Begin, addressRows
<1>3. \A s \in AddressRequests : Unsetted(s)' =>
        s # r /\ Unsetted(s) /\ request'[s] = request[s] /\ earlier'[s] = earlier[s]
  BY <1>1, <1>2 DEF Unsetted
<1>4. \A b \in defaults : setter[b] \in AddressRequests /\ setter[b] # r
                          /\ earlier'[setter[b]] = earlier[setter[b]]
  BY <1>2 DEF History, Ended
<1> QED
  BY <1>2, <1>3, <1>4 DEF DefaultRaces, TwoDefaultsNeedRace, Overlap

LEMMA GoRaces ==
    ASSUME AddressInv, DefaultRaces, NEW r \in AddressRequests, Goes(r)
    PROVE  DefaultRaces'
<1> USE DEF AddressInv, AddressTypeOK
<1> DEFINE A == request[r].address
<1>1. /\ earlier' = earlier /\ request'[r].address = A /\ A \in Places
      /\ \A s \in AddressRequests \ {r} : request'[s] = request[s]
  BY GoKeeps DEF Targets
<1>2. \A s \in AddressRequests \ {r} : Unsetted(s)' => Unsetted(s) /\ Overlap(r, s)
  <2> SUFFICES ASSUME NEW s \in AddressRequests \ {r}, Unsetted(s)'
               PROVE  Unsetted(s) /\ Overlap(r, s)
    OBVIOUS
  <2>1. Unsetted(s) /\ ~Ended(s)
    BY <1>1 DEF Unsetted, Ended
  <2>2. Overlap(r, s)'
    BY <2>1, EndsNow
  <2> QED
    BY <1>1, <2>1, <2>2 DEF Overlap
<1>3. \A x, y : Overlap(x, y)' <=> Overlap(x, y)
  BY <1>1 DEF Overlap
<1>4. \A x, y : Overlap(x, y) <=> Overlap(y, x)
  BY DEF Overlap
<1>5. CASE defaults' \cap active' = {}
  BY <1>5 DEF DefaultRaces, TwoDefaultsNeedRace
<1>6. CASE /\ defaults' \cap active' \subseteq defaults \cap active
           /\ \A a \in defaults' \cap active' : setter'[a] = setter[a]
           /\ ~Unsetted(r)'
  <2>1. \A a, b \in defaults' \cap active' : a # b => Overlap(setter'[a], setter'[b])
    BY <1>6 DEF DefaultRaces, TwoDefaultsNeedRace
  <2>2. \A s \in AddressRequests : Unsetted(s)' =>
          \A a \in defaults' \cap active' : a # request'[s].address => Overlap(setter'[a], s)
    BY <1>1, <1>2, <1>6 DEF DefaultRaces
  <2> QED
    BY <1>3, <2>1, <2>2 DEF DefaultRaces, TwoDefaultsNeedRace
<1>7. CASE /\ defaults' \cap active' \subseteq {A}
           /\ setter' = [setter EXCEPT ![A] = r] /\ ~Unsetted(r)'
  <2>1. \A s \in AddressRequests : Unsetted(s)' =>
          \A a \in defaults' \cap active' : a # request'[s].address => Overlap(setter'[a], s)
    BY <1>1, <1>2, <1>7
  <2> QED
    BY <1>3, <1>7, <2>1 DEF DefaultRaces, TwoDefaultsNeedRace
<1>8. CASE /\ Unsetted(r) /\ ~Unsetted(r)'
           /\ defaults' \cap active' \subseteq (defaults \cap active) \cup {A}
           /\ setter' = [setter EXCEPT ![A] = r]
  <2>1. \A a \in (defaults' \cap active') \ {A} :
          a \in defaults \cap active /\ setter'[a] = setter[a] /\ Overlap(setter[a], r)
    BY <1>1, <1>8 DEF DefaultRaces
  <2>2. setter'[A] = r
    BY <1>1, <1>8
  <2>3. \A a, b \in defaults' \cap active' : a # b => Overlap(setter'[a], setter'[b])
    BY <1>4, <2>1, <2>2 DEF DefaultRaces, TwoDefaultsNeedRace
  <2>4. \A s \in AddressRequests : Unsetted(s)' =>
          \A a \in defaults' \cap active' : a # request'[s].address => Overlap(setter'[a], s)
    BY <1>1, <1>2, <1>8, <2>1, <2>2 DEF DefaultRaces
  <2> QED
    BY <1>3, <2>3, <2>4 DEF DefaultRaces, TwoDefaultsNeedRace
<1> QED
  BY <1>5, <1>6, <1>7, <1>8, DefaultSteps

\* However the requests interleave, two defaults come from two that overlap.
THEOREM TwoDefaultsAreARace == AddressSpec => []TwoDefaultsNeedRace
<1>1. AddressInit => DefaultRaces
  BY DEF AddressInit, DefaultRaces, TwoDefaultsNeedRace, Unsetted
<1>2. AddressInv /\ DefaultRaces /\ [AddressNext]_addressVars => DefaultRaces'
  <2>1. CASE DefaultRaces /\ UNCHANGED addressVars
    BY <2>1 DEF DefaultRaces, TwoDefaultsNeedRace, Unsetted, Overlap, addressVars, addressRows,
                addressHistory
  <2> QED
    BY <2>1, AddressSteps, BeginRaces, GoRaces
<1>3. DefaultRaces => TwoDefaultsNeedRace
  BY DEF DefaultRaces
<1> QED
  BY <1>1, <1>2, <1>3, AddressInvHolds, PTL DEF AddressSpec

-----------------------------------------------------------------------------
\* A request that is to make an address the default that was deleted meanwhile
\* overlaps the delete: the inductive form of DeletedDefaultNeedsRace.
DeleteRaces ==
    /\ DeletedDefaultNeedsRace
    /\ \A r \in AddressRequests :
         /\ request[r].pc \in {"unset", "update", "transaction"}
         /\ request[r].address \in saved \ active
         => \E d \in deleters[request[r].address] : Overlap(r, d)

\* What each step does to the defaults that are deleted.
LEMMA DeletedSteps ==
    ASSUME AddressInv, NEW r \in AddressRequests, Goes(r)
    PROVE  LET A == request[r].address
               changing == {"unset", "update", "transaction"}
           IN  \/ /\ SoftDelete(r) /\ active' = active \ {A} /\ defaults' = defaults \ {A}
                  /\ saved' = saved /\ setter' = setter
                  /\ deleters' = [deleters EXCEPT ![A] = @ \cup {r}]
                  /\ request'[r].pc \notin changing
               \/ /\ active' = active /\ saved' = saved /\ deleters' = deleters
                  /\ request[r].pc \in changing
                  /\ \/ defaults' \subseteq defaults /\ setter' = setter
                     \/ defaults' \subseteq defaults \cup {A} /\ setter' = [setter EXCEPT ![A] = r]
               \/ /\ active' = active \cup {A} /\ saved' = saved \cup {A} /\ deleters' = deleters
                  /\ defaults' \ active' \subseteq defaults \ active
                  /\ A \notin saved /\ \A b \in Places \ {A} : setter'[b] = setter[b]
                  /\ request'[r].pc \notin changing
               \/ /\ UNCHANGED <<active, saved, deleters, defaults, setter>>
                  /\ request'[r].pc \notin changing
<1> USE DEF AddressInv, AddressTypeOK, RequestAt
<1>1. CASE UnsetDefault(r)
  BY <1>1 DEF UnsetDefault
<1>2. CASE InsertAddress(r)
  <2>1. request[r].address \notin saved
    BY <1>2 DEF InsertAddress, Targets
  <2> QED
    BY <1>2, <2>1 DEF InsertAddress, MadeDefault
<1>3. CASE WriteAddress(r)
  <2>1. CASE request[r].isDefault
    BY <1>3, <2>1 DEF WriteAddress, MadeDefault
  <2>2. CASE ~request[r].isDefault
    BY <1>3, <2>2 DEF WriteAddress
  <2> QED
    BY <2>1, <2>2
<1>4. CASE SetAsDefault(r)
  BY <1>4 DEF SetAsDefault, MadeDefault
<1>5. CASE SoftDelete(r)
  BY <1>5 DEF SoftDelete
<1>6. CASE AddressDies(r)
  BY <1>6 DEF AddressDies, addressRows, addressHistory
<1> QED
  BY <1>1, <1>2, <1>3, <1>4, <1>5, <1>6 DEF Goes

LEMMA BeginDeleteRaces ==
    ASSUME AddressInv, DeleteRaces, NEW r \in AddressRequests, Begins(r)
    PROVE  DeleteRaces'
<1> USE DEF AddressInv, AddressTypeOK
<1>1. PICK a \in Places, d \in BOOLEAN, pc \in AddressPc :
             /\ Begin(r, pc, a, d)
             /\ \/ pc \in {"unset", "insert"} /\ Unused(a)
                \/ pc \in {"unset", "update", "transaction"} /\ a \in active
                \/ pc = "delete" /\ a \in saved
  BY BeginCases
<1>2. /\ request[r].pc = "idle"
      /\ request' = [request EXCEPT ![r] = [pc |-> pc, address |-> a, isDefault |-> d]]
      /\ earlier' = [earlier EXCEPT ![r] = AddressEnded]
      /\ UNCHANGED <<saved, active, defaults, setter, deleters>>
  BY <1>1 DEF Begin, addressRows
<1>3. \A s \in AddressRequests \ {r} : request'[s] = request[s] /\ earlier'[s] = earlier[s]
  BY <1>2
<1>4. ~(request'[r].pc \in {"unset", "update", "transaction"}
        /\ request'[r].address \in saved \ active)
  BY <1>1, <1>2 DEF Unused
<1>5. \A b \in Places : \A e \in deleters[b] : e \in AddressRequests \ {r}
  BY <1>2 DEF History, Ended
<1>6. \A b \in defaults : setter[b] \in AddressRequests \ {r}
  BY <1>2 DEF History, Ended
<1>7. \A s, t \in AddressRequests \ {r} : Overlap(s, t)' <=> Overlap(s, t)
  BY <1>3 DEF Overlap
<1>8. DeletedDefaultNeedsRace'
  <2> SUFFICES ASSUME NEW b \in defaults \ active
               PROVE  \E e \in deleters[b] : Overlap(setter[b], e)'
    BY <1>2 DEF DeletedDefaultNeedsRace, Overlap
  <2>1. PICK e \in deleters[b] : Overlap(setter[b], e)
    BY DEF DeleteRaces, DeletedDefaultNeedsRace
  <2>2. e \in AddressRequests \ {r} /\ setter[b] \in AddressRequests \ {r} /\ setter' = setter
    BY <1>2, <1>5, <1>6
  <2>3. Overlap(setter[b], e)'
    BY <1>3, <2>1, <2>2 DEF Overlap
  <2> QED
    BY <2>3
<1>9. ASSUME NEW s \in AddressRequests, request'[s].pc \in {"unset", "update", "transaction"},
             request'[s].address \in saved' \ active'
      PROVE  \E e \in deleters'[request'[s].address] : Overlap(s, e)'
  <2>1. s \in AddressRequests \ {r} /\ request'[s] = request[s]
    BY <1>3, <1>4, <1>2, <1>9
  <2>2. PICK e \in deleters[request[s].address] : Overlap(s, e)
    BY <1>2, <1>9, <2>1 DEF DeleteRaces
  <2>3. e \in AddressRequests \ {r}
    BY <1>2, <1>5, <1>9, <2>1
  <2> QED
    BY <1>2, <1>7, <2>1, <2>2, <2>3
<1> QED
  BY <1>8, <1>9 DEF DeleteRaces

LEMMA GoDeleteRaces ==
    ASSUME AddressInv, DeleteRaces, NEW r \in AddressRequests, Goes(r)
    PROVE  DeleteRaces'
<1> USE DEF AddressInv, AddressTypeOK
<1> DEFINE A == request[r].address
           changing == {"unset", "update", "transaction"}
           Left(a, s) == \E d \in deleters[a] : Overlap(s, d)
           LeftNow(a, s) == \E d \in deleters'[a] : Overlap(s, d)
<1>1. /\ earlier' = earlier /\ request'[r].address = A /\ A \in Places
      /\ \A s \in AddressRequests \ {r} : request'[s] = request[s]
  BY GoKeeps DEF Targets
<1>2. \A a \in defaults \ active : Left(a, setter[a])
  BY DEF DeleteRaces, DeletedDefaultNeedsRace
<1>3. \A s \in AddressRequests : request[s].pc \in changing
        /\ request[s].address \in saved \ active => Left(request[s].address, s)
  BY DEF DeleteRaces
<1>4. /\ \A a \in defaults' \ active' : LeftNow(a, setter'[a])
      /\ \A s \in AddressRequests : request'[s].pc \in changing
           /\ request'[s].address \in saved' \ active' => LeftNow(request'[s].address, s)
  <2>1. CASE /\ SoftDelete(r) /\ active' = active \ {A} /\ defaults' = defaults \ {A}
             /\ saved' = saved /\ setter' = setter
             /\ deleters' = [deleters EXCEPT ![A] = @ \cup {r}]
             /\ request'[r].pc \notin changing
    <3>1. \A a \in Places : \A s : Left(a, s) => LeftNow(a, s)
      BY <2>1
    <3>2. ASSUME NEW s \in AddressRequests \ {r}, request[s].pc \in changing, request[s].address = A
          PROVE  LeftNow(A, s)
      <4>1. Overlap(s, r)'
        BY <3>2, EndsNow DEF Ended
      <4>2. Overlap(s, r) /\ r \in deleters'[A]
        BY <1>1, <2>1, <4>1 DEF Overlap
      <4> QED
        BY <4>2
    <3>3. \A a \in defaults' \ active' : LeftNow(a, setter'[a])
      BY <1>2, <2>1, <3>1
    <3>4. \A s \in AddressRequests : request'[s].pc \in changing
           /\ request'[s].address \in saved' \ active' => LeftNow(request'[s].address, s)
      <4> HIDE DEF LeftNow, Left
      <4> QED
        BY <1>1, <1>3, <2>1, <3>1, <3>2
    <3> QED
      BY <3>3, <3>4
  <2>2. CASE /\ active' = active /\ saved' = saved /\ deleters' = deleters
             /\ request[r].pc \in changing
             /\ \/ defaults' \subseteq defaults /\ setter' = setter
                \/ defaults' \subseteq defaults \cup {A} /\ setter' = [setter EXCEPT ![A] = r]
    <3>1. \A a, s : Left(a, s) <=> LeftNow(a, s)
      BY <2>2
    <3>2. defaults' \subseteq saved'
      BY GoTypes
    <3> HIDE DEF LeftNow, Left
    <3>3. \A a \in defaults' \ active' : LeftNow(a, setter'[a])
      BY <1>1, <1>2, <1>3, <2>2, <3>1, <3>2
    <3>4. \A s \in AddressRequests : request'[s].pc \in changing
           /\ request'[s].address \in saved' \ active' => LeftNow(request'[s].address, s)
      BY <1>1, <1>3, <2>2, <3>1
    <3> QED
      BY <3>3, <3>4
  <2>3. CASE /\ active' = active \cup {A} /\ saved' = saved \cup {A} /\ deleters' = deleters
             /\ defaults' \ active' \subseteq defaults \ active
             /\ A \notin saved /\ \A b \in Places \ {A} : setter'[b] = setter[b]
             /\ request'[r].pc \notin changing
    <3>1. \A a, s : Left(a, s) <=> LeftNow(a, s)
      BY <2>3
    <3>2. \A a \in defaults' \ active' : a \in defaults \ active /\ setter'[a] = setter[a]
      BY <2>3
    <3> HIDE DEF LeftNow, Left
    <3> QED
      BY <1>1, <1>2, <1>3, <2>3, <3>1, <3>2
  <2>4. CASE /\ UNCHANGED <<active, saved, deleters, defaults, setter>>
             /\ request'[r].pc \notin changing
    <3>1. \A a, s : Left(a, s) <=> LeftNow(a, s)
      BY <2>4
    <3> HIDE DEF LeftNow, Left
    <3> QED
      BY <1>1, <1>2, <1>3, <2>4, <3>1
  <2> QED
    BY <2>1, <2>2, <2>3, <2>4, DeletedSteps
<1>5. \A a, s : (\E d \in deleters'[a] : Overlap(s, d)') <=> LeftNow(a, s)
  BY <1>1 DEF Overlap
<1>6. DeletedDefaultNeedsRace'
  BY <1>4, <1>5 DEF DeletedDefaultNeedsRace
<1>7. \A s \in AddressRequests : request'[s].pc \in changing
        /\ request'[s].address \in saved' \ active'
        => \E d \in deleters'[request'[s].address] : Overlap(s, d)'
  BY <1>4, <1>5
<1> QED
  BY <1>6, <1>7 DEF DeleteRaces

\* However the requests interleave, a deleted address is the default only after
\* one that found it not deleted overlapped the delete.
THEOREM DeletedDefaultsAreARace == AddressSpec => []DeletedDefaultNeedsRace
<1>1. AddressInit => DeleteRaces
  BY DEF AddressInit, DeleteRaces, DeletedDefaultNeedsRace
<1>2. AddressInv /\ DeleteRaces /\ [AddressNext]_addressVars => DeleteRaces'
  <2>1. CASE DeleteRaces /\ UNCHANGED addressVars
    BY <2>1 DEF DeleteRaces, DeletedDefaultNeedsRace, Overlap, addressVars, addressRows,
                addressHistory
  <2> QED
    BY <2>1, AddressSteps, BeginDeleteRaces, GoDeleteRaces
<1>3. DeleteRaces => DeletedDefaultNeedsRace
  BY DEF DeleteRaces
<1> QED
  BY <1>1, <1>2, <1>3, AddressInvHolds, PTL DEF AddressSpec

-----------------------------------------------------------------------------
\* The request last wanted is past its unset, and once through has its address
\* as the default: the inductive form of WantedIsDefault.
Wanted ==
    /\ \A r \in AddressRequests : request[r].pc = "unset" => request[r].isDefault
    /\ wantedBy # NoRequest =>
         /\ request[wantedBy].pc \in {"insert", "update", "done", "failed"}
         /\ request[wantedBy].pc \in {"insert", "update"} => request[wantedBy].isDefault
         /\ request[wantedBy].pc = "done" => request[wantedBy].address \in defaults

LEMMA WantedKept ==
    ASSUME AddressInv, Wanted, AddressNext
    PROVE  Wanted'
<1> USE DEF AddressInv, AddressTypeOK
<1>1. ASSUME NEW r \in AddressRequests, Begins(r) PROVE Wanted'
  <2>1. PICK a \in Places, d \in BOOLEAN, pc \in AddressPc :
             Begin(r, pc, a, d) /\ (pc = "unset" => d = TRUE)
    BY <1>1, BeginCases
  <2>2. /\ request[r].pc = "idle" /\ UNCHANGED <<defaults, wantedBy>>
        /\ request' = [request EXCEPT ![r] = [pc |-> pc, address |-> a, isDefault |-> d]]
    BY <2>1 DEF Begin, addressRows
  <2>3. wantedBy # r \/ wantedBy = NoRequest
    BY <2>2 DEF Wanted
  <2> QED
    BY <2>1, <2>2, <2>3 DEF Wanted
<1>2. ASSUME NEW r \in AddressRequests, Goes(r) PROVE Wanted'
  <2> DEFINE A == request[r].address
  <2>1. /\ request[r].pc \notin {"idle", "done", "failed"} /\ A \in Places
        /\ request'[r].address = A /\ request'[r].isDefault = request[r].isDefault
        /\ \A s \in AddressRequests \ {r} : request'[s] = request[s]
    BY <1>2, GoKeeps DEF Ended, Targets
  <2>2. CASE UnsetDefault(r)
    <3>1. wantedBy' = r /\ request[r].pc = "unset" /\ request'[r].pc \in {"insert", "update"}
      BY <2>2 DEF UnsetDefault, RequestAt
    <3> QED
      BY <2>1, <3>1 DEF Wanted
  <2>3. CASE InsertAddress(r) \/ (WriteAddress(r) /\ request[r].isDefault)
    <3>1. /\ wantedBy' = wantedBy /\ request'[r].pc = "done"
          /\ defaults \subseteq defaults' /\ (request[r].isDefault => A \in defaults')
          /\ request[r].pc \in {"insert", "update"}
      BY <2>3 DEF InsertAddress, WriteAddress, RequestAt
    <3> QED
      BY <2>1, <3>1 DEF Wanted
  <2>4. CASE SoftDelete(r) \/ (WriteAddress(r) /\ ~request[r].isDefault)
    <3>1. /\ NoLongerWanted(A) /\ request'[r].pc = "done" /\ defaults' = defaults \ {A}
          /\ request[r].pc \in {"update", "delete"}
          /\ request[r].pc = "update" => ~request[r].isDefault
      BY <2>4 DEF SoftDelete, WriteAddress, RequestAt
    <3>2. \/ wantedBy' = NoRequest
          \/ wantedBy' = wantedBy /\ request[wantedBy].address # A
      BY <3>1 DEF NoLongerWanted
    <3>3. wantedBy # NoRequest => wantedBy # r
      BY <3>1 DEF Wanted
    <3> QED
      BY <2>1, <3>1, <3>2, <3>3 DEF Wanted
  <2>5. CASE SetAsDefault(r)
    <3>1. wantedBy' = r /\ A \in defaults' /\ request'[r].pc = "done"
      BY <2>5 DEF SetAsDefault, RequestAt
    <3> QED
      BY <2>1, <3>1 DEF Wanted
  <2>6. CASE AddressDies(r)
    <3>1. UNCHANGED <<wantedBy, defaults>> /\ request'[r].pc = "failed"
      BY <2>6 DEF AddressDies, addressRows, addressHistory, RequestAt
    <3> QED
      BY <2>1, <3>1 DEF Wanted
  <2> QED
    BY <1>2, <2>2, <2>3, <2>4, <2>5, <2>6 DEF Goes
<1> QED
  BY <1>1, <1>2, AddressSteps

\* However the requests interleave, the address last asked for is the default
\* once its request has gone through.
THEOREM TheWantedIsDefault == AddressSpec => []WantedIsDefault
<1>1. AddressInit => Wanted
  BY DEF AddressInit, Wanted
<1>2. AddressInv /\ Wanted /\ [AddressNext]_addressVars => Wanted'
  <2>1. CASE Wanted /\ UNCHANGED addressVars
    BY <2>1 DEF Wanted, addressVars, addressRows, addressHistory
  <2> QED
    BY <2>1, WantedKept
<1>3. Wanted => WantedIsDefault
  BY DEF Wanted, WantedIsDefault
<1> QED
  BY <1>1, <1>2, <1>3, AddressInvHolds, PTL DEF AddressSpec

-----------------------------------------------------------------------------
(***************************************************************************)
(* Service persons: lists and links stay within a provider.                 *)
(***************************************************************************)
StaffEnded(r) == staffing[r].pc \in {"done", "failed"}

LinksOf(p) == {l \in links : l[1] = p}

\* What a request was checked for when it began, and still holds.
Checked ==
    /\ \A r \in StaffRequests : staffing[r].pc = "idle" => staffing[r].person = NoPerson
    /\ \A r \in StaffRequests : staffing[r].pc # "idle" =>
         /\ staffing[r].person \in People
         /\ staffing[r].list \subseteq offered \cup withdrawn
         /\ \A o \in staffing[r].list : OwnerOf[o] = EmployerOf[staffing[r].person]
    /\ \A r \in StaffRequests : staffing[r].pc \in {"clear", "link"} => staffing[r].person \in staff
    /\ \A r \in StaffRequests : staffing[r].pc = "insert" =>
         /\ staffing[r].person \notin staff
         /\ \A s \in StaffRequests \ {r} : staffing[s].person # staffing[r].person
    /\ \A r \in StaffRequests : \A s \in finished[r] : StaffEnded(s)

StaffInv == StaffTypeOK /\ Checked /\ LinksWithinProvider

\* The steps of a request: the first, and the others.
BeginsStaffing(r) ==
    \E p \in People, list \in SUBSET Offerings : CreatePerson(r, p, list) \/ UpdatePerson(r, p, list)

GoesStaffing(r) == InsertPerson(r) \/ ClearLinks(r) \/ CreateLinks(r) \/ StaffDies(r)

Offers == \E o \in Offerings : CreateOffering(o) \/ DeleteOffering(o)

LEMMA StaffSteps ==
    StaffNext => \/ \E r \in StaffRequests : BeginsStaffing(r) \/ GoesStaffing(r)
                 \/ Offers
  BY DEF StaffNext, BeginsStaffing, GoesStaffing, Offers

\* A request that begins.
LEMMA BeginStaffingCases ==
    ASSUME StaffInv, NEW r \in StaffRequests, BeginsStaffing(r)
    PROVE  \E p \in People, list \in SUBSET Offerings, pc \in {"insert", "clear"} :
             /\ staffing[r].pc = "idle"
             /\ staffing' = [staffing EXCEPT ![r] = [pc |-> pc, person |-> p, list |-> list]]
             /\ finished' = [finished EXCEPT ![r] = {s \in StaffRequests : StaffEnded(s)}]
             /\ UNCHANGED <<offered, withdrawn, staff, links>>
             /\ list \subseteq offered /\ \A o \in list : OwnerOf[o] = EmployerOf[p]
             /\ pc = "insert" => p \notin staff /\ \A s \in StaffRequests : staffing[s].person # p
             /\ pc = "clear" => p \in staff
<1>1. PICK p \in People, list \in SUBSET Offerings : CreatePerson(r, p, list) \/ UpdatePerson(r, p, list)
  BY DEF BeginsStaffing
<1>2. CASE CreatePerson(r, p, list)
  <2>1. /\ staffing[r].pc = "idle"
        /\ staffing' = [staffing EXCEPT ![r] = [pc |-> "insert", person |-> p, list |-> list]]
        /\ finished' = [finished EXCEPT ![r] = {s \in StaffRequests : StaffEnded(s)}]
        /\ UNCHANGED <<offered, withdrawn, staff, links>>
        /\ list \subseteq offered /\ \A o \in list : OwnerOf[o] = EmployerOf[p]
    BY <1>2 DEF CreatePerson, BeginStaffing, ValidList, StaffEnded, staffRows
  <2>2. p \notin staff /\ \A s \in StaffRequests : staffing[s].person # p
    BY <1>2 DEF CreatePerson
  <2> QED
    BY <2>1, <2>2
<1>3. CASE UpdatePerson(r, p, list)
  <2>1. p \in staff /\ BeginStaffing(r, "clear", p, list)
    BY <1>3 DEF UpdatePerson
  <2>2. /\ staffing[r].pc = "idle"
        /\ staffing' = [staffing EXCEPT ![r] = [pc |-> "clear", person |-> p, list |-> list]]
        /\ finished' = [finished EXCEPT ![r] = {s \in StaffRequests : StaffEnded(s)}]
        /\ UNCHANGED <<offered, withdrawn, staff, links>>
        /\ list \subseteq offered /\ \A o \in list : OwnerOf[o] = EmployerOf[p]
    BY <2>1 DEF BeginStaffing, ValidList, StaffEnded, staffRows
  <2> QED
    BY <2>1, <2>2
<1> QED
  BY <1>1, <1>2, <1>3

LEMMA BeginStaffingKeeps ==
    ASSUME StaffInv, NEW r \in StaffRequests, BeginsStaffing(r)
    PROVE  StaffInv'
<1> USE DEF StaffInv, StaffTypeOK
<1>1. PICK p \in People, list \in SUBSET Offerings, pc \in {"insert", "clear"} :
             /\ staffing[r].pc = "idle"
             /\ staffing' = [staffing EXCEPT ![r] = [pc |-> pc, person |-> p, list |-> list]]
             /\ finished' = [finished EXCEPT ![r] = {s \in StaffRequests : StaffEnded(s)}]
             /\ UNCHANGED <<offered, withdrawn, staff, links>>
             /\ list \subseteq offered /\ \A o \in list : OwnerOf[o] = EmployerOf[p]
             /\ pc = "insert" => p \notin staff /\ \A s \in StaffRequests : staffing[s].person # p
             /\ pc = "clear" => p \in staff
  BY BeginStaffingCases
<1>2. StaffTypeOK'
  BY <1>1 DEF StaffPc
<1>3. Checked'
  <2>1. \A s \in StaffRequests : \A t \in finished'[s] : StaffEnded(t)'
    BY <1>1 DEF Checked, StaffEnded
  <2>2. \A s \in StaffRequests \ {r} : staffing'[s] = staffing[s]
    BY <1>1
  <2>3. staffing'[r] = [pc |-> pc, person |-> p, list |-> list]
    BY <1>1
  <2> QED
    BY <1>1, <2>1, <2>2, <2>3, StaffAssumption DEF Checked
<1>4. LinksWithinProvider'
  BY <1>1 DEF LinksWithinProvider
<1> QED
  BY <1>2, <1>3, <1>4

\* A request that goes on keeps its person and its list.
LEMMA StaffAtMoves ==
    ASSUME StaffTypeOK, NEW r \in StaffRequests
    PROVE  \A pc : StaffAt(r, pc) =>
             staffing' = [staffing EXCEPT ![r] = [pc |-> pc, person |-> staffing[r].person,
                                                  list |-> staffing[r].list]]
<1>1. staffing \in [StaffRequests ->
        [pc : StaffPc, person : People \cup {NoPerson}, list : SUBSET Offerings]]
  BY DEF StaffTypeOK
<1> SUFFICES ASSUME NEW pc, StaffAt(r, pc)
             PROVE  staffing' = [staffing EXCEPT ![r] = [pc |-> pc, person |-> staffing[r].person,
                                                         list |-> staffing[r].list]]
  OBVIOUS
<1>2. [staffing[r] EXCEPT !.pc = pc] = [pc |-> pc, person |-> staffing[r].person,
                                        list |-> staffing[r].list]
  BY <1>1
<1>3. staffing' = [staffing EXCEPT ![r] = [staffing[r] EXCEPT !.pc = pc]]
  BY DEF StaffAt
<1> QED
  BY <1>2, <1>3

\* What the steps after the first do, of a request that has not ended.
LEMMA GoStaffingCases ==
    ASSUME StaffInv, NEW r \in StaffRequests, GoesStaffing(r)
    PROVE  LET p == staffing[r].person
               list == staffing[r].list
           IN  /\ UNCHANGED <<offered, withdrawn, finished>>
               /\ staffing[r].pc \in {"insert", "clear", "link"}
               /\ \E pc \in {"link", "done", "failed"} :
                    staffing' = [staffing EXCEPT ![r] = [pc |-> pc, person |-> p, list |-> list]]
               /\ \/ /\ staffing[r].pc = "insert" /\ staff' = staff \cup {p} /\ links' = links
                     /\ staffing'[r].pc = "done" => list = {}
                  \/ /\ staffing[r].pc = "clear" /\ staff' = staff
                     /\ links' = {l \in links : l[1] # p}
                     /\ staffing'[r].pc = "done" => list = {}
                  \/ /\ staffing[r].pc = "link" /\ staff' = staff
                     /\ links' = links \cup ({p} \X list) /\ list \subseteq offered
                     /\ staffing'[r].pc = "done"
                  \/ staff' = staff /\ links' = links /\ staffing'[r].pc = "failed"
<1> USE DEF StaffInv, StaffTypeOK
<1>1. \A pc : StaffAt(r, pc) =>
        staffing' = [staffing EXCEPT ![r] = [pc |-> pc, person |-> staffing[r].person,
                                             list |-> staffing[r].list]]
  BY StaffAtMoves
<1>2. CASE InsertPerson(r)
  BY <1>1, <1>2 DEF InsertPerson
<1>3. CASE ClearLinks(r)
  BY <1>1, <1>3 DEF ClearLinks
<1>4. CASE CreateLinks(r)
  <2>1. CASE staffing[r].list \subseteq offered
    BY <1>1, <1>4, <2>1 DEF CreateLinks
  <2>2. CASE ~(staffing[r].list \subseteq offered)
    BY <1>1, <1>4, <2>2 DEF CreateLinks
  <2> QED
    BY <2>1, <2>2
<1>5. CASE StaffDies(r)
  BY <1>1, <1>5 DEF StaffDies, staffRows
<1> QED
  BY <1>2, <1>3, <1>4, <1>5 DEF GoesStaffing

LEMMA GoStaffingKeeps ==
    ASSUME StaffInv, NEW r \in StaffRequests, GoesStaffing(r)
    PROVE  StaffInv'
<1> USE DEF StaffInv, StaffTypeOK
<1> DEFINE p == staffing[r].person
           list == staffing[r].list
<1>1. /\ UNCHANGED <<offered, withdrawn, finished>>
      /\ staffing[r].pc \in {"insert", "clear", "link"}
      /\ staff \subseteq staff' /\ staff' \subseteq staff \cup {p}
      /\ p \in staff' \/ staffing'[r].pc = "failed"
  BY GoStaffingCases DEF Checked
<1>2. PICK pc \in {"link", "done", "failed"} :
        staffing' = [staffing EXCEPT ![r] = [pc |-> pc, person |-> p, list |-> list]]
  BY GoStaffingCases
<1>3. /\ p \in People /\ list \subseteq Offerings
      /\ \A o \in list : OwnerOf[o] = EmployerOf[p]
  BY <1>1 DEF Checked
<1>4. links' \subseteq links \cup ({p} \X list)
      /\ links' \subseteq staff' \X offered
  <2>1. staffing[r].pc = "link" => p \in staff
    BY DEF Checked
  <2> QED
    BY <2>1, GoStaffingCases
<1>5. StaffTypeOK'
  BY <1>1, <1>2, <1>3, <1>4 DEF StaffPc
<1>6. Checked'
  <2>1. \A s \in StaffRequests \ {r} : staffing'[s] = staffing[s]
    BY <1>2
  <2>2. staffing'[r] = [pc |-> pc, person |-> p, list |-> list]
    BY <1>2
  <2>3. \A s \in StaffRequests : \A t \in finished'[s] : StaffEnded(t)'
    BY <1>1, <1>2, <2>1 DEF Checked, StaffEnded
  <2>4. \A s \in StaffRequests \ {r} : staffing[s].pc = "insert" => p # staffing[s].person
    BY DEF Checked
  <2> QED
    BY <1>1, <1>3, <2>1, <2>2, <2>3, <2>4 DEF Checked
<1>7. LinksWithinProvider'
  BY <1>3, <1>4 DEF LinksWithinProvider
<1> QED
  BY <1>5, <1>6, <1>7

LEMMA OffersKeep ==
    ASSUME StaffInv, Offers
    PROVE  /\ StaffInv'
           /\ UNCHANGED <<staff, staffing, finished>>
           /\ offered \cup withdrawn \subseteq offered' \cup withdrawn'
           /\ offered' \cap (offered \cup withdrawn) \subseteq offered
           /\ links' = {l \in links : l[2] \in offered'}
<1> USE DEF StaffInv, StaffTypeOK
<1>1. PICK o \in Offerings : CreateOffering(o) \/ DeleteOffering(o)
  BY DEF Offers
<1>2. /\ UNCHANGED <<staff, staffing, finished>>
      /\ offered \cup withdrawn \subseteq offered' \cup withdrawn'
      /\ offered' \cap (offered \cup withdrawn) \subseteq offered
      /\ links' = {l \in links : l[2] \in offered'}
      /\ offered' \subseteq Offerings /\ withdrawn' \subseteq Offerings \ offered'
  BY <1>1 DEF CreateOffering, DeleteOffering
<1>3. StaffTypeOK'
  BY <1>2
<1>4. Checked'
  BY <1>2 DEF Checked, StaffEnded
<1>5. LinksWithinProvider'
  BY <1>2 DEF LinksWithinProvider
<1> QED
  BY <1>2, <1>3, <1>4, <1>5

LEMMA StaffInvHolds == StaffSpec => []StaffInv
<1>1. StaffInit => StaffInv
  BY DEF StaffInit, StaffInv, StaffTypeOK, StaffPc, Checked, LinksWithinProvider
<1>2. StaffInv /\ [StaffNext]_staffVars => StaffInv'
  <2>1. CASE StaffInv /\ UNCHANGED staffVars
    BY <2>1 DEF StaffInv, StaffTypeOK, Checked, LinksWithinProvider, StaffEnded, staffVars, staffRows
  <2> QED
    BY <2>1, StaffSteps, BeginStaffingKeeps, GoStaffingKeeps, OffersKeep
<1> QED
  BY <1>1, <1>2, PTL DEF StaffSpec

\* Every variable keeps its type; a link is of a person and an offering that are there.
THEOREM StaffTypeCorrect == StaffSpec => []StaffTypeOK
<1>1. StaffInv => StaffTypeOK
  BY DEF StaffInv
<1> QED
  BY <1>1, StaffInvHolds, PTL

\* However requests and deletes interleave, a person does offerings of the own
\* provider only.
THEOREM NoForeignLink == StaffSpec => []LinksWithinProvider
<1>1. StaffInv => LinksWithinProvider
  BY DEF StaffInv
<1> QED
  BY <1>1, StaffInvHolds, PTL

-----------------------------------------------------------------------------
\* Every other request for the person of r had ended before r began.
Alone(r) ==
    \A s \in StaffRequests \ {r} : staffing[s].person = staffing[r].person => s \in finished[r]

\* A request that is alone finds no link when it writes, and then leaves its
\* own: the inductive form of ListIsKept.
AloneWrites(r) ==
    LET p == staffing[r].person
    IN  Alone(r) => /\ staffing[r].pc = "link" => LinksOf(p) = {}
                    /\ staffing[r].pc = "done" => LinksOf(p) = {p} \X (staffing[r].list \cap offered)

\* The request that begins, or one of another person or not yet alone, leaves it so.
LEMMA BeginAlone ==
    ASSUME StaffInv, NEW r \in StaffRequests, BeginsStaffing(r),
           NEW q \in StaffRequests, AloneWrites(q)
    PROVE  AloneWrites(q)'
<1> USE DEF StaffInv, StaffTypeOK
<1>1. PICK p \in People, list \in SUBSET Offerings, pc \in {"insert", "clear"} :
             /\ staffing[r].pc = "idle"
             /\ staffing' = [staffing EXCEPT ![r] = [pc |-> pc, person |-> p, list |-> list]]
             /\ finished' = [finished EXCEPT ![r] = {s \in StaffRequests : StaffEnded(s)}]
             /\ UNCHANGED <<offered, withdrawn, staff, links>>
             /\ list \subseteq offered /\ \A o \in list : OwnerOf[o] = EmployerOf[p]
             /\ pc = "insert" => p \notin staff /\ \A s \in StaffRequests : staffing[s].person # p
             /\ pc = "clear" => p \in staff
  BY BeginStaffingCases
<1>2. CASE q = r
  <2>1. staffing'[q].pc \in {"insert", "clear"}
    BY <1>1, <1>2
  <2> QED
    BY <2>1 DEF AloneWrites
<1>3. CASE q # r
  <2>1. staffing'[q] = staffing[q] /\ finished'[q] = finished[q] /\ LinksOf(staffing[q].person)' = LinksOf(staffing[q].person)
    BY <1>1, <1>3 DEF LinksOf
  <2>2. staffing[r].person = NoPerson
    BY <1>1 DEF Checked
  <2>3. staffing[q].pc # "idle" => staffing[q].person \in People
    BY DEF Checked
  <2>4. staffing[q].pc # "idle" /\ Alone(q)' => Alone(q)
    BY <1>1, <2>1, <2>2, <2>3, StaffAssumption DEF Alone
  <2> QED
    BY <1>1, <2>1, <2>4 DEF AloneWrites
<1> QED
  BY <1>2, <1>3

LEMMA GoAlone ==
    ASSUME StaffInv, NEW r \in StaffRequests, GoesStaffing(r),
           NEW q \in StaffRequests, AloneWrites(q)
    PROVE  AloneWrites(q)'
<1> USE DEF StaffInv, StaffTypeOK
<1> DEFINE p == staffing[r].person
           list == staffing[r].list
<1>1. /\ UNCHANGED <<offered, finished>> /\ staffing[r].pc \in {"insert", "clear", "link"}
      /\ links \subseteq staff \X offered
  BY GoStaffingCases
<1>2. PICK pc \in {"link", "done", "failed"} :
        staffing' = [staffing EXCEPT ![r] = [pc |-> pc, person |-> p, list |-> list]]
  BY GoStaffingCases
<1>3. Alone(q)' <=> Alone(q)
  BY <1>1, <1>2 DEF Alone
<1>4. CASE q # r
  <2>1. staffing'[q] = staffing[q]
    BY <1>2, <1>4
  <2>2. Alone(q) => p # staffing[q].person
    BY <1>1, <1>4 DEF Alone, Checked, StaffEnded
  <2>3. \A x : x # p => {l \in links' : l[1] = x} = LinksOf(x)
    BY GoStaffingCases DEF LinksOf
  <2> QED
    <3>1. Alone(q)' => {l \in links' : l[1] = staffing[q].person} = LinksOf(staffing[q].person)
      BY <1>3, <2>2, <2>3
    <3>2. LinksOf(staffing[q].person)' = {l \in links' : l[1] = staffing'[q].person}
      BY <2>1 DEF LinksOf
    <3> QED
      BY <1>1, <1>3, <2>1, <3>1, <3>2 DEF AloneWrites
<1>5. CASE q = r
  <2>1. staffing'[q].person = p /\ staffing'[q].list = list /\ staffing'[q].pc = pc
    BY <1>2, <1>5
  <2> SUFFICES ASSUME Alone(q), pc # "failed"
               PROVE  /\ pc = "link" => {l \in links' : l[1] = p} = {}
                      /\ pc = "done" => {l \in links' : l[1] = p} = {p} \X (list \cap offered')
    BY <1>3, <2>1 DEF AloneWrites, LinksOf
  <2>2. CASE staffing[r].pc = "insert" /\ links' = links /\ (pc = "done" => list = {})
    <3>1. p \notin staff
      BY <2>2 DEF Checked
    <3>2. {l \in links' : l[1] = p} = {}
      BY <1>1, <2>2, <3>1
    <3> QED
      BY <2>2, <3>2
  <2>3. CASE links' = {l \in links : l[1] # p} /\ (pc = "done" => list = {})
    BY <2>3
  <2>4. CASE /\ staffing[r].pc = "link" /\ links' = links \cup ({p} \X list)
             /\ list \subseteq offered /\ pc = "done"
    <3>1. LinksOf(p) = {}
      BY <1>5, <2>4 DEF AloneWrites
    <3>2. {l \in links' : l[1] = p} = {p} \X list
      BY <2>4, <3>1 DEF LinksOf
    <3>3. list \cap offered' = list
      BY <1>1, <2>4
    <3> QED
      BY <2>4, <3>2, <3>3
  <2> QED
    BY <1>5, <2>1, <2>2, <2>3, <2>4, GoStaffingCases
<1> QED
  BY <1>4, <1>5

LEMMA OffersAlone ==
    ASSUME StaffInv, Offers, NEW q \in StaffRequests, AloneWrites(q)
    PROVE  AloneWrites(q)'
<1> USE DEF StaffInv, StaffTypeOK
<1> DEFINE p == staffing[q].person
           list == staffing[q].list
<1>1. /\ UNCHANGED <<staffing, finished>>
      /\ offered' \cap (offered \cup withdrawn) \subseteq offered
      /\ links' = {l \in links : l[2] \in offered'}
  BY OffersKeep
<1>2. staffing[q].pc # "idle" => list \subseteq offered \cup withdrawn
  BY DEF Checked
<1>3. Alone(q)' <=> Alone(q)
  BY <1>1 DEF Alone
<1>4. {l \in links' : l[1] = p} = {l \in LinksOf(p) : l[2] \in offered'}
  BY <1>1 DEF LinksOf
<1>5. ASSUME LinksOf(p) = {p} \X (list \cap offered), staffing[q].pc = "done"
      PROVE  {l \in links' : l[1] = p} = {p} \X (list \cap offered')
  <2>1. list \cap offered' = {o \in list \cap offered : o \in offered'}
    BY <1>1, <1>2, <1>5
  <2> QED
    BY <1>4, <1>5, <2>1
<1> QED
  BY <1>1, <1>3, <1>4, <1>5 DEF AloneWrites, LinksOf

\* A list that was accepted is kept as a whole, whatever is deleted meanwhile.
THEOREM AcceptedListsAreKept == StaffSpec => []ListIsKept
<1> DEFINE Inv == \A q \in StaffRequests : AloneWrites(q)
<1>1. StaffInit => Inv
  BY DEF StaffInit, AloneWrites
<1>2. StaffInv /\ Inv /\ [StaffNext]_staffVars => Inv'
  <2>1. CASE Inv /\ UNCHANGED staffVars
    BY <2>1 DEF AloneWrites, Alone, LinksOf, staffVars, staffRows
  <2> QED
    BY <2>1, StaffSteps, BeginAlone, GoAlone, OffersAlone
<1>3. Inv => ListIsKept
  BY DEF AloneWrites, Alone, LinksOf, ListIsKept
<1> QED
  BY <1>1, <1>2, <1>3, StaffInvHolds, PTL DEF StaffSpec
=============================================================================
