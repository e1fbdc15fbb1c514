--------------------------- MODULE Signup_proofs ----------------------------
(***************************************************************************)
(* What holds of a signup consumer for any identities, account types,       *)
(* contacts, number of retry queues, failures and closings of its channel;  *)
(* and, at the end, of the auth service and a consumer together.            *)
(***************************************************************************)
EXTENDS Onboarding, Auth_proofs

\* One more attempt of a message is again a message.
LEMMA CopyType ==
    ASSUME NEW m \in Message, m.tries < MaxRetries
    PROVE  createRetryMessage(m) \in Message
  BY RetriesAssumption DEF Message, createRetryMessage

\* An announced event is a message that was never tried.
LEMMA EventType ==
    ASSUME NEW i \in Signups, NEW wrapped \in Envelopes
    PROVE  /\ [id |-> i, wrapped |-> wrapped, tries |-> 0] \in Message
           /\ [id |-> i, wrapped |-> wrapped, tries |-> 0]
                \in [id : Signups, wrapped : Envelopes, tries : {0}]
  BY RetriesAssumption, EnvelopeAssumption DEF Message

\* Two places a handler can be in are different entries of held.
LEMMA HandlerType ==
    ASSUME NEW m \in Message
    PROVE  /\ <<m, "insert">> \in Handler
           /\ <<m, "done">> \in Handler
           /\ <<m, "insert">> # <<m, "done">>
  BY DEF Handler

-----------------------------------------------------------------------------
\* Each step of a queue keeps it a bag.
LEMMA PutType ==
    ASSUME NEW S, NEW queue \in [S -> Nat], NEW m \in S
    PROVE  [queue EXCEPT ![m] = @ + 1] \in [S -> Nat]
  OBVIOUS

LEMMA TakeType ==
    ASSUME NEW S, NEW queue \in [S -> Nat], NEW m \in S, queue[m] > 0
    PROVE  [queue EXCEPT ![m] = @ - 1] \in [S -> Nat]
  OBVIOUS

LEMMA StartType == TypeOK /\ Start => TypeOK'
  BY DEF TypeOK, Start, eventVars, queueVars, tableVars, countVars

LEMMA AnnounceType ==
    ASSUME TypeOK, NEW i \in Signups, NEW wrapped \in Envelopes, Announce(i, wrapped)
    PROVE  TypeOK'
<1> DEFINE e == [id |-> i, wrapped |-> wrapped, tries |-> 0]
<1>1. e \in Message /\ e \in [id : Signups, wrapped : Envelopes, tries : {0}]
  BY EventType
<1> HIDE DEF e
<1>2. CASE consumer = "new" /\ UNCHANGED <<routed, main>>
  BY <1>2 DEF TypeOK, Announce, tableVars, countVars
<1>3. CASE consumer # "new" /\ Put(main, e) /\ routed' = routed \cup {e}
  <2>1. main' \in [Message -> Nat]
    BY <1>1, <1>3, PutType DEF TypeOK, Put
  <2> QED
    BY <1>1, <1>3, <2>1 DEF TypeOK, Announce, tableVars, countVars
<1> QED
  BY <1>2, <1>3 DEF Announce, e

LEMMA DeliverType ==
    ASSUME TypeOK, NEW m \in Message,
           DeliverMalformed(m) \/ DeliverForeign(m) \/ DeliverWanted(m)
    PROVE  TypeOK'
<1>1. main' \in [Message -> Nat]
  BY TakeType DEF TypeOK, Take, DeliverMalformed, DeliverForeign, DeliverWanted
<1>2. CASE DeliverMalformed(m)
  <2>1. dead' \in [Message -> Nat]
    BY <1>2, PutType DEF TypeOK, Put, DeliverMalformed
  <2> QED
    BY <1>1, <1>2, <2>1 DEF TypeOK, DeliverMalformed, eventVars, tableVars, countVars
<1>3. CASE DeliverForeign(m)
  BY <1>1, <1>3 DEF TypeOK, DeliverForeign, eventVars, tableVars, countVars
<1>4. CASE DeliverWanted(m)
  <2>1. held' \in [Handler -> Nat]
    BY <1>4, PutType, HandlerType DEF TypeOK, Put, DeliverWanted
  <2> QED
    BY <1>1, <1>4, <2>1 DEF TypeOK, DeliverWanted, eventVars, tableVars, countVars
<1> QED
  BY <1>2, <1>3, <1>4

\* A handler that is done is one less at the insert and one more waiting to acknowledge.
LEMMA DoneType ==
    ASSUME TypeOK, NEW m \in Message, HandlerDone(m)
    PROVE  held' \in [Handler -> Nat]
  BY HandlerType DEF TypeOK, HandlerDone

\* What an upsert that throws may do: the row may be there, a failure may be spent.
LEMMA ThrowType ==
    ASSUME TypeOK, NEW i \in Signups, UpsertThrows(i)
    PROVE  rows' \subseteq Signups /\ faults' \in 0..MaxFaults
  BY BoundAssumption DEF TypeOK, UpsertThrows

LEMMA HandleType ==
    ASSUME TypeOK, NEW m \in Message, Insert(m) \/ Retry(m) \/ GiveUp(m) \/ Ack(m)
    PROVE  TypeOK'
<1>1. m.id \in Signups
  BY DEF Message
<1>2. CASE Insert(m)
  <2>1. held' \in [Handler -> Nat]
    BY <1>2, DoneType DEF Insert
  <2> QED
    BY <1>1, <1>2, <2>1 DEF TypeOK, Insert, eventVars, queueVars, countVars
<1>3. CASE Retry(m)
  <2>1. held' \in [Handler -> Nat]
    BY <1>3, DoneType DEF Retry
  <2>2. waiting' \in [Message -> Nat]
    BY <1>3, CopyType, PutType DEF TypeOK, Put, Retry
  <2>3. rows' \subseteq Signups /\ faults' \in 0..MaxFaults
    BY <1>1, <1>3, ThrowType DEF Retry
  <2> QED
    BY <1>3, <2>1, <2>2, <2>3 DEF TypeOK, Retry, eventVars
<1>4. CASE GiveUp(m)
  <2>1. held' \in [Handler -> Nat]
    BY <1>4, HandlerType, TakeType DEF TypeOK, Take, GiveUp
  <2>2. dead' \in [Message -> Nat]
    BY <1>4, PutType DEF TypeOK, Put, GiveUp
  <2>3. rows' \subseteq Signups /\ faults' \in 0..MaxFaults
    BY <1>1, <1>4, ThrowType DEF GiveUp
  <2> QED
    BY <1>4, <2>1, <2>2, <2>3 DEF TypeOK, GiveUp, eventVars
<1>5. CASE Ack(m)
  <2>1. held' \in [Handler -> Nat]
    BY <1>5, HandlerType, TakeType DEF TypeOK, Take, Ack
  <2> QED
    BY <1>5, <2>1 DEF TypeOK, Ack, eventVars, queueVars, tableVars, countVars
<1> QED
  BY <1>2, <1>3, <1>4, <1>5

LEMMA TtlType ==
    ASSUME TypeOK, NEW m \in Message, TtlExpires(m)
    PROVE  TypeOK'
<1>1. main' \in [Message -> Nat] /\ waiting' \in [Message -> Nat]
  BY PutType, TakeType DEF TypeOK, Put, Take, TtlExpires
<1> QED
  BY <1>1 DEF TypeOK, TtlExpires, eventVars, tableVars, countVars

LEMMA CloseType == TypeOK /\ ChannelCloses => TypeOK'
<1> SUFFICES ASSUME TypeOK, ChannelCloses PROVE TypeOK'
  OBVIOUS
<1>1. main' \in [Message -> Nat]
  BY HandlerType DEF TypeOK, ChannelCloses
<1>2. held' \in [Handler -> Nat]
  BY DEF ChannelCloses
<1>3. late' \subseteq Signups
  BY DEF TypeOK, ChannelCloses, Message
<1>4. closes' \in 0..MaxCloses
  BY BoundAssumption DEF TypeOK, ChannelCloses
<1> QED
  BY <1>1, <1>2, <1>3, <1>4 DEF TypeOK, ChannelCloses, eventVars

LEMMA LateType ==
    ASSUME TypeOK, NEW i \in Signups, LateInsert(i)
    PROVE  TypeOK'
  BY DEF TypeOK, LateInsert, eventVars, queueVars, countVars

\* Every variable of the consumer keeps its type: no queue goes below zero, and
\* no message is tried more often than there are retry queues.
THEOREM TypeCorrect == Spec => []TypeOK
<1>1. Init => TypeOK
  BY BoundAssumption DEF Init, TypeOK
<1>2. TypeOK /\ [Next]_vars => TypeOK'
  <2> SUFFICES ASSUME TypeOK, [Next]_vars PROVE TypeOK'
    OBVIOUS
  <2>1. CASE Next
    BY <2>1, StartType, AnnounceType, DeliverType, HandleType, TtlType, CloseType, LateType
    DEF Next, Work
  <2>2. CASE UNCHANGED vars
    BY <2>2 DEF TypeOK, vars, eventVars, queueVars, tableVars, countVars
  <2> QED
    BY <2>1, <2>2
<1> QED
  BY <1>1, <1>2, PTL DEF Spec

-----------------------------------------------------------------------------
(***************************************************************************)
(* Copies of a message.                                                     *)
(***************************************************************************)
Queued(m) == main[m] > 0 \/ waiting[m] > 0
Held(m) == held[<<m, "insert">>] > 0 \/ held[<<m, "done">>] > 0

\* A copy is of an event that came, and a handler's of one for the service.
CopiesAreOfEvents ==
    \A m \in Message : Queued(m) \/ Held(m) =>
        \E e \in routed : e.id = m.id /\ e.wrapped = m.wrapped

HeldAreWanted == \A m \in Message : Held(m) => m.wrapped /\ Wanted(m.id)

\* No row has the e-mail or the phone of this event, but its own.
Unrivalled(i) == service = "user" => ~\E j \in rows : Rival(i, j)

\* A copy of such an event has been tried once for each failure at most.
TriesAreFaults ==
    \A m \in Message : (Queued(m) \/ Held(m)) /\ Unrivalled(m.id) => m.tries <= faults

\* Where the copies after a step come from: each was there before, or is the
\* retry of one that a handler had.
LEMMA CopiesAfterWork ==
    ASSUME TypeOK, Work, NEW n \in Message, (Queued(n) \/ Held(n))'
    PROVE  \/ Queued(n) \/ Held(n)
           \/ \E m \in Message : Retry(m) /\ n = createRetryMessage(m)
<1>1. PICK m \in Message :
        \/ DeliverMalformed(m) \/ DeliverForeign(m) \/ DeliverWanted(m)
        \/ Insert(m) \/ Retry(m) \/ GiveUp(m) \/ Ack(m)
        \/ TtlExpires(m)
  BY DEF Work
<1>2. CASE DeliverMalformed(m)
  BY <1>2 DEF DeliverMalformed, TypeOK, Take, Queued, Held
<1>3. CASE DeliverForeign(m)
  BY <1>3 DEF DeliverForeign, TypeOK, Take, Queued, Held
<1>4. CASE DeliverWanted(m)
  BY <1>4, HandlerType DEF DeliverWanted, TypeOK, Take, Put, Queued, Held
<1>5. CASE Insert(m)
  BY <1>5, HandlerType DEF Insert, TypeOK, HandlerDone, Queued, Held, queueVars
<1>6. CASE Retry(m)
  <2>1. Held(n)' => Held(n) \/ n = m
    BY <1>6, HandlerType DEF Retry, TypeOK, HandlerDone, Held
  <2>2. Held(m)
    BY <1>6 DEF Retry, HandlerDone, Held
  <2>3. Queued(n)' => Queued(n) \/ n = createRetryMessage(m)
    BY <1>6, CopyType DEF Retry, TypeOK, Put, Queued
  <2> QED
    BY <1>6, <2>1, <2>2, <2>3
<1>7. CASE GiveUp(m)
  BY <1>7, HandlerType DEF GiveUp, TypeOK, Take, Queued, Held
<1>8. CASE Ack(m)
  BY <1>8, HandlerType DEF Ack, TypeOK, Take, Queued, Held, queueVars
<1>9. CASE TtlExpires(m)
  BY <1>9 DEF TtlExpires, TypeOK, Take, Put, Queued, Held
<1> QED
  BY <1>1, <1>2, <1>3, <1>4, <1>5, <1>6, <1>7, <1>8, <1>9

\* A channel that closes makes no copy.
LEMMA CopiesAfterClose ==
    ASSUME TypeOK, ChannelCloses, NEW n \in Message, (Queued(n) \/ Held(n))'
    PROVE  Queued(n) \/ Held(n)
  BY HandlerType DEF ChannelCloses, TypeOK, Queued, Held

\* A signup makes no copy but its own.
LEMMA CopiesAfterAnnounce ==
    ASSUME TypeOK, NEW i \in Signups, NEW wrapped \in Envelopes, Announce(i, wrapped),
           NEW n \in Message, (Queued(n) \/ Held(n))'
    PROVE  \/ Queued(n) \/ Held(n)
           \/ /\ n = [id |-> i, wrapped |-> wrapped, tries |-> 0]
              /\ n \in routed'
<1> DEFINE e == [id |-> i, wrapped |-> wrapped, tries |-> 0]
<1>1. e \in Message
  BY EventType
<1>2. (UNCHANGED <<routed, main>>) \/ (Put(main, e) /\ routed' = routed \cup {e})
  BY DEF Announce
<1> HIDE DEF e
<1>3. \/ Queued(n) \/ Held(n)
      \/ n = e /\ n \in routed'
  BY <1>1, <1>2 DEF Announce, TypeOK, Put, Queued, Held
<1> QED
  BY <1>3 DEF e

\* The other steps move no message.
LEMMA OthersMoveNothing ==
    ASSUME TypeOK, Start \/ (\E i \in Signups : LateInsert(i)) \/ UNCHANGED vars
    PROVE  UNCHANGED <<service, eventVars, queueVars, held, faults>>
  BY DEF Start, LateInsert, vars, countVars

\* What comes to the main queue stays on record, and nobody but Announce adds to it.
LEMMA RoutedStays ==
    ASSUME [Next]_vars
    PROVE  /\ service' = service
           /\ routed \subseteq routed'
           /\ (Work \/ ChannelCloses) => routed' = routed
<1>1. CASE Work \/ ChannelCloses
  BY <1>1 DEF Work, ChannelCloses, DeliverMalformed, DeliverForeign, DeliverWanted,
     Insert, Retry, GiveUp, Ack, TtlExpires, eventVars
<1>2. CASE \E i \in Signups, wrapped \in Envelopes : Announce(i, wrapped)
  BY <1>1, <1>2 DEF Announce
<1>3. CASE Start \/ (\E i \in Signups : LateInsert(i)) \/ UNCHANGED vars
  BY <1>1, <1>3 DEF Start, LateInsert, vars, eventVars
<1> QED
  BY <1>1, <1>2, <1>3 DEF Next

\* No step deletes a row, so what no row conflicts with, none conflicted with.
LEMMA RowsStay ==
    ASSUME [Next]_vars
    PROVE  rows \subseteq rows'
  BY DEF Next, Work, Start, Announce, DeliverMalformed, DeliverForeign, DeliverWanted,
     Insert, Retry, GiveUp, Ack, TtlExpires, ChannelCloses, LateInsert, UpsertThrows,
     tableVars, vars

LEMMA UnrivalledBefore ==
    ASSUME [Next]_vars, NEW i, Unrivalled(i)'
    PROVE  Unrivalled(i)
  BY RowsStay, RoutedStays DEF Unrivalled, Rival

-----------------------------------------------------------------------------
(***************************************************************************)
(* Every copy is of an event, and tried no more often than inserts failed.  *)
(***************************************************************************)
CopyInv == CopiesAreOfEvents /\ HeldAreWanted /\ TriesAreFaults

\* An unrivalled event's insert throws only by a failure.
LEMMA ThrowsByFault ==
    ASSUME TypeOK, NEW i \in Signups, Unrivalled(i), UpsertThrows(i)
    PROVE  faults' = faults + 1
<1>1. CanUpsert(i)
  BY DEF TypeOK, Unrivalled, CanUpsert
<1> QED
  BY <1>1 DEF UpsertThrows

\* The number of failures never falls.
LEMMA FaultsGrow ==
    ASSUME TypeOK, [Next]_vars
    PROVE  faults \in Nat /\ faults' \in Nat /\ faults <= faults'
<1>1. faults \in Nat
  BY BoundAssumption DEF TypeOK
<1>2. CASE \E m \in Message : Retry(m) \/ GiveUp(m)
  BY <1>1, <1>2 DEF Retry, GiveUp, UpsertThrows
<1>3. CASE \E i \in Signups, wrapped \in Envelopes : Announce(i, wrapped)
  BY <1>1, <1>3 DEF Announce, countVars
<1>4. CASE Start \/ ChannelCloses \/ (\E i \in Signups : LateInsert(i)) \/ UNCHANGED vars
  BY <1>1, <1>4 DEF Start, ChannelCloses, LateInsert, vars, countVars
<1>5. CASE \E m \in Message :
             \/ DeliverMalformed(m) \/ DeliverForeign(m) \/ DeliverWanted(m)
             \/ Insert(m) \/ Ack(m) \/ TtlExpires(m)
  BY <1>1, <1>5 DEF DeliverMalformed, DeliverForeign, DeliverWanted, Insert, Ack,
     TtlExpires, countVars
<1> QED
  BY <1>2, <1>3, <1>4, <1>5 DEF Next, Work

\* Handlers are given wanted messages only, and keep them.
LEMMA HeldStaysWanted ==
    ASSUME TypeOK, HeldAreWanted, [Next]_vars
    PROVE  HeldAreWanted'
<1> SUFFICES ASSUME NEW n \in Message, Held(n)'
             PROVE  n.wrapped /\ Wanted(n.id)'
  BY DEF HeldAreWanted
<1>1. Wanted(n.id)' = Wanted(n.id)
  BY RoutedStays DEF Wanted
<1>2. Held(n) \/ DeliverWanted(n)
  <2>1. CASE \E m \in Message : DeliverWanted(m)
    BY <2>1, HandlerType DEF DeliverWanted, TypeOK, Put, Held
  <2>2. CASE \E m \in Message : DeliverMalformed(m) \/ DeliverForeign(m) \/ TtlExpires(m)
    BY <2>2 DEF DeliverMalformed, DeliverForeign, TtlExpires, Held
  <2>3. CASE \E m \in Message : Insert(m) \/ Retry(m)
    BY <2>3, HandlerType DEF Insert, Retry, TypeOK, HandlerDone, Held
  <2>4. CASE \E m \in Message : GiveUp(m) \/ Ack(m)
    BY <2>4, HandlerType DEF GiveUp, Ack, TypeOK, Take, Held
  <2>5. CASE ChannelCloses
    BY <2>5, HandlerType DEF ChannelCloses, Held
  <2>6. CASE Start \/ (\E i \in Signups : LateInsert(i)) \/ UNCHANGED vars
    BY <2>6, OthersMoveNothing DEF Held
  <2>7. CASE \E i \in Signups, wrapped \in Envelopes : Announce(i, wrapped)
    BY <2>7 DEF Announce, Held
  <2> QED
    BY <2>1, <2>2, <2>3, <2>4, <2>5, <2>6, <2>7 DEF Next, Work
<1> QED
  BY <1>1, <1>2 DEF HeldAreWanted, DeliverWanted

LEMMA CopyStep == TypeOK /\ CopyInv /\ [Next]_vars => CopyInv'
<1> SUFFICES ASSUME TypeOK, CopyInv, [Next]_vars PROVE CopyInv'
  OBVIOUS
<1>1. HeldAreWanted'
  BY HeldStaysWanted DEF CopyInv
<1>2. ASSUME NEW n \in Message, (Queued(n) \/ Held(n))'
      PROVE  \/ Queued(n) \/ Held(n)
             \/ \E m \in Message : Retry(m) /\ n = createRetryMessage(m)
             \/ n \in routed' /\ n.tries = 0
  <2>1. CASE Work
    BY <1>2, <2>1, CopiesAfterWork
  <2>2. CASE ChannelCloses
    BY <1>2, <2>2, CopiesAfterClose
  <2>3. CASE \E i \in Signups, wrapped \in Envelopes : Announce(i, wrapped)
    BY <1>2, <2>3, CopiesAfterAnnounce
  <2>4. CASE Start \/ (\E i \in Signups : LateInsert(i)) \/ UNCHANGED vars
    BY <1>2, <2>4, OthersMoveNothing DEF Queued, Held, queueVars
  <2> QED
    BY <2>1, <2>2, <2>3, <2>4 DEF Next
<1>3. CopiesAreOfEvents'
  <2> SUFFICES ASSUME NEW n \in Message, (Queued(n) \/ Held(n))'
               PROVE  \E e \in routed' : e.id = n.id /\ e.wrapped = n.wrapped
    BY DEF CopiesAreOfEvents
  <2>1. CASE Queued(n) \/ Held(n)
    BY <2>1, RoutedStays DEF CopyInv, CopiesAreOfEvents
  <2>2. CASE \E m \in Message : Retry(m) /\ n = createRetryMessage(m)
    <3>1. PICK m \in Message : Retry(m) /\ n = createRetryMessage(m)
      BY <2>2
    <3>2. Held(m)
      BY <3>1 DEF Retry, HandlerDone, Held
    <3>3. m.wrapped = TRUE
      BY <3>2 DEF CopyInv, HeldAreWanted, Message
    <3>4. PICK e \in routed : e.id = m.id /\ e.wrapped = m.wrapped
      BY <3>2 DEF CopyInv, CopiesAreOfEvents
    <3>5. n.id = m.id /\ n.wrapped = TRUE
      BY <3>1 DEF createRetryMessage
    <3> QED
      BY <3>3, <3>4, <3>5, RoutedStays
  <2>3. CASE n \in routed'
    BY <2>3
  <2> QED
    BY <1>2, <2>1, <2>2, <2>3
<1>4. TriesAreFaults'
  <2> SUFFICES ASSUME NEW n \in Message, (Queued(n) \/ Held(n))', Unrivalled(n.id)'
               PROVE  n.tries <= faults'
    BY DEF TriesAreFaults
  <2>1. Unrivalled(n.id)
    BY UnrivalledBefore
  <2>2. n.tries \in Nat
    BY RetriesAssumption DEF Message
  <2>3. CASE Queued(n) \/ Held(n)
    BY <2>1, <2>2, <2>3, FaultsGrow DEF CopyInv, TriesAreFaults
  <2>4. CASE \E m \in Message : Retry(m) /\ n = createRetryMessage(m)
    <3>1. PICK m \in Message : Retry(m) /\ n = createRetryMessage(m)
      BY <2>4
    <3>2. n.id = m.id /\ n.tries = m.tries + 1
      BY <3>1 DEF createRetryMessage
    <3>3. m.id \in Signups /\ m.tries \in Nat
      BY RetriesAssumption DEF Message
    <3>4. m.tries <= faults
      BY <2>1, <3>1, <3>2 DEF Retry, HandlerDone, Held, CopyInv, TriesAreFaults
    <3>5. faults' = faults + 1
      BY <2>1, <3>1, <3>2, <3>3, ThrowsByFault DEF Retry
    <3> QED
      BY <3>2, <3>3, <3>4, <3>5, FaultsGrow
  <2>5. CASE n.tries = 0
    BY <2>5, FaultsGrow
  <2> QED
    BY <1>2, <2>3, <2>4, <2>5
<1> QED
  BY <1>1, <1>3, <1>4 DEF CopyInv

LEMMA CopiesCorrect == Spec => []CopyInv
<1>1. Init => CopyInv
  BY HandlerType DEF Init, CopyInv, CopiesAreOfEvents, HeldAreWanted, TriesAreFaults,
     Queued, Held
<1>2. TypeOK /\ CopyInv /\ [Next]_vars => CopyInv'
  BY CopyStep
<1> QED
  BY <1>1, <1>2, TypeCorrect, PTL DEF Spec

-----------------------------------------------------------------------------
\* A row, and an insert that is still under way, is of an event for this service:
\* no retry, duplicate or late insert makes a profile that the filter refused.
THEOREM OnlyDueRows == Spec => []RowsAreDue
<1>1. Init => RowsAreDue
  BY DEF Init, RowsAreDue
<1>2. TypeOK /\ CopyInv /\ RowsAreDue /\ [Next]_vars => RowsAreDue'
  <2> SUFFICES ASSUME TypeOK, CopyInv, RowsAreDue, [Next]_vars,
                      NEW i \in (rows \cup late)'
               PROVE  \E e \in Due' : e.id = i
    BY DEF RowsAreDue
  <2>1. Due \subseteq Due'
    BY RoutedStays DEF Due, Wanted
  <2>2. i \in rows \cup late \/ \E m \in Message : Held(m) /\ m.id = i
    <3>1. CASE \E m \in Message : Insert(m)
      BY <3>1 DEF Insert, HandlerDone, Held
    <3>2. CASE \E m \in Message : Retry(m)
      BY <3>2 DEF Retry, HandlerDone, Held, UpsertThrows
    <3>3. CASE \E m \in Message : GiveUp(m)
      BY <3>3 DEF GiveUp, Take, Held, UpsertThrows
    <3>4. CASE ChannelCloses
      BY <3>4 DEF ChannelCloses, Held
    <3>5. CASE \E j \in Signups : LateInsert(j)
      BY <3>5 DEF LateInsert
    <3>6. CASE \E m \in Message :
                 \/ DeliverMalformed(m) \/ DeliverForeign(m) \/ DeliverWanted(m)
                 \/ Ack(m) \/ TtlExpires(m)
      BY <3>6 DEF DeliverMalformed, DeliverForeign, DeliverWanted, Ack, TtlExpires, tableVars
    <3>7. CASE \/ Start \/ UNCHANGED vars
               \/ \E j \in Signups, wrapped \in Envelopes : Announce(j, wrapped)
      BY <3>7 DEF Start, Announce, vars, tableVars
    <3> QED
      BY <3>1, <3>2, <3>3, <3>4, <3>5, <3>6, <3>7 DEF Next, Work
  <2>3. ASSUME NEW m \in Message, Held(m), m.id = i
        PROVE  \E e \in Due : e.id = i
    BY <2>3 DEF CopyInv, CopiesAreOfEvents, HeldAreWanted, Due
  <2> QED
    BY <2>1, <2>2, <2>3 DEF RowsAreDue
<1> QED
  BY <1>1, <1>2, TypeCorrect, CopiesCorrect, PTL DEF Spec

-----------------------------------------------------------------------------
\* An event is dead-lettered for want of an insert only after one failure more
\* than there are retry queues, unless another row can have its e-mail or phone.
THEOREM RetriesRideOutFailures == Spec => []DeadOnlyAfterRetries
<1>1. Init => DeadOnlyAfterRetries
  BY DEF Init, DeadOnlyAfterRetries
<1>2. TypeOK /\ CopyInv /\ DeadOnlyAfterRetries /\ [Next]_vars => DeadOnlyAfterRetries'
  <2> SUFFICES ASSUME TypeOK, CopyInv, DeadOnlyAfterRetries, [Next]_vars,
                      NEW n \in Message, dead'[n] > 0, n.wrapped, Unrivalled(n.id)'
               PROVE  faults' > MaxRetries
    BY DEF DeadOnlyAfterRetries, Unrivalled
  <2>1. Unrivalled(n.id)
    BY UnrivalledBefore
  <2>2. dead[n] > 0 \/ GiveUp(n)
    <3>1. CASE \E m \in Message : DeliverMalformed(m)
      BY <3>1 DEF DeliverMalformed, TypeOK, Put
    <3>2. CASE \E m \in Message : GiveUp(m)
      BY <3>2 DEF GiveUp, TypeOK, Put
    <3>3. CASE \E m \in Message :
                 \/ DeliverForeign(m) \/ DeliverWanted(m) \/ Insert(m) \/ Retry(m)
                 \/ Ack(m) \/ TtlExpires(m)
      BY <3>3 DEF DeliverForeign, DeliverWanted, Insert, Retry, Ack, TtlExpires, queueVars
    <3>4. CASE \/ Start \/ ChannelCloses \/ UNCHANGED vars
               \/ \E j \in Signups : LateInsert(j)
               \/ \E j \in Signups, wrapped \in Envelopes : Announce(j, wrapped)
      BY <3>4 DEF Start, ChannelCloses, LateInsert, Announce, vars, queueVars
    <3> QED
      BY <3>1, <3>2, <3>3, <3>4 DEF Next, Work
  <2>3. CASE dead[n] > 0
    BY <2>1, <2>3, FaultsGrow, RetriesAssumption DEF DeadOnlyAfterRetries, Unrivalled
  <2>4. CASE GiveUp(n)
    <3>1. n.id \in Signups /\ n.tries \in Nat
      BY RetriesAssumption DEF Message
    <3>2. n.tries <= faults
      BY <2>1, <2>4 DEF GiveUp, Take, Held, CopyInv, TriesAreFaults
    <3>3. faults' = faults + 1
      BY <2>1, <2>4, <3>1, ThrowsByFault DEF GiveUp
    <3> QED
      BY <2>4, <3>1, <3>2, <3>3, FaultsGrow, RetriesAssumption DEF GiveUp
  <2> QED
    BY <2>2, <2>3, <2>4
<1> QED
  BY <1>1, <1>2, TypeCorrect, CopiesCorrect, PTL DEF Spec

-----------------------------------------------------------------------------
(***************************************************************************)
(* Nothing is lost.                                                         *)
(***************************************************************************)
\* The event of an identity is in safety: it has its row, or a copy remains that
\* leads to a row or a dead letter.
Safe(i) ==
    \/ i \in rows
    \/ DeadLettered(i)
    \/ \E m \in Message : m.id = i /\ (Queued(m) \/ held[<<m, "insert">>] > 0)

LEMMA SafeIsNothingLost == TypeOK => (NothingLost <=> \A e \in Due : Safe(e.id))
<1> SUFFICES ASSUME TypeOK
             PROVE  \A m \in Message :
                      main[m] + waiting[m] + held[<<m, "insert">>] > 0
                        <=> Queued(m) \/ held[<<m, "insert">>] > 0
  BY DEF NothingLost, Safe
<1> TAKE m \in Message
<1>1. main[m] \in Nat /\ waiting[m] \in Nat /\ held[<<m, "insert">>] \in Nat
  BY HandlerType DEF TypeOK
<1> QED
  BY <1>1 DEF Queued

\* A step takes no wanted identity out of safety: a copy that leaves one place
\* comes to the next, or has made the row.
LEMMA SafeStays ==
    ASSUME TypeOK, [Next]_vars, NEW i, Safe(i), Wanted(i)
    PROVE  Safe(i)'
<1> DEFINE Copy(m) == Queued(m) \/ held[<<m, "insert">>] > 0
<1>1. CASE i \in rows
  BY <1>1, RowsStay DEF Safe
<1>2. CASE DeadLettered(i)
  <2>1. ASSUME NEW m \in Message, dead[m] > 0 PROVE dead'[m] > 0
    <3>1. CASE \E n \in Message : DeliverMalformed(n) \/ GiveUp(n)
      BY <2>1, <3>1 DEF DeliverMalformed, GiveUp, TypeOK, Put
    <3>2. CASE dead' = dead
      BY <2>1, <3>2
    <3>3. \/ dead' = dead
          \/ \E n \in Message : DeliverMalformed(n) \/ GiveUp(n)
      BY DEF Next, Work, Start, Announce, DeliverForeign, DeliverWanted, Insert, Retry, Ack,
         TtlExpires, ChannelCloses, LateInsert, queueVars, vars
    <3> QED
      BY <3>1, <3>2, <3>3
  <2> QED
    BY <1>2, <2>1 DEF Safe, DeadLettered
<1>3. ASSUME NEW m \in Message, m.id = i, Copy(m) PROVE Safe(i)'
  <2>1. CASE Copy(m)'
    BY <1>3, <2>1 DEF Safe
  <2>2. CASE \E n \in Message : DeliverMalformed(n)
    <3>1. PICK n \in Message : DeliverMalformed(n)
      BY <2>2
    <3>2. dead'[n] > 0
      BY <3>1 DEF DeliverMalformed, TypeOK, Put
    <3>3. n = m \/ Copy(m)'
      BY <1>3, <3>1 DEF DeliverMalformed, TypeOK, Take, Queued
    <3> QED
      BY <1>3, <2>1, <3>2, <3>3 DEF Safe, DeadLettered
  <2>3. CASE \E n \in Message : DeliverForeign(n)
    BY <1>3, <2>1, <2>3 DEF DeliverForeign, TypeOK, Take, Queued
  <2>4. CASE \E n \in Message : DeliverWanted(n)
    <3>1. PICK n \in Message : DeliverWanted(n)
      BY <2>4
    <3>2. held'[<<n, "insert">>] > 0
      <4>1. held[<<n, "insert">>] \in Nat /\ <<n, "insert">> \in DOMAIN held
        BY HandlerType DEF TypeOK
      <4> QED
        BY <3>1, <4>1 DEF DeliverWanted, Put
    <3>3. n # m => Copy(m)'
      BY <1>3, <3>1, HandlerType DEF DeliverWanted, TypeOK, Take, Put, Queued
    <3> QED
      BY <2>1, <3>2, <3>3
  <2>5. CASE \E n \in Message : Insert(n)
    <3>1. PICK n \in Message : Insert(n)
      BY <2>5
    <3>2. n = m \/ Copy(m)'
      BY <1>3, <3>1, HandlerType DEF Insert, TypeOK, HandlerDone, Queued, queueVars
    <3> QED
      BY <1>3, <2>1, <3>1, <3>2 DEF Insert, Safe
  <2>6. CASE \E n \in Message : Retry(n)
    <3>1. PICK n \in Message : Retry(n)
      BY <2>6
    <3>2. createRetryMessage(n) \in Message /\ createRetryMessage(n).id = n.id
      BY <3>1, CopyType DEF Retry, createRetryMessage
    <3>3. Copy(createRetryMessage(n))'
      BY <3>1, <3>2 DEF Retry, TypeOK, Put, Queued
    <3>4. n = m \/ Copy(m)'
      <4>1. Queued(m) => Queued(m)'
        BY <3>1, <3>2 DEF Retry, TypeOK, Put, Queued
      <4>2. n # m => held'[<<m, "insert">>] = held[<<m, "insert">>]
        BY <3>1, HandlerType DEF Retry, TypeOK, HandlerDone
      <4> QED
        BY <1>3, <4>1, <4>2
    <3> QED
      BY <1>3, <2>1, <3>2, <3>3, <3>4 DEF Safe
  <2>7. CASE \E n \in Message : GiveUp(n)
    <3>1. PICK n \in Message : GiveUp(n)
      BY <2>7
    <3>2. dead'[n] > 0
      BY <3>1 DEF GiveUp, TypeOK, Put
    <3>3. n = m \/ Copy(m)'
      BY <1>3, <3>1, HandlerType DEF GiveUp, TypeOK, Take, Queued
    <3> QED
      BY <1>3, <2>1, <3>2, <3>3 DEF Safe, DeadLettered
  <2>8. CASE \E n \in Message : Ack(n)
    BY <1>3, <2>1, <2>8, HandlerType DEF Ack, TypeOK, Take, Queued, queueVars
  <2>9. CASE \E n \in Message : TtlExpires(n)
    BY <1>3, <2>1, <2>9 DEF TtlExpires, TypeOK, Take, Put, Queued
  <2>10. CASE ChannelCloses
    BY <1>3, <2>1, <2>10, HandlerType DEF ChannelCloses, TypeOK, Queued
  <2>11. CASE \E j \in Signups, wrapped \in Envelopes : Announce(j, wrapped)
    <3>1. PICK j \in Signups, wrapped \in Envelopes : Announce(j, wrapped)
      BY <2>11
    <3>2. [id |-> j, wrapped |-> wrapped, tries |-> 0] \in Message
      BY EventType
    <3> QED
      BY <1>3, <2>1, <3>1, <3>2 DEF Announce, TypeOK, Put, Queued
  <2>12. CASE Start \/ (\E j \in Signups : LateInsert(j)) \/ UNCHANGED vars
    BY <1>3, <2>1, <2>12, OthersMoveNothing DEF Queued, queueVars
  <2> QED
    BY <2>2, <2>3, <2>4, <2>5, <2>6, <2>7, <2>8, <2>9, <2>10, <2>11, <2>12 DEF Next, Work
<1> QED
  BY <1>1, <1>2, <1>3 DEF Safe

\* An event announced to a bound queue is in safety at once.
LEMMA NewEventIsSafe ==
    ASSUME TypeOK, [Next]_vars, NEW e \in routed', e \notin routed
    PROVE  Safe(e.id)'
<1>1. PICK i \in Signups, wrapped \in Envelopes : Announce(i, wrapped)
  BY RoutedStays, OthersMoveNothing DEF Next, eventVars
<1>2. /\ e = [id |-> i, wrapped |-> wrapped, tries |-> 0]
      /\ e \in Message
      /\ Put(main, e)
  BY <1>1, EventType DEF Announce
<1>3. main'[e] > 0
  BY <1>2 DEF TypeOK, Put
<1> QED
  BY <1>2, <1>3 DEF Safe, Queued

\* Crashes between insert, copy and acknowledgement duplicate events but never
\* lose one: it has a row, is on its way to one, or lies in the dead letter queue.
THEOREM NoEventLost == Spec => []NothingLost
<1> DEFINE AllSafe == \A e \in Due : Safe(e.id)
<1>1. Init => AllSafe
  BY DEF Init, Due
<1>2. TypeOK /\ AllSafe /\ [Next]_vars => AllSafe'
  <2> SUFFICES ASSUME TypeOK, AllSafe, [Next]_vars, NEW e \in Due'
               PROVE  Safe(e.id)'
    OBVIOUS
  <2>1. CASE e \in routed
    <3>1. e \in Due /\ Wanted(e.id)
      BY <2>1, RoutedStays DEF Due, Wanted
    <3> QED
      BY <3>1, SafeStays
  <2>2. CASE e \notin routed
    BY <2>2, NewEventIsSafe DEF Due
  <2> QED
    BY <2>1, <2>2
<1>3. TypeOK /\ AllSafe => NothingLost
  BY SafeIsNothingLost
<1> QED
  BY <1>1, <1>2, <1>3, TypeCorrect, PTL DEF Spec
-----------------------------------------------------------------------------
(***************************************************************************)
(* The auth service and a consumer.                                         *)
(***************************************************************************)
\* What came was published, and what is dead-lettered had come.
OnRecord ==
    /\ \A e \in routed : e.id \in announced
    /\ \A m \in Message : dead[m] > 0 => \E e \in routed : e.id = m.id

LEMMA OnRecordHolds == Spec => []OnRecord
<1>1. Init => OnRecord
  BY DEF Init, OnRecord
<1>2. TypeOK /\ CopyInv /\ OnRecord /\ [Next]_vars => OnRecord'
  <2> SUFFICES ASSUME TypeOK, CopyInv, OnRecord, [Next]_vars PROVE OnRecord'
    OBVIOUS
  <2>1. CASE \E i \in Signups, wrapped \in Envelopes : Announce(i, wrapped)
    BY <2>1 DEF Announce, OnRecord
  <2>2. CASE \E m \in Message : DeliverMalformed(m) \/ GiveUp(m)
    <3>1. PICK m \in Message : DeliverMalformed(m) \/ GiveUp(m)
      BY <2>2
    <3>2. \E e \in routed : e.id = m.id
      BY <3>1 DEF CopyInv, CopiesAreOfEvents, Queued, Held, DeliverMalformed, GiveUp, Take
    <3>3. \A n \in Message : dead'[n] > 0 => n = m \/ dead[n] > 0
      BY <3>1 DEF DeliverMalformed, GiveUp, TypeOK, Put
    <3>4. UNCHANGED eventVars
      BY <3>1 DEF DeliverMalformed, GiveUp
    <3> QED
      BY <3>2, <3>3, <3>4 DEF OnRecord, eventVars
  <2>3. CASE \E m \in Message :
               \/ DeliverForeign(m) \/ DeliverWanted(m) \/ Insert(m) \/ Retry(m)
               \/ Ack(m) \/ TtlExpires(m)
    BY <2>3 DEF DeliverForeign, DeliverWanted, Insert, Retry, Ack, TtlExpires, OnRecord,
       eventVars, queueVars
  <2>4. CASE \/ Start \/ ChannelCloses \/ UNCHANGED vars
             \/ \E i \in Signups : LateInsert(i)
    BY <2>4 DEF Start, ChannelCloses, LateInsert, OnRecord, vars, eventVars, queueVars
  <2> QED
    BY <2>1, <2>2, <2>3, <2>4 DEF Next, Work
<1> QED
  BY <1>1, <1>2, TypeCorrect, CopiesCorrect, PTL DEF Spec

\* Each step is one of the auth service or leaves it alone, and one of the
\* consumer or leaves it alone; publishing is both.
LEMMA OnboardingSteps ==
    ASSUME [OnboardingNext]_onboardingVars
    PROVE  [AuthNext]_authVars /\ [Next]_vars
<1>1. CASE \E s \in Signups : Publish(s)
  <2>1. PICK s \in Signups, wrapped \in Envelopes : Announce(s, wrapped) /\ SignupPublish(s)
    BY <1>1 DEF Publish
  <2> QED
    BY <2>1 DEF AuthNext, AuthInner, Next
<1>2. CASE AuthMoves
  BY <1>2 DEF AuthMoves, consumerVars, vars, eventVars
<1>3. CASE ConsumerMoves
  BY <1>3 DEF ConsumerMoves, Next
<1>4. CASE UNCHANGED onboardingVars
  <2>1. UNCHANGED authVars /\ announced' = announced
    BY <1>4 DEF onboardingVars, authVars, signupVars
  <2> QED
    BY <1>4, <2>1 DEF onboardingVars, consumerVars, vars, eventVars
<1> QED
  BY <1>1, <1>2, <1>3, <1>4 DEF OnboardingNext

\* Composed with a consumer the auth service does what Auth says, whose other
\* reader of an event just takes it.
THEOREM OnboardingIsAuth == OnboardingSpec => AuthSpec
<1>1. OnboardingInit => AuthInit
  BY DEF OnboardingInit
<1>2. [OnboardingNext]_onboardingVars => [AuthNext]_authVars
  BY OnboardingSteps
<1> QED
  BY <1>1, <1>2, PTL DEF OnboardingSpec, AuthSpec

\* Fed by the auth service the consumer does what Signup says of any events.
THEOREM OnboardingIsSignup == OnboardingSpec => Spec
<1>1. OnboardingInit => Init
  BY DEF OnboardingInit
<1>2. [OnboardingNext]_onboardingVars => [Next]_vars
  BY OnboardingSteps
<1> QED
  BY <1>1, <1>2, PTL DEF OnboardingSpec, Spec

\* A profile, and one that a late insert may yet make, is of an identity that is
\* stored with all its rows, whether or not its signup ends well.
THEOREM ProfilesAreOfIdentities == OnboardingSpec => []ProfileIsOfIdentity
<1>1. RowsAreDue /\ OnRecord /\ AnnouncedIsStored => ProfileIsOfIdentity
  BY DEF RowsAreDue, OnRecord, AnnouncedIsStored, ProfileIsOfIdentity, Due
<1> QED
  BY <1>1, OnboardingIsAuth, OnboardingIsSignup, AnnouncedSignupsAreStored, OnlyDueRows,
     OnRecordHolds, PTL

\* As long as no more inserts failed than there are retry queues, an event that
\* cannot have its row is one of the user service, and the row it misses is that
\* of an account of another type.
THEOREM DeadLettersAreOtherAccounts == OnboardingSpec => []DeadNeedsOtherAccount
<1>1. /\ TypeOK /\ DeadOnlyAfterRetries /\ RowsAreDue /\ OnRecord
      /\ AnnouncedIsStored /\ OneIdentityPerContact
      => DeadNeedsOtherAccount
  <2> SUFFICES ASSUME TypeOK, DeadOnlyAfterRetries, RowsAreDue, OnRecord,
                      AnnouncedIsStored, OneIdentityPerContact,
                      NEW m \in Message, dead[m] > 0, m.wrapped, faults <= MaxRetries
               PROVE  /\ service = "user"
                      /\ \E i \in rows \cap identities :
                           Rival(m.id, i) /\ AccountTypeOf[i] # AccountTypeOf[m.id]
    BY DEF DeadNeedsOtherAccount
  <2>1. ~(faults > MaxRetries)
    BY RetriesAssumption, BoundAssumption DEF TypeOK
  <2>2. service = "user" /\ \E i \in rows : Rival(m.id, i)
    BY <2>1 DEF DeadOnlyAfterRetries
  <2>3. PICK i \in rows : Rival(m.id, i)
    BY <2>2
  <2>4. m.id \in identities /\ i \in identities
    BY DEF OnRecord, RowsAreDue, Due, AnnouncedIsStored
  <2>5. m.id \in Signups /\ i \in Signups
    BY DEF Message, TypeOK
  <2>6. ContactsOf[i] \cap ContactsOf[m.id] = {}
    BY <2>3, <2>4 DEF OneIdentityPerContact, Rival
  <2>7. AccountTypeOf[i] # AccountTypeOf[m.id]
    BY <2>3, <2>5, <2>6, NormalFormAssumption DEF Rival
  <2> QED
    BY <2>2, <2>3, <2>4, <2>7
<1> QED
  BY <1>1, OnboardingIsAuth, OnboardingIsSignup, TypeCorrect, RetriesRideOutFailures,
     OnlyDueRows, OnRecordHolds, AnnouncedSignupsAreStored, ContactsAreUnique, PTL
=============================================================================
