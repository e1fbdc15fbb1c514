------------------------------- MODULE Signup -------------------------------
(***************************************************************************)
(* From a signup event to a profile.  The auth service publishes            *)
(* user.signed_up on the exchange auth.events; the user service and the     *)
(* provider service each consume it from a queue of their own and insert a  *)
(* row.  A message whose row cannot be inserted is copied to one of the     *)
(* retry queues, whose time to live brings it back, and goes to the dead    *)
(* letter queue in the end.                                                 *)
(*                                                                          *)
(* The two consumers share nothing but the event and are the same program,  *)
(* except for the events they keep and the unique columns of their table:   *)
(* a behaviour is that of one of them, which Init chooses.  Queues are      *)
(* bags, since copies of a message are many and their order is immaterial.  *)
(***************************************************************************)
EXTENDS Naturals, SignupEvent

CONSTANTS
    AccountOf,    \* the account type each event names
    AddressesOf,  \* the e-mail and the phone each event names, as they were typed
    Envelopes,    \* whether a published message has the field payload
    MaxRetries,   \* MAX_RETRIES, the number of retry queues: 3 in both services
    MaxFaults,    \* bound: inserts that fail
    MaxCloses     \* bound: times the consumer's channel closes

ASSUME AccountAssumption == AccountOf \in [Signups -> {"USER", "PROVIDER"}]
ASSUME EnvelopeAssumption == Envelopes \subseteq BOOLEAN
ASSUME RetriesAssumption == MaxRetries \in Nat
ASSUME BoundAssumption == MaxFaults \in Nat /\ MaxCloses \in Nat

\* tries is metadata.retryCount; a message without metadata counts as 0.
Message == [id : Signups, wrapped : BOOLEAN, tries : 0..MaxRetries]

\* A handler is at the insert, or has the row or has sent the copy.
Handler == Message \X {"insert", "done"}

VARIABLES
    service,    \* whose consumer this is
    consumer,   \* its channel
    routed,     \* events that reached the main queue, for the properties
    main,       \* the main queue
    waiting,    \* the retry queues
    dead,       \* the dead letter queue
    held,       \* unacknowledged messages, by how far their handlers have come
    rows,       \* identities with a row in the service's table
    late,       \* inserts of handlers whose channel has closed since
    faults,
    closes

eventVars == <<announced, routed>>
queueVars == <<main, waiting, dead>>
tableVars == <<rows, late>>
countVars == <<faults, closes>>
vars == <<service, consumer, eventVars, queueVars, held, tableVars, countVars>>

TypeOK ==
    /\ service \in {"user", "provider"}
    /\ consumer \in {"new", "open", "closed"}
    /\ announced \subseteq Signups
    /\ routed \subseteq [id : Signups, wrapped : Envelopes, tries : {0}]
    /\ main \in [Message -> Nat]
    /\ waiting \in [Message -> Nat]
    /\ dead \in [Message -> Nat]
    /\ held \in [Handler -> Nat]
    /\ rows \subseteq Signups
    /\ late \subseteq Signups
    /\ faults \in 0..MaxFaults
    /\ closes \in 0..MaxCloses

Init ==
    /\ service \in {"user", "provider"}
    /\ consumer = "new"
    /\ announced = {} /\ routed = {}
    /\ main = [m \in Message |-> 0]
    /\ waiting = [m \in Message |-> 0]
    /\ dead = [m \in Message |-> 0]
    /\ held = [h \in Handler |-> 0]
    /\ rows = {} /\ late = {}
    /\ faults = 0 /\ closes = 0

-----------------------------------------------------------------------------
Put(queue, m) == queue' = [queue EXCEPT ![m] = @ + 1]

Take(queue, m) == queue[m] > 0 /\ queue' = [queue EXCEPT ![m] = @ - 1]

HandlerDone(m) ==
    /\ held[<<m, "insert">>] > 0
    /\ held' = [held EXCEPT ![<<m, "insert">>] = @ - 1, ![<<m, "done">>] = @ + 1]

createRetryMessage(m) == [id |-> m.id, wrapped |-> TRUE, tries |-> m.tries + 1]

\* The user service makes a row of everyone, the provider service of providers.
Wanted(i) == service = "user" \/ AccountOf[i] = "PROVIDER"

\* They cannot both be users: an e-mail and a phone are unique in their table,
\* whatever the type of the account.
Rival(i, j) == i # j /\ AddressesOf[i] \cap AddressesOf[j] # {}

\* The upsert finds the row, or no other has the e-mail or the phone.
CanUpsert(i) ==
    service = "user" => i \in rows \/ ~\E j \in rows : Rival(i, j)

-----------------------------------------------------------------------------
\* Mutant: the channel's close does not start the consumer again.
StartOnce ==
    /\ consumer = "new"
    /\ consumer' = "open"
    /\ UNCHANGED <<service, eventVars, queueVars, held, tableVars, countVars>>

\* startUserSignedUpConsumer, startProviderSignedUpConsumer: the first time it
\* also declares the queues and binds the main one, which outlive the channel.
Start ==
    /\ consumer # "open"
    /\ consumer' = "open"
    /\ UNCHANGED <<service, eventVars, queueVars, held, tableVars, countVars>>

\* publishUserSignedUpEvent.  The exchange copies the event to the queue that is
\* bound by now; where there is none the event is gone.
Announce(i, wrapped) ==
    LET m == [id |-> i, wrapped |-> wrapped, tries |-> 0]
    IN  /\ i \notin announced
        /\ announced' = announced \cup {i}
        /\ \/ consumer = "new" /\ UNCHANGED <<routed, main>>
           \/ consumer # "new" /\ Put(main, m) /\ routed' = routed \cup {m}
        /\ UNCHANGED <<service, consumer, waiting, dead, held, tableVars, countVars>>

\* parseMessage throws: nack without requeue.
DeliverMalformed(m) ==
    /\ consumer = "open"
    /\ ~m.wrapped
    /\ Take(main, m) /\ Put(dead, m)
    /\ UNCHANGED <<service, consumer, eventVars, waiting, held, tableVars, countVars>>

\* Another service's account type: ack.
DeliverForeign(m) ==
    /\ consumer = "open"
    /\ m.wrapped /\ ~Wanted(m.id)
    /\ Take(main, m)
    /\ UNCHANGED <<service, consumer, eventVars, waiting, dead, held, tableVars, countVars>>

\* Mutant: the account type is not looked at.
DeliverUnfiltered(m) ==
    /\ consumer = "open"
    /\ m.wrapped
    /\ Take(main, m) /\ Put(held, <<m, "insert">>)
    /\ UNCHANGED <<service, consumer, eventVars, waiting, dead, tableVars, countVars>>

DeliverWanted(m) ==
    /\ consumer = "open"
    /\ m.wrapped /\ Wanted(m.id)
    /\ Take(main, m) /\ Put(held, <<m, "insert">>)
    /\ UNCHANGED <<service, consumer, eventVars, waiting, dead, tableVars, countVars>>

\* createUser, createProvider
Insert(m) ==
    /\ CanUpsert(m.id)
    /\ HandlerDone(m)
    /\ rows' = rows \cup {m.id}
    /\ UNCHANGED <<service, consumer, eventVars, queueVars, late, countVars>>

\* The upsert throws: the e-mail or phone is taken, or the database fails, before
\* the row was written or after.
UpsertThrows(i) ==
    \/ ~CanUpsert(i) /\ UNCHANGED <<rows, faults>>
    \/ /\ faults < MaxFaults
       /\ faults' = faults + 1
       /\ UNCHANGED rows \/ (CanUpsert(i) /\ rows' = rows \cup {i})

\* The copy is sent to a retry queue, before the message itself is acknowledged.
Retry(m) ==
    /\ m.tries < MaxRetries
    /\ HandlerDone(m)
    /\ UpsertThrows(m.id)
    /\ Put(waiting, createRetryMessage(m))
    /\ UNCHANGED <<service, consumer, eventVars, main, dead, late, closes>>

\* Mutant: the last retry queue is never used.
GiveUpEarly(m) ==
    /\ m.tries + 1 >= MaxRetries
    /\ Take(held, <<m, "insert">>)
    /\ UpsertThrows(m.id)
    /\ Put(dead, m)
    /\ UNCHANGED <<service, consumer, eventVars, main, waiting, late, closes>>

\* Max retries exceeded: nack without requeue.
GiveUp(m) ==
    /\ m.tries >= MaxRetries
    /\ Take(held, <<m, "insert">>)
    /\ UpsertThrows(m.id)
    /\ Put(dead, m)
    /\ UNCHANGED <<service, consumer, eventVars, main, waiting, late, closes>>

Ack(m) ==
    /\ Take(held, <<m, "done">>)
    /\ UNCHANGED <<service, consumer, eventVars, queueVars, tableVars, countVars>>

\* The time to live is over, and the message is back in the main queue.
TtlExpires(m) ==
    /\ Take(waiting, m) /\ Put(main, m)
    /\ UNCHANGED <<service, consumer, eventVars, dead, held, tableVars, countVars>>

\* Mutant: the consumer is started with noAck.
ChannelClosesNoAck ==
    /\ consumer = "open"
    /\ closes < MaxCloses
    /\ closes' = closes + 1
    /\ consumer' = "closed"
    /\ held' = [h \in Handler |-> 0]
    /\ late' = late \cup {m.id : m \in {n \in Message : held[<<n, "insert">>] > 0}}
    /\ UNCHANGED <<service, eventVars, queueVars, rows, faults>>

\* The channel closes, or the instance stops: the broker queues every message
\* that is not acknowledged again; an insert under way may still be carried out.
ChannelCloses ==
    /\ consumer = "open"
    /\ closes < MaxCloses
    /\ closes' = closes + 1
    /\ consumer' = "closed"
    /\ main' = [m \in Message |-> main[m] + held[<<m, "insert">>] + held[<<m, "done">>]]
    /\ held' = [h \in Handler |-> 0]
    /\ late' = late \cup {m.id : m \in {n \in Message : held[<<n, "insert">>] > 0}}
    /\ UNCHANGED <<service, eventVars, waiting, dead, rows, faults>>

LateInsert(i) ==
    /\ i \in late
    /\ late' = late \ {i}
    /\ UNCHANGED rows \/ (CanUpsert(i) /\ rows' = rows \cup {i})
    /\ UNCHANGED <<service, consumer, eventVars, queueVars, held, countVars>>

-----------------------------------------------------------------------------
\* What the broker and a consumer with an open channel do of themselves.
Work ==
    \E m \in Message :
        \/ DeliverMalformed(m) \/ DeliverForeign(m) \/ DeliverWanted(m)
        \/ Insert(m) \/ Retry(m) \/ GiveUp(m) \/ Ack(m)
        \/ TtlExpires(m)

Next ==
    \/ Start
    \/ \E i \in Signups, wrapped \in Envelopes : Announce(i, wrapped)
    \/ Work
    \/ ChannelCloses
    \/ \E i \in Signups : LateInsert(i)

Spec == Init /\ [][Next]_vars

(***************************************************************************)
(* A consumer starts again when its channel closes or its start fails, by   *)
(* the timers of its close and catch handlers; it and the broker do not     *)
(* both stand still while either has a message to move.  Nothing is assumed *)
(* of signups, failures, closing channels or late inserts.                  *)
(***************************************************************************)
FairSpec == Spec /\ WF_vars(Start) /\ WF_vars(Work)

-----------------------------------------------------------------------------
(***************************************************************************)
(* Properties                                                               *)
(***************************************************************************)
\* Events the service has to make a row of.
Due == {m \in routed : m.wrapped /\ Wanted(m.id)}

DeadLettered(i) == \E m \in Message : m.id = i /\ dead[m] > 0

\* No event is lost between the copy and the acknowledgement, nor by a channel
\* that closes: one for this service has made its row, or a copy of it is in a
\* queue, with a handler yet to insert, or dead-lettered.
NothingLost ==
    \A e \in Due :
        \/ e.id \in rows
        \/ DeadLettered(e.id)
        \/ \E m \in Message :
             m.id = e.id /\ main[m] + waiting[m] + held[<<m, "insert">>] > 0

\* FEATURES.md 1, "filters by accountType": every row is of an event that came
\* for this service; no retry, duplicate or late insert makes a profile for an
\* account it refused.
RowsAreDue == \A i \in rows \cup late : \E e \in Due : e.id = i

\* Failures are ridden out by the retry queues: an event that no row conflicts
\* with is dead-lettered only after more inserts have failed than there are
\* retry queues, however often the channel closed.
DeadOnlyAfterRetries ==
    \A m \in Message :
        /\ dead[m] > 0 /\ m.wrapped
        /\ service = "user" => ~\E j \in rows : Rival(m.id, j)
        => faults > MaxRetries

\* No event circles for ever: each ends as a row or as a dead letter.
Settled ==
    \A i \in Signups :
        (\E e \in Due : e.id = i) ~> i \in rows \/ DeadLettered(i)

\* FEATURES.md 1: "Provider service consumes the event, filters by accountType
\* === 'PROVIDER', and creates a Provider record".
ProvidersAreCreated ==
    \A i \in Signups :
        /\ service = "provider" /\ AccountOf[i] = "PROVIDER"
        /\ \E m \in routed : m.id = i
        ~> i \in rows
=============================================================================
