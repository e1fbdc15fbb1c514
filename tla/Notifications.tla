---------------------------- MODULE Notifications ----------------------------
(***************************************************************************)
(* The notification service: the queue the other services publish to, its   *)
(* consumer, the channels a notification is sent by, and the rows of the    *)
(* in-app channel with their read flags.                                    *)
(*                                                                          *)
(* The consumer takes one message at a time (prefetch 1), tries every       *)
(* channel it asks for, and acknowledges it whatever they answered.  When   *)
(* the channel to the broker closes first, the message comes again, while   *)
(* what the gone handler had begun may still be carried out.                *)
(***************************************************************************)
EXTENDS Naturals, Sequences

CONSTANTS
    Ids, Users,
    Notes,        \* notifications
    Nothing,      \* no notification
    Configured,   \* channels that are set up: in_app, and email if SMTP is
    MaxCloses     \* bound: times the consumer's channel closes

Channels == {"in_app", "email"}

\* A payload: emailTo and the other required fields are there or not.  The list
\* "channels" that takes precedence over "channel" is set by no publisher.
Note == [id : Ids, userAuthId : Users, channel : Channels \cup {"both"},
         emailTo : BOOLEAN, complete : BOOLEAN]

ASSUME NoteAssumption == Notes \subseteq Note /\ Nothing \notin Notes
ASSUME ConfiguredAssumption == Configured \subseteq Channels
ASSUME CloseAssumption == MaxCloses \in Nat

VARIABLES
    consumer,   \* its channel to the broker
    queue,      \* notification-service.in-app
    handling,   \* the message that is not acknowledged yet
    todo,       \* ... and the channels its handler has yet to hear from
    late,       \* sends of handlers whose channel has closed since
    rows,       \* rows of notifications, by note,
    unread,     \* ... and how many of them have no readAt
    mails,      \* mails that were sent
    closes,
    \* for the properties
    routed,     \* notes that reached the queue
    tried       \* sends that were begun and have ended, well or not

queueVars == <<consumer, queue>>
handlerVars == <<handling, todo>>
outVars == <<late, rows, unread, mails, tried>>
noteVars == <<queueVars, handlerVars, outVars, closes, routed>>

NoteTypeOK ==
    /\ consumer \in {"new", "open", "closed"}
    /\ queue \in Seq(Notes)
    /\ handling \in Notes \cup {Nothing}
    /\ todo \subseteq Channels
    /\ handling = Nothing => todo = {}
    /\ late \in [Notes \X Channels -> Nat]
    /\ rows \in [Notes -> Nat]
    /\ unread \in [Notes -> Nat]
    /\ mails \in [Notes -> Nat]
    /\ closes \in 0..MaxCloses
    /\ routed \subseteq Notes
    /\ tried \subseteq Notes \X Channels

NoteInit ==
    /\ consumer = "new"
    /\ queue = <<>>
    /\ handling = Nothing /\ todo = {}
    /\ late = [s \in Notes \X Channels |-> 0]
    /\ rows = [n \in Notes |-> 0]
    /\ unread = [n \in Notes |-> 0]
    /\ mails = [n \in Notes |-> 0]
    /\ closes = 0
    /\ routed = {} /\ tried = {}

-----------------------------------------------------------------------------
resolveChannelsFromLegacy(channel) == IF channel = "both" THEN Channels ELSE {channel}

\* normalizePayload and getRequestedChannels
getRequestedChannels(n) == resolveChannelsFromLegacy(n.channel) \cap Configured

\* Mutant: the channel's close does not start the consumer again.
StartOnce ==
    /\ consumer = "new"
    /\ consumer' = "open"
    /\ UNCHANGED <<queue, handlerVars, outVars, closes, routed>>

\* startNotificationConsumer: the first time it also declares the queue and
\* binds it; the queue outlives the channel.
Start ==
    /\ consumer # "open"
    /\ consumer' = "open"
    /\ UNCHANGED <<queue, handlerVars, outVars, closes, routed>>

\* publishAuthNotification, publishNotification: what is published before the
\* queue is bound is gone.
Publish(n) ==
    /\ n \notin routed
    /\ IF consumer = "new" THEN UNCHANGED <<queue, routed>>
       ELSE queue' = Append(queue, n) /\ routed' = routed \cup {n}
    /\ UNCHANGED <<consumer, handlerVars, outVars, closes>>

\* prefetch(1)
CanTake == consumer = "open" /\ handling = Nothing /\ queue # <<>>

\* parsePayload throws: nack without requeue, and there is no dead letter queue.
DeliverInvalid ==
    /\ CanTake
    /\ ~Head(queue).complete
    /\ queue' = Tail(queue)
    /\ UNCHANGED <<consumer, handlerVars, outVars, closes, routed>>

Deliver ==
    /\ CanTake
    /\ Head(queue).complete
    /\ queue' = Tail(queue)
    /\ handling' = Head(queue)
    /\ todo' = getRequestedChannels(Head(queue))
    /\ UNCHANGED <<consumer, outVars, closes, routed>>

\* What a send comes to: it is carried out, or it fails, having been carried
\* out or not.  A mail without an address is not sent.
Effect(n, ch) ==
    /\ tried' = tried \cup {<<n, ch>>}
    /\ \/ /\ ch = "in_app"
          /\ rows' = [rows EXCEPT ![n] = @ + 1]
          /\ unread' = [unread EXCEPT ![n] = @ + 1]
          /\ UNCHANGED mails
       \/ /\ ch = "email" /\ n.emailTo
          /\ mails' = [mails EXCEPT ![n] = @ + 1]
          /\ UNCHANGED <<rows, unread>>
       \/ UNCHANGED <<rows, unread, mails>>

\* dispatch: the sends run side by side and none stops another (allSettled).
Send(ch) ==
    /\ ch \in todo
    /\ todo' = todo \ {ch}
    /\ Effect(handling, ch)
    /\ UNCHANGED <<queueVars, handling, late, closes, routed>>

\* Mutant: a message one of whose channels failed is queued again.
AckOrRequeue ==
    /\ handling # Nothing
    /\ todo = {}
    /\ handling' = Nothing
    /\ \/ UNCHANGED queue
       \/ queue' = <<handling>> \o queue
    /\ UNCHANGED <<consumer, todo, outVars, closes, routed>>

Ack ==
    /\ handling # Nothing
    /\ todo = {}
    /\ handling' = Nothing
    /\ UNCHANGED <<queueVars, todo, outVars, closes, routed>>

\* Mutant: the consumer is started with noAck.
ChannelClosesNoAck ==
    /\ consumer = "open"
    /\ closes < MaxCloses
    /\ closes' = closes + 1
    /\ consumer' = "closed"
    /\ handling' = Nothing /\ todo' = {}
    /\ UNCHANGED <<queue, outVars, routed>>

\* The channel closes, or the instance stops: the broker has the message back,
\* and sends under way may still be carried out.
ChannelCloses ==
    /\ consumer = "open"
    /\ closes < MaxCloses
    /\ closes' = closes + 1
    /\ consumer' = "closed"
    /\ queue' = IF handling = Nothing THEN queue ELSE <<handling>> \o queue
    /\ handling' = Nothing /\ todo' = {}
    /\ late' = [s \in Notes \X Channels |->
                  IF s[1] = handling /\ s[2] \in todo THEN late[s] + 1 ELSE late[s]]
    /\ UNCHANGED <<rows, unread, mails, routed, tried>>

LateSend(n, ch) ==
    /\ late[<<n, ch>>] > 0
    /\ late' = [late EXCEPT ![<<n, ch>>] = @ - 1]
    /\ Effect(n, ch)
    /\ UNCHANGED <<queueVars, handlerVars, closes, routed>>

\* markAsRead, of one row that is unread; a second time it changes nothing.
MarkAsRead(n) ==
    /\ unread[n] > 0
    /\ unread' = [unread EXCEPT ![n] = @ - 1]
    /\ UNCHANGED <<queueVars, handlerVars, late, rows, mails, tried, closes, routed>>

markAllAsRead(u) ==
    /\ \E n \in Notes : n.userAuthId = u /\ unread[n] > 0
    /\ unread' = [n \in Notes |-> IF n.userAuthId = u THEN 0 ELSE unread[n]]
    /\ UNCHANGED <<queueVars, handlerVars, late, rows, mails, tried, closes, routed>>

-----------------------------------------------------------------------------
\* What broker and consumer do of themselves.
Work == Start \/ DeliverInvalid \/ Deliver \/ (\E ch \in Channels : Send(ch)) \/ Ack

NoteInner ==
    \/ Work
    \/ ChannelCloses
    \/ \E n \in Notes : MarkAsRead(n) \/ \E ch \in Channels : LateSend(n, ch)
    \/ \E u \in Users : markAllAsRead(u)

NoteNext == NoteInner \/ \E n \in Notes : Publish(n)

NoteSpec == NoteInit /\ [][NoteNext]_noteVars

\* The consumer starts again when its channel closes or its start fails, by the
\* timers of both handlers, and a send ends, well or not.
FairNotes == NoteSpec /\ WF_noteVars(Work)

-----------------------------------------------------------------------------
(***************************************************************************)
(* Properties                                                               *)
(***************************************************************************)
InQueue(n) == \E i \in 1..Len(queue) : queue[i] = n

Wanted(n) == resolveChannelsFromLegacy(n.channel) \cap Configured

Served(n) == \A ch \in Wanted(n) : <<n, ch>> \in tried

\* No notification that reached the queue is lost, however often the channel
\* closes: it is in the queue, or its handler runs, or every channel it asks
\* for was tried.
NothingSkipped ==
    \A n \in {m \in routed : m.complete} :
        \/ InQueue(n)
        \/ Served(n)
        \/ handling = n /\ \A ch \in Wanted(n) : ch \in todo \/ <<n, ch>> \in tried

\* A user sees a notification twice only because the consumer's channel closed
\* while it was handled: at most once more for each time.
DoubledByClosesOnly ==
    \A n \in Notes : rows[n] <= 1 + closes /\ mails[n] <= 1 + closes

\* The consumer comes back and catches up, again and again: whatever has been
\* queued by then was tried by every channel it asks for.
EventuallyServed == []<>(\A n \in routed : n.complete => Served(n))
=============================================================================
