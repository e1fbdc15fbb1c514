--------------------------- MODULE Accounts_proofs ---------------------------
(***************************************************************************)
(* The notification service for any notifications, channels and closings    *)
(* of its channel; and the proof that with it the auth service does what    *)
(* Auth says.                                                               *)
(***************************************************************************)
EXTENDS Accounts, Auth_proofs

-----------------------------------------------------------------------------
(***************************************************************************)
(* The queue                                                                *)
(***************************************************************************)
Holds(s, n) == \E i \in 1..Len(s) : s[i] = n

Distinct(s) == \A i, j \in 1..Len(s) : s[i] = s[j] => i = j

LEMMA TailHolds ==
    ASSUME NEW S, NEW s \in Seq(S), s # <<>>
    PROVE  /\ Head(s) \in S /\ Tail(s) \in Seq(S)
           /\ \A n : Holds(s, n) <=> n = Head(s) \/ Holds(Tail(s), n)
           /\ Distinct(s) => Distinct(Tail(s)) /\ ~Holds(Tail(s), Head(s))
<1>1. /\ Head(s) = s[1] /\ Head(s) \in S /\ Tail(s) \in Seq(S) /\ Len(s) \in Nat \ {0}
      /\ Len(Tail(s)) = Len(s) - 1
      /\ \A i \in 1..(Len(s) - 1) : Tail(s)[i] = s[i + 1]
  OBVIOUS
<1>2. ASSUME NEW n, Holds(s, n), n # Head(s) PROVE Holds(Tail(s), n)
  <2>1. PICK i \in 1..Len(s) : s[i] = n
    BY <1>2 DEF Holds
  <2>2. i - 1 \in 1..Len(Tail(s)) /\ Tail(s)[i - 1] = n
    BY <1>1, <1>2, <2>1
  <2> QED
    BY <2>2 DEF Holds
<1>3. ASSUME NEW n, Holds(Tail(s), n) PROVE Holds(s, n)
  <2>1. PICK i \in 1..Len(Tail(s)) : Tail(s)[i] = n
    BY <1>3 DEF Holds
  <2>2. i + 1 \in 1..Len(s) /\ s[i + 1] = n
    BY <1>1, <2>1
  <2> QED
    BY <2>2 DEF Holds
<1>4. Holds(s, Head(s))
  BY <1>1 DEF Holds
<1>5. ASSUME Distinct(s) PROVE Distinct(Tail(s)) /\ ~Holds(Tail(s), Head(s))
  BY <1>1, <1>5 DEF Distinct, Holds
<1> QED
  BY <1>1, <1>2, <1>3, <1>4, <1>5

LEMMA AppendHolds ==
    ASSUME NEW S, NEW s \in Seq(S), NEW m \in S
    PROVE  /\ Append(s, m) \in Seq(S)
           /\ \A n : Holds(Append(s, m), n) <=> n = m \/ Holds(s, n)
           /\ Distinct(s) /\ ~Holds(s, m) => Distinct(Append(s, m))
<1>1. /\ Append(s, m) \in Seq(S) /\ Len(s) \in Nat
      /\ Len(Append(s, m)) = Len(s) + 1
      /\ Append(s, m)[Len(s) + 1] = m
      /\ \A i \in 1..Len(s) : Append(s, m)[i] = s[i]
  OBVIOUS
<1> QED
  BY <1>1 DEF Holds, Distinct

LEMMA FrontHolds ==
    ASSUME NEW S, NEW s \in Seq(S), NEW m \in S
    PROVE  /\ <<m>> \o s \in Seq(S)
           /\ \A n : Holds(<<m>> \o s, n) <=> n = m \/ Holds(s, n)
           /\ Distinct(s) /\ ~Holds(s, m) => Distinct(<<m>> \o s)
<1> DEFINE t == <<m>> \o s
<1>1. /\ t \in Seq(S) /\ Len(s) \in Nat
      /\ Len(t) = Len(s) + 1
      /\ t[1] = m
      /\ \A i \in 1..Len(s) : t[i + 1] = s[i]
      /\ \A i \in 2..Len(t) : t[i] = s[i - 1]
  OBVIOUS
<1> HIDE DEF t
<1>2. ASSUME NEW n, Holds(t, n), n # m PROVE Holds(s, n)
  <2>1. PICK i \in 1..Len(t) : t[i] = n
    BY <1>2 DEF Holds
  <2>2. i - 1 \in 1..Len(s) /\ s[i - 1] = n
    BY <1>1, <1>2, <2>1
  <2> QED
    BY <2>2 DEF Holds
<1>3. ASSUME NEW n, n = m \/ Holds(s, n) PROVE Holds(t, n)
  <2>1. CASE n = m
    BY <1>1, <2>1 DEF Holds
  <2>2. CASE Holds(s, n)
    <3>1. PICK i \in 1..Len(s) : s[i] = n
      BY <2>2 DEF Holds
    <3>2. i + 1 \in 1..Len(t) /\ t[i + 1] = n
      BY <1>1, <3>1
    <3> QED
      BY <3>2 DEF Holds
  <2> QED
    BY <1>3, <2>1, <2>2
<1>4. ASSUME Distinct(s), ~Holds(s, m) PROVE Distinct(t)
  <2> SUFFICES ASSUME NEW i \in 1..Len(t), NEW j \in 1..Len(t), t[i] = t[j] PROVE i = j
    BY DEF Distinct
  <2>1. \A k \in 2..Len(t) : k - 1 \in 1..Len(s) /\ t[k] = s[k - 1] /\ t[k] # m
    BY <1>1, <1>4 DEF Holds
  <2>2. CASE i = 1 \/ j = 1
    <3>1. \A k \in 1..Len(t) : k = 1 \/ k \in 2..Len(t)
      BY <1>1
    <3>2. t[i] = m /\ t[j] = m
      BY <1>1, <2>2
    <3> QED
      BY <2>1, <3>1, <3>2
  <2>3. CASE i \in 2..Len(t) /\ j \in 2..Len(t)
    BY <1>4, <2>1, <2>3 DEF Distinct
  <2> QED
    BY <1>1, <2>2, <2>3
<1> QED
  BY <1>1, <1>2, <1>3, <1>4 DEF t

LEMMA QueueHolds == \A n : InQueue(n) <=> Holds(queue, n)
  BY DEF InQueue, Holds

LEMMA ChannelType == \A n \in Notes : getRequestedChannels(n) \subseteq Channels
  BY ConfiguredAssumption DEF getRequestedChannels

-----------------------------------------------------------------------------
(***************************************************************************)
(* Types                                                                    *)
(***************************************************************************)
LEMMA CountType ==
    ASSUME NEW S, NEW f \in [S -> Nat], NEW n \in S
    PROVE  /\ [f EXCEPT ![n] = @ + 1] \in [S -> Nat]
           /\ f[n] > 0 => [f EXCEPT ![n] = @ - 1] \in [S -> Nat]
  OBVIOUS

LEMMA EffectType ==
    ASSUME NoteTypeOK, NEW n \in Notes, NEW ch \in Channels, Effect(n, ch)
    PROVE  /\ tried' \subseteq Notes \X Channels
           /\ rows' \in [Notes -> Nat] /\ unread' \in [Notes -> Nat] /\ mails' \in [Notes -> Nat]
<1>1. tried' \subseteq Notes \X Channels
  BY DEF Effect, NoteTypeOK
<1>2. /\ rows' = rows \/ rows' = [rows EXCEPT ![n] = @ + 1]
      /\ unread' = unread \/ unread' = [unread EXCEPT ![n] = @ + 1]
      /\ mails' = mails \/ mails' = [mails EXCEPT ![n] = @ + 1]
  BY DEF Effect
<1>3. rows \in [Notes -> Nat] /\ unread \in [Notes -> Nat] /\ mails \in [Notes -> Nat]
  BY DEF NoteTypeOK
<1> QED
  BY <1>1, <1>2, <1>3, CountType

LEMMA NoteTypeKept ==
    ASSUME NoteTypeOK, NoteNext
    PROVE  NoteTypeOK'
<1> USE DEF NoteTypeOK, queueVars, handlerVars, outVars
<1>1. CASE Start
  BY <1>1 DEF Start
<1>2. CASE DeliverInvalid
  BY <1>2, TailHolds DEF DeliverInvalid, CanTake
<1>3. CASE Deliver
  <2>1. Head(queue) \in Notes /\ Tail(queue) \in Seq(Notes)
    BY <1>3, TailHolds DEF Deliver, CanTake
  <2>2. Head(queue) # Nothing
    BY <2>1, NoteAssumption
  <2> QED
    BY <1>3, <2>1, <2>2, ChannelType DEF Deliver
<1>4. ASSUME NEW ch \in Channels, Send(ch) PROVE NoteTypeOK'
  <2>1. handling \in Notes
    BY <1>4 DEF Send
  <2> QED
    BY <1>4, <2>1, EffectType DEF Send
<1>5. CASE Ack
  BY <1>5 DEF Ack
<1>6. CASE ChannelCloses
  <2>1. queue' \in Seq(Notes)
    BY <1>6, FrontHolds DEF ChannelCloses
  <2>2. late' \in [Notes \X Channels -> Nat]
    BY <1>6 DEF ChannelCloses
  <2>3. closes' \in 0..MaxCloses
    BY <1>6, CloseAssumption DEF ChannelCloses
  <2> QED
    BY <1>6, <2>1, <2>2, <2>3 DEF ChannelCloses
<1>7. ASSUME NEW n \in Notes, NEW ch \in Channels, LateSend(n, ch) PROVE NoteTypeOK'
  <2>1. late' \in [Notes \X Channels -> Nat]
    BY <1>7, CountType DEF LateSend
  <2> QED
    BY <1>7, <2>1, EffectType DEF LateSend
<1>8. ASSUME NEW n \in Notes, MarkAsRead(n) PROVE NoteTypeOK'
  <2>1. unread' \in [Notes -> Nat]
    BY <1>8, CountType DEF MarkAsRead
  <2> QED
    BY <1>8, <2>1 DEF MarkAsRead
<1>9. ASSUME NEW u \in Users, markAllAsRead(u) PROVE NoteTypeOK'
  BY <1>9 DEF markAllAsRead
<1>10. ASSUME NEW n \in Notes, Publish(n) PROVE NoteTypeOK'
  <2>1. CASE consumer = "new"
    BY <1>10, <2>1 DEF Publish
  <2>2. CASE consumer # "new"
    <3>1. queue' = Append(queue, n) /\ routed' = routed \cup {n}
      BY <1>10, <2>2 DEF Publish
    <3>2. queue' \in Seq(Notes) /\ routed' \subseteq Notes
      BY <3>1
    <3> QED
      BY <1>10, <3>2 DEF Publish
  <2> QED
    BY <2>1, <2>2
<1> QED
  BY <1>1, <1>2, <1>3, <1>4, <1>5, <1>6, <1>7, <1>8, <1>9, <1>10 DEF NoteNext, NoteInner, Work

\* Every variable of the notification service keeps its type.
THEOREM NoteTypeCorrect == NoteSpec => []NoteTypeOK
<1>1. NoteInit => NoteTypeOK
  BY CloseAssumption DEF NoteInit, NoteTypeOK
<1>2. NoteTypeOK /\ [NoteNext]_noteVars => NoteTypeOK'
  <2>1. CASE NoteTypeOK /\ UNCHANGED noteVars
    BY <2>1 DEF NoteTypeOK, noteVars, queueVars, handlerVars, outVars
  <2> QED
    BY <2>1, NoteTypeKept
<1> QED
  BY <1>1, <1>2, PTL DEF NoteSpec

-----------------------------------------------------------------------------
(***************************************************************************)
(* Nothing is skipped                                                       *)
(***************************************************************************)
\* What each step does to what the queue holds.
LEMMA QueueSteps ==
    ASSUME NoteTypeOK
    PROVE  /\ DeliverInvalid \/ Deliver =>
                /\ Head(queue) \in Notes
                /\ \A n : InQueue(n) <=> n = Head(queue) \/ InQueue(n)'
                /\ \A n : Distinct(queue) /\ n = Head(queue) => Distinct(queue)' /\ ~InQueue(n)'
           /\ \A m \in Notes : Publish(m) /\ queue' # queue =>
                /\ \A n : InQueue(n)' <=> n = m \/ InQueue(n)
                /\ Distinct(queue) /\ ~InQueue(m) => Distinct(queue)'
           /\ ChannelCloses /\ handling # Nothing =>
                /\ \A n : InQueue(n)' <=> n = handling \/ InQueue(n)
                /\ Distinct(queue) /\ ~InQueue(handling) => Distinct(queue)'
<1>1. ASSUME DeliverInvalid \/ Deliver
      PROVE  /\ Head(queue) \in Notes
             /\ \A n : InQueue(n) <=> n = Head(queue) \/ InQueue(n)'
             /\ \A n : Distinct(queue) /\ n = Head(queue) => Distinct(queue)' /\ ~InQueue(n)'
  <2>1. queue \in Seq(Notes) /\ queue # <<>> /\ queue' = Tail(queue)
    BY <1>1 DEF DeliverInvalid, Deliver, CanTake, NoteTypeOK
  <2>2. \A n : InQueue(n)' <=> Holds(queue', n)
    BY DEF InQueue, Holds
  <2>3. Distinct(queue)' <=> Distinct(queue')
    BY DEF Distinct
  <2>4. /\ Head(queue) \in Notes
        /\ \A n : Holds(queue, n) <=> n = Head(queue) \/ Holds(Tail(queue), n)
        /\ Distinct(queue) => Distinct(Tail(queue)) /\ ~Holds(Tail(queue), Head(queue))
    BY <2>1, TailHolds
  <2> QED
    BY <2>1, <2>2, <2>3, <2>4, QueueHolds
<1>2. ASSUME NEW m \in Notes, Publish(m), queue' # queue
      PROVE  /\ \A n : InQueue(n)' <=> n = m \/ InQueue(n)
             /\ Distinct(queue) /\ ~InQueue(m) => Distinct(queue)'
  <2>1. queue \in Seq(Notes) /\ queue' = Append(queue, m)
    BY <1>2 DEF Publish, NoteTypeOK
  <2>2. \A n : InQueue(n)' <=> Holds(queue', n)
    BY DEF InQueue, Holds
  <2>3. Distinct(queue)' <=> Distinct(queue')
    BY DEF Distinct
  <2> QED
    BY <2>1, <2>2, <2>3, QueueHolds, AppendHolds
<1>3. ASSUME ChannelCloses, handling # Nothing
      PROVE  /\ \A n : InQueue(n)' <=> n = handling \/ InQueue(n)
             /\ Distinct(queue) /\ ~InQueue(handling) => Distinct(queue)'
  <2>1. queue \in Seq(Notes) /\ handling \in Notes /\ queue' = <<handling>> \o queue
    BY <1>3 DEF ChannelCloses, NoteTypeOK
  <2>2. \A n : InQueue(n)' <=> Holds(queue', n)
    BY DEF InQueue, Holds
  <2>3. Distinct(queue)' <=> Distinct(queue')
    BY DEF Distinct
  <2> QED
    BY <2>1, <2>2, <2>3, QueueHolds, FrontHolds
<1> QED
  BY <1>1, <1>2, <1>3

\* The handler of n is at work, and has yet to try what it has not tried.
InHand(n) == handling = n /\ \A ch \in Wanted(n) : ch \in todo \/ <<n, ch>> \in tried

LEMMA SkippedNothing ==
    ASSUME NoteTypeOK, NothingSkipped, NoteNext
    PROVE  NothingSkipped'
<1> SUFFICES ASSUME NEW n \in routed', n.complete PROVE (InQueue(n) \/ Served(n) \/ InHand(n))'
  BY DEF NothingSkipped, InHand
<1>1. n \in routed => InQueue(n) \/ Served(n) \/ InHand(n)
  BY DEF NothingSkipped, InHand
<1>2. tried \subseteq tried'
  BY DEF NoteNext, NoteInner, Work, Start, DeliverInvalid, Deliver, Send, Ack, ChannelCloses,
         LateSend, Effect, MarkAsRead, markAllAsRead, Publish, outVars
<1>3. Served(n) => Served(n)'
  BY <1>2 DEF Served
<1>4. CASE DeliverInvalid
  <2>1. routed' = routed /\ handling' = handling /\ todo' = todo /\ n # Head(queue)
    BY <1>4 DEF DeliverInvalid, handlerVars
  <2> QED
    BY <1>1, <1>2, <1>3, <1>4, <2>1, QueueSteps DEF InHand
<1>5. CASE Deliver
  <2>1. routed' = routed /\ handling = Nothing /\ handling' = Head(queue)
        /\ todo' = getRequestedChannels(Head(queue))
    BY <1>5 DEF Deliver, CanTake
  <2>2. n = Head(queue) => InHand(n)'
    BY <2>1 DEF InHand, Wanted, getRequestedChannels
  <2>3. ~InHand(n)
    BY <2>1, NoteAssumption DEF InHand, NoteTypeOK
  <2> QED
    BY <1>1, <1>3, <1>5, <2>1, <2>2, <2>3, QueueSteps
<1>6. ASSUME NEW m \in Notes, Publish(m) PROVE (InQueue(n) \/ Served(n) \/ InHand(n))'
  <2>1. handling' = handling /\ todo' = todo
    BY <1>6 DEF Publish, handlerVars
  <2>2. \/ queue' = queue /\ routed' = routed
        \/ queue' # queue /\ routed' = routed \cup {m}
    <3>1. queue # Append(queue, m)
      <4>1. Len(Append(queue, m)) = Len(queue) + 1 /\ Len(queue) \in Nat
        BY DEF NoteTypeOK
      <4> QED
        BY <4>1
    <3>2. \/ queue' = queue /\ routed' = routed
          \/ queue' = Append(queue, m) /\ routed' = routed \cup {m}
      BY <1>6 DEF Publish
    <3> QED
      BY <3>1, <3>2
  <2>3. InQueue(n) => InQueue(n)'
    BY <1>6, <2>2, QueueSteps DEF InQueue
  <2>4. n \in routed \/ InQueue(n)'
    BY <1>6, <2>2, QueueSteps
  <2> QED
    BY <1>1, <1>2, <1>3, <2>1, <2>3, <2>4 DEF InHand
<1>7. CASE ChannelCloses
  <2>1. routed' = routed /\ (handling = Nothing => queue' = queue /\ ~InHand(n))
    BY <1>7, NoteAssumption DEF ChannelCloses, InHand, NoteTypeOK
  <2>2. InQueue(n) \/ InHand(n) => InQueue(n)'
    BY <1>7, <2>1, QueueSteps DEF InQueue, InHand
  <2> QED
    BY <1>1, <1>3, <2>1, <2>2
<1>8. CASE Ack
  <2>1. routed' = routed /\ queue' = queue /\ (InHand(n) => Served(n)')
    BY <1>2, <1>8 DEF Ack, queueVars, InHand, Served
  <2> QED
    BY <1>1, <1>3, <2>1 DEF InQueue
<1>9. ASSUME NEW ch \in Channels, Send(ch) PROVE (InQueue(n) \/ Served(n) \/ InHand(n))'
  <2>1. routed' = routed /\ queue' = queue /\ handling' = handling /\ todo' = todo \ {ch}
        /\ <<handling, ch>> \in tried'
    BY <1>9 DEF Send, Effect, queueVars
  <2> QED
    BY <1>1, <1>2, <1>3, <2>1 DEF InQueue, InHand
<1>10. CASE UNCHANGED <<queue, handlerVars, routed>>
  BY <1>1, <1>2, <1>3, <1>10 DEF handlerVars, InQueue, InHand
<1>11. Start \/ (\E m \in Notes : MarkAsRead(m) \/ \E ch \in Channels : LateSend(m, ch))
       \/ (\E u \in Users : markAllAsRead(u)) => UNCHANGED <<queue, handlerVars, routed>>
  BY DEF Start, MarkAsRead, LateSend, markAllAsRead, queueVars, handlerVars
<1> QED
  BY <1>4, <1>5, <1>6, <1>7, <1>8, <1>9, <1>10, <1>11 DEF NoteNext, NoteInner, Work

\* However often the consumer's channel closes, no notification that reached the
\* queue is lost before each of its channels was tried.
THEOREM NoNotificationSkipped == NoteSpec => []NothingSkipped
<1>1. NoteInit => NothingSkipped
  BY DEF NoteInit, NothingSkipped
<1>2. NoteTypeOK /\ NothingSkipped /\ [NoteNext]_noteVars => NothingSkipped'
  <2>1. CASE NothingSkipped /\ UNCHANGED noteVars
    BY <2>1 DEF NothingSkipped, InQueue, Served, noteVars, queueVars, handlerVars, outVars
  <2> QED
    BY <2>1, SkippedNothing
<1> QED
  BY <1>1, <1>2, NoteTypeCorrect, PTL DEF NoteSpec

-----------------------------------------------------------------------------
(***************************************************************************)
(* A notification is doubled by closings only                               *)
(***************************************************************************)
Count(n, ch) == IF ch = "in_app" THEN rows[n] ELSE mails[n]

\* What was carried out, and what may still be after its handler has gone.
Carried(n, ch) == Count(n, ch) + late[<<n, ch>>]

\* A notification is in one place at a time, and the channels of one that waits
\* there were tried at most once for each closing.
InOnePlace ==
    /\ Distinct(queue)
    /\ \A n \in Notes : InQueue(n) \/ handling = n => n \in routed
    /\ \A n \in Notes : ~(InQueue(n) /\ handling = n)

CarriedOnce ==
    \A n \in Notes, ch \in Channels :
        /\ n \notin routed => Carried(n, ch) = 0
        /\ InQueue(n) \/ (handling = n /\ ch \in todo) => Carried(n, ch) <= closes
        /\ Carried(n, ch) <= 1 + closes

LEMMA CarriedType ==
    ASSUME NoteTypeOK
    PROVE  /\ closes \in Nat
           /\ \A n \in Notes, ch \in Channels :
                Count(n, ch) \in Nat /\ late[<<n, ch>>] \in Nat /\ Carried(n, ch) \in Nat
  BY CloseAssumption DEF NoteTypeOK, Count, Carried

LEMMA EffectCounts ==
    ASSUME NoteTypeOK, NEW n \in Notes, NEW ch \in Channels, Effect(n, ch)
    PROVE  /\ \A m \in Notes, c \in Channels : <<m, c>> # <<n, ch>> => Count(m, c)' = Count(m, c)
           /\ Count(n, ch)' = Count(n, ch) \/ Count(n, ch)' = Count(n, ch) + 1
<1>1. CASE /\ ch = "in_app"
           /\ rows' = [rows EXCEPT ![n] = @ + 1] /\ mails' = mails
  BY <1>1 DEF NoteTypeOK, Count
<1>2. CASE /\ ch = "email"
           /\ mails' = [mails EXCEPT ![n] = @ + 1] /\ rows' = rows
  BY <1>2 DEF NoteTypeOK, Count, Channels
<1>3. CASE rows' = rows /\ mails' = mails
  BY <1>3 DEF Count
<1> QED
  BY <1>1, <1>2, <1>3 DEF Effect

LEMMA PublishCases ==
    ASSUME NoteTypeOK, NEW m \in Notes, Publish(m)
    PROVE  /\ m \notin routed
           /\ UNCHANGED <<handlerVars, outVars, closes>>
           /\ \/ queue' = queue /\ routed' = routed
              \/ queue' # queue /\ routed' = routed \cup {m}
<1>1. queue # Append(queue, m)
  <2>1. Len(Append(queue, m)) = Len(queue) + 1 /\ Len(queue) \in Nat
    BY DEF NoteTypeOK
  <2> QED
    BY <2>1
<1>2. \/ queue' = queue /\ routed' = routed
      \/ queue' = Append(queue, m) /\ routed' = routed \cup {m}
  BY DEF Publish
<1> QED
  BY <1>1, <1>2 DEF Publish

LEMMA OnePlaceKept ==
    ASSUME NoteTypeOK, InOnePlace, NoteNext
    PROVE  InOnePlace'
<1> USE DEF InOnePlace
<1>1. CASE DeliverInvalid
  BY <1>1, QueueSteps DEF DeliverInvalid, handlerVars
<1>2. CASE Deliver
  <2>1. routed' = routed /\ handling' = Head(queue)
    BY <1>2 DEF Deliver
  <2> QED
    BY <1>2, <2>1, QueueSteps
<1>3. ASSUME NEW m \in Notes, Publish(m) PROVE InOnePlace'
  <2>1. CASE queue' = queue /\ routed' = routed
    BY <1>3, <2>1, PublishCases DEF InQueue, Distinct, handlerVars
  <2>2. CASE queue' # queue /\ routed' = routed \cup {m}
    <3>1. ~InQueue(m) /\ handling # m /\ handling' = handling
      BY <1>3, PublishCases DEF handlerVars
    <3> QED
      BY <1>3, <2>2, <3>1, QueueSteps
  <2> QED
    BY <1>3, <2>1, <2>2, PublishCases
<1>4. CASE ChannelCloses
  <2>1. handling' = Nothing /\ routed' = routed /\ (handling = Nothing => queue' = queue)
    BY <1>4 DEF ChannelCloses
  <2>2. CASE handling = Nothing
    BY <2>1, <2>2 DEF InQueue, Distinct
  <2>3. CASE handling # Nothing
    BY <1>4, <2>1, <2>3, QueueSteps, NoteAssumption DEF NoteTypeOK
  <2> QED
    BY <2>2, <2>3
<1>5. CASE Ack
  BY <1>5, NoteAssumption DEF Ack, queueVars, InQueue, Distinct
<1>6. CASE UNCHANGED <<queue, handling, routed>>
  BY <1>6 DEF InQueue, Distinct
<1>7. Start \/ (\E ch \in Channels : Send(ch))
      \/ (\E m \in Notes : MarkAsRead(m) \/ \E ch \in Channels : LateSend(m, ch))
      \/ (\E u \in Users : markAllAsRead(u)) => UNCHANGED <<queue, handling, routed>>
  BY DEF Start, Send, MarkAsRead, LateSend, markAllAsRead, queueVars, handlerVars
<1> QED
  BY <1>1, <1>2, <1>3, <1>4, <1>5, <1>6, <1>7 DEF NoteNext, NoteInner, Work

LEMMA CarriedOnceKept ==
    ASSUME NoteTypeOK, InOnePlace, CarriedOnce, NoteNext
    PROVE  CarriedOnce'
<1> SUFFICES ASSUME NEW n \in Notes, NEW ch \in Channels
             PROVE  /\ n \notin routed' => Carried(n, ch)' = 0
                    /\ InQueue(n)' \/ (handling' = n /\ ch \in todo') => Carried(n, ch)' <= closes'
                    /\ Carried(n, ch)' <= 1 + closes'
  BY DEF CarriedOnce
<1>1. /\ n \notin routed => Carried(n, ch) = 0
      /\ InQueue(n) \/ (handling = n /\ ch \in todo) => Carried(n, ch) <= closes
      /\ Carried(n, ch) <= 1 + closes
      /\ Carried(n, ch) \in Nat /\ closes \in Nat
  BY CarriedType DEF CarriedOnce
<1>2. CASE DeliverInvalid
  <2>1. UNCHANGED <<handlerVars, outVars, closes, routed>> /\ (InQueue(n)' => InQueue(n))
    BY <1>2, QueueSteps DEF DeliverInvalid
  <2> QED
    BY <1>1, <2>1 DEF handlerVars, outVars, Carried, Count
<1>3. CASE Deliver
  <2>1. UNCHANGED <<outVars, closes, routed>> /\ handling' = Head(queue)
        /\ (InQueue(n) <=> n = Head(queue) \/ InQueue(n)')
    BY <1>3, QueueSteps DEF Deliver
  <2> QED
    BY <1>1, <2>1 DEF outVars, Carried, Count
<1>4. ASSUME NEW m \in Notes, Publish(m)
      PROVE  /\ n \notin routed' => Carried(n, ch)' = 0
             /\ InQueue(n)' \/ (handling' = n /\ ch \in todo') => Carried(n, ch)' <= closes'
             /\ Carried(n, ch)' <= 1 + closes'
  <2>1. UNCHANGED <<handlerVars, outVars, closes>> /\ m \notin routed
    BY <1>4, PublishCases
  <2>2. InQueue(n)' => InQueue(n) \/ n = m
    BY <1>4, QueueSteps DEF InQueue
  <2>3. routed \subseteq routed'
    BY <1>4, PublishCases
  <2> QED
    BY <1>1, <2>1, <2>2, <2>3 DEF handlerVars, outVars, Carried, Count
<1>5. ASSUME NEW c \in Channels, Send(c)
      PROVE  /\ n \notin routed' => Carried(n, ch)' = 0
             /\ InQueue(n)' \/ (handling' = n /\ ch \in todo') => Carried(n, ch)' <= closes'
             /\ Carried(n, ch)' <= 1 + closes'
  <2>1. /\ handling \in Notes /\ c \in todo /\ Effect(handling, c)
        /\ todo' = todo \ {c} /\ UNCHANGED <<queue, handling, late, closes, routed>>
    BY <1>5 DEF Send, NoteTypeOK, queueVars
  <2>2. CASE <<n, ch>> # <<handling, c>>
    <3>1. Carried(n, ch)' = Carried(n, ch)
      BY <2>1, <2>2, EffectCounts DEF Carried
    <3> QED
      BY <1>1, <2>1, <3>1 DEF InQueue
  <2>3. CASE n = handling /\ ch = c
    <3>1. ~InQueue(n)' /\ n \in routed' /\ ch \notin todo'
      BY <2>1, <2>3 DEF InOnePlace, InQueue
    <3>2. Carried(n, ch)' <= Carried(n, ch) + 1 /\ Carried(n, ch) <= closes
      BY <1>1, <2>1, <2>3, EffectCounts, CarriedType DEF Carried
    <3>3. Carried(n, ch)' \in Nat
      BY <2>1, <2>3, EffectCounts, CarriedType DEF Carried
    <3> QED
      BY <1>1, <2>1, <3>1, <3>2, <3>3
  <2> QED
    BY <2>2, <2>3
<1>6. ASSUME NEW m \in Notes, NEW c \in Channels, LateSend(m, c)
      PROVE  /\ n \notin routed' => Carried(n, ch)' = 0
             /\ InQueue(n)' \/ (handling' = n /\ ch \in todo') => Carried(n, ch)' <= closes'
             /\ Carried(n, ch)' <= 1 + closes'
  <2>1. /\ late[<<m, c>>] > 0 /\ late' = [late EXCEPT ![<<m, c>>] = @ - 1] /\ Effect(m, c)
        /\ UNCHANGED <<queue, handling, todo, closes, routed>>
    BY <1>6 DEF LateSend, queueVars, handlerVars
  <2>2. Carried(n, ch)' <= Carried(n, ch) /\ Carried(n, ch)' \in Nat
    <3>1. CASE <<n, ch>> # <<m, c>>
      <4>1. late'[<<n, ch>>] = late[<<n, ch>>]
        BY <2>1, <3>1 DEF NoteTypeOK
      <4> QED
        BY <1>1, <2>1, <3>1, <4>1, EffectCounts DEF Carried
    <3>2. CASE n = m /\ ch = c
      <4>1. late'[<<n, ch>>] = late[<<n, ch>>] - 1
        BY <2>1, <3>2 DEF NoteTypeOK
      <4>2. late[<<n, ch>>] > 0 /\ late[<<n, ch>>] \in Nat /\ Count(n, ch) \in Nat
        BY <2>1, <3>2, CarriedType
      <4>3. Count(n, ch)' = Count(n, ch) \/ Count(n, ch)' = Count(n, ch) + 1
        BY <2>1, <3>2, EffectCounts
      <4> QED
        BY <4>1, <4>2, <4>3 DEF Carried
    <3> QED
      BY <3>1, <3>2
  <2> QED
    BY <1>1, <2>1, <2>2 DEF InQueue
<1>7. CASE ChannelCloses
  <2>1. closes' = closes + 1 /\ handling' = Nothing /\ UNCHANGED <<rows, mails, routed>>
    BY <1>7 DEF ChannelCloses
  <2>2. late'[<<n, ch>>] = IF n = handling /\ ch \in todo THEN late[<<n, ch>>] + 1
                           ELSE late[<<n, ch>>]
    BY <1>7 DEF ChannelCloses
  <2>3. Carried(n, ch)' = IF n = handling /\ ch \in todo THEN Carried(n, ch) + 1
                          ELSE Carried(n, ch)
    BY <2>1, <2>2, CarriedType DEF Carried, Count
  <2>4. n = handling => n \in routed
    BY DEF InOnePlace
  <2>5. handling' # n
    BY <2>1, NoteAssumption
  <2> QED
    BY <1>1, <2>1, <2>3, <2>4, <2>5
<1>8. CASE UNCHANGED <<queue, rows, mails, late, closes, routed>> /\ (handling' = n => UNCHANGED <<handling, todo>>)
  BY <1>1, <1>8 DEF Carried, Count, InQueue
<1>9. Ack \/ Start \/ (\E m \in Notes : MarkAsRead(m)) \/ (\E u \in Users : markAllAsRead(u))
      => UNCHANGED <<queue, rows, mails, late, closes, routed>> /\ (handling' = n => UNCHANGED <<handling, todo>>)
  BY NoteAssumption DEF Ack, Start, MarkAsRead, markAllAsRead, queueVars, handlerVars, outVars
<1> QED
  BY <1>2, <1>3, <1>4, <1>5, <1>6, <1>7, <1>8, <1>9 DEF NoteNext, NoteInner, Work

LEMMA CarriedOnceHolds == NoteSpec => [](InOnePlace /\ CarriedOnce)
<1>1. NoteInit => InOnePlace /\ CarriedOnce
  BY NoteAssumption DEF NoteInit, InOnePlace, CarriedOnce, Distinct, InQueue, Carried, Count
<1>2. NoteTypeOK /\ InOnePlace /\ CarriedOnce /\ [NoteNext]_noteVars => (InOnePlace /\ CarriedOnce)'
  <2>1. CASE InOnePlace /\ CarriedOnce /\ UNCHANGED noteVars
    BY <2>1 DEF InOnePlace, CarriedOnce, Distinct, InQueue, Carried, Count,
                noteVars, queueVars, handlerVars, outVars
  <2> QED
    BY <2>1, OnePlaceKept, CarriedOnceKept
<1> QED
  BY <1>1, <1>2, NoteTypeCorrect, PTL DEF NoteSpec

\* A user sees a notification at most once more for each closing of the channel.
THEOREM ClosesDouble == NoteSpec => []DoubledByClosesOnly
<1>1. NoteTypeOK /\ CarriedOnce => DoubledByClosesOnly
  <2> SUFFICES ASSUME NoteTypeOK, CarriedOnce, NEW n \in Notes
               PROVE  rows[n] <= 1 + closes /\ mails[n] <= 1 + closes
    BY DEF DoubledByClosesOnly
  <2>1. "in_app" \in Channels /\ "email" \in Channels
    BY DEF Channels
  <2>2. Count(n, "in_app") = rows[n] /\ Count(n, "email") = mails[n]
    BY DEF Count
  <2>3. ASSUME NEW ch \in Channels PROVE Count(n, ch) <= 1 + closes
    <3>1. Carried(n, ch) = Count(n, ch) + late[<<n, ch>>] /\ Carried(n, ch) <= 1 + closes
      BY DEF Carried, CarriedOnce
    <3>2. Count(n, ch) \in Nat /\ late[<<n, ch>>] \in Nat /\ closes \in Nat
      BY CarriedType
    <3> QED
      BY <3>1, <3>2
  <2> QED
    BY <2>1, <2>2, <2>3
<1> QED
  BY <1>1, CarriedOnceHolds, NoteTypeCorrect, PTL

-----------------------------------------------------------------------------
(***************************************************************************)
(* The composition                                                          *)
(***************************************************************************)
\* Each step of the composition is one of the auth service's, or none of it: the
\* code a send makes readable was published, and none is made unreadable.
CodesPublished ==
    /\ known = Readable
    /\ \A n \in routed : n.id \in Sends => n.id \in published

ComposedInv == AuthTypeOK /\ NoteTypeOK /\ InOnePlace /\ CarriedOnce /\ CodesPublished

\* A notification with a count above zero was routed.
LEMMA ReadableRouted ==
    ASSUME NoteTypeOK, CarriedOnce, NEW n \in Notes, n \notin routed
    PROVE  rows[n] = 0 /\ mails[n] = 0 /\ \A ch \in Channels : late[<<n, ch>>] = 0
<1>1. "in_app" \in Channels /\ "email" \in Channels
  BY DEF Channels
<1>2. Count(n, "in_app") = rows[n] /\ Count(n, "email") = mails[n]
  BY DEF Count
<1>3. ASSUME NEW ch \in Channels PROVE Count(n, ch) = 0 /\ late[<<n, ch>>] = 0
  <2>1. Count(n, ch) + late[<<n, ch>>] = 0
    BY DEF CarriedOnce, Carried
  <2>2. Count(n, ch) \in Nat /\ late[<<n, ch>>] \in Nat
    BY CarriedType
  <2> QED
    BY <2>1, <2>2
<1> QED
  BY <1>1, <1>2, <1>3

\* A send makes one notification readable at most, one that was routed.
LEMMA OneMoreReadable ==
    ASSUME NoteTypeOK, InOnePlace, CarriedOnce, NoteInner
    PROVE  \/ Readable' = Readable
           \/ \E n \in routed : Readable' = Readable \cup ({n.id} \cap Sends)
<1>1. ASSUME NEW n \in routed, NEW ch \in Channels, Effect(n, ch)
      PROVE  \/ Readable' = Readable
             \/ Readable' = Readable \cup ({n.id} \cap Sends)
  <2>1. n \in Notes /\ rows \in [Notes -> Nat] /\ mails \in [Notes -> Nat]
    BY DEF NoteTypeOK
  <2>2. \/ rows' = [rows EXCEPT ![n] = @ + 1] /\ mails' = mails
        \/ mails' = [mails EXCEPT ![n] = @ + 1] /\ rows' = rows
        \/ rows' = rows /\ mails' = mails
    BY <1>1 DEF Effect
  <2>3. CASE rows' = rows /\ mails' = mails
    BY <2>3 DEF Readable
  <2>4. CASE ~(rows' = rows /\ mails' = mails)
    <3>1. mails'[n] + rows'[n] > 0
      BY <2>1, <2>2, <2>4
    <3>2. \A m \in Notes \ {n} : mails'[m] = mails[m] /\ rows'[m] = rows[m]
      BY <2>1, <2>2
    <3>3. ASSUME NEW q \in Sends
          PROVE  q \in Readable' <=> q \in Readable \/ q = n.id
      <4>1. q \in Readable <=> \E m \in Notes : m.id = q /\ mails[m] + rows[m] > 0
        BY DEF Readable
      <4>2. q \in Readable' <=> \E m \in Notes : m.id = q /\ mails'[m] + rows'[m] > 0
        BY DEF Readable
      <4> QED
        BY <2>1, <3>1, <3>2, <4>1, <4>2
    <3>4. Readable \subseteq Sends /\ Readable' \subseteq Sends
      BY DEF Readable
    <3> QED
      BY <3>3, <3>4
  <2> QED
    BY <2>3, <2>4
<1>2. ASSUME NEW ch \in Channels, Send(ch) PROVE handling \in routed /\ Effect(handling, ch)
  BY <1>2 DEF Send, NoteTypeOK, InOnePlace
<1>3. ASSUME NEW n \in Notes, NEW ch \in Channels, LateSend(n, ch)
      PROVE  n \in routed /\ Effect(n, ch)
  BY <1>3, ReadableRouted DEF LateSend
<1>4. CASE UNCHANGED <<rows, mails>>
  BY <1>4 DEF Readable
<1>5. Start \/ DeliverInvalid \/ Deliver \/ Ack \/ ChannelCloses
      \/ (\E m \in Notes : MarkAsRead(m)) \/ (\E u \in Users : markAllAsRead(u))
      => UNCHANGED <<rows, mails>>
  BY DEF Start, DeliverInvalid, Deliver, Ack, ChannelCloses, MarkAsRead, markAllAsRead, outVars
<1> QED
  BY <1>1, <1>2, <1>3, <1>4, <1>5 DEF NoteInner, Work

LEMMA StepMaps ==
    ASSUME ComposedInv, AccountsNext
    PROVE  [AuthNext]_authVars /\ [NoteNext]_noteVars /\ CodesPublished'
<1> USE DEF ComposedInv, CodesPublished
<1>1. CASE AuthInner /\ UNCHANGED noteVars
  <2>1. known' = known /\ published \subseteq published'
    BY <1>1 DEF AuthInner, SignupCheck, SignupInsert, SignupPublish, SignupClose, SignupDies,
         SignupRecord,
         SendCheck, SendFind, SendWrite, SendUnpublished, SendDies,
         CodeExpires, VerifyFind, VerifyMark, VerifyDies, sendVars
  <2>2. Readable' = Readable /\ routed' = routed
    BY <1>1 DEF Readable, noteVars, outVars
  <2> QED
    BY <1>1, <2>1, <2>2 DEF AuthNext
<1>2. CASE NoteStep
  <2>1. UNCHANGED <<identityVars, expired, signupVars, sendVars, verify>>
        /\ NoteInner /\ known' = Readable'
    BY <1>2 DEF NoteStep
  <2>2. routed' = routed
    BY <2>1 DEF NoteInner, Work, Start, DeliverInvalid, Deliver, Send, Ack, ChannelCloses,
                LateSend, MarkAsRead, markAllAsRead
  <2>3. CASE known' = known
    BY <2>1, <2>2, <2>3 DEF authVars, NoteNext, sendVars
  <2>4. ASSUME NEW n \in routed, known' = known \cup ({n.id} \cap Sends), known' # known
        PROVE  n.id \in Sends /\ Arrive(n.id)
    BY <2>1, <2>4 DEF Arrive
  <2> QED
    BY <2>1, <2>2, <2>3, <2>4, OneMoreReadable DEF AuthNext, NoteNext, sendVars
<1>3. ASSUME NEW q \in Sends, CodePublish(q)
      PROVE  [AuthNext]_authVars /\ [NoteNext]_noteVars /\ CodesPublished'
  <2> DEFINE n == CodeNote(q, send[q].claim)
  <2>1. send[q].claim \in Claim
    BY <1>3 DEF CodePublish, SendPublish, AuthTypeOK, SendState
  <2>2. n \in Notes
    BY <2>1, CodesAreNotes
  <2>3. n.id = q
    BY DEF CodeNote
  <2>4. SendPublish(q) /\ Publish(n)
    BY <1>3 DEF CodePublish
  <2> HIDE DEF n
  <2>5. known' = known /\ published' = published \cup {q}
    BY <2>4 DEF SendPublish
  <2>6. Readable' = Readable
    BY <2>4 DEF Publish, Readable, outVars
  <2>7. routed' \subseteq routed \cup {n}
    BY <2>4 DEF Publish
  <2> QED
    BY <2>2, <2>3, <2>4, <2>5, <2>6, <2>7 DEF AuthNext, NoteNext
<1>4. ASSUME NEW n \in Notes, OtherPublish(n)
      PROVE  [AuthNext]_authVars /\ [NoteNext]_noteVars /\ CodesPublished'
  <2>1. n.id \notin Sends /\ Publish(n) /\ UNCHANGED authVars
    BY <1>4 DEF OtherPublish
  <2>2. known' = known /\ published' = published
    BY <2>1 DEF authVars, sendVars
  <2>3. Readable' = Readable /\ routed' \subseteq routed \cup {n}
    BY <2>1 DEF Publish, Readable, outVars
  <2> QED
    BY <2>1, <2>2, <2>3 DEF NoteNext
<1> QED
  BY <1>1, <1>2, <1>3, <1>4 DEF AccountsNext

LEMMA ComposedInvHolds == AccountsSpec => []ComposedInv
<1>1. AccountsInit => ComposedInv
  <2>1. ASSUME AccountsInit PROVE AuthTypeOK
    BY <2>1, SignupAssumption DEF AccountsInit, AuthInit, AuthTypeOK, SendState, SendPc, SignupPc, VerifyPc
  <2>2. ASSUME AccountsInit PROVE NoteTypeOK
    BY <2>2, CloseAssumption DEF AccountsInit, NoteInit, NoteTypeOK
  <2>3. ASSUME AccountsInit PROVE InOnePlace /\ CarriedOnce
    BY <2>3, NoteAssumption DEF AccountsInit, NoteInit, InOnePlace, CarriedOnce, Distinct, InQueue,
                                Carried, Count
  <2>4. ASSUME AccountsInit PROVE CodesPublished
    BY <2>4 DEF AccountsInit, AuthInit, NoteInit, CodesPublished, Readable
  <2> QED
    BY <2>1, <2>2, <2>3, <2>4 DEF ComposedInv
<1>2. ComposedInv /\ [AccountsNext]_accountVars => ComposedInv'
  <2> SUFFICES ASSUME ComposedInv, [AccountsNext]_accountVars PROVE ComposedInv'
    OBVIOUS
  <2>1. [AuthNext]_authVars /\ [NoteNext]_noteVars /\ CodesPublished'
    <3>1. CASE UNCHANGED accountVars
      BY <3>1 DEF accountVars, ComposedInv, CodesPublished, Readable, authVars, sendVars,
                  noteVars, outVars
    <3> QED
      BY <3>1, StepMaps
  <2>2. AuthTypeOK'
    BY <2>1, AuthTypeKept DEF ComposedInv
  <2>3. CASE NoteNext
    BY <2>1, <2>2, <2>3, NoteTypeKept, OnePlaceKept, CarriedOnceKept DEF ComposedInv
  <2>4. CASE UNCHANGED noteVars
    <3>1. NoteTypeOK'
      BY <2>4 DEF ComposedInv, NoteTypeOK, noteVars, queueVars, handlerVars, outVars
    <3>2. InOnePlace' /\ CarriedOnce'
      BY <2>4 DEF ComposedInv, InOnePlace, CarriedOnce, Distinct, InQueue, Carried, Count,
                  noteVars, queueVars, handlerVars, outVars
    <3> QED
      BY <2>1, <2>2, <3>1, <3>2 DEF ComposedInv
  <2> QED
    BY <2>1, <2>3, <2>4
<1> QED
  BY <1>1, <1>2, PTL DEF AccountsSpec

\* With the queue, the consumer and the channels in the place of a delivery that
\* just happens, the auth service does what Auth says, and so what is proved of
\* Auth holds of the two services together.
THEOREM AuthIsImplemented == AccountsSpec => ImplementsAuth
<1>1. AccountsInit => AuthInit
  BY DEF AccountsInit
<1>2. ComposedInv /\ [AccountsNext]_accountVars => [AuthNext]_authVars
  <2>1. CASE ComposedInv /\ UNCHANGED accountVars
    BY <2>1 DEF accountVars
  <2> QED
    BY <2>1, StepMaps
<1> QED
  BY <1>1, <1>2, ComposedInvHolds, PTL DEF AccountsSpec, AuthSpec, ImplementsAuth

\* ... as does the notification service of its own specification.
THEOREM NotificationsAreImplemented == AccountsSpec => NoteSpec
<1>1. AccountsInit => NoteInit
  BY DEF AccountsInit
<1>2. ComposedInv /\ [AccountsNext]_accountVars => [NoteNext]_noteVars
  <2>1. CASE ComposedInv /\ UNCHANGED accountVars
    BY <2>1 DEF accountVars
  <2> QED
    BY <2>1, StepMaps
<1> QED
  BY <1>1, <1>2, ComposedInvHolds, PTL DEF AccountsSpec, NoteSpec

\* Followed through queue, mail and app: a contact is verified only after its
\* owner has read one of its codes in a mail or in the app.
THEOREM ReadersVerify == AccountsSpec => [](VerifiedByOwner /\ known = Readable)
<1>1. ComposedInv => known = Readable
  BY DEF ComposedInv, CodesPublished
<1>2. ImplementsAuth <=> AuthSpec
  BY DEF ImplementsAuth
<1> QED
  BY <1>1, <1>2, AuthIsImplemented, OwnersVerify, ComposedInvHolds, PTL
=============================================================================
