----------------------- MODULE BookingPayments_proofs -----------------------
(***************************************************************************)
(* Proofs about BookingPayments, for any number of orders, requests and     *)
(* deliveries, any price, any faults and any number of crashes.             *)
(***************************************************************************)
EXTENDS BookingPayments, TLAPS

\* A delivery in progress is of an event Razorpay has emitted.
HookCarriesEvent == \A w \in Hooks : hook[w].pc # "idle" => hook[w].event \in events

TypeInv == TypeOK /\ HookCarriesEvent

-----------------------------------------------------------------------------
\* computeUserCancelRefund never gives back more than was paid.
LEMMA RefundWithinPrice ==
    ASSUME NEW o \in Orders, refundPct[o] \in {0, 50, 100}
    PROVE  computeUserCancelRefund(o) \in 0..Amount
<1>1. CASE refundPct[o] = 0
  BY <1>1, AmountAssumption DEF computeUserCancelRefund
<1>2. CASE refundPct[o] = 50
  BY <1>2, AmountAssumption DEF computeUserCancelRefund
<1>3. CASE refundPct[o] = 100
  BY <1>3, AmountAssumption DEF computeUserCancelRefund
<1> QED BY <1>1, <1>2, <1>3

\* The conditional updates keep the type of the status column.
LEMMA MatchedType ==
    ASSUME StatusTypeOK, NEW o, NEW from, NEW to \in Status, NEW updated,
           Matched(o, from, to, updated)
    PROVE  StatusTypeOK'
BY DEF StatusTypeOK, Matched

\* A step of the job leaves every row in a status of the enum.
LEMMA FulfilmentStepType ==
    ASSUME StatusTypeOK, NEW o \in Orders, Takes(FulfilmentSteps, o)
    PROVE  StatusTypeOK'
BY DEF StatusTypeOK, Takes, FulfilmentSteps, Status

\* A request that moves on stays a request.
LEMMA AdvanceCreateType ==
    ASSUME creates \in [CreateRequests -> Create], NEW r,
           NEW pc \in {"idle", "order", "insert", "conflict", "respond", "done", "failed"},
           NEW o \in Orders \cup {NoOrder}, AdvanceCreate(r, pc, o)
    PROVE  creates' \in [CreateRequests -> Create]
<1>1. \A q \in CreateRequests : [[creates[q] EXCEPT !.pc = pc] EXCEPT !.order = o] \in Create
  BY DEF Create
<1> QED BY <1>1 DEF AdvanceCreate

\* A cancel that moves on keeps its type.
LEMMA AdvanceCancelType ==
    ASSUME cancels \in [CancelRequests -> Cancel], NEW c,
           NEW pc \in {"idle", "refund", "update", "ok", "conflict", "refused", "failed"},
           AdvanceCancel(c, pc)
    PROVE  cancels' \in [CancelRequests -> Cancel]
<1>1. \A q \in CancelRequests : [cancels[q] EXCEPT !.pc = pc] \in Cancel
  BY DEF Cancel
<1> QED BY <1>1 DEF AdvanceCancel

\* A cancel whose refund was made keeps its type.
LEMMA RefundedCancelType ==
    ASSUME cancels \in [CancelRequests -> Cancel], NEW c,
           NEW pc \in {"update", "refused"},
           cancels' = [cancels EXCEPT ![c].pc = pc, ![c].refunded = TRUE]
    PROVE  cancels' \in [CancelRequests -> Cancel]
<1>1. \A q \in CancelRequests :
        [[cancels[q] EXCEPT !.pc = pc] EXCEPT !.refunded = TRUE] \in Cancel
  BY DEF Cancel
<1> QED BY <1>1

\* The columns the updates write stay in their type.
LEMMA UpdatesKeepRows ==
    ASSUME booking \in [Orders -> Row], NEW o
    PROVE  /\ [booking EXCEPT ![o].paymentId = TRUE] \in [Orders -> Row]
           /\ \A by \in {"USER", "PROVIDER"}, amount \in 0..Amount, id \in BOOLEAN :
                 [booking EXCEPT ![o].cancelledBy = by, ![o].refundAmount = amount,
                                 ![o].refundId = id] \in [Orders -> Row]
<1>1. \A p \in Orders : [booking[p] EXCEPT !.paymentId = TRUE] \in Row
  BY DEF Row
<1>2. ASSUME NEW by \in {"USER", "PROVIDER"}, NEW amount \in 0..Amount, NEW id \in BOOLEAN
      PROVE  [booking EXCEPT ![o].cancelledBy = by, ![o].refundAmount = amount,
                             ![o].refundId = id] \in [Orders -> Row]
  <2>1. \A p \in Orders : [[[booking[p] EXCEPT !.cancelledBy = by]
                            EXCEPT !.refundAmount = amount] EXCEPT !.refundId = id] \in Row
    BY DEF Row
  <2> QED BY <2>1
<1> QED BY <1>1, <1>2

\* A delivery that ends was of an event, which may now be acknowledged.
LEMMA Answer200Type ==
    ASSUME TypeInv, NEW w \in Hooks, hook[w].pc # "idle", Answer200(w), events' = events
    PROVE  /\ hook' \in [Hooks -> [pc : {"idle", "claim", "process"},
                                  event : Event \cup {NoEvent}]]
           /\ acked' \subseteq events'
           /\ HookCarriesEvent'
BY DEF TypeInv, TypeOK, HookCarriesEvent, Answer200, HookAt

\* ... nor does one that stops before its answer.
LEMMA AnswerOrStopType ==
    ASSUME TypeInv, NEW w \in Hooks, hook[w].pc # "idle", AnswerOrStop(w), events' = events
    PROVE  /\ hook' \in [Hooks -> [pc : {"idle", "claim", "process"},
                                  event : Event \cup {NoEvent}]]
           /\ acked' \subseteq events'
           /\ HookCarriesEvent'
           /\ crashes' \in 0..MaxCrashes
<1> USE DEF TypeInv, TypeOK
<1>1. CASE Answer200(w) /\ UNCHANGED crashes
  BY <1>1, Answer200Type
<1>2. CASE /\ crashes < MaxCrashes
           /\ crashes' = crashes + 1
           /\ HookAt(w, "idle", NoEvent)
           /\ UNCHANGED acked
  BY <1>2, CrashAssumption DEF HookCarriesEvent, HookAt
<1> QED BY <1>1, <1>2 DEF AnswerOrStop

\* The empty tables are well typed.
LEMMA TypeInit == Init => TypeInv
<1> SUFFICES ASSUME Init PROVE TypeInv
  OBVIOUS
<1> USE AmountAssumption, CrashAssumption
<1>1. StatusTypeOK
  BY DEF Init, StatusInit, StatusTypeOK
<1>2. booking \in [Orders -> Row]
  BY DEF Init, NewRow, Row
<1> QED BY <1>1, <1>2 DEF Init, TypeInv, TypeOK, HookCarriesEvent, Create, Cancel,
            MinAmountPaise

\* Every handler step, and every step of Razorpay, keeps the types.
LEMMA TypeStep == TypeInv /\ [Next]_vars => TypeInv'
<1> SUFFICES ASSUME TypeInv, [Next]_vars PROVE TypeInv'
  OBVIOUS
<1> USE AmountAssumption, CrashAssumption DEF TypeInv, TypeOK, HookCarriesEvent
<1>1. ASSUME NEW r \in CreateRequests, CreateLookup(r) PROVE TypeInv'
  BY <1>1 DEF CreateLookup, Create, RowsWithKey, rowVars, webhookVars, razorpayVars,
     StatusTypeOK
<1>2. ASSUME NEW r \in CreateRequests, CreateOrder(r) PROVE TypeInv'
  <2>1. creates' \in [CreateRequests -> Create]
    BY <1>2, AdvanceCreateType DEF CreateOrder
  <2> QED BY <1>2, <2>1 DEF CreateOrder, rowVars, webhookVars, StatusTypeOK
<1>3. ASSUME NEW r \in CreateRequests, CreateInsert(r) PROVE TypeInv'
  <2>1. creates[r].key \in Keys \cup {NoKey} /\ creates[r].order \in Orders \cup {NoOrder}
    BY DEF Create
  <2>2. NewRow(creates[r].key) \in Row
    BY <2>1 DEF NewRow, Row
  <2>3. StatusTypeOK' /\ booking' \in [Orders -> Row]
    BY <1>3, <2>2 DEF CreateInsert, insert, StatusTypeOK, Status, rowVars
  <2>4. creates' \in [CreateRequests -> Create]
    BY <1>3, <2>1, AdvanceCreateType DEF CreateInsert
  <2> QED BY <1>3, <2>3, <2>4 DEF CreateInsert, webhookVars, razorpayVars
<1>4. ASSUME NEW r \in CreateRequests, CreateConflict(r) PROVE TypeInv'
  <2>1. creates' \in [CreateRequests -> Create]
    BY <1>4, AdvanceCreateType DEF CreateConflict, RowsWithKey
  <2> QED BY <1>4, <2>1 DEF CreateConflict, rowVars, webhookVars, razorpayVars, StatusTypeOK
<1>5. ASSUME NEW r \in CreateRequests, CreateRespond(r) \/ CreateDies(r) PROVE TypeInv'
  <2>1. creates[r].order \in Orders \cup {NoOrder}
    BY DEF Create
  <2>2. creates' \in [CreateRequests -> Create]
    BY <1>5, <2>1, AdvanceCreateType DEF CreateRespond, CreateDies
  <2> QED BY <1>5, <2>2 DEF CreateRespond, CreateDies, rowVars, webhookVars, razorpayVars,
              StatusTypeOK
<1>6. ASSUME NEW c \in CancelRequests, NEW o \in Orders, NEW by \in {"USER", "PROVIDER"},
             CancelRead(c, o, by)
      PROVE  TypeInv'
  <2>1. RefundDue(o, by) \in 0..Amount
    BY RefundWithinPrice DEF RefundDue
  <2>2. cancels' \in [CancelRequests -> Cancel]
    BY <1>6, <2>1 DEF CancelRead, Cancel
  <2> QED BY <1>6, <2>2 DEF CancelRead, rowVars, webhookVars, razorpayVars, StatusTypeOK
<1>7. ASSUME NEW c \in CancelRequests, CancelRefund(c) PROVE TypeInv'
  <2>1. cancels' \in [CancelRequests -> Cancel]
    <3>1. CASE AdvanceCancel(c, "refused")
      BY <3>1, AdvanceCancelType
    <3>2. ASSUME NEW pc \in {"update", "refused"},
                 cancels' = [cancels EXCEPT ![c].pc = pc, ![c].refunded = TRUE]
          PROVE  cancels' \in [CancelRequests -> Cancel]
      BY <3>2, RefundedCancelType
    <3> QED BY <1>7, <3>1, <3>2 DEF CancelRefund
  <2>2. refunded' \in [Orders -> 0..Amount]
    BY <1>7 DEF CancelRefund, Cancel
  <2> QED BY <1>7, <2>1, <2>2 DEF CancelRefund, rowVars, webhookVars, StatusTypeOK
<1>8. ASSUME NEW c \in CancelRequests, CancelUpdate(c) PROVE TypeInv'
  <2> DEFINE q == cancels[c]
  <2>1. PICK updated \in BOOLEAN :
          /\ updateCancelled(q.order, q.by, q.amount, q.refunded, updated)
          /\ AdvanceCancel(c, IF updated THEN "ok" ELSE "conflict")
          /\ notified' = [notified EXCEPT
               ![q.order] = IF updated
                 THEN @ \cup ({"booking_cancellation"} \cup
                      (IF q.amount > 0 THEN {"booking_refund"} ELSE {}))
                 ELSE @]
    BY <1>8 DEF CancelUpdate
  <2>2. q.by \in {"USER", "PROVIDER"} /\ q.amount \in 0..Amount /\ q.refunded \in BOOLEAN
    BY DEF Cancel
  <2>3. StatusTypeOK' /\ booking' \in [Orders -> Row]
    <3>1. StatusTypeOK'
      BY <2>1 DEF updateCancelled, Matched, Unmatched, StatusTypeOK, Status
    <3>2. booking' \in [Orders -> Row]
      <4>1. CASE booking' = booking
        BY <4>1
      <4>2. CASE booking' = [booking EXCEPT ![q.order].cancelledBy = q.by,
                                            ![q.order].refundAmount = q.amount,
                                            ![q.order].refundId = q.refunded]
        BY <2>2, <4>2, UpdatesKeepRows, ZenonT(60)
      <4> QED BY <2>1, <4>1, <4>2 DEF updateCancelled
    <3> QED BY <3>1, <3>2
  <2>4. cancels' \in [CancelRequests -> Cancel]
    BY <2>1, AdvanceCancelType
  <2>5. notified' \in [Orders -> SUBSET Notification]
    BY <2>1 DEF Notification
  <2> QED BY <1>8, <2>3, <2>4, <2>5 DEF CancelUpdate, webhookVars, razorpayVars
<1>9. ASSUME NEW c \in CancelRequests, CancelDies(c) PROVE TypeInv'
  <2>1. cancels' \in [CancelRequests -> Cancel]
    BY <1>9, AdvanceCancelType DEF CancelDies
  <2> QED BY <1>9, <2>1 DEF CancelDies, rowVars, webhookVars, razorpayVars, StatusTypeOK
<1>10. ASSUME NEW w \in Hooks, NEW e \in events, Deliver(w, e) PROVE TypeInv'
  BY <1>10 DEF Deliver, HookAt, rowVars, requestVars, razorpayVars, StatusTypeOK
<1>11. ASSUME NEW w \in Hooks, HookClaim(w) PROVE TypeInv'
  <2>1. hook[w].event \in events /\ hook[w].pc # "idle" /\ events' = events
    BY <1>11 DEF HookClaim
  <2>2. CASE HookAt(w, "process", hook[w].event) /\ UNCHANGED acked
    BY <1>11, <2>1, <2>2 DEF HookClaim, HookAt, rowVars, requestVars, StatusTypeOK
  <2>3. CASE Answer200(w) /\ UNCHANGED claimed
    BY <1>11, <2>1, <2>3, Answer200Type DEF HookClaim, rowVars, requestVars, StatusTypeOK
  <2> QED BY <1>11, <2>2, <2>3 DEF HookClaim
<1>12. ASSUME NEW w \in Hooks, HookCaptured(w) PROVE TypeInv'
  <2> DEFINE o == hook[w].event.order
  <2>1. hook[w].event \in events /\ o \in Orders
    BY <1>12 DEF HookCaptured, Event
  <2>2. PICK updated \in BOOLEAN :
          /\ \/ Exists(o) /\ updatePaymentCaptured(o, updated)
             \/ ~Exists(o) /\ ~updated /\ UNCHANGED rowVars
          /\ notified' = [notified EXCEPT
               ![o] = IF updated THEN @ \cup {"booking_confirmation"} ELSE @]
    BY <1>12 DEF HookCaptured
  <2>3. StatusTypeOK' /\ booking' \in [Orders -> Row]
    <3>1. StatusTypeOK'
      BY <2>2 DEF updatePaymentCaptured, Matched, Unmatched, StatusTypeOK, Status, rowVars
    <3>2. booking' \in [Orders -> Row]
      <4>1. CASE booking' = booking
        BY <4>1
      <4>2. CASE booking' = [booking EXCEPT ![o].paymentId = TRUE]
        BY <4>2, UpdatesKeepRows
      <4> QED BY <2>2, <4>1, <4>2 DEF updatePaymentCaptured, rowVars
    <3> QED BY <3>1, <3>2
  <2>4. notified' \in [Orders -> SUBSET Notification]
    BY <2>2 DEF Notification
  <2>5. hook[w].pc # "idle" /\ AnswerOrStop(w) /\ events' = events
    BY <1>12 DEF HookCaptured
  <2> QED BY <1>12, <2>3, <2>4, <2>5, AnswerOrStopType DEF HookCaptured, requestVars
<1>13. ASSUME NEW w \in Hooks, HookFailed(w) PROVE TypeInv'
  <2>1. hook[w].event \in events
    BY <1>13 DEF HookFailed
  <2>2. StatusTypeOK' /\ booking' = booking
    BY <1>13 DEF HookFailed, updatePaymentFailed, updateStatus, Matched, Unmatched,
       StatusTypeOK, Status, rowVars
  <2>3. hook[w].pc # "idle" /\ AnswerOrStop(w) /\ events' = events
    BY <1>13 DEF HookFailed
  <2> QED BY <1>13, <2>2, <2>3, AnswerOrStopType DEF HookFailed, requestVars
<1>14. ASSUME NEW w \in Hooks, HookDies(w) PROVE TypeInv'
  BY <1>14 DEF HookDies, HookAt, rowVars, requestVars, razorpayVars, StatusTypeOK
<1>15. ASSUME NEW o \in Orders, PaymentCaptured(o) PROVE TypeInv'
  BY <1>15, IdAssumption DEF PaymentCaptured, Emit, Event, rowVars, requestVars,
     webhookVars, StatusTypeOK
<1>16. ASSUME NEW o \in Orders, PaymentDeclined(o) PROVE TypeInv'
  BY <1>16, IdAssumption DEF PaymentDeclined, Emit, Event, rowVars, requestVars,
     webhookVars, StatusTypeOK
<1>17. ASSUME NEW o \in Orders, TimePasses(o) PROVE TypeInv'
  BY <1>17 DEF TimePasses, rowVars, requestVars, webhookVars, razorpayVars, StatusTypeOK
<1>18. ASSUME NEW o \in Orders, FulfilmentStep(o) PROVE TypeInv'
  BY <1>18, FulfilmentStepType DEF FulfilmentStep, payVars, requestVars, webhookVars,
     razorpayVars
<1>19. CASE UNCHANGED vars
  BY <1>19 DEF vars, payVars, requestVars, webhookVars, razorpayVars, StatusTypeOK
<1> QED BY <1>1, <1>2, <1>3, <1>4, <1>5, <1>6, <1>7, <1>8, <1>9, <1>10, <1>11, <1>12,
        <1>13, <1>14, <1>15, <1>16, <1>17, <1>18, <1>19
     DEF Next, PaymentsNext, CreateNext, CancelNext, HookNext

\* Type correctness, and no delivery without an event: every run of the payment
\* handlers, however the requests, webhooks, crashes and failures fall.
THEOREM TypeCorrect == Spec => [](TypeOK /\ HookCarriesEvent)
BY TypeInit, TypeStep, PTL DEF Spec, TypeInv

-----------------------------------------------------------------------------
(***************************************************************************)
(* The inductive invariants, over those of the module itself.               *)
(***************************************************************************)

\* A row is inserted for an order of its own, made by the request that inserts it.
OrdersOfRows ==
    /\ \A o \in Orders : Exists(o) => o \in ordered
    /\ \A r \in CreateRequests : creates[r].pc = "insert" =>
          creates[r].order \in ordered /\ ~Exists(creates[r].order)
    /\ \A r, s \in CreateRequests :
          /\ creates[r].pc = "insert" /\ creates[s].pc = "insert"
          /\ creates[r].order = creates[s].order
          => r = s

\* The unique index on idempotencyKey, and what the requests know of it.
KeysOfRows ==
    /\ \A o, p \in Orders :
          /\ Exists(o) /\ Exists(p)
          /\ booking[o].key = booking[p].key /\ booking[o].key # NoKey
          => o = p
    /\ \A r \in CreateRequests : creates[r].pc = "conflict" => creates[r].key # NoKey
    /\ \A r \in CreateRequests : creates[r].pc \in {"respond", "done"} =>
          /\ creates[r].order \in Orders /\ Exists(creates[r].order)
          /\ booking[creates[r].order].key = creates[r].key

\* What the service takes for a payment is one.
CapturedIsPaid ==
    /\ \A e \in events : e.type = "payment.captured" => paid[e.order]
    /\ \A o \in Orders : booking[o].paymentId => paid[o]

\* What a cancel that is under way has seen and done.
CancelsUnderWay ==
    \A c \in CancelRequests :
        /\ cancels[c].pc # "idle" => cancels[c].order \in Orders /\ Exists(cancels[c].order)
        /\ cancels[c].pc = "refund" =>
              cancels[c].amount > 0 /\ booking[cancels[c].order].paymentId
        /\ cancels[c].pc = "update" /\ cancels[c].refunded =>
              cancels[c].amount > 0 /\ refunded[cancels[c].order] >= cancels[c].amount

\* The claim of a delivery past it is in the table.
ProcessedIsClaimed ==
    /\ \A w \in Hooks : hook[w].pc = "process" /\ hook[w].event.hasId =>
          hook[w].event \in claimed
    /\ ClaimedOnce

-----------------------------------------------------------------------------
(***************************************************************************)
(* Who writes what: a step that is not a create request's leaves the create *)
(* requests and the orders alone, and adds and removes no row.              *)
(***************************************************************************)
LEMMA MatchedKeepsRows ==
    ASSUME StatusTypeOK, NEW o, NEW from, NEW to \in Status, NEW updated,
           Matched(o, from, to, updated), "NO_ROW" \notin from
    PROVE  \A p \in Orders : Exists(p)' <=> Exists(p)
BY DEF StatusTypeOK, Matched, Exists, Status

\* Only a create request makes an order, moves a request on or adds a row; the
\* cancels, the webhooks and the job leave the set of rows as it is.
LEMMA OthersKeepRows ==
    ASSUME TypeInv, [Next]_vars
    PROVE  \/ \E r \in CreateRequests : CreateNext(r)
           \/ /\ UNCHANGED <<creates, ordered>>
              /\ \A p \in Orders : /\ Exists(p)' <=> Exists(p)
                                   /\ booking'[p].key = booking[p].key
<1> DEFINE Kept == /\ UNCHANGED <<creates, ordered>>
                   /\ \A p \in Orders : /\ Exists(p)' <=> Exists(p)
                                        /\ booking'[p].key = booking[p].key
<1> USE DEF TypeInv, TypeOK
<1>1. ASSUME NEW c \in CancelRequests, CancelUpdate(c) PROVE Kept
  <2> DEFINE q == cancels[c]
  <2>1. PICK updated \in BOOLEAN :
          updateCancelled(q.order, q.by, q.amount, q.refunded, updated)
    BY <1>1 DEF CancelUpdate
  <2>2. \A p \in Orders : Exists(p)' <=> Exists(p)
    <3>1. CASE Matched(q.order, Cancellable, "CANCELLED", updated)
      BY <3>1, MatchedKeepsRows DEF Cancellable, Status
    <3>2. CASE UNCHANGED status
      BY <3>2 DEF Exists
    <3> QED BY <2>1, <3>1, <3>2 DEF updateCancelled, Unmatched
  <2>3. \A p \in Orders : booking'[p].key = booking[p].key
    BY <2>1 DEF updateCancelled, Row
  <2> QED BY <1>1, <2>2, <2>3 DEF CancelUpdate, razorpayVars
<1>2. ASSUME NEW w \in Hooks, HookCaptured(w) PROVE Kept
  <2> DEFINE o == hook[w].event.order
  <2>1. PICK updated \in BOOLEAN :
          updatePaymentCaptured(o, updated) \/ UNCHANGED rowVars
    BY <1>2 DEF HookCaptured
  <2>2. \A p \in Orders : Exists(p)' <=> Exists(p)
    <3>1. CASE Matched(o, {"PENDING_PAYMENT"}, "CONFIRMED", updated)
      BY <3>1, MatchedKeepsRows DEF Status
    <3>2. CASE UNCHANGED status
      BY <3>2 DEF Exists
    <3> QED BY <2>1, <3>1, <3>2 DEF updatePaymentCaptured, Unmatched, rowVars
  <2>3. \A p \in Orders : booking'[p].key = booking[p].key
    BY <2>1 DEF updatePaymentCaptured, Row, rowVars
  <2> QED BY <1>2, <2>2, <2>3 DEF HookCaptured, requestVars
<1>3. ASSUME NEW w \in Hooks, HookFailed(w) PROVE Kept
  <2> DEFINE o == hook[w].event.order
  <2>1. PICK updated \in BOOLEAN : updatePaymentFailed(o, updated) \/ UNCHANGED rowVars
    BY <1>3 DEF HookFailed
  <2>2. \A p \in Orders : Exists(p)' <=> Exists(p)
    <3>1. CASE Matched(o, {"PENDING_PAYMENT"}, "PAYMENT_FAILED", updated)
      BY <3>1, MatchedKeepsRows DEF Status
    <3>2. CASE UNCHANGED status
      BY <3>2 DEF Exists
    <3> QED BY <2>1, <3>1, <3>2 DEF updatePaymentFailed, updateStatus, Unmatched, rowVars
  <2>3. booking' = booking
    BY <2>1 DEF updatePaymentFailed, rowVars
  <2> QED BY <1>3, <2>2, <2>3 DEF HookFailed, requestVars
<1>4. ASSUME NEW o \in Orders, FulfilmentStep(o) PROVE Kept
  BY <1>4 DEF FulfilmentStep, Takes, FulfilmentSteps, payVars, requestVars, razorpayVars,
     Exists, StatusTypeOK
<1>5. ASSUME UNCHANGED <<rowVars, creates, ordered>> PROVE Kept
  BY <1>5 DEF rowVars, Exists
<1>6. ASSUME NEW c \in CancelRequests, CancelNext(c) PROVE Kept
  <2>1. CancelUpdate(c) \/ UNCHANGED <<rowVars, creates, ordered>>
    BY <1>6 DEF CancelNext, CancelRead, CancelRefund, CancelDies, razorpayVars
  <2> QED BY <1>1, <1>5, <2>1
<1>7. ASSUME NEW w \in Hooks, HookNext(w) PROVE Kept
  <2>1. HookCaptured(w) \/ HookFailed(w) \/ UNCHANGED <<rowVars, creates, ordered>>
    BY <1>7 DEF HookNext, Deliver, HookClaim, HookDies, requestVars, razorpayVars
  <2> QED BY <1>2, <1>3, <1>5, <2>1
<1>8. ASSUME NEW o \in Orders, PaymentCaptured(o) \/ PaymentDeclined(o) \/ TimePasses(o)
      PROVE  Kept
  <2>1. UNCHANGED <<rowVars, creates, ordered>>
    BY <1>8 DEF PaymentCaptured, PaymentDeclined, TimePasses, requestVars, razorpayVars
  <2> QED BY <1>5, <2>1
<1>9. CASE UNCHANGED vars
  BY <1>5, <1>9 DEF vars, payVars, requestVars, razorpayVars, rowVars
<1> QED BY <1>4, <1>6, <1>7, <1>8, <1>9 DEF Next, PaymentsNext

-----------------------------------------------------------------------------
\* No rows, no orders.
LEMMA OrdersOfRowsInit == Init => OrdersOfRows
BY DEF Init, StatusInit, OrdersOfRows, Exists

\* Orders are made fresh and inserted by the request that made them.
LEMMA OrdersOfRowsStep == TypeInv /\ OrdersOfRows /\ [Next]_vars => OrdersOfRows'
<1> SUFFICES ASSUME TypeInv, OrdersOfRows, [Next]_vars PROVE OrdersOfRows'
  OBVIOUS
<1> USE DEF TypeInv, TypeOK, OrdersOfRows
<1>1. ASSUME NEW r \in CreateRequests, CreateLookup(r) PROVE OrdersOfRows'
  BY <1>1 DEF CreateLookup, rowVars, razorpayVars, Exists
<1>2. ASSUME NEW r \in CreateRequests, CreateOrder(r) PROVE OrdersOfRows'
  <2>1. PICK o \in Orders \ ordered :
          ordered' = ordered \cup {o} /\ AdvanceCreate(r, "insert", o)
    BY <1>2 DEF CreateOrder
  <2>2. \A q \in CreateRequests :
          /\ creates'[q].pc = IF q = r THEN "insert" ELSE creates[q].pc
          /\ creates'[q].order = IF q = r THEN o ELSE creates[q].order
    BY <2>1 DEF AdvanceCreate, Create
  <2> QED BY <1>2, <2>1, <2>2 DEF CreateOrder, rowVars, Exists
<1>3. ASSUME NEW r \in CreateRequests, CreateInsert(r) PROVE OrdersOfRows'
  <2>1. creates[r].order \in ordered /\ creates[r].pc = "insert"
    BY <1>3 DEF CreateInsert
  <2>2. \A q \in CreateRequests :
          /\ creates'[q].order = creates[q].order
          /\ creates'[q].pc = "insert" => creates[q].pc = "insert" /\ q # r
    BY <1>3 DEF CreateInsert, AdvanceCreate, Create
  <2>3. \A p \in Orders : Exists(p)' => Exists(p) \/ p = creates[r].order
    BY <1>3 DEF CreateInsert, insert, Exists, StatusTypeOK, rowVars
  <2>4. ordered' = ordered
    BY <1>3 DEF CreateInsert, razorpayVars
  <2> QED BY <2>1, <2>2, <2>3, <2>4
<1>4. ASSUME NEW r \in CreateRequests, CreateConflict(r) \/ CreateRespond(r) \/ CreateDies(r)
      PROVE  OrdersOfRows'
  <2>1. \A q \in CreateRequests : creates'[q].pc = "insert" => creates'[q] = creates[q]
    BY <1>4 DEF CreateConflict, CreateRespond, CreateDies, AdvanceCreate, Create
  <2> QED BY <1>4, <2>1 DEF CreateConflict, CreateRespond, CreateDies, rowVars, razorpayVars,
              Exists
<1>5. CASE /\ UNCHANGED <<creates, ordered>>
           /\ \A p \in Orders : Exists(p)' <=> Exists(p)
  BY <1>5
<1> QED BY <1>1, <1>2, <1>3, <1>4, <1>5, OthersKeepRows DEF CreateNext

\* An order is created for one request, and the row that names it is inserted
\* by that request: no row is ever written over by an insert.
THEOREM InsertIsFresh == Spec => []OrdersOfRows
BY TypeCorrect, OrdersOfRowsInit, OrdersOfRowsStep, PTL DEF Spec, TypeInv

-----------------------------------------------------------------------------
\* No rows, no keys.
LEMMA KeysOfRowsInit == Init => KeysOfRows
BY DEF Init, StatusInit, KeysOfRows, Exists

\* The unique index and the answer of the losing request keep one row, and one
\* order handed out, per key.
LEMMA KeysOfRowsStep ==
    TypeInv /\ OrdersOfRows /\ KeysOfRows /\ [Next]_vars => KeysOfRows'
<1> SUFFICES ASSUME TypeInv, OrdersOfRows, KeysOfRows, [Next]_vars PROVE KeysOfRows'
  OBVIOUS
<1> USE DEF TypeInv, TypeOK, KeysOfRows
<1>1. ASSUME NEW r \in CreateRequests, CreateLookup(r) PROVE KeysOfRows'
  BY <1>1, SMTT(60) DEF CreateLookup, RowsWithKey, rowVars, Exists
<1>2. ASSUME NEW r \in CreateRequests, CreateOrder(r) PROVE KeysOfRows'
  <2>1. \A q \in CreateRequests :
          creates'[q].pc \in {"conflict", "respond", "done"} => creates'[q] = creates[q]
    BY <1>2 DEF CreateOrder, AdvanceCreate, Create
  <2> QED BY <1>2, <2>1 DEF CreateOrder, rowVars, Exists
<1>3. ASSUME NEW r \in CreateRequests, CreateInsert(r),
             creates[r].key = NoKey \/ RowsWithKey(creates[r].key) = {},
             insert(creates[r].order, creates[r].key),
             AdvanceCreate(r, "respond", creates[r].order)
      PROVE  KeysOfRows'
  <2> DEFINE new == creates[r].order
  <2>1. new \in Orders /\ ~Exists(new)
    BY <1>3 DEF CreateInsert, OrdersOfRows
  <2>2. \A p \in Orders : /\ Exists(p)' <=> (Exists(p) \/ p = new)
                          /\ p # new => booking'[p] = booking[p]
    BY <1>3, <2>1 DEF insert, Exists, StatusTypeOK
  <2>3. booking'[new].key = creates[r].key
    BY <1>3, <2>1 DEF insert, NewRow
  <2>4. \A q \in CreateRequests :
          /\ creates'[q].key = creates[q].key /\ creates'[q].order = creates[q].order
          /\ creates'[q].pc = IF q = r THEN "respond" ELSE creates[q].pc
    BY <1>3 DEF AdvanceCreate, Create
  <2>5. \A p \in Orders : Exists(p) /\ booking[p].key = creates[r].key => creates[r].key = NoKey
    BY <1>3 DEF RowsWithKey
  <2> HIDE DEF TypeInv, TypeOK
  <2> QED BY <2>1, <2>2, <2>3, <2>4, <2>5
<1>4. ASSUME NEW r \in CreateRequests, CreateInsert(r), creates[r].key # NoKey,
             AdvanceCreate(r, "conflict", creates[r].order), UNCHANGED rowVars
      PROVE  KeysOfRows'
  <2>1. \A q \in CreateRequests :
          /\ creates'[q].key = creates[q].key /\ creates'[q].order = creates[q].order
          /\ creates'[q].pc = IF q = r THEN "conflict" ELSE creates[q].pc
    BY <1>4 DEF AdvanceCreate, Create
  <2> QED BY <1>4, <2>1 DEF rowVars, Exists
<1>5. ASSUME NEW r \in CreateRequests, CreateConflict(r) PROVE KeysOfRows'
  <2>1. PICK o \in RowsWithKey(creates[r].key) : AdvanceCreate(r, "respond", o)
    BY <1>5 DEF CreateConflict
  <2>2. \A q \in CreateRequests :
          /\ creates'[q].key = creates[q].key
          /\ creates'[q].order = IF q = r THEN o ELSE creates[q].order
          /\ creates'[q].pc = IF q = r THEN "respond" ELSE creates[q].pc
    BY <2>1 DEF AdvanceCreate, Create, RowsWithKey
  <2> QED BY <1>5, <2>1, <2>2 DEF CreateConflict, RowsWithKey, rowVars, Exists
<1>6. ASSUME NEW r \in CreateRequests, CreateRespond(r) \/ CreateDies(r) PROVE KeysOfRows'
  <2>1. \A q \in CreateRequests :
          /\ creates'[q].key = creates[q].key /\ creates'[q].order = creates[q].order
          /\ creates'[q].pc = "conflict" => creates[q].pc = "conflict"
          /\ creates'[q].pc \in {"respond", "done"} => creates[q].pc \in {"respond", "done"}
    BY <1>6 DEF CreateRespond, CreateDies, AdvanceCreate, Create
  <2> QED BY <1>6, <2>1 DEF CreateRespond, CreateDies, rowVars, Exists
<1>7. CASE /\ UNCHANGED <<creates, ordered>>
           /\ \A p \in Orders : /\ Exists(p)' <=> Exists(p)
                                /\ booking'[p].key = booking[p].key
  BY <1>7
<1>8. ASSUME NEW r \in CreateRequests, CreateInsert(r) PROVE KeysOfRows'
  BY <1>3, <1>4, <1>8 DEF CreateInsert
<1> QED BY <1>1, <1>2, <1>5, <1>6, <1>7, <1>8, OthersKeepRows DEF CreateNext

\* One row per idempotency key, and the requests of the key go by it.
LEMMA KeysInvariant == Spec => []KeysOfRows
BY TypeCorrect, InsertIsFresh, KeysOfRowsInit, KeysOfRowsStep, PTL DEF Spec, TypeInv

\* Idempotency of create: the requests of one key are all handed the one order
\* whose row carries the key, whoever wins the race for the unique index.
THEOREM CreateIsIdempotent == Spec => []OneOrderPerKey
<1>1. KeysOfRows => OneOrderPerKey
  BY DEF KeysOfRows, OneOrderPerKey
<1> QED BY <1>1, KeysInvariant, PTL

-----------------------------------------------------------------------------
(***************************************************************************)
(* What a step of the system does to one row                                *)
(***************************************************************************)
RowKept(o) == status'[o] = status[o] /\ booking'[o] = booking[o]

RowInserted(o) ==
    /\ ~Exists(o)
    /\ status'[o] = "PENDING_PAYMENT"
    /\ \E k \in Keys \cup {NoKey} : booking'[o] = NewRow(k)

RowConfirmed(o) ==
    /\ \E e \in events : e.type = "payment.captured" /\ e.order = o
    /\ status[o] = "PENDING_PAYMENT" /\ status'[o] = "CONFIRMED"
    /\ booking'[o] = [booking[o] EXCEPT !.paymentId = TRUE]

RowFailed(o) ==
    /\ status[o] = "PENDING_PAYMENT" /\ status'[o] = "PAYMENT_FAILED"
    /\ booking'[o] = booking[o]

RowCancelled(o, c) ==
    /\ cancels[c].pc = "update" /\ cancels[c].order = o
    /\ status[o] \in Cancellable /\ status'[o] = "CANCELLED"
    /\ booking'[o] = [booking[o] EXCEPT !.cancelledBy = cancels[c].by,
                                       !.refundAmount = cancels[c].amount,
                                       !.refundId = cancels[c].refunded]

RowFulfilled(o) ==
    /\ <<status[o], status'[o]>> \in FulfilmentSteps
    /\ booking'[o] = booking[o]

RowSteps(o) ==
    \/ RowKept(o) \/ RowInserted(o) \/ RowConfirmed(o) \/ RowFailed(o)
    \/ \E c \in CancelRequests : RowCancelled(o, c)
    \/ RowFulfilled(o)

\* What any step of the system may do to one row: keep it, or one of the writes
\* of the repository.
LEMMA EveryRowStep ==
    ASSUME TypeInv, OrdersOfRows, [Next]_vars, NEW o \in Orders
    PROVE  RowSteps(o)
<1> USE DEF TypeInv, TypeOK
<1>1. ASSUME NEW r \in CreateRequests, CreateNext(r) PROVE RowSteps(o)
  <2>1. CASE UNCHANGED rowVars
    BY <2>1 DEF rowVars, RowSteps, RowKept
  <2>2. CASE /\ CreateInsert(r) /\ insert(creates[r].order, creates[r].key)
    <3>1. creates[r].order \in Orders /\ ~Exists(creates[r].order)
      BY <2>2 DEF CreateInsert, OrdersOfRows
    <3>2. creates[r].key \in Keys \cup {NoKey}
      BY DEF Create
    <3>3. CASE o = creates[r].order
      BY <2>2, <3>1, <3>2, <3>3 DEF insert, RowSteps, RowInserted, StatusTypeOK
    <3>4. CASE o # creates[r].order
      BY <2>2, <3>4 DEF insert, RowSteps, RowKept, StatusTypeOK
    <3> QED BY <3>3, <3>4
  <2> QED BY <1>1, <2>1, <2>2 DEF CreateNext, CreateLookup, CreateOrder, CreateInsert,
              CreateConflict, CreateRespond, CreateDies
<1>2. ASSUME NEW c \in CancelRequests, CancelNext(c) PROVE RowSteps(o)
  <2> DEFINE q == cancels[c]
  <2>1. CASE UNCHANGED rowVars
    BY <2>1 DEF rowVars, RowSteps, RowKept
  <2>2. ASSUME q.pc = "update", NEW updated \in BOOLEAN,
               updateCancelled(q.order, q.by, q.amount, q.refunded, updated)
        PROVE  RowSteps(o)
    <3>1. CASE q.order = o /\ Matched(o, Cancellable, "CANCELLED", updated)
      BY <2>2, <3>1 DEF updateCancelled, Matched, Unmatched, RowSteps, RowCancelled,
         RowKept, StatusTypeOK, Row
    <3>2. CASE q.order # o \/ ~Matched(o, Cancellable, "CANCELLED", updated)
      BY <2>2, <3>2 DEF updateCancelled, Matched, Unmatched, RowSteps, RowKept,
         StatusTypeOK
    <3> QED BY <3>1, <3>2
  <2>3. CASE CancelUpdate(c)
    BY <2>2, <2>3 DEF CancelUpdate
  <2> QED BY <1>2, <2>1, <2>3 DEF CancelNext, CancelRead, CancelRefund, CancelDies
<1>3. ASSUME NEW w \in Hooks, HookNext(w) PROVE RowSteps(o)
  <2> DEFINE e == hook[w].event
  <2>1. CASE UNCHANGED rowVars
    BY <2>1 DEF rowVars, RowSteps, RowKept
  <2>2. CASE HookCaptured(w)
    <3>1. e \in events /\ e.type = "payment.captured"
      BY <2>2 DEF HookCaptured, HookCarriesEvent
    <3>2. ASSUME NEW updated \in BOOLEAN, updatePaymentCaptured(e.order, updated)
          PROVE  RowSteps(o)
      <4>1. CASE e.order = o /\ Matched(o, {"PENDING_PAYMENT"}, "CONFIRMED", updated)
        <5>1. booking' = [booking EXCEPT ![o].paymentId = TRUE]
          BY <3>2, <4>1 DEF updatePaymentCaptured, Matched, Unmatched, StatusTypeOK
        <5> QED BY <3>1, <4>1, <5>1 DEF Matched, RowSteps, RowConfirmed, StatusTypeOK
      <4>2. CASE e.order # o \/ ~Matched(o, {"PENDING_PAYMENT"}, "CONFIRMED", updated)
        BY <3>2, <4>2 DEF updatePaymentCaptured, Matched, Unmatched, RowSteps, RowKept,
           StatusTypeOK
      <4> QED BY <4>1, <4>2
    <3> QED BY <2>1, <2>2, <3>2 DEF HookCaptured
  <2>3. CASE HookFailed(w)
    <3>1. ASSUME NEW updated \in BOOLEAN, updatePaymentFailed(e.order, updated)
          PROVE  RowSteps(o)
      BY <3>1 DEF updatePaymentFailed, updateStatus, Matched, Unmatched, RowSteps,
         RowKept, RowFailed, StatusTypeOK
    <3> QED BY <2>1, <2>3, <3>1 DEF HookFailed
  <2> QED BY <1>3, <2>1, <2>2, <2>3 DEF HookNext, Deliver, HookClaim, HookDies
<1>4. ASSUME NEW p \in Orders, PaymentCaptured(p) \/ PaymentDeclined(p) \/ TimePasses(p)
      PROVE  RowSteps(o)
  BY <1>4 DEF PaymentCaptured, PaymentDeclined, TimePasses, rowVars, RowSteps, RowKept
<1>5. ASSUME NEW p \in Orders, FulfilmentStep(p) PROVE RowSteps(o)
  <2>1. PICK s \in FulfilmentSteps : status[p] = s[1] /\ status' = [status EXCEPT ![p] = s[2]]
    BY <1>5 DEF FulfilmentStep, Takes
  <2>2. booking' = booking
    BY <1>5 DEF FulfilmentStep, payVars
  <2>3. CASE p = o
    BY <2>1, <2>2, <2>3 DEF RowSteps, RowFulfilled, FulfilmentSteps, StatusTypeOK
  <2>4. CASE p # o
    BY <2>1, <2>2, <2>4 DEF RowSteps, RowKept, StatusTypeOK
  <2> QED BY <2>3, <2>4
<1>6. CASE UNCHANGED vars
  BY <1>6 DEF vars, payVars, RowSteps, RowKept
<1> QED BY <1>1, <1>2, <1>3, <1>4, <1>5, <1>6 DEF Next, PaymentsNext

\* A CANCELLED, PAYMENT_FAILED or COMPLETED row is never written again, by no
\* late webhook and no second cancel.
THEOREM FinalRowsStay == Spec => FinalRowsKept
<1>1. TypeInv /\ OrdersOfRows /\ [Next]_vars =>
        [\A o \in Orders : status[o] \in Final =>
           status'[o] = status[o] /\ booking'[o] = booking[o]]_vars
  <2> SUFFICES ASSUME TypeInv, OrdersOfRows, [Next]_vars, NEW o \in Orders,
                      status[o] \in Final
               PROVE  status'[o] = status[o] /\ booking'[o] = booking[o]
    OBVIOUS
  <2>1. RowSteps(o)
    BY EveryRowStep
  <2> QED BY <2>1 DEF RowSteps, RowKept, RowInserted, RowConfirmed, RowFailed, RowCancelled,
              RowFulfilled, Final, Exists, Cancellable, FulfilmentSteps
<1> QED BY <1>1, TypeCorrect, InsertIsFresh, PTL DEF Spec, TypeInv, FinalRowsKept

-----------------------------------------------------------------------------
(***************************************************************************)
(* Payments                                                                 *)
(***************************************************************************)
PaymentInv == CapturedIsPaid /\ PaidOrderHasRow /\ ServedWasPaid

\* Nothing is paid and nothing served.
LEMMA PaymentInit == Init => PaymentInv
BY DEF Init, StatusInit, NewRow, PaymentInv, CapturedIsPaid, PaidOrderHasRow, ServedWasPaid,
   Served

\* Razorpay emits one event at a time, and captures no order without saying so.
LEMMA RazorpayStep ==
    ASSUME TypeInv, KeysOfRows, [Next]_vars
    PROVE  /\ \A o \in Orders : paid[o] => paid'[o]
           /\ \A o \in Orders : paid'[o] => paid[o] \/ Exists(o)
           /\ \A e \in events' : e.type = "payment.captured" => e \in events \/ paid'[e.order]
<1> USE DEF TypeInv, TypeOK
<1>1. ASSUME NEW p \in Orders, PaymentCaptured(p)
      PROVE  /\ paid' = [paid EXCEPT ![p] = TRUE] /\ Exists(p)
             /\ \A e \in events' : e \in events \/ e.order = p
  <2>1. Exists(p)
    BY <1>1 DEF PaymentCaptured, HandedOut, KeysOfRows
  <2> QED BY <1>1, <2>1 DEF PaymentCaptured, Emit
<1>2. ASSUME NEW p \in Orders, PaymentDeclined(p)
      PROVE  /\ paid' = paid
             /\ \A e \in events' : e \in events \/ e.type = "payment.failed"
  BY <1>2 DEF PaymentDeclined, Emit
<1>3. \/ \E p \in Orders : PaymentCaptured(p) \/ PaymentDeclined(p)
      \/ UNCHANGED <<paid, events>>
  <2>1. ASSUME NEW r \in CreateRequests, CreateNext(r) PROVE UNCHANGED <<paid, events>>
    BY <2>1 DEF CreateNext, CreateLookup, CreateOrder, CreateInsert, CreateConflict,
       CreateRespond, CreateDies, razorpayVars
  <2>2. ASSUME NEW c \in CancelRequests, CancelNext(c) PROVE UNCHANGED <<paid, events>>
    BY <2>2 DEF CancelNext, CancelRead, CancelRefund, CancelUpdate, CancelDies, razorpayVars
  <2>3. ASSUME NEW w \in Hooks, HookNext(w) PROVE UNCHANGED <<paid, events>>
    BY <2>3 DEF HookNext, Deliver, HookClaim, HookCaptured, HookFailed, HookDies, razorpayVars
  <2>4. ASSUME NEW o \in Orders, TimePasses(o) \/ FulfilmentStep(o)
        PROVE  UNCHANGED <<paid, events>>
    BY <2>4 DEF TimePasses, FulfilmentStep, payVars, razorpayVars
  <2>5. CASE UNCHANGED vars
    BY <2>5 DEF vars, payVars, razorpayVars
  <2> QED BY <2>1, <2>2, <2>3, <2>4, <2>5 DEF Next, PaymentsNext
<1>4. CASE UNCHANGED <<paid, events>>
  BY <1>4
<1>5. CASE \E p \in Orders : PaymentCaptured(p)
  BY <1>1, <1>5
<1>6. CASE \E p \in Orders : PaymentDeclined(p)
  BY <1>2, <1>6
<1> QED BY <1>3, <1>4, <1>5, <1>6

\* Confirmations follow events of captured payments, and those follow rows.
LEMMA PaymentInvStep ==
    TypeInv /\ OrdersOfRows /\ KeysOfRows /\ PaymentInv /\ [Next]_vars => PaymentInv'
<1> SUFFICES ASSUME TypeInv, OrdersOfRows, KeysOfRows, PaymentInv, [Next]_vars
             PROVE  PaymentInv'
  OBVIOUS
<1> USE DEF PaymentInv
<1>1. /\ \A o \in Orders : paid[o] => paid'[o]
      /\ \A o \in Orders : paid'[o] => paid[o] \/ Exists(o)
      /\ \A e \in events' : e.type = "payment.captured" => e \in events \/ paid'[e.order]
  BY RazorpayStep
<1>2. events \subseteq Event
  BY DEF TypeInv, TypeOK
<1>3. \A o \in Orders : RowSteps(o)
  BY EveryRowStep
<1>4. booking \in [Orders -> Row]
  BY DEF TypeInv, TypeOK
<1>5. CapturedIsPaid'
  <2>1. \A e \in events' : e.type = "payment.captured" => paid'[e.order]
    BY <1>1, <1>2 DEF CapturedIsPaid, Event
  <2>2. ASSUME NEW o \in Orders, booking'[o].paymentId PROVE paid'[o]
    <3>1. CASE RowConfirmed(o)
      BY <1>1, <3>1 DEF RowConfirmed, CapturedIsPaid
    <3>2. CASE booking'[o].paymentId = booking[o].paymentId
      BY <1>1, <2>2, <3>2 DEF CapturedIsPaid
    <3>3. CASE RowInserted(o)
      BY <2>2, <3>3 DEF RowInserted, NewRow
    <3>4. ASSUME NEW c \in CancelRequests, RowCancelled(o, c)
          PROVE  booking'[o].paymentId = booking[o].paymentId
      BY <1>4, <3>4 DEF RowCancelled, Row
    <3> QED BY <1>3, <3>1, <3>2, <3>3, <3>4 DEF RowSteps, RowKept, RowFailed, RowFulfilled
  <2> QED BY <2>1, <2>2 DEF CapturedIsPaid
<1>6. PaidOrderHasRow'
  BY <1>1, <1>3 DEF PaidOrderHasRow, Exists, RowSteps, RowKept, RowInserted, RowConfirmed,
     RowFailed, RowCancelled, RowFulfilled, FulfilmentSteps
<1>7. ServedWasPaid'
  <2>1. ASSUME NEW o \in Orders, status'[o] \in Served
        PROVE  paid'[o] /\ booking'[o].paymentId
    <3>1. CASE RowConfirmed(o)
      BY <1>1, <1>4, <3>1 DEF RowConfirmed, CapturedIsPaid, Row
    <3>2. CASE RowKept(o) \/ RowFulfilled(o)
      BY <1>1, <2>1, <3>2 DEF RowKept, RowFulfilled, FulfilmentSteps, Served, ServedWasPaid
    <3> QED BY <1>3, <2>1, <3>1, <3>2 DEF RowSteps, RowInserted, RowFailed, RowCancelled, Served
  <2> QED BY <2>1 DEF ServedWasPaid
<1> QED BY <1>5, <1>6, <1>7

\* Payments, their events and the rows they confirm agree.
LEMMA PaymentInvariant == Spec => []PaymentInv
BY TypeCorrect, InsertIsFresh, KeysInvariant, PaymentInit, PaymentInvStep, PTL DEF Spec, TypeInv

\* Nobody is served unpaid, whatever is lost, doubled, delayed or reordered
\* between Razorpay, the webhook handler and the cancels.
THEOREM NothingServedUnpaid == Spec => []ServedWasPaid
BY PaymentInvariant, PTL DEF PaymentInv

\* No payment is captured for an order without a row, so every webhook of a
\* captured payment finds its booking.
THEOREM EveryPaymentFindsItsRow == Spec => []PaidOrderHasRow
BY PaymentInvariant, PTL DEF PaymentInv

-----------------------------------------------------------------------------
(***************************************************************************)
(* Webhooks: the claim, and the confirmation that is sent                   *)
(***************************************************************************)
LEMMA ClaimInit == Init => ProcessedIsClaimed
BY DEF Init, ProcessedIsClaimed, ClaimedOnce

\* Past the claim means claimed, by this delivery and no other.
LEMMA ClaimStep == TypeInv /\ ProcessedIsClaimed /\ [Next]_vars => ProcessedIsClaimed'
<1> SUFFICES ASSUME TypeInv, ProcessedIsClaimed, [Next]_vars PROVE ProcessedIsClaimed'
  OBVIOUS
<1> USE DEF TypeInv, TypeOK, ProcessedIsClaimed, ClaimedOnce
<1>1. ASSUME NEW w \in Hooks, HookClaim(w) PROVE ProcessedIsClaimed'
  <2> DEFINE e == hook[w].event
  <2>1. CASE /\ e \notin claimed
             /\ claimed' = IF e.hasId THEN claimed \cup {e} ELSE claimed
             /\ HookAt(w, "process", e)
    <3>1. \A v \in Hooks : v # w => hook'[v] = hook[v]
      BY <2>1 DEF HookAt
    <3>2. hook'[w].event = e /\ claimed \subseteq claimed' /\ (e.hasId => e \in claimed')
      BY <2>1 DEF HookAt
    <3> HIDE DEF TypeInv, TypeOK
    <3> QED BY <2>1, <3>1, <3>2
  <2>2. CASE Answer200(w) /\ UNCHANGED claimed
    BY <2>2 DEF Answer200, HookAt
  <2> QED BY <1>1, <2>1, <2>2 DEF HookClaim
<1>2. ASSUME NEW w \in Hooks, NEW pc \in {"idle", "claim"}, NEW e \in Event \cup {NoEvent},
             HookAt(w, pc, e), claimed' = claimed
      PROVE  ProcessedIsClaimed'
  BY <1>2 DEF HookAt
<1>3. ASSUME NEW w \in Hooks,
             HookCaptured(w) \/ HookFailed(w) \/ HookDies(w) \/ \E e \in events : Deliver(w, e)
      PROVE  ProcessedIsClaimed'
  <2>1. claimed' = claimed /\ \E pc \in {"idle", "claim"}, e \in Event \cup {NoEvent} : HookAt(w, pc, e)
    BY <1>3 DEF HookCaptured, HookFailed, HookDies, Deliver, AnswerOrStop, Answer200
  <2> QED BY <1>2, <2>1
<1>4. CASE UNCHANGED <<hook, claimed>>
  BY <1>4
<1>5. ASSUME NEW r \in CreateRequests, CreateNext(r) PROVE UNCHANGED <<hook, claimed>>
  BY <1>5 DEF CreateNext, CreateLookup, CreateOrder, CreateInsert, CreateConflict,
     CreateRespond, CreateDies, webhookVars
<1>6. ASSUME NEW c \in CancelRequests, CancelNext(c) PROVE UNCHANGED <<hook, claimed>>
  BY <1>6 DEF CancelNext, CancelRead, CancelRefund, CancelUpdate, CancelDies, webhookVars
<1>7. ASSUME NEW o \in Orders, \/ PaymentCaptured(o) \/ PaymentDeclined(o)
                              \/ TimePasses(o) \/ FulfilmentStep(o)
      PROVE  UNCHANGED <<hook, claimed>>
  BY <1>7 DEF PaymentCaptured, PaymentDeclined, TimePasses, FulfilmentStep, payVars, webhookVars
<1>8. CASE UNCHANGED vars
  BY <1>4, <1>8 DEF vars, payVars, webhookVars
<1> QED BY <1>1, <1>3, <1>4, <1>5, <1>6, <1>7, <1>8 DEF Next, PaymentsNext, HookNext

\* Claim first: of the deliveries of one event whose body carries an id, one at
\* most is past the claim at any time.
THEOREM ProcessedOnce == Spec => []ClaimedOnce
BY TypeCorrect, ClaimInit, ClaimStep, PTL DEF Spec, TypeInv, ProcessedIsClaimed

\* The confirmation is sent only by the step that wrote CONFIRMED.
LEMMA NotifiedStep ==
    ASSUME TypeInv, [Next]_vars, NEW o \in Orders,
           "booking_confirmation" \in notified'[o], "booking_confirmation" \notin notified[o]
    PROVE  status'[o] = "CONFIRMED" /\ booking'[o].paymentId
<1> USE DEF TypeInv, TypeOK
<1>1. ASSUME NEW w \in Hooks, HookCaptured(w)
      PROVE  status'[o] = "CONFIRMED" /\ booking'[o].paymentId
  <2> DEFINE p == hook[w].event.order
  <2>1. PICK updated \in BOOLEAN :
          /\ \/ Exists(p) /\ updatePaymentCaptured(p, updated)
             \/ ~Exists(p) /\ ~updated /\ UNCHANGED rowVars
          /\ notified' = [notified EXCEPT
               ![p] = IF updated THEN @ \cup {"booking_confirmation"} ELSE @]
    BY <1>1 DEF HookCaptured
  <2>2. updated /\ p = o
    BY <2>1
  <2>3. /\ status' = [status EXCEPT ![o] = "CONFIRMED"]
        /\ booking' = [booking EXCEPT ![o].paymentId = TRUE]
    BY <2>1, <2>2 DEF updatePaymentCaptured, Matched, Unmatched
  <2> QED BY <2>3 DEF StatusTypeOK, Row
<1>2. ASSUME NEW w \in Hooks, HookNext(w), ~HookCaptured(w) PROVE UNCHANGED notified
  BY <1>2 DEF HookNext, Deliver, HookClaim, HookFailed, HookDies
<1>3. ASSUME NEW r \in CreateRequests, CreateNext(r) PROVE UNCHANGED notified
  BY <1>3 DEF CreateNext, CreateLookup, CreateOrder, CreateInsert, CreateConflict,
     CreateRespond, CreateDies
<1>4. ASSUME NEW c \in CancelRequests, CancelNext(c)
      PROVE  FALSE
  BY <1>4 DEF CancelNext, CancelRead, CancelRefund, CancelUpdate, CancelDies
<1>5. ASSUME NEW p \in Orders, \/ PaymentCaptured(p) \/ PaymentDeclined(p)
                              \/ TimePasses(p) \/ FulfilmentStep(p)
      PROVE  UNCHANGED notified
  BY <1>5 DEF PaymentCaptured, PaymentDeclined, TimePasses, FulfilmentStep, payVars
<1> QED BY <1>1, <1>2, <1>3, <1>4, <1>5 DEF Next, PaymentsNext, vars, payVars

\* A row that was confirmed never goes back to a status without its payment.
LEMMA ConfirmationStep ==
    TypeInv /\ OrdersOfRows /\ ConfirmationIsTrue /\ [Next]_vars => ConfirmationIsTrue'
<1> SUFFICES ASSUME TypeInv, OrdersOfRows, ConfirmationIsTrue, [Next]_vars, NEW o \in Orders,
                    "booking_confirmation" \in notified'[o]
             PROVE  booking'[o].paymentId /\ status'[o] \in Served \cup {"CANCELLED"}
  BY DEF ConfirmationIsTrue
<1>1. CASE "booking_confirmation" \notin notified[o]
  BY <1>1, NotifiedStep DEF Served
<1>2. CASE "booking_confirmation" \in notified[o]
  <2>1. booking[o].paymentId /\ status[o] \in Served \cup {"CANCELLED"} /\ booking[o] \in Row
    BY <1>2 DEF ConfirmationIsTrue, TypeInv, TypeOK
  <2>2. RowSteps(o)
    BY EveryRowStep
  <2>3. CASE \E c \in CancelRequests : RowCancelled(o, c)
    BY <2>1, <2>3 DEF RowCancelled, Row
  <2>4. CASE RowKept(o) \/ RowFulfilled(o)
    BY <2>1, <2>4 DEF RowKept, RowFulfilled, FulfilmentSteps, Served
  <2> QED BY <2>1, <2>2, <2>3, <2>4 DEF RowSteps, RowInserted, RowConfirmed, RowFailed,
              Served, Exists
<1> QED BY <1>1, <1>2

\* A user who was told that the booking is confirmed has a booking that names
\* the payment, cancelled since or not; it is never PAYMENT_FAILED afterwards.
THEOREM ConfirmationHolds == Spec => []ConfirmationIsTrue
<1>1. Init => ConfirmationIsTrue
  BY DEF Init, ConfirmationIsTrue
<1> QED BY <1>1, TypeCorrect, InsertIsFresh, ConfirmationStep, PTL DEF Spec, TypeInv

-----------------------------------------------------------------------------
(***************************************************************************)
(* Webhooks: what an answer of 200 stands for                               *)
(***************************************************************************)
\* Where the payment of an event that was claimed or answered is.
Accounted(e) ==
    \/ status[e.order] \in Served \cup {"CANCELLED"}
    \/ status[e.order] = "PAYMENT_FAILED" /\ Declined(e.order)
    \/ e.hasId /\ (crashes > 0 \/ InProcess(e))
    \/ "db" \in Faults

FailedWasDeclined == \A o \in Orders : status[o] = "PAYMENT_FAILED" => Declined(o)

AnswerInv ==
    /\ FailedWasDeclined
    /\ \A e \in claimed : e.hasId
    /\ \A e \in claimed \cup acked : e.type = "payment.captured" => Accounted(e)

LEMMA AnswerInit == Init => AnswerInv
BY DEF Init, StatusInit, AnswerInv, FailedWasDeclined

\* Events are not taken back, crashes not undone, and a delivery goes on by
\* itself alone.
LEMMA DeliverySteps ==
    ASSUME TypeInv, [Next]_vars
    PROVE  /\ events \subseteq events' /\ crashes \in Nat /\ crashes' \in Nat
           /\ crashes' >= crashes
           /\ \A w \in Hooks : \/ hook'[w] = hook[w]
                               \/ HookNext(w)
<1> USE CrashAssumption DEF TypeInv, TypeOK
<1>1. ASSUME NEW r \in CreateRequests, CreateNext(r) PROVE UNCHANGED <<hook, crashes, events>>
  BY <1>1 DEF CreateNext, CreateLookup, CreateOrder, CreateInsert, CreateConflict,
     CreateRespond, CreateDies, webhookVars, razorpayVars
<1>2. ASSUME NEW c \in CancelRequests, CancelNext(c) PROVE UNCHANGED <<hook, crashes, events>>
  BY <1>2 DEF CancelNext, CancelRead, CancelRefund, CancelUpdate, CancelDies, webhookVars,
     razorpayVars
<1>3. ASSUME NEW o \in Orders, PaymentCaptured(o) \/ PaymentDeclined(o)
      PROVE  UNCHANGED <<hook, crashes>> /\ events \subseteq events'
  BY <1>3 DEF PaymentCaptured, PaymentDeclined, Emit, webhookVars
<1>4. ASSUME NEW o \in Orders, TimePasses(o) \/ FulfilmentStep(o)
      PROVE  UNCHANGED <<hook, crashes, events>>
  BY <1>4 DEF TimePasses, FulfilmentStep, payVars, webhookVars, razorpayVars
<1>5. ASSUME NEW w \in Hooks, HookNext(w)
      PROVE  /\ events' = events
             /\ crashes' = crashes \/ crashes' = crashes + 1
             /\ \A v \in Hooks \ {w} : hook'[v] = hook[v]
  BY <1>5 DEF HookNext, Deliver, HookClaim, HookCaptured, HookFailed, HookDies, AnswerOrStop,
     Answer200, HookAt, razorpayVars
<1>6. CASE UNCHANGED vars
  BY <1>6 DEF vars, payVars, webhookVars, razorpayVars
<1> QED BY <1>1, <1>2, <1>3, <1>4, <1>5, <1>6 DEF Next, PaymentsNext

\* Only the event of a declined payment fails a row.
LEMMA FailedByEvent ==
    ASSUME TypeInv, [Next]_vars, NEW o \in Orders,
           status'[o] = "PAYMENT_FAILED", status[o] # "PAYMENT_FAILED"
    PROVE  Declined(o)
<1> USE DEF TypeInv, TypeOK, StatusTypeOK
<1>1. ASSUME NEW r \in CreateRequests, CreateNext(r) PROVE FALSE
  BY <1>1 DEF CreateNext, CreateLookup, CreateOrder, CreateInsert, CreateConflict,
     CreateRespond, CreateDies, insert, rowVars
<1>2. ASSUME NEW c \in CancelRequests, CancelNext(c) PROVE FALSE
  BY <1>2 DEF CancelNext, CancelRead, CancelRefund, CancelUpdate, CancelDies,
     updateCancelled, Matched, Unmatched, rowVars
<1>3. ASSUME NEW w \in Hooks, HookFailed(w) PROVE Declined(o)
  <2>1. /\ hook[w].event \in events /\ hook[w].event.type = "payment.failed"
        /\ hook[w].event.order = o
    BY <1>3 DEF HookFailed, HookCarriesEvent, updatePaymentFailed, updateStatus, Matched,
       Unmatched, rowVars
  <2> QED BY <2>1 DEF Declined
<1>4. ASSUME NEW w \in Hooks, HookNext(w), ~HookFailed(w) PROVE FALSE
  BY <1>4 DEF HookNext, Deliver, HookClaim, HookCaptured, HookDies, updatePaymentCaptured,
     Matched, Unmatched, rowVars
<1>5. ASSUME NEW p \in Orders, PaymentCaptured(p) \/ PaymentDeclined(p) \/ TimePasses(p)
      PROVE  FALSE
  BY <1>5 DEF PaymentCaptured, PaymentDeclined, TimePasses, rowVars
<1>6. ASSUME NEW p \in Orders, FulfilmentStep(p) PROVE FALSE
  BY <1>6 DEF FulfilmentStep, Takes, FulfilmentSteps
<1>7. CASE UNCHANGED vars
  BY <1>7 DEF vars
<1> QED BY <1>1, <1>2, <1>3, <1>4, <1>5, <1>6, <1>7 DEF Next, PaymentsNext

\* A row is failed for good, and after the event.
LEMMA FailedStep ==
    ASSUME TypeInv, [Next]_vars, FailedWasDeclined
    PROVE  FailedWasDeclined'
<1> SUFFICES ASSUME NEW o \in Orders, status'[o] = "PAYMENT_FAILED" PROVE Declined(o)'
  BY DEF FailedWasDeclined
<1>1. Declined(o)
  BY FailedByEvent DEF FailedWasDeclined
<1> QED BY <1>1, DeliverySteps DEF Declined

\* A delivery that ran to its end wrote the row, or found it written.
LEMMA CapturedIsAccounted ==
    ASSUME TypeInv, PaymentInv, FailedWasDeclined, NEW w \in Hooks, HookCaptured(w),
           NEW e, e = hook[w].event
    PROVE  Accounted(e)'
<1> USE DEF TypeInv, TypeOK, StatusTypeOK
<1> DEFINE o == e.order
<1>1. e \in events /\ e.type = "payment.captured" /\ o \in Orders
  BY DEF HookCaptured, HookCarriesEvent, Event
<1>2. Exists(o)
  BY <1>1 DEF PaymentInv, CapturedIsPaid, PaidOrderHasRow
<1>3. PICK updated \in BOOLEAN : updatePaymentCaptured(o, updated)
  BY <1>2 DEF HookCaptured
<1>4. CASE Matched(o, {"PENDING_PAYMENT"}, "CONFIRMED", updated)
  BY <1>1, <1>4 DEF Matched, Accounted, Served
<1>5. CASE "db" \in Faults
  BY <1>5 DEF Accounted
<1>6. CASE status[o] # "PENDING_PAYMENT" /\ UNCHANGED status
  <2>1. status'[o] \in Served \cup {"CANCELLED", "PAYMENT_FAILED"}
    BY <1>1, <1>2, <1>6 DEF Exists, Status, Served
  <2>2. status'[o] = "PAYMENT_FAILED" => Declined(o)'
    BY <1>1, <1>6 DEF FailedWasDeclined, Declined, HookCaptured
  <2> QED BY <2>1, <2>2 DEF Accounted
<1> QED BY <1>3, <1>4, <1>5, <1>6 DEF updatePaymentCaptured, Unmatched

\* A payment that is accounted for stays so.
LEMMA AccountedStays ==
    ASSUME TypeInv, OrdersOfRows, PaymentInv, FailedWasDeclined, [Next]_vars,
           NEW e \in Event, e.type = "payment.captured", Accounted(e)
    PROVE  Accounted(e)'
<1> DEFINE o == e.order
<1>1. o \in Orders
  BY DEF Event
<1>2. RowSteps(o)
  BY <1>1, EveryRowStep
<1>3. CASE status[o] \in Served \cup {"CANCELLED"}
  <2>1. status'[o] \in Served \cup {"CANCELLED"}
    BY <1>2, <1>3 DEF RowSteps, RowKept, RowInserted, RowConfirmed, RowFailed, RowCancelled,
       RowFulfilled, FulfilmentSteps, Served, Exists
  <2> QED BY <2>1 DEF Accounted
<1>4. CASE status[o] = "PAYMENT_FAILED" /\ Declined(o)
  <2>1. status'[o] = "PAYMENT_FAILED"
    BY <1>2, <1>4 DEF RowSteps, RowKept, RowInserted, RowConfirmed, RowFailed, RowCancelled,
       RowFulfilled, FulfilmentSteps, Cancellable, Exists
  <2>2. Declined(o)'
    BY <1>4, DeliverySteps DEF Declined
  <2> QED BY <2>1, <2>2 DEF Accounted
<1>5. CASE e.hasId /\ crashes > 0
  <2>1. crashes' > 0
    BY <1>5, DeliverySteps
  <2> QED BY <1>5, <2>1 DEF Accounted
<1>6. ASSUME e.hasId, NEW w \in Hooks, hook[w].pc = "process", hook[w].event = e
      PROVE  Accounted(e)'
  <2>1. CASE hook'[w] = hook[w]
    BY <1>6, <2>1 DEF Accounted, InProcess
  <2>2. CASE HookCaptured(w)
    BY <1>6, <2>2, CapturedIsAccounted
  <2>3. CASE HookDies(w)
    <3>1. crashes' > 0
      BY <2>3, DeliverySteps DEF HookDies
    <3> QED BY <1>6, <3>1 DEF Accounted
  <2>4. HookNext(w) => HookCaptured(w) \/ HookDies(w)
    BY <1>6 DEF HookNext, Deliver, HookClaim, HookFailed
  <2> QED BY <2>1, <2>2, <2>3, <2>4, DeliverySteps
<1>7. CASE "db" \in Faults
  BY <1>7 DEF Accounted
<1> QED BY <1>3, <1>4, <1>5, <1>6, <1>7 DEF Accounted, InProcess

\* What is claimed or answered by a step, and was not before.
LEMMA NewAnswers ==
    ASSUME TypeInv, [Next]_vars, NEW e \in claimed' \cup acked', e \notin claimed \cup acked
    PROVE  \E w \in Hooks :
             /\ hook[w].event = e
             /\ \/ e.hasId /\ hook'[w].pc = "process" /\ hook'[w].event = e
                \/ HookCaptured(w)
                \/ HookFailed(w)
<1> USE DEF TypeInv, TypeOK
<1>1. ASSUME NEW w \in Hooks, HookNext(w)
      PROVE  /\ hook[w].event = e
             /\ \/ e.hasId /\ hook'[w].pc = "process" /\ hook'[w].event = e
                \/ HookCaptured(w)
                \/ HookFailed(w)
  <2>1. CASE HookClaim(w)
    BY <2>1 DEF HookClaim, Answer200, HookAt
  <2>2. CASE HookCaptured(w) \/ HookFailed(w)
    BY <2>2 DEF HookCaptured, HookFailed, AnswerOrStop, Answer200
  <2>3. CASE HookDies(w) \/ \E d \in events : Deliver(w, d)
    BY <2>3 DEF HookDies, Deliver, razorpayVars
  <2> QED BY <1>1, <2>1, <2>2, <2>3 DEF HookNext
<1>2. ASSUME NEW r \in CreateRequests, CreateNext(r) PROVE FALSE
  BY <1>2 DEF CreateNext, CreateLookup, CreateOrder, CreateInsert, CreateConflict,
     CreateRespond, CreateDies, webhookVars, razorpayVars
<1>3. ASSUME NEW c \in CancelRequests, CancelNext(c) PROVE FALSE
  BY <1>3 DEF CancelNext, CancelRead, CancelRefund, CancelUpdate, CancelDies, webhookVars,
     razorpayVars
<1>4. ASSUME NEW o \in Orders, \/ PaymentCaptured(o) \/ PaymentDeclined(o)
                              \/ TimePasses(o) \/ FulfilmentStep(o)
      PROVE  FALSE
  BY <1>4 DEF PaymentCaptured, PaymentDeclined, TimePasses, FulfilmentStep, payVars,
     webhookVars, razorpayVars
<1>5. CASE UNCHANGED vars
  BY <1>5 DEF vars, payVars, webhookVars, razorpayVars
<1> QED BY <1>1, <1>2, <1>3, <1>4, <1>5 DEF Next, PaymentsNext

\* Only events with an id are claimed.
LEMMA ClaimsHaveIds ==
    ASSUME TypeInv, AnswerInv, [Next]_vars, NEW e \in claimed' PROVE e.hasId
<1>1. CASE e \in claimed \/ UNCHANGED claimed
  BY <1>1 DEF AnswerInv
<1>2. ASSUME NEW w \in Hooks, HookNext(w) PROVE e.hasId
  BY <1>1, <1>2 DEF HookNext, Deliver, HookClaim, HookCaptured, HookFailed, HookDies
<1>3. ASSUME NEW r \in CreateRequests, CreateNext(r) PROVE UNCHANGED claimed
  BY <1>3 DEF CreateNext, CreateLookup, CreateOrder, CreateInsert, CreateConflict,
     CreateRespond, CreateDies, webhookVars
<1>4. ASSUME NEW c \in CancelRequests, CancelNext(c) PROVE UNCHANGED claimed
  BY <1>4 DEF CancelNext, CancelRead, CancelRefund, CancelUpdate, CancelDies, webhookVars
<1>5. ASSUME NEW o \in Orders, \/ PaymentCaptured(o) \/ PaymentDeclined(o)
                              \/ TimePasses(o) \/ FulfilmentStep(o)
      PROVE  UNCHANGED claimed
  BY <1>5 DEF PaymentCaptured, PaymentDeclined, TimePasses, FulfilmentStep, payVars, webhookVars
<1>6. CASE UNCHANGED vars
  BY <1>1, <1>6 DEF vars, payVars, webhookVars
<1> QED BY <1>1, <1>2, <1>3, <1>4, <1>5, <1>6 DEF Next, PaymentsNext

\* No step claims or answers a payment without accounting for it.
LEMMA AnswerStep ==
    TypeInv /\ OrdersOfRows /\ PaymentInv /\ AnswerInv /\ [Next]_vars => AnswerInv'
<1> SUFFICES ASSUME TypeInv, OrdersOfRows, PaymentInv, AnswerInv, [Next]_vars
             PROVE  AnswerInv'
  OBVIOUS
<1>1. FailedWasDeclined'
  BY FailedStep DEF AnswerInv
<1>2. \A e \in claimed' : e.hasId
  BY ClaimsHaveIds
<1>3. ASSUME NEW e \in claimed' \cup acked', e.type = "payment.captured"
      PROVE  Accounted(e)'
  <2>1. CASE e \in claimed \cup acked
    <3>1. e \in Event /\ Accounted(e) /\ FailedWasDeclined
      BY <1>3, <2>1 DEF AnswerInv, TypeInv, TypeOK
    <3> QED BY <1>3, <3>1, AccountedStays
  <2>2. CASE e \notin claimed \cup acked
    <3>1. PICK w \in Hooks :
            /\ hook[w].event = e
            /\ \/ e.hasId /\ hook'[w].pc = "process" /\ hook'[w].event = e
               \/ HookCaptured(w)
               \/ HookFailed(w)
      BY <2>2, NewAnswers
    <3>2. CASE e.hasId /\ hook'[w].pc = "process" /\ hook'[w].event = e
      BY <3>2 DEF Accounted, InProcess
    <3>3. CASE HookCaptured(w)
      BY <3>1, <3>3, CapturedIsAccounted DEF AnswerInv
    <3>4. CASE HookFailed(w)
      BY <1>3, <3>1, <3>4 DEF HookFailed
    <3> QED BY <3>1, <3>2, <3>3, <3>4
  <2> QED BY <2>1, <2>2
<1> QED BY <1>1, <1>2, <1>3 DEF AnswerInv

\* An answer of 200 to a captured payment means the payment is on the row, but
\* for the three ways to lose it: a failing database, a delivery that died after
\* its claim, and a declined attempt whose event was handled first.
THEOREM AnswersAreHandled == Spec => []AnsweredIsHandled
<1>1. AnswerInv => AnsweredIsHandled
  BY DEF AnswerInv, Accounted, AnsweredIsHandled
<1> QED BY <1>1, TypeCorrect, InsertIsFresh, PaymentInvariant, AnswerInit, AnswerStep,
        PTL DEF Spec, TypeInv

-----------------------------------------------------------------------------
(***************************************************************************)
(* Cancels and refunds                                                      *)
(***************************************************************************)
RefundInv == CancelsUnderWay /\ RefundOnRowWasMade /\ OneCancelWins

\* No cancel has begun and nothing was refunded.
LEMMA RefundInit == Init => RefundInv
<1> SUFFICES ASSUME Init PROVE RefundInv
  OBVIOUS
<1>1. CancelsUnderWay
  BY DEF Init, CancelsUnderWay
<1>2. RefundOnRowWasMade
  <2>1. \A o \in Orders : booking[o].refundId = FALSE
    BY DEF Init, NewRow
  <2>2. \A o \in Orders : ~(refunded[o] > 0)
    <3>1. ASSUME NEW o \in Orders PROVE ~(refunded[o] > 0)
      BY SMT DEF Init
    <3> QED BY <3>1
  <2> QED BY <2>1, <2>2, Zenon DEF RefundOnRowWasMade
<1>3. OneCancelWins
  BY DEF Init, OneCancelWins
<1> QED BY <1>1, <1>2, <1>3 DEF RefundInv

\* A step that is not a cancel's touches no cancel and no refund.
LEMMA OthersKeepRefunds ==
    ASSUME [Next]_vars
    PROVE  \/ \E c \in CancelRequests : CancelNext(c)
           \/ UNCHANGED <<cancels, refunded>>
<1>1. ASSUME NEW r \in CreateRequests, CreateNext(r) PROVE UNCHANGED <<cancels, refunded>>
  BY <1>1 DEF CreateNext, CreateLookup, CreateOrder, CreateInsert, CreateConflict,
     CreateRespond, CreateDies, razorpayVars
<1>2. ASSUME NEW w \in Hooks, HookNext(w) PROVE UNCHANGED <<cancels, refunded>>
  BY <1>2 DEF HookNext, Deliver, HookClaim, HookCaptured, HookFailed, HookDies, requestVars,
     razorpayVars
<1>3. ASSUME NEW o \in Orders, \/ PaymentCaptured(o) \/ PaymentDeclined(o)
                              \/ TimePasses(o) \/ FulfilmentStep(o)
      PROVE  UNCHANGED <<cancels, refunded>>
  BY <1>3 DEF PaymentCaptured, PaymentDeclined, TimePasses, FulfilmentStep, payVars,
     requestVars, razorpayVars
<1> QED BY <1>1, <1>2, <1>3 DEF Next, PaymentsNext, vars, payVars, requestVars, razorpayVars

\* What the steps of a cancel do to it, to its row and to the money.
CancelBegun(c) ==
    /\ cancels[c].pc = "idle" /\ UNCHANGED <<rowVars, refunded>>
    /\ cancels'[c].order \in Orders /\ Exists(cancels'[c].order)
    /\ cancels'[c].pc \in {"conflict", "refused", "refund", "update"}
    /\ cancels'[c].pc = "refund" =>
          cancels'[c].amount > 0 /\ booking[cancels'[c].order].paymentId
    /\ ~cancels'[c].refunded

CancelRefunded(c) ==
    /\ cancels[c].pc = "refund" /\ UNCHANGED rowVars
    /\ refunded' = [refunded EXCEPT ![cancels[c].order] = @ + cancels[c].amount]
    /\ cancels'[c].pc \in {"update", "refused"}
    /\ cancels'[c].order = cancels[c].order
    /\ cancels'[c].amount = cancels[c].amount

CancelEnded(c) ==
    /\ cancels[c].pc = "update" /\ refunded' = refunded
    /\ cancels'[c].pc \in {"ok", "conflict"}
    /\ cancels'[c] = [cancels[c] EXCEPT !.pc = cancels'[c].pc]
    /\ cancels'[c].pc = "ok" /\ cancels[c].order \in Orders =>
          RowCancelled(cancels[c].order, c)

CancelGivenUp(c) ==
    /\ cancels[c].pc \in {"refund", "update"} /\ UNCHANGED <<rowVars, refunded>>
    /\ cancels'[c].pc \in {"refused", "failed"}
    /\ cancels'[c].order = cancels[c].order

\* One request's step leaves the others alone and begins, refunds, ends or
\* gives up its own cancel.
LEMMA CancelSteps ==
    ASSUME TypeInv, NEW c \in CancelRequests, CancelNext(c)
    PROVE  /\ \A d \in CancelRequests \ {c} : cancels'[d] = cancels[d]
           /\ CancelBegun(c) \/ CancelRefunded(c) \/ CancelEnded(c) \/ CancelGivenUp(c)
<1> USE DEF TypeInv, TypeOK
<1> DEFINE q == cancels[c]
<1>1. ASSUME NEW o \in Orders, NEW by \in {"USER", "PROVIDER"}, CancelRead(c, o, by)
      PROVE  CancelBegun(c) /\ \A d \in CancelRequests \ {c} : cancels'[d] = cancels[d]
  <2>1. PICK pc \in {"conflict", "refused", "refund", "update"} :
          /\ cancels' = [cancels EXCEPT
               ![c] = [pc |-> pc, order |-> o, by |-> by, amount |-> RefundDue(o, by),
                       refunded |-> FALSE]]
          /\ pc = "refund" => RefundDue(o, by) > 0 /\ booking[o].paymentId
    BY <1>1 DEF CancelRead
  <2>2. cancels'[c] = [pc |-> pc, order |-> o, by |-> by, amount |-> RefundDue(o, by),
                       refunded |-> FALSE]
    BY <2>1
  <2> QED BY <1>1, <2>1, <2>2 DEF CancelRead, CancelBegun, razorpayVars
<1>2. ASSUME CancelRefund(c)
      PROVE  /\ CancelRefunded(c) \/ CancelGivenUp(c)
             /\ \A d \in CancelRequests \ {c} : cancels'[d] = cancels[d]
  <2>1. CASE AdvanceCancel(c, "refused") /\ UNCHANGED refunded
    <3>1. cancels'[c] = [q EXCEPT !.pc = "refused"] /\ q \in Cancel
      BY <2>1 DEF AdvanceCancel
    <3>2. cancels'[c].pc = "refused" /\ cancels'[c].order = q.order
      BY <3>1 DEF Cancel
    <3> QED BY <1>2, <2>1, <3>2 DEF CancelRefund, AdvanceCancel, CancelGivenUp
  <2>2. ASSUME refunded' = [refunded EXCEPT ![q.order] = @ + q.amount],
               NEW pc \in {"update", "refused"},
               cancels' = [cancels EXCEPT ![c].pc = pc, ![c].refunded = TRUE]
        PROVE  /\ CancelRefunded(c)
               /\ \A d \in CancelRequests \ {c} : cancels'[d] = cancels[d]
    <3>1. cancels'[c] = [[q EXCEPT !.pc = pc] EXCEPT !.refunded = TRUE] /\ q \in Cancel
      BY <2>2
    <3>2. cancels'[c].pc = pc /\ cancels'[c].order = q.order /\ cancels'[c].amount = q.amount
      BY <3>1 DEF Cancel
    <3> QED BY <1>2, <2>2, <3>2 DEF CancelRefund, CancelRefunded
  <2> QED BY <1>2, <2>1, <2>2 DEF CancelRefund
<1>3. ASSUME CancelUpdate(c)
      PROVE  CancelEnded(c) /\ \A d \in CancelRequests \ {c} : cancels'[d] = cancels[d]
  <2>1. PICK updated \in BOOLEAN :
          /\ updateCancelled(q.order, q.by, q.amount, q.refunded, updated)
          /\ AdvanceCancel(c, IF updated THEN "ok" ELSE "conflict")
    BY <1>3 DEF CancelUpdate
  <2>2. ASSUME updated, q.order \in Orders PROVE RowCancelled(q.order, c)
    <3>1. /\ Matched(q.order, Cancellable, "CANCELLED", updated)
          /\ booking' = [booking EXCEPT ![q.order].cancelledBy = q.by,
                                        ![q.order].refundAmount = q.amount,
                                        ![q.order].refundId = q.refunded]
      BY <2>1, <2>2 DEF updateCancelled, Unmatched
    <3>2. status'[q.order] = "CANCELLED" /\ status[q.order] \in Cancellable
      BY <2>2, <3>1 DEF Matched, StatusTypeOK
    <3>3. booking'[q.order] = [booking[q.order] EXCEPT !.cancelledBy = q.by,
                                 !.refundAmount = q.amount, !.refundId = q.refunded]
      BY <2>2, <3>1
    <3> QED BY <1>3, <3>2, <3>3 DEF CancelUpdate, RowCancelled
  <2>3. /\ cancels'[c] = [q EXCEPT !.pc = cancels'[c].pc]
        /\ cancels'[c].pc = IF updated THEN "ok" ELSE "conflict"
        /\ \A d \in CancelRequests \ {c} : cancels'[d] = cancels[d]
    BY <2>1 DEF AdvanceCancel, Cancel
  <2> QED BY <1>3, <2>2, <2>3 DEF CancelUpdate, CancelEnded, razorpayVars
<1>4. ASSUME CancelDies(c)
      PROVE  CancelGivenUp(c) /\ \A d \in CancelRequests \ {c} : cancels'[d] = cancels[d]
  BY <1>4 DEF CancelDies, CancelGivenUp, AdvanceCancel, Cancel, razorpayVars
<1> QED BY <1>1, <1>2, <1>3, <1>4 DEF CancelNext

\* A cancel under way keeps what it needs: its row exists, its refund is within
\* the price, and what it refunded is out.
LEMMA CancelsUnderWayStep ==
    ASSUME TypeInv, OrdersOfRows, KeysOfRows, PaymentInv, CancelsUnderWay, [Next]_vars
    PROVE  CancelsUnderWay'
<1> USE DEF CancelsUnderWay
<1> DEFINE Good(c) ==
      /\ cancels[c].pc # "idle" => cancels[c].order \in Orders /\ Exists(cancels[c].order)
      /\ cancels[c].pc = "refund" =>
            cancels[c].amount > 0 /\ booking[cancels[c].order].paymentId
      /\ cancels[c].pc = "update" /\ cancels[c].refunded =>
            cancels[c].amount > 0 /\ refunded[cancels[c].order] >= cancels[c].amount
<1>1. \A o \in Orders : /\ Exists(o) => Exists(o)'
                        /\ Exists(o) /\ booking[o].paymentId => booking'[o].paymentId
  <2> SUFFICES ASSUME NEW o \in Orders, Exists(o)
               PROVE  Exists(o)' /\ (booking[o].paymentId => booking'[o].paymentId)
    OBVIOUS
  <2>1. RowSteps(o) /\ booking[o] \in Row
    BY EveryRowStep DEF TypeInv, TypeOK
  <2>2. CASE RowKept(o) \/ RowFailed(o) \/ RowFulfilled(o)
    BY <2>2 DEF RowKept, RowFailed, RowFulfilled, FulfilmentSteps, Exists
  <2>3. CASE RowConfirmed(o) \/ \E c \in CancelRequests : RowCancelled(o, c)
    BY <2>1, <2>3 DEF RowConfirmed, RowCancelled, Exists, Row
  <2> QED BY <2>1, <2>2, <2>3 DEF RowSteps, RowInserted
<1>2. \A o \in Orders : refunded'[o] >= refunded[o] /\ refunded[o] \in Nat /\ refunded'[o] \in Nat
  <2>1. refunded \in [Orders -> 0..Amount] /\ \A c \in CancelRequests : cancels[c].amount \in Nat
    BY AmountAssumption DEF TypeInv, TypeOK, Cancel
  <2>2. ASSUME NEW c \in CancelRequests, CancelNext(c)
        PROVE  \/ refunded' = refunded
               \/ refunded' = [refunded EXCEPT ![cancels[c].order] = @ + cancels[c].amount]
    BY <2>2, CancelSteps DEF CancelBegun, CancelRefunded, CancelEnded, CancelGivenUp
  <2> QED BY <2>1, <2>2, OthersKeepRefunds, AmountAssumption
<1>3. \A c \in CancelRequests : cancels[c].amount \in Nat
  BY AmountAssumption DEF TypeInv, TypeOK, Cancel
<1>4. ASSUME NEW c \in CancelRequests, cancels'[c] = cancels[c] PROVE Good(c)'
  BY <1>1, <1>2, <1>3, <1>4
<1>5. ASSUME NEW c \in CancelRequests, CancelNext(c) PROVE Good(c)'
  <2>1. CASE CancelBegun(c)
    BY <1>1, <2>1 DEF CancelBegun, rowVars, Exists
  <2>2. CASE CancelRefunded(c)
    <3>1. refunded'[cancels[c].order] >= cancels[c].amount
      BY <1>2, <1>3, <2>2 DEF CancelRefunded, TypeInv, TypeOK
    <3> QED BY <1>1, <2>2, <3>1 DEF CancelRefunded
  <2>3. CASE CancelEnded(c)
    <3>1. cancels'[c].order = cancels[c].order
      BY <2>3 DEF CancelEnded, TypeInv, TypeOK, Cancel
    <3> QED BY <1>1, <2>3, <3>1 DEF CancelEnded
  <2>4. CASE CancelGivenUp(c)
    BY <1>1, <2>4 DEF CancelGivenUp
  <2> QED BY <1>5, <2>1, <2>2, <2>3, <2>4, CancelSteps
<1>6. \A c \in CancelRequests : cancels'[c] = cancels[c] \/ CancelNext(c)
  BY CancelSteps, OthersKeepRefunds
<1> QED BY <1>4, <1>5, <1>6

\* A row names a refund only after the cancel that made it won the update.
LEMMA RefundOnRowStep ==
    ASSUME TypeInv, OrdersOfRows, PaymentInv, CancelsUnderWay, RefundOnRowWasMade, [Next]_vars
    PROVE  RefundOnRowWasMade'
<1> SUFFICES ASSUME NEW o \in Orders
             PROVE  /\ booking'[o].refundId => /\ status'[o] = "CANCELLED"
                                               /\ booking'[o].refundAmount > 0
                                               /\ refunded'[o] >= booking'[o].refundAmount
                    /\ refunded'[o] > 0 => paid'[o] /\ booking'[o].paymentId
  BY DEF RefundOnRowWasMade
<1>1. /\ booking[o] \in Row /\ refunded \in [Orders -> 0..Amount] /\ Amount \in Nat
      /\ \A c \in CancelRequests : cancels[c].amount \in Nat
  BY AmountAssumption DEF TypeInv, TypeOK, Cancel
<1>2. RowSteps(o)
  BY EveryRowStep
<1>3. /\ paid[o] => paid'[o]
      /\ booking[o].paymentId => paid[o]
  <2>1. paid' = paid \/ \E p \in Orders : PaymentCaptured(p)
    BY Zenon DEF Next, PaymentsNext, CreateNext, CreateLookup, CreateOrder, CreateInsert,
       CreateConflict, CreateRespond, CreateDies, CancelNext, CancelRead, CancelRefund,
       CancelUpdate, CancelDies, HookNext, Deliver, HookClaim, HookCaptured, HookFailed,
       HookDies, PaymentDeclined, TimePasses, FulfilmentStep, vars, payVars, razorpayVars
  <2>2. paid[o] => paid'[o]
    BY <2>1 DEF PaymentCaptured, TypeInv, TypeOK
  <2> QED BY <2>2 DEF PaymentInv, CapturedIsPaid
<1>4. /\ booking[o].refundId => /\ status[o] = "CANCELLED"
                                /\ booking[o].refundAmount > 0
                                /\ refunded[o] >= booking[o].refundAmount
      /\ refunded[o] > 0 => paid[o] /\ booking[o].paymentId
  BY DEF RefundOnRowWasMade
<1>5. \/ refunded'[o] = refunded[o]
      \/ /\ RowKept(o) /\ refunded'[o] >= refunded[o] /\ refunded'[o] \in Int
         /\ booking[o].paymentId
  <2>1. ASSUME NEW c \in CancelRequests, CancelRefunded(c)
        PROVE  \/ refunded'[o] = refunded[o]
               \/ /\ RowKept(o) /\ refunded'[o] >= refunded[o] /\ refunded'[o] \in Int
                  /\ booking[o].paymentId
    <3>1. CASE cancels[c].order = o
      <4>1. booking[o].paymentId
        BY <2>1, <3>1 DEF CancelRefunded, CancelsUnderWay
      <4>2. refunded'[o] = refunded[o] + cancels[c].amount
        BY <1>1, <2>1, <3>1 DEF CancelRefunded
      <4> QED BY <1>1, <2>1, <4>1, <4>2 DEF CancelRefunded, RowKept, rowVars
    <3>2. CASE cancels[c].order # o
      BY <1>1, <2>1, <3>2 DEF CancelRefunded
    <3> QED BY <3>1, <3>2
  <2>2. ASSUME NEW c \in CancelRequests, CancelNext(c)
        PROVE  CancelRefunded(c) \/ refunded' = refunded
    BY <2>2, CancelSteps DEF CancelBegun, CancelEnded, CancelGivenUp
  <2> QED BY <2>1, <2>2, OthersKeepRefunds
<1>6. CASE RowKept(o)
  BY <1>1, <1>3, <1>4, <1>5, <1>6 DEF RowKept, Row
<1>7. CASE refunded'[o] = refunded[o] /\ ~RowKept(o)
  <2>1. CASE RowInserted(o)
    <3>1. ~booking'[o].refundId /\ ~paid[o]
      BY <2>1 DEF RowInserted, NewRow, PaymentInv, PaidOrderHasRow
    <3> QED BY <1>4, <1>7, <3>1
  <2>2. CASE RowConfirmed(o)
    <3>1. /\ booking'[o].refundId = booking[o].refundId /\ booking'[o].paymentId
          /\ ~booking[o].refundId
      BY <1>1, <1>4, <2>2 DEF RowConfirmed, Row
    <3> QED BY <1>3, <1>4, <1>7, <3>1
  <2>3. CASE RowFailed(o) \/ RowFulfilled(o)
    <3>1. booking'[o] = booking[o] /\ status[o] # "CANCELLED"
      BY <2>3 DEF RowFailed, RowFulfilled, FulfilmentSteps
    <3> QED BY <1>3, <1>4, <1>7, <3>1
  <2>4. ASSUME NEW c \in CancelRequests, RowCancelled(o, c)
        PROVE  /\ booking'[o].refundId => /\ status'[o] = "CANCELLED"
                                          /\ booking'[o].refundAmount > 0
                                          /\ refunded'[o] >= booking'[o].refundAmount
               /\ refunded'[o] > 0 => paid'[o] /\ booking'[o].paymentId
    <3>1. /\ booking'[o].refundId = cancels[c].refunded
          /\ booking'[o].refundAmount = cancels[c].amount
          /\ booking'[o].paymentId = booking[o].paymentId
          /\ status'[o] = "CANCELLED"
      BY <1>1, <2>4 DEF RowCancelled, Row
    <3>2. cancels[c].refunded => cancels[c].amount > 0 /\ refunded[o] >= cancels[c].amount
      BY <2>4 DEF RowCancelled, CancelsUnderWay
    <3> QED BY <1>3, <1>4, <1>7, <3>1, <3>2
  <2> QED BY <1>2, <1>7, <2>1, <2>2, <2>3, <2>4 DEF RowSteps
<1> QED BY <1>5, <1>6, <1>7

\* The update lets one cancel through, and nothing writes the row afterwards.
LEMMA OneCancelStep ==
    ASSUME TypeInv, OrdersOfRows, CancelsUnderWay, OneCancelWins, [Next]_vars
    PROVE  OneCancelWins'
<1> DEFINE Won(c) == LET row == booking[cancels[c].order]
                     IN  /\ status[cancels[c].order] = "CANCELLED"
                         /\ row.cancelledBy = cancels[c].by
                         /\ row.refundAmount = cancels[c].amount
                         /\ row.refundId = cancels[c].refunded
<1>1. \A c \in CancelRequests : cancels[c].pc = "ok" =>
        /\ Won(c) /\ cancels[c].order \in Orders
        /\ \A d \in CancelRequests \ {c} : cancels[d].pc = "ok" => cancels[d].order # cancels[c].order
  BY DEF OneCancelWins, CancelsUnderWay
\* A CANCELLED row stays as it is.
<1>2. \A o \in Orders : status[o] = "CANCELLED" => RowKept(o)
  BY EveryRowStep DEF RowSteps, RowInserted, RowConfirmed, RowFailed, RowCancelled,
     RowFulfilled, FulfilmentSteps, Cancellable, Exists
<1>3. ASSUME NEW c \in CancelRequests, cancels'[c].pc = "ok", cancels[c].pc = "ok",
             cancels'[c] = cancels[c]
      PROVE  Won(c)'
  BY <1>1, <1>2, <1>3 DEF RowKept
<1>4. ASSUME NEW c \in CancelRequests, cancels'[c].pc = "ok", cancels'[c] # cancels[c]
      PROVE  /\ cancels[c].pc = "update" /\ cancels'[c].order = cancels[c].order
             /\ cancels[c].order \in Orders
             /\ RowCancelled(cancels[c].order, c) /\ Won(c)'
             /\ \A d \in CancelRequests \ {c} : cancels'[d] = cancels[d]
  <2>1. CancelNext(c) /\ \A d \in CancelRequests \ {c} : cancels'[d] = cancels[d]
    BY <1>4, OthersKeepRefunds, CancelSteps
  <2>2. CancelEnded(c)
    BY <1>4, <2>1, CancelSteps DEF CancelBegun, CancelRefunded, CancelGivenUp
  <2>3. cancels[c].order \in Orders /\ cancels[c] \in Cancel
    BY <2>2 DEF CancelEnded, CancelsUnderWay, TypeInv, TypeOK
  <2>4. /\ cancels'[c].order = cancels[c].order /\ cancels'[c].by = cancels[c].by
        /\ cancels'[c].amount = cancels[c].amount
        /\ cancels'[c].refunded = cancels[c].refunded
    BY <2>2, <2>3 DEF CancelEnded, Cancel
  <2>5. RowCancelled(cancels[c].order, c) /\ booking[cancels[c].order] \in Row
    BY <1>4, <2>2, <2>3 DEF CancelEnded, TypeInv, TypeOK
  <2>6. Won(c)'
    BY <2>4, <2>5 DEF RowCancelled, Row
  <2> QED BY <2>1, <2>2, <2>3, <2>4, <2>5, <2>6 DEF CancelEnded
\* The row a request cancels belongs to no other winner: it was not CANCELLED.
<1>5. ASSUME NEW c \in CancelRequests, NEW d \in CancelRequests \ {c},
             cancels'[c].pc = "ok", cancels'[c] # cancels[c], cancels'[d].pc = "ok"
      PROVE  cancels'[d].order # cancels'[c].order
  <2>1. cancels'[d] = cancels[d] /\ status[cancels[c].order] \in Cancellable
        /\ cancels'[c].order = cancels[c].order
    BY <1>4, <1>5 DEF RowCancelled
  <2>2. status[cancels[d].order] = "CANCELLED"
    BY <1>1, <1>5, <2>1
  <2> QED BY <2>1, <2>2 DEF Cancellable
<1>6. ASSUME NEW c \in CancelRequests, NEW d \in CancelRequests \ {c},
             cancels'[c].pc = "ok", cancels'[d].pc = "ok"
      PROVE  cancels'[d].order # cancels'[c].order
  <2>1. CASE cancels'[c] # cancels[c]
    BY <1>5, <1>6, <2>1
  <2>2. CASE cancels'[d] # cancels[d]
    BY <1>5, <1>6, <2>2
  <2>3. CASE cancels'[c] = cancels[c] /\ cancels'[d] = cancels[d]
    BY <1>1, <1>6, <2>3
  <2> QED BY <2>1, <2>2, <2>3
<1>7. ASSUME NEW c \in CancelRequests, cancels'[c].pc = "ok" PROVE Won(c)'
  BY <1>3, <1>4, <1>7
<1> QED BY <1>6, <1>7 DEF OneCancelWins

\* Cancels, refunds and cancelled rows agree.
LEMMA RefundInvariant == Spec => []RefundInv
<1>1. TypeInv /\ OrdersOfRows /\ KeysOfRows /\ PaymentInv /\ RefundInv /\ [Next]_vars
        => RefundInv'
  <2> SUFFICES ASSUME TypeInv, OrdersOfRows, KeysOfRows, PaymentInv, RefundInv, [Next]_vars
               PROVE  RefundInv'
    OBVIOUS
  <2>1. CancelsUnderWay /\ RefundOnRowWasMade /\ OneCancelWins
    BY DEF RefundInv
  <2>2. CancelsUnderWay'
    BY <2>1, CancelsUnderWayStep
  <2>3. RefundOnRowWasMade'
    BY <2>1, RefundOnRowStep
  <2>4. OneCancelWins'
    BY <2>1, OneCancelStep
  <2> QED BY <2>2, <2>3, <2>4 DEF RefundInv
<1> QED BY <1>1, RefundInit, TypeCorrect, InsertIsFresh, KeysInvariant, PaymentInvariant, PTL
     DEF Spec, TypeInv

\* The refund on a cancelled row was made, from a payment the service recorded.
THEOREM RefundsAreReal == Spec => []RefundOnRowWasMade
BY RefundInvariant, PTL DEF RefundInv

\* One cancel wins, and the row stays the winner's.
THEOREM CancelHasOneWinner == Spec => []OneCancelWins
BY RefundInvariant, PTL DEF RefundInv
=============================================================================
