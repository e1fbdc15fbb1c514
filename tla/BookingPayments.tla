--------------------------- MODULE BookingPayments ---------------------------
(***************************************************************************)
(* Money: how a booking is created with an idempotency key, paid through    *)
(* Razorpay, confirmed or failed by Razorpay's webhooks, and cancelled with *)
(* a refund by its user or its provider.                                    *)
(*                                                                          *)
(* An HTTP request is a process that runs once; each await of its handler   *)
(* ends a step, so the requests interleave as the promises of one or more   *)
(* instances of the service do.  A request may die at any await: the        *)
(* instance stops, or a call throws and no catch of the handler takes it.   *)
(*                                                                          *)
(* Requests that a handler refuses because the caller does not own the      *)
(* booking, or because the row or the quote is missing, change nothing and  *)
(* are left out.                                                            *)
(***************************************************************************)
EXTENDS BookingTable, Integers

CONSTANTS
    Keys,            \* idempotency keys clients send
    NoKey,           \* a request without the Idempotency-Key header
    Amount,          \* the price in paise of every quote
    CreateRequests,  \* POST /bookings
    CancelRequests,  \* POST /bookings/:id/cancel and /provider/:id/cancel
    Hooks,           \* webhook deliveries the service handles at one time
    NoOrder,
    NoEvent,
    IdChoices,       \* whether the body of a webhook carries an id
    MaxCrashes       \* bound: deliveries that may die half way

MinAmountPaise == 100

ASSUME KeyAssumption == NoKey \notin Keys
ASSUME AmountAssumption == Amount \in Nat /\ Amount >= MinAmountPaise
ASSUME OrderAssumption == NoOrder \notin Orders
ASSUME IdAssumption == IdChoices \subseteq BOOLEAN
ASSUME CrashAssumption == MaxCrashes \in Nat

VARIABLES
    booking,    \* the columns of a row that these handlers write, see Row
    creates,    \* create requests: where they are, their key and their order
    cancels,    \* cancel requests: where they are and what they have read
    hook,       \* the webhook deliveries in progress
    claimed,    \* the table payment_webhook_events
    refundPct,  \* what computeUserCancelRefund gives back at this time
    notified,   \* the notifications published to the user of a booking
    crashes,    \* deliveries that have died so far
    \* Razorpay's side
    ordered,    \* orders created at Razorpay
    paid,       \* orders with a captured payment
    refunded,   \* paise refunded of an order's payment
    events,     \* events emitted so far; they are delivered any number of
                \* times, in any order
    acked       \* events some delivery of which was answered with 200

requestVars == <<creates, cancels>>
webhookVars == <<hook, claimed, crashes>>
razorpayVars == <<ordered, paid, refunded, events, acked>>
rowVars == <<status, booking>>
payVars == <<booking, requestVars, webhookVars, refundPct, notified, razorpayVars>>
vars == <<status, payVars>>

Row == [ key          : Keys \cup {NoKey},
         paymentId    : BOOLEAN,               \* razorpayPaymentId is set
         cancelledBy  : {"NOBODY", "USER", "PROVIDER"},
         refundAmount : 0..Amount,             \* refundAmountPaise, null as 0
         refundId     : BOOLEAN ]              \* razorpayRefundId is set

NewRow(k) == [ key |-> k, paymentId |-> FALSE, cancelledBy |-> "NOBODY",
               refundAmount |-> 0, refundId |-> FALSE ]

Event == [type : {"payment.captured", "payment.failed"}, order : Orders,
          hasId : BOOLEAN]

Create == [pc : {"idle", "order", "insert", "conflict", "respond", "done", "failed"},
           key : Keys \cup {NoKey}, order : Orders \cup {NoOrder}]

Cancel == [pc : {"idle", "refund", "update", "ok", "conflict", "refused", "failed"},
           order : Orders \cup {NoOrder}, by : {"USER", "PROVIDER"},
           amount : 0..Amount, refunded : BOOLEAN]

Notification == {"booking_confirmation", "booking_cancellation", "booking_refund"}

TypeOK ==
    /\ StatusTypeOK
    /\ booking \in [Orders -> Row]
    /\ creates \in [CreateRequests -> Create]
    /\ cancels \in [CancelRequests -> Cancel]
    /\ hook \in [Hooks -> [pc : {"idle", "claim", "process"},
                           event : Event \cup {NoEvent}]]
    /\ claimed \subseteq Event
    /\ refundPct \in [Orders -> {0, 50, 100}]
    /\ notified \in [Orders -> SUBSET Notification]
    /\ crashes \in 0..MaxCrashes
    /\ ordered \subseteq Orders
    /\ paid \in [Orders -> BOOLEAN]
    /\ refunded \in [Orders -> 0..Amount]
    /\ events \subseteq Event
    /\ acked \subseteq events

Init ==
    /\ StatusInit
    /\ booking = [o \in Orders |-> NewRow(NoKey)]
    /\ creates = [r \in CreateRequests |->
                    [pc |-> "idle", key |-> NoKey, order |-> NoOrder]]
    /\ cancels = [c \in CancelRequests |->
                    [pc |-> "idle", order |-> NoOrder, by |-> "USER",
                     amount |-> 0, refunded |-> FALSE]]
    /\ hook = [w \in Hooks |-> [pc |-> "idle", event |-> NoEvent]]
    /\ claimed = {}
    /\ refundPct \in [Orders -> {0, 50, 100}]
    /\ notified = [o \in Orders |-> {}]
    /\ crashes = 0
    /\ ordered = {}
    /\ paid = [o \in Orders |-> FALSE]
    /\ refunded = [o \in Orders |-> 0]
    /\ events = {}
    /\ acked = {}

-----------------------------------------------------------------------------
(***************************************************************************)
(* The writes of the repository                                             *)
(***************************************************************************)

\* findByIdempotencyKey: the column is unique, null aside.
RowsWithKey(k) == {o \in Orders : Exists(o) /\ booking[o].key = k}

insert(o, k) ==
    /\ status' = [status EXCEPT ![o] = "PENDING_PAYMENT"]
    /\ booking' = [booking EXCEPT ![o] = NewRow(k)]

\* Mutant: the status is missing from the where clause.
updatePaymentFailedAnyStatus(o, updated) ==
    /\ Matched(o, Status, "PAYMENT_FAILED", updated) \/ Unmatched(o, Status, updated)
    /\ UNCHANGED booking

\* Mutant: the status is missing from the where clause.
updateCancelledAnyStatus(o, by, amount, refundId, updated) ==
    \/ /\ Matched(o, Status, "CANCELLED", updated)
       /\ booking' = [booking EXCEPT ![o].cancelledBy = by,
                                     ![o].refundAmount = amount,
                                     ![o].refundId = refundId]
    \/ Unmatched(o, Status, updated) /\ UNCHANGED booking

updatePaymentCaptured(o, updated) ==
    \/ /\ Matched(o, {"PENDING_PAYMENT"}, "CONFIRMED", updated)
       /\ booking' = [booking EXCEPT ![o].paymentId = TRUE]
    \/ Unmatched(o, {"PENDING_PAYMENT"}, updated) /\ UNCHANGED booking

updatePaymentFailed(o, updated) ==
    /\ updateStatus(o, "PENDING_PAYMENT", "PAYMENT_FAILED", updated)
    /\ UNCHANGED booking

updateCancelled(o, by, amount, refundId, updated) ==
    \/ /\ Matched(o, Cancellable, "CANCELLED", updated)
       /\ booking' = [booking EXCEPT ![o].cancelledBy = by,
                                     ![o].refundAmount = amount,
                                     ![o].refundId = refundId]
    \/ Unmatched(o, Cancellable, updated) /\ UNCHANGED booking

-----------------------------------------------------------------------------
(***************************************************************************)
(* BookingService.create                                                    *)
(***************************************************************************)
AdvanceCreate(r, pc, order) ==
    creates' = [creates EXCEPT ![r].pc = pc, ![r].order = order]

\* An existing row is replayed to the client in these statuses only.
Replayed == {"PENDING_PAYMENT", "CONFIRMED", "CANCELLED"}

\* findByIdempotencyKey, before anything is ordered: answer with the row the
\* key already has, or go on.
CreateLookup(r) ==
    /\ creates[r].pc = "idle"
    /\ \E k \in Keys \cup {NoKey} :
        \/ /\ k # NoKey
           /\ \E o \in RowsWithKey(k) :
                /\ status[o] \in Replayed
                /\ creates' = [creates EXCEPT
                     ![r] = [pc |-> "respond", key |-> k, order |-> o]]
        \/ /\ \A o \in RowsWithKey(k) :
                k = NoKey \/ status[o] \notin Replayed
           /\ creates' = [creates EXCEPT
                ![r] = [pc |-> "order", key |-> k, order |-> NoOrder]]
    /\ UNCHANGED <<rowVars, cancels, webhookVars, refundPct, notified, razorpayVars>>

\* createRazorpayOrder: a fresh order at Razorpay.
CreateOrder(r) ==
    /\ creates[r].pc = "order"
    /\ \E o \in Orders \ ordered :
        /\ ordered' = ordered \cup {o}
        /\ AdvanceCreate(r, "insert", o)
    /\ UNCHANGED <<rowVars, cancels, webhookVars, refundPct, notified,
                   paid, refunded, events, acked>>

\* Mutant: no unique index on idempotencyKey.
CreateInsertUnchecked(r) ==
    /\ creates[r].pc = "insert"
    /\ insert(creates[r].order, creates[r].key)
    /\ AdvanceCreate(r, "respond", creates[r].order)
    /\ UNCHANGED <<cancels, webhookVars, refundPct, notified, razorpayVars>>

\* bookingRepo.create: the unique index on idempotencyKey lets one row in.
CreateInsert(r) ==
    LET k == creates[r].key
        taken == k # NoKey /\ RowsWithKey(k) # {}
    IN  /\ creates[r].pc = "insert"
        /\ \/ /\ ~taken
              /\ insert(creates[r].order, k)
              /\ AdvanceCreate(r, "respond", creates[r].order)
           \/ /\ taken
              /\ AdvanceCreate(r, "conflict", creates[r].order)
              /\ UNCHANGED rowVars
        /\ UNCHANGED <<cancels, webhookVars, refundPct, notified, razorpayVars>>

\* Mutant: the loser is answered with the order it made itself.
CreateConflictOwnOrder(r) ==
    /\ creates[r].pc = "conflict"
    /\ AdvanceCreate(r, "respond", creates[r].order)
    /\ UNCHANGED <<rowVars, cancels, webhookVars, refundPct, notified, razorpayVars>>

\* P2002 on idempotencyKey: answer with the row that won, whatever its status.
CreateConflict(r) ==
    /\ creates[r].pc = "conflict"
    /\ \E o \in RowsWithKey(creates[r].key) : AdvanceCreate(r, "respond", o)
    /\ UNCHANGED <<rowVars, cancels, webhookVars, refundPct, notified, razorpayVars>>

\* The answer reaches the client, who can now pay the order it names.
CreateRespond(r) ==
    /\ creates[r].pc = "respond"
    /\ AdvanceCreate(r, "done", creates[r].order)
    /\ UNCHANGED <<rowVars, cancels, webhookVars, refundPct, notified, razorpayVars>>

CreateDies(r) ==
    /\ creates[r].pc \in {"order", "insert", "conflict", "respond"}
    /\ AdvanceCreate(r, "failed", creates[r].order)
    /\ UNCHANGED <<rowVars, cancels, webhookVars, refundPct, notified, razorpayVars>>

-----------------------------------------------------------------------------
(***************************************************************************)
(* Razorpay's checkout (external).  A client pays an order it was handed;   *)
(* one payment of an order is captured at most, and an order can be paid    *)
(* whatever has become of the booking.                                      *)
(***************************************************************************)
HandedOut(o) == \E r \in CreateRequests : creates[r].pc = "done" /\ creates[r].order = o

Emit(type, o) ==
    \E hasId \in IdChoices :
        events' = events \cup {[type |-> type, order |-> o, hasId |-> hasId]}

PaymentCaptured(o) ==
    /\ HandedOut(o) /\ ~paid[o]
    /\ paid' = [paid EXCEPT ![o] = TRUE]
    /\ Emit("payment.captured", o)
    /\ UNCHANGED <<rowVars, requestVars, webhookVars, refundPct, notified,
                   ordered, refunded, acked>>

PaymentDeclined(o) ==
    /\ "decline" \in Faults
    /\ HandedOut(o) /\ ~paid[o]
    /\ Emit("payment.failed", o)
    /\ UNCHANGED <<rowVars, requestVars, webhookVars, refundPct, notified,
                   ordered, paid, refunded, acked>>

-----------------------------------------------------------------------------
(***************************************************************************)
(* The webhook handler, createWebhookController.handleRazorpay              *)
(***************************************************************************)
HookAt(w, pc, e) == hook' = [hook EXCEPT ![w] = [pc |-> pc, event |-> e]]

Answer200(w) ==
    /\ acked' = acked \cup {hook[w].event}
    /\ HookAt(w, "idle", NoEvent)

\* The handler is through with the row; its instance may stop before the answer.
AnswerOrStop(w) ==
    \/ Answer200(w) /\ UNCHANGED crashes
    \/ /\ crashes < MaxCrashes
       /\ crashes' = crashes + 1
       /\ HookAt(w, "idle", NoEvent)
       /\ UNCHANGED acked

Deliver(w, e) ==
    /\ hook[w].pc = "idle"
    /\ HookAt(w, "claim", e)
    /\ UNCHANGED <<rowVars, requestVars, claimed, crashes, refundPct, notified,
                   razorpayVars>>

\* Mutant: process whatever createStrict answers.
HookClaimUnchecked(w) ==
    LET e == hook[w].event
    IN  /\ hook[w].pc = "claim"
        /\ claimed' = IF e.hasId THEN claimed \cup {e} ELSE claimed
        /\ HookAt(w, "process", e)
        /\ UNCHANGED <<rowVars, requestVars, crashes, refundPct, notified, razorpayVars>>

\* createStrict: insert the event; a duplicate is answered 200 and dropped.  A
\* body without an id is given a fresh random one and is never a duplicate.
HookClaim(w) ==
    LET e == hook[w].event
    IN  /\ hook[w].pc = "claim"
        /\ \/ /\ e \notin claimed
              /\ claimed' = IF e.hasId THEN claimed \cup {e} ELSE claimed
              /\ HookAt(w, "process", e)
              /\ UNCHANGED acked
           \/ /\ e \in claimed
              /\ Answer200(w)
              /\ UNCHANGED claimed
        /\ UNCHANGED <<rowVars, requestVars, crashes, refundPct, notified,
                       ordered, paid, refunded, events>>

\* Mutant: the type of the event is not looked at.
HookCapturedAnyEvent(w) ==
    LET o == hook[w].event.order
    IN  /\ hook[w].pc = "process"
        /\ \E updated \in BOOLEAN :
            /\ \/ Exists(o) /\ updatePaymentCaptured(o, updated)
               \/ ~Exists(o) /\ ~updated /\ UNCHANGED rowVars
            /\ notified' = [notified EXCEPT
                 ![o] = IF updated THEN @ \cup {"booking_confirmation"} ELSE @]
        /\ AnswerOrStop(w)
        /\ UNCHANGED <<requestVars, claimed, refundPct,
                       ordered, paid, refunded, events>>

\* Mutant: the confirmation is sent whatever the update answers.
HookCapturedAlwaysTold(w) ==
    LET o == hook[w].event.order
    IN  /\ hook[w].pc = "process"
        /\ hook[w].event.type = "payment.captured"
        /\ Exists(o)
        /\ \E updated \in BOOLEAN : updatePaymentCaptured(o, updated)
        /\ notified' = [notified EXCEPT ![o] = @ \cup {"booking_confirmation"}]
        /\ AnswerOrStop(w)
        /\ UNCHANGED <<requestVars, claimed, refundPct,
                       ordered, paid, refunded, events>>

\* handlePaymentCaptured: an unknown order, or an update that answers null,
\* still ends in 200.  The first lookup yields only the id of the row.
HookCaptured(w) ==
    LET o == hook[w].event.order
    IN  /\ hook[w].pc = "process"
        /\ hook[w].event.type = "payment.captured"
        /\ \E updated \in BOOLEAN :
            /\ \/ Exists(o) /\ updatePaymentCaptured(o, updated)
               \/ ~Exists(o) /\ ~updated /\ UNCHANGED rowVars
            /\ notified' = [notified EXCEPT
                 ![o] = IF updated THEN @ \cup {"booking_confirmation"} ELSE @]
        /\ AnswerOrStop(w)
        /\ UNCHANGED <<requestVars, claimed, refundPct,
                       ordered, paid, refunded, events>>

\* handlePaymentFailed
HookFailed(w) ==
    LET o == hook[w].event.order
    IN  /\ hook[w].pc = "process"
        /\ hook[w].event.type = "payment.failed"
        /\ \/ Exists(o) /\ \E updated \in BOOLEAN : updatePaymentFailed(o, updated)
           \/ ~Exists(o) /\ UNCHANGED rowVars
        /\ AnswerOrStop(w)
        /\ UNCHANGED <<requestVars, claimed, refundPct, notified,
                       ordered, paid, refunded, events>>

\* Mutant: the catch answers 200.
HookDiesAnswered(w) ==
    /\ hook[w].pc # "idle"
    /\ crashes < MaxCrashes
    /\ crashes' = crashes + 1
    /\ Answer200(w)
    /\ UNCHANGED <<rowVars, requestVars, claimed, refundPct, notified,
                   ordered, paid, refunded, events>>

\* The handler throws (createStrict, or the lookup of the row: answer 500) or
\* its instance stops: no 200, and a claim already made stays.
HookDies(w) ==
    /\ hook[w].pc # "idle"
    /\ crashes < MaxCrashes
    /\ crashes' = crashes + 1
    /\ HookAt(w, "idle", NoEvent)
    /\ UNCHANGED <<rowVars, requestVars, claimed, refundPct, notified, razorpayVars>>

-----------------------------------------------------------------------------
(***************************************************************************)
(* cancelByUser and cancelByProvider                                        *)
(***************************************************************************)
\* Mutant: the percentage is taken for a share.
computeUserCancelRefundUnscaled(o) == Amount * refundPct[o]

computeUserCancelRefund(o) == (Amount * refundPct[o]) \div 100

RefundDue(o, by) == IF by = "USER" THEN computeUserCancelRefund(o) ELSE Amount

AdvanceCancel(c, pc) == cancels' = [cancels EXCEPT ![c].pc = pc]

\* The handler reads the row once; what follows goes by what it saw here.
CancelRead(c, o, by) ==
    LET due == RefundDue(o, by)
        next == IF status[o] = "CANCELLED" THEN "conflict"
                ELSE IF status[o] \notin Cancellable THEN "refused"
                ELSE IF due > 0 /\ booking[o].paymentId THEN "refund"
                ELSE "update"
    IN  /\ cancels[c].pc = "idle"
        /\ Exists(o)
        /\ cancels' = [cancels EXCEPT
             ![c] = [pc |-> next, order |-> o, by |-> by, amount |-> due,
                     refunded |-> FALSE]]
        /\ UNCHANGED <<rowVars, creates, webhookVars, refundPct, notified, razorpayVars>>

\* Mutant: the catch of the refund lets the cancel go on.
CancelRefundSwallowed(c) ==
    /\ cancels[c].pc = "refund"
    /\ cancels' = [cancels EXCEPT ![c].pc = "update", ![c].refunded = TRUE]
    /\ UNCHANGED <<rowVars, creates, webhookVars, refundPct, notified, razorpayVars>>

\* createRazorpayRefund.  Razorpay refunds no more than is left of the
\* payment; a call that throws ends the request, made or not.
CancelRefund(c) ==
    LET o == cancels[c].order
        left == refunded[o] + cancels[c].amount <= Amount
    IN  /\ cancels[c].pc = "refund"
        /\ \/ /\ left
              /\ refunded' = [refunded EXCEPT ![o] = @ + cancels[c].amount]
              /\ \E pc \in {"update"} \cup (IF "refund" \in Faults THEN {"refused"} ELSE {}) :
                    cancels' = [cancels EXCEPT ![c].pc = pc, ![c].refunded = TRUE]
           \/ /\ ~left \/ "refund" \in Faults
              /\ AdvanceCancel(c, "refused")
              /\ UNCHANGED refunded
        /\ UNCHANGED <<rowVars, creates, webhookVars, refundPct, notified,
                       ordered, paid, events, acked>>

\* updateCancelled, then the notifications to the user.
CancelUpdate(c) ==
    LET q == cancels[c]
        told == {"booking_cancellation"} \cup
                (IF q.amount > 0 THEN {"booking_refund"} ELSE {})
    IN  /\ q.pc = "update"
        /\ \E updated \in BOOLEAN :
            /\ updateCancelled(q.order, q.by, q.amount, q.refunded, updated)
            /\ AdvanceCancel(c, IF updated THEN "ok" ELSE "conflict")
            /\ notified' = [notified EXCEPT
                 ![q.order] = IF updated THEN @ \cup told ELSE @]
        /\ UNCHANGED <<creates, webhookVars, refundPct, razorpayVars>>

CancelDies(c) ==
    /\ cancels[c].pc \in {"refund", "update"}
    /\ AdvanceCancel(c, "failed")
    /\ UNCHANGED <<rowVars, creates, webhookVars, refundPct, notified, razorpayVars>>

\* The slot comes nearer: 24 hours, then 12 hours before it the share of the
\* price a user gets back falls.
TimePasses(o) ==
    /\ refundPct[o] > 0
    /\ refundPct' = [refundPct EXCEPT ![o] = @ - 50]
    /\ UNCHANGED <<rowVars, requestVars, webhookVars, notified, razorpayVars>>

-----------------------------------------------------------------------------
\* What the fulfilment of a booking does to its row (module BookingFulfilment).
FulfilmentStep(o) ==
    /\ Takes(FulfilmentSteps, o)
    /\ UNCHANGED payVars

CreateNext(r) == \/ CreateLookup(r) \/ CreateOrder(r) \/ CreateInsert(r)
                 \/ CreateConflict(r) \/ CreateRespond(r) \/ CreateDies(r)

CancelNext(c) == \/ \E o \in Orders, by \in {"USER", "PROVIDER"} : CancelRead(c, o, by)
                 \/ CancelRefund(c) \/ CancelUpdate(c) \/ CancelDies(c)

HookNext(w) == \/ \E e \in events : Deliver(w, e)
               \/ HookClaim(w) \/ HookCaptured(w) \/ HookFailed(w) \/ HookDies(w)

PaymentsNext ==
    \/ \E r \in CreateRequests : CreateNext(r)
    \/ \E c \in CancelRequests : CancelNext(c)
    \/ \E w \in Hooks : HookNext(w)
    \/ \E o \in Orders : PaymentCaptured(o) \/ PaymentDeclined(o) \/ TimePasses(o)

Next == PaymentsNext \/ \E o \in Orders : FulfilmentStep(o)

Spec == Init /\ [][Next]_vars

(***************************************************************************)
(* Razorpay redelivers an event until it is answered 200, and a handler     *)
(* that is not cut short runs to its end.  Strong fairness of the delivery  *)
(* because the bound on Hooks is the model's: the service itself takes any  *)
(* number of deliveries, so duplicates of one event never keep another out. *)
(***************************************************************************)
WebhookFairness ==
    /\ \A e \in [type : {"payment.captured", "payment.failed"}, order : Orders,
                 hasId : IdChoices] :
        SF_vars(\E w \in Hooks : e \in events \ acked /\ Deliver(w, e))
    /\ \A w \in Hooks : WF_vars(HookClaim(w) \/ HookCaptured(w) \/ HookFailed(w))

FairSpec == Spec /\ WebhookFairness

-----------------------------------------------------------------------------
(***************************************************************************)
(* Properties                                                               *)
(***************************************************************************)
Declined(o) == \E e \in events : e.type = "payment.failed" /\ e.order = o

InProcess(e) == \E w \in Hooks : hook[w].pc = "process" /\ hook[w].event = e

\* Idempotency of create (README "Create booking"): every order handed to a
\* client is stored on a row that carries the key of the request, and requests
\* with one key are all handed one order.  So the order a losing request made
\* at Razorpay is never handed out, and can never be paid.
OneOrderPerKey ==
    \A r \in CreateRequests : creates[r].pc \in {"respond", "done"} =>
        /\ Exists(creates[r].order)
        /\ booking[creates[r].order].key = creates[r].key
        /\ \A s \in CreateRequests :
              /\ creates[s].pc \in {"respond", "done"}
              /\ creates[s].key = creates[r].key
              /\ creates[r].key # NoKey
              => creates[s].order = creates[r].order

\* A payment is never captured for an order the service cannot find, so a
\* webhook of a captured payment always meets a row (handlePaymentCaptured's
\* silent return for an unknown order is never taken).
PaidOrderHasRow == \A o \in Orders : paid[o] => Exists(o)

\* Nobody is served unpaid: a booking that was confirmed and not cancelled has
\* a payment captured at Razorpay, however webhooks are lost, doubled, delayed
\* or reordered around cancels.
ServedWasPaid ==
    \A o \in Orders : status[o] \in Served => paid[o] /\ booking[o].paymentId

\* The refund a cancelled row names was made, in the amount the row records,
\* and from a payment that was captured; no money goes back for a booking
\* whose capture the service never recorded.
RefundOnRowWasMade ==
    \A o \in Orders :
        /\ booking[o].refundId => /\ status[o] = "CANCELLED"
                                 /\ booking[o].refundAmount > 0
                                 /\ refunded[o] >= booking[o].refundAmount
        /\ refunded[o] > 0 => paid[o] /\ booking[o].paymentId

\* One cancel wins (README "No double cancel"): the request that was answered
\* with the cancelled row owns it, so the row still names its canceller, its
\* amount and its refund, and no second request was answered the same.
OneCancelWins ==
    \A c \in CancelRequests : cancels[c].pc = "ok" =>
        LET row == booking[cancels[c].order]
        IN  /\ status[cancels[c].order] = "CANCELLED"
            /\ row.cancelledBy = cancels[c].by
            /\ row.refundAmount = cancels[c].amount
            /\ row.refundId = cancels[c].refunded
            /\ \A d \in CancelRequests \ {c} :
                  cancels[d].pc = "ok" => cancels[d].order # cancels[c].order

\* Claim first (README "Webhooks"): of the deliveries of one event whose body
\* carries an id, one at most is past the claim at any time, whichever
\* instances of the service they reach.
ClaimedOnce ==
    \A v, w \in Hooks :
        /\ hook[v].pc = "process" /\ hook[w].pc = "process"
        /\ hook[v].event = hook[w].event /\ hook[v].event.hasId
        => v = w

\* A row whose life is over is never written again: a late webhook or a second
\* cancel changes nothing of a CANCELLED, PAYMENT_FAILED or COMPLETED row.
FinalRowsKept ==
    [][\A o \in Orders : status[o] \in Final =>
         status'[o] = status[o] /\ booking'[o] = booking[o]]_vars

\* The confirmation is sent for a payment that stuck: a user told that the
\* booking is confirmed has a row that names the payment, now and for ever.
ConfirmationIsTrue ==
    \A o \in Orders : "booking_confirmation" \in notified[o] =>
        booking[o].paymentId /\ status[o] \in Served \cup {"CANCELLED"}

\* The 200 answered to a delivery of a captured payment is the end of it: Razorpay
\* sends it no more.  Unless the database fails, the payment is on the row by
\* then, kept off it by a payment of the order that was declined, or lost with a
\* delivery that died after its claim; a delivery past its claim may yet write it.
AnsweredIsHandled ==
    \A e \in acked : e.type = "payment.captured" =>
        \/ status[e.order] \in Served \cup {"CANCELLED"}
        \/ status[e.order] = "PAYMENT_FAILED" /\ Declined(e.order)
        \/ e.hasId /\ (crashes > 0 \/ InProcess(e))
        \/ "db" \in Faults

\* README "Payment confirmation": "If the frontend fails after payment, the
\* webhook still confirms the booking."  Once a payment is captured the
\* booking leaves PENDING_PAYMENT.
WebhookStillConfirms ==
    \A o \in Orders : paid[o] ~> status[o] \notin {"PENDING_PAYMENT", "PAYMENT_FAILED"}

\* README "No double cancel / double refund", and the comment of
\* updateCancelled: a booking's payment is refunded by one request at most.
NoDoubleRefund ==
    \A c, d \in CancelRequests :
        cancels[c].refunded /\ cancels[d].refunded
        /\ cancels[c].order = cancels[d].order => c = d

\* README "Refund policy": "Provider cancels: Full refund."  When a provider's
\* cancel goes through, a payment captured by then has gone back in full.
ProviderCancelRefundsInFull ==
    [][\A o \in Orders :
         /\ booking[o].cancelledBy = "NOBODY" /\ booking'[o].cancelledBy = "PROVIDER"
         /\ paid[o]
         => refunded[o] = Amount]_vars
=============================================================================
