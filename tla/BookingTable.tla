---------------------------- MODULE BookingTable ----------------------------
(***************************************************************************)
(* The status column of the bookings table, which every handler of the      *)
(* booking service shares, and the conditional updates of the repository    *)
(* that move it.  The other columns belong to the module that writes them.  *)
(*                                                                          *)
(* A row is named by the Razorpay order stored in it: razorpayOrderId is    *)
(* unique and is written once, when the row is inserted, so orders and rows *)
(* correspond one to one.                                                   *)
(*                                                                          *)
(* Every update of the repository is an updateMany ... where status = ...   *)
(* followed by a read of the row, both inside one try whose catch returns   *)
(* null.  So null means any of: no row matched; the statement failed and    *)
(* nothing was written; the row WAS written and only the read failed.       *)
(***************************************************************************)
CONSTANTS
    Orders,    \* Razorpay order ids, and so the rows a run can hold
    Faults     \* what may go wrong outside the service, see FaultKinds

\* "db": a statement of the database fails.  "refund": the refund call fails
\* or its answer is lost.  "decline": a payment attempt is declined.
FaultKinds == {"db", "refund", "decline"}

ASSUME FaultAssumption == Faults \subseteq FaultKinds

VARIABLE status    \* the status column; a row the table does not hold is NO_ROW

\* IN_PROGRESS of the enum is missing: no code assigns it.
Status == {"PENDING_PAYMENT", "PAYMENT_FAILED", "CONFIRMED", "CANCELLED",
           "ARRIVAL_CONFIRMED", "PENDING_COMPLETION_VERIFICATION", "COMPLETED"}

Exists(o) == status[o] # "NO_ROW"

StatusTypeOK == status \in [Orders -> Status \cup {"NO_ROW"}]

StatusInit == status = [o \in Orders |-> "NO_ROW"]

-----------------------------------------------------------------------------
(***************************************************************************)
(* updateMany where status in `from`, set to `to`.                          *)
(***************************************************************************)

\* The row matched and was written; the read that follows can still fail.
Matched(o, from, to, updated) ==
    /\ status[o] \in from
    /\ status' = [status EXCEPT ![o] = to]
    /\ updated \/ "db" \in Faults

\* Nothing was written: the row is in no status of `from`, or the statement failed.
Unmatched(o, from, updated) ==
    /\ ~updated
    /\ status[o] \notin from \/ "db" \in Faults
    /\ UNCHANGED status

\* updateArrivalConfirmed, updatePendingCompletionVerification, updateCompleted
updateStatus(o, from, to, updated) ==
    Matched(o, {from}, to, updated) \/ Unmatched(o, {from}, updated)

(***************************************************************************)
(* The steps of a row's status the two groups of handlers take.             *)
(***************************************************************************)
Cancellable == {"CONFIRMED", "PENDING_PAYMENT"}

PaymentSteps == { <<"NO_ROW", "PENDING_PAYMENT">>,
                  <<"PENDING_PAYMENT", "CONFIRMED">>,
                  <<"PENDING_PAYMENT", "PAYMENT_FAILED">> }
                \cup (Cancellable \X {"CANCELLED"})

FulfilmentSteps == { <<"CONFIRMED", "ARRIVAL_CONFIRMED">>,
                     <<"ARRIVAL_CONFIRMED", "PENDING_COMPLETION_VERIFICATION">>,
                     <<"PENDING_COMPLETION_VERIFICATION", "COMPLETED">> }

\* One row takes one of the given steps.
Takes(steps, o) ==
    \E s \in steps : status[o] = s[1] /\ status' = [status EXCEPT ![o] = s[2]]

\* The statuses of a booking that was confirmed and not cancelled since.
Served == {"CONFIRMED", "ARRIVAL_CONFIRMED",
           "PENDING_COMPLETION_VERIFICATION", "COMPLETED"}

\* The statuses no update of the repository leaves.
Final == {"CANCELLED", "PAYMENT_FAILED", "COMPLETED"}
=============================================================================
