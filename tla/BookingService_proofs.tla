------------------------ MODULE BookingService_proofs ------------------------
(***************************************************************************)
(* The booking service implements the payments module, the fulfilment       *)
(* module and the promise of a booking's life, for any number of bookings,  *)
(* requests, deliveries and codes.                                          *)
(***************************************************************************)
EXTENDS BookingService, BookingPayments_proofs, BookingFulfilment_proofs

\* A code of arrival is out only after someone was assigned, and nobody is
\* assigned to a booking that is not paid.
AssignedIsPaid == \A o \in Orders : assigned[o] # Nobody => paid[o]

ServiceInv ==
    TypeInv /\ OrdersOfRows /\ KeysOfRows /\ PaymentInv /\ FulInv /\ AssignedIsPaid

-----------------------------------------------------------------------------
(***************************************************************************)
(* What the handlers of BookingPayments write of what the promise is about  *)
(***************************************************************************)
\* One row takes a step of these handlers; it is confirmed only when paid.
RowPaidFor(o) ==
    /\ paid' = paid
    /\ \E s \in PaymentSteps : /\ status[o] = s[1] /\ status' = [status EXCEPT ![o] = s[2]]
                               /\ s[2] = "CONFIRMED" => paid[o]

PaidOnce(o) ==
    /\ status' = status /\ Exists(o) /\ ~paid[o]
    /\ paid' = [paid EXCEPT ![o] = TRUE]

\* A conditional update moves one row along one of the steps, or none.
LEMMA UpdateWrites ==
    ASSUME StatusTypeOK, paid' = paid, NEW o \in Orders \cup {NoOrder}, NEW from, NEW to, NEW updated,
           \A f \in from : <<f, to>> \in PaymentSteps, to = "CONFIRMED" => paid[o],
           Matched(o, from, to, updated) \/ Unmatched(o, from, updated)
    PROVE  UNCHANGED <<status, paid>> \/ \E p \in Orders : RowPaidFor(p)
<1>1. CASE status' = status
  BY <1>1
<1>2. CASE Matched(o, from, to, updated) /\ o \in Orders
  <2>1. <<status[o], to>> \in PaymentSteps /\ status' = [status EXCEPT ![o] = to]
    BY <1>2 DEF Matched
  <2> QED
    BY <1>2, <2>1 DEF RowPaidFor
<1>3. CASE Matched(o, from, to, updated) /\ o \notin Orders
  BY <1>3 DEF Matched, StatusTypeOK
<1> QED
  BY <1>1, <1>2, <1>3 DEF Unmatched

\* What the webhook handler writes.
LEMMA PendingWrites ==
    ASSUME paid' = paid, NEW o \in Orders, NEW to \in {"CONFIRMED", "PAYMENT_FAILED"},
           NEW updated, to = "CONFIRMED" => paid[o],
           \/ Matched(o, {"PENDING_PAYMENT"}, to, updated)
           \/ Unmatched(o, {"PENDING_PAYMENT"}, updated)
    PROVE  UNCHANGED <<status, paid>> \/ \E p \in Orders : RowPaidFor(p)
<1>1. <<"PENDING_PAYMENT", to>> \in PaymentSteps
  BY DEF PaymentSteps
<1> QED
  BY <1>1 DEF Matched, Unmatched, RowPaidFor

LEMMA PaymentsWrite ==
    ASSUME TypeInv, OrdersOfRows, KeysOfRows, PaymentInv, PaymentsNext
    PROVE  \/ UNCHANGED <<status, paid>>
           \/ \E o \in Orders : RowPaidFor(o) \/ PaidOnce(o)
<1> USE DEF TypeInv, TypeOK
<1>1. ASSUME NEW r \in CreateRequests, CreateNext(r)
      PROVE  UNCHANGED <<status, paid>> \/ \E o \in Orders : RowPaidFor(o)
  <2>1. paid' = paid
    BY <1>1 DEF CreateNext, CreateLookup, CreateOrder, CreateInsert, CreateConflict,
       CreateRespond, CreateDies, razorpayVars
  <2>2. CASE UNCHANGED rowVars
    BY <2>1, <2>2 DEF rowVars
  <2>3. CASE CreateInsert(r) /\ insert(creates[r].order, creates[r].key)
    <3>1. creates[r].order \in Orders /\ ~Exists(creates[r].order)
      BY <2>3 DEF CreateInsert, OrdersOfRows
    <3>2. <<"NO_ROW", "PENDING_PAYMENT">> \in PaymentSteps
      BY DEF PaymentSteps
    <3> QED
      BY <2>1, <2>3, <3>1, <3>2 DEF insert, Exists, RowPaidFor
  <2> QED
    BY <1>1, <2>2, <2>3 DEF CreateNext, CreateLookup, CreateOrder, CreateInsert,
       CreateConflict, CreateRespond, CreateDies
<1>2. ASSUME NEW c \in CancelRequests, CancelNext(c)
      PROVE  UNCHANGED <<status, paid>> \/ \E o \in Orders : RowPaidFor(o)
  <2>1. paid' = paid
    BY <1>2 DEF CancelNext, CancelRead, CancelRefund, CancelUpdate, CancelDies, razorpayVars
  <2>2. CASE UNCHANGED rowVars
    BY <2>1, <2>2 DEF rowVars
  <2>3. CASE CancelUpdate(c)
    <3>1. PICK updated \in BOOLEAN :
            \/ Matched(cancels[c].order, Cancellable, "CANCELLED", updated)
            \/ Unmatched(cancels[c].order, Cancellable, updated)
      BY <2>3 DEF CancelUpdate, updateCancelled
    <3>2. cancels[c].order \in Orders \cup {NoOrder}
      BY DEF Cancel
    <3>3. \A f \in Cancellable : <<f, "CANCELLED">> \in PaymentSteps
      BY DEF PaymentSteps
    <3>4. StatusTypeOK /\ ("CANCELLED" = "CONFIRMED" => paid[cancels[c].order])
      OBVIOUS
    <3> QED
      BY <2>1, <3>1, <3>2, <3>3, <3>4, UpdateWrites, Zenon
  <2> QED
    BY <1>2, <2>2, <2>3 DEF CancelNext, CancelRead, CancelRefund, CancelDies
<1>3. ASSUME NEW w \in Hooks, HookNext(w)
      PROVE  UNCHANGED <<status, paid>> \/ \E o \in Orders : RowPaidFor(o)
  <2> DEFINE e == hook[w].event
  <2>1. paid' = paid
    BY <1>3 DEF HookNext, Deliver, HookClaim, HookCaptured, HookFailed, HookDies, razorpayVars
  <2>2. CASE UNCHANGED rowVars
    BY <2>1, <2>2 DEF rowVars
  <2>3. ASSUME hook[w].pc = "process" PROVE e \in events /\ e.order \in Orders
    BY <2>3 DEF HookCarriesEvent, Event
  <2>4. ASSUME HookCaptured(w), ~UNCHANGED rowVars
        PROVE  UNCHANGED <<status, paid>> \/ \E o \in Orders : RowPaidFor(o)
    <3>1. PICK updated \in BOOLEAN :
            \/ Matched(e.order, {"PENDING_PAYMENT"}, "CONFIRMED", updated)
            \/ Unmatched(e.order, {"PENDING_PAYMENT"}, updated)
      BY <2>4 DEF HookCaptured, updatePaymentCaptured
    <3>2. e.order \in Orders /\ paid[e.order]
      BY <2>3, <2>4 DEF HookCaptured, PaymentInv, CapturedIsPaid
    <3> QED
      BY <2>1, <3>1, <3>2, PendingWrites, Zenon
  <2>5. ASSUME HookFailed(w), ~UNCHANGED rowVars
        PROVE  UNCHANGED <<status, paid>> \/ \E o \in Orders : RowPaidFor(o)
    <3>1. PICK updated \in BOOLEAN :
            \/ Matched(e.order, {"PENDING_PAYMENT"}, "PAYMENT_FAILED", updated)
            \/ Unmatched(e.order, {"PENDING_PAYMENT"}, updated)
      BY <2>5 DEF HookFailed, updatePaymentFailed, updateStatus
    <3>2. e.order \in Orders
      BY <2>3, <2>5 DEF HookFailed
    <3>3. "PAYMENT_FAILED" = "CONFIRMED" => paid[e.order]
      OBVIOUS
    <3> QED
      BY <2>1, <3>1, <3>2, <3>3, PendingWrites, Zenon
  <2> QED
    BY <1>3, <2>2, <2>4, <2>5 DEF HookNext, Deliver, HookClaim, HookDies
<1>4. ASSUME NEW o \in Orders, PaymentCaptured(o) PROVE PaidOnce(o)
  <2>1. Exists(o)
    BY <1>4 DEF PaymentCaptured, HandedOut, KeysOfRows
  <2> QED
    BY <1>4, <2>1 DEF PaymentCaptured, PaidOnce, rowVars
<1>5. ASSUME NEW o \in Orders, PaymentDeclined(o) \/ TimePasses(o)
      PROVE  UNCHANGED <<status, paid>>
  BY <1>5 DEF PaymentDeclined, TimePasses, rowVars, razorpayVars
<1> QED
  BY <1>1, <1>2, <1>3, <1>4, <1>5 DEF PaymentsNext

-----------------------------------------------------------------------------
(***************************************************************************)
(* What the handlers of BookingFulfilment write of it                       *)
(***************************************************************************)
\* One row takes a step of the job, with the user's code where it takes one.
RowProved(o) ==
    /\ Proofs' = Proofs
    /\ \E s \in FulfilmentSteps :
         /\ status[o] = s[1] /\ status' = [status EXCEPT ![o] = s[2]]
         /\ s[2] = "ARRIVAL_CONFIRMED" => "ARRIVAL" \in Proofs[o]
         /\ s[2] = "COMPLETED" => "COMPLETION" \in Proofs[o]

CodeGiven(o, t) ==
    /\ status' = status
    /\ otps[o][t] # <<>>
    /\ Proofs' = [Proofs EXCEPT ![o] = @ \cup {t}]

LEMMA SameProofs ==
    ASSUME \A o \in Orders, t \in OtpType : UsedCodes(o, t)' = UsedCodes(o, t)
    PROVE  Proofs' = Proofs
BY DEF Proofs

LEMMA CodesAlone == ASSUME otps' = otps PROVE Proofs' = Proofs
BY DEF Proofs, UsedCodes

LEMMA IssueWrites ==
    ASSUME FulInv, NEW o \in Orders, NEW t \in OtpType, IssueCode(o, t)
    PROVE  Proofs' = Proofs
<1> DEFINE c == [used |-> FALSE, expired |-> FALSE]
<1>1. otps \in [Orders -> [OtpType -> Seq(Otp)]] /\ c \in Otp
  BY DEF FulInv, Tables, Otp
<1>2. otps' = [otps EXCEPT ![o][t] = Append(@, c)]
  BY DEF IssueCode
<1>3. ASSUME NEW b \in Orders, NEW u \in OtpType PROVE UsedCodes(b, u)' = UsedCodes(b, u)
  <2>1. CASE b = o /\ u = t
    <3>1. otps[o][t] \in Seq(Otp) /\ otps'[o][t] = Append(otps[o][t], c)
      BY <1>1, <1>2
    <3>2. /\ Len(otps'[o][t]) = Len(otps[o][t]) + 1 /\ ~otps'[o][t][Len(otps[o][t]) + 1].used
          /\ \A i \in 1..Len(otps[o][t]) : otps'[o][t][i] = otps[o][t][i]
      BY <1>1, <3>1
    <3>3. \A i : i \in UsedCodes(o, t)' <=> i \in UsedCodes(o, t)
      <4>1. Len(otps[o][t]) \in Nat
        BY <3>1
      <4> DEFINE n == Len(otps[o][t])
      <4>2. \A i : i \in 1..Len(otps'[o][t]) <=> i \in 1..n \/ i = n + 1
        BY <3>2, <4>1
      <4>3. n + 1 \notin 1..n
        BY <4>1
      <4> HIDE DEF n
      <4>4. \A i \in 1..n : otps'[o][t][i].used = otps[o][t][i].used
        BY <3>2 DEF n
      <4>5. ~otps'[o][t][n + 1].used
        BY <3>2 DEF n
      <4>6. UsedCodes(o, t)' = {i \in 1..Len(otps'[o][t]) : otps'[o][t][i].used}
        BY DEF UsedCodes
      <4>7. UsedCodes(o, t) = {i \in 1..n : otps[o][t][i].used}
        BY DEF UsedCodes, n
      <4> QED
        BY <4>2, <4>4, <4>5, <4>6, <4>7
    <3> QED
      BY <2>1, <3>3
  <2>2. CASE b # o \/ u # t
    BY <1>1, <1>2, <2>2 DEF UsedCodes
  <2> QED
    BY <2>1, <2>2
<1> QED
  BY <1>3, SameProofs

LEMMA ExpiryWrites ==
    ASSUME FulInv, NEW o \in Orders, NEW t \in OtpType, NEW i, OtpExpires(o, t, i)
    PROVE  Proofs' = Proofs
<1> DEFINE x == [used |-> otps[o][t][i].used, expired |-> TRUE]
<1>1. otps \in [Orders -> [OtpType -> Seq(Otp)]] /\ i \in 1..Len(otps[o][t])
  BY DEF FulInv, Tables, OtpExpires, Active
<1>2. otps[o][t] \in Seq(Otp) /\ otps[o][t][i] \in Otp
  BY <1>1
<1>3. [otps[o][t][i] EXCEPT !.expired = TRUE] = x
  BY <1>2, ExpiredField, Zenon
<1>4. otps' = [otps EXCEPT ![o][t][i].expired = TRUE]
  BY DEF OtpExpires
<1>5. otps' = [otps EXCEPT ![o][t][i] = x]
  BY <1>3, <1>4
<1>6. ASSUME NEW b \in Orders, NEW u \in OtpType PROVE UsedCodes(b, u)' = UsedCodes(b, u)
  <2>1. CASE b = o /\ u = t
    <3>1. /\ Len(otps'[o][t]) = Len(otps[o][t])
          /\ \A j \in 1..Len(otps[o][t]) : otps'[o][t][j].used = otps[o][t][j].used
      BY <1>1, <1>2, <1>5
    <3> QED
      BY <2>1, <3>1 DEF UsedCodes
  <2>2. CASE b # o \/ u # t
    BY <1>1, <1>5, <2>2 DEF UsedCodes
  <2> QED
    BY <2>1, <2>2
<1> QED
  BY <1>6, SameProofs

LEMMA UseWritesAt ==
    ASSUME FulInv, NEW o \in Orders, NEW t \in OtpType, NEW i \in 1..Len(otps[o][t]),
           otps' = [otps EXCEPT ![o][t][i].used = TRUE], status' = status
    PROVE  CodeGiven(o, t)
<1> DEFINE x == [used |-> TRUE, expired |-> otps[o][t][i].expired]
<1>1. otps \in [Orders -> [OtpType -> Seq(Otp)]]
  BY DEF FulInv, Tables
<1>2. otps[o][t] \in Seq(Otp) /\ otps[o][t][i] \in Otp
  BY <1>1
<1>3. [otps[o][t][i] EXCEPT !.used = TRUE] = x
  BY <1>2, UsedField, Zenon
<1>4. otps' = [otps EXCEPT ![o][t][i] = x] /\ x.used
  BY <1>3
<1> HIDE DEF x
<1>5. \A b \in Orders, u \in OtpType : b # o \/ u # t => UsedCodes(b, u)' = UsedCodes(b, u)
  BY <1>1, <1>4 DEF UsedCodes
<1>6. UsedCodes(o, t)' # {}
  <2>1. Len(otps'[o][t]) = Len(otps[o][t]) /\ otps'[o][t][i].used
    BY <1>1, <1>2, <1>4
  <2> QED
    BY <2>1 DEF UsedCodes
<1>7. Proofs' = [b \in Orders |-> IF b = o THEN Proofs[b] \cup {t} ELSE Proofs[b]]
  <2>1. ASSUME NEW b \in Orders
        PROVE  Proofs'[b] = IF b = o THEN Proofs[b] \cup {t} ELSE Proofs[b]
    <3>1. /\ Proofs[b] = {u \in OtpType : UsedCodes(b, u) # {}}
          /\ Proofs'[b] = {u \in OtpType : UsedCodes(b, u)' # {}}
      BY DEF Proofs
    <3>2. CASE b = o
      BY <1>5, <1>6, <3>1, <3>2
    <3>3. CASE b # o
      BY <1>5, <3>1, <3>3
    <3> QED
      BY <3>2, <3>3
  <2> QED
    BY <2>1 DEF Proofs
<1>8. Proofs' = [Proofs EXCEPT ![o] = @ \cup {t}]
  BY <1>7 DEF Proofs
<1>9. otps[o][t] # <<>>
  OBVIOUS
<1> QED
  BY <1>8, <1>9 DEF CodeGiven

LEMMA UseWrites ==
    ASSUME FulInv, NEW q \in Tasks, UseCode(q)
    PROVE  \E o \in Orders, t \in OtpType : CodeGiven(o, t)
<1> DEFINE o == tasks[q].order
           t == TypeOf(OpOf[q])
           i == tasks[q].code
<1>1. /\ o \in Orders /\ t \in OtpType /\ i \in 1..Len(otps[o][t])
      /\ otps' = [otps EXCEPT ![o][t][i].used = TRUE] /\ status' = status
  BY DEF UseCode, FulInv, TaskInv, TypeOf, OtpType
<1> QED
  BY <1>1, UseWritesAt, Zenon

LEMMA FulfilmentWrites ==
    ASSUME FulInv, FulfilmentNext
    PROVE  \/ UNCHANGED <<status, Proofs>>
           \/ \E o \in Orders : RowProved(o) \/ \E t \in OtpType : CodeGiven(o, t)
<1> DEFINE Goal == \/ UNCHANGED <<status, Proofs>>
                   \/ \E o \in Orders : RowProved(o) \/ \E t \in OtpType : CodeGiven(o, t)
<1>1. status \in [Orders -> Status \cup {"NO_ROW"}]
  BY DEF FulInv, JobsTypeOK, StatusTypeOK
<1>2. ASSUME NEW q \in Tasks, TaskNext(q) PROVE Goal
  <2>1. CASE UNCHANGED <<status, otps>>
    BY <2>1, CodesAlone
  <2>2. CASE AssignWrite(q)
    BY <1>1, <2>1, <2>2 DEF AssignWrite, Matched, Unmatched
  <2>3. CASE MarkCompleteWrite(q)
    <3>1. tasks[q].order \in Orders /\ otps' = otps
      BY <2>3 DEF MarkCompleteWrite, At, FulInv, TaskInv
    <3>2. CASE \E updated \in BOOLEAN :
                 Matched(tasks[q].order, {"ARRIVAL_CONFIRMED"}, "PENDING_COMPLETION_VERIFICATION", updated)
      <4>1. <<"ARRIVAL_CONFIRMED", "PENDING_COMPLETION_VERIFICATION">> \in FulfilmentSteps
        BY DEF FulfilmentSteps
      <4> QED
        BY <3>1, <3>2, <4>1, CodesAlone DEF Matched, RowProved
    <3> QED
      BY <2>1, <2>3, <3>1, <3>2 DEF MarkCompleteWrite, updateStatus, Unmatched, From, To
  <2>4. CASE VerifiedWrite(q)
    <3>1. /\ tasks[q].order \in Orders /\ otps' = otps /\ OpOf[q] \in Verifying
          /\ UsedCodes(tasks[q].order, TypeOf(OpOf[q])) # {}
      BY <2>4 DEF VerifiedWrite, At, FulInv, TaskInv
    <3>2. TypeOf(OpOf[q]) \in Proofs[tasks[q].order]
      BY <3>1 DEF Proofs, TypeOf, OtpType
    <3>3. ASSUME NEW updated \in BOOLEAN,
                 Matched(tasks[q].order, {From(OpOf[q])}, To(OpOf[q]), updated)
          PROVE  RowProved(tasks[q].order)
      <4>1. /\ OpOf[q] = "confirmArrival" \/ OpOf[q] = "verifyCompletion"
            /\ <<From(OpOf[q]), To(OpOf[q])>> \in FulfilmentSteps
            /\ To(OpOf[q]) = "ARRIVAL_CONFIRMED" => TypeOf(OpOf[q]) = "ARRIVAL"
            /\ To(OpOf[q]) = "COMPLETED" => TypeOf(OpOf[q]) = "COMPLETION"
        BY <3>1 DEF Verifying, From, To, TypeOf, FulfilmentSteps
      <4> QED
        BY <3>1, <3>2, <3>3, <4>1, CodesAlone DEF Matched, RowProved
    <3>4. CASE status' = status
      BY <2>1, <3>1, <3>4
    <3> QED
      BY <2>4, <3>1, <3>3, <3>4 DEF VerifiedWrite, updateStatus, Unmatched
  <2>5. CASE Issue(q)
    <3>1. tasks[q].order \in Orders /\ TypeOf(OpOf[q]) \in OtpType /\ status' = status
      BY <2>5 DEF Issue, FulInv, TaskInv, TypeOf, OtpType
    <3> QED
      BY <2>5, <3>1, IssueWrites DEF Issue
  <2>6. CASE UseCode(q)
    BY <2>6, UseWrites
  <2> QED
    BY <1>2, <2>1, <2>2, <2>3, <2>4, <2>5, <2>6 DEF TaskNext, AssignRead, MarkCompleteRead,
       VerifyCode, ReviewRead, ReviewWrite, TaskDies
<1>3. ASSUME NEW o \in Orders, NEW t \in OtpType, NEW i \in 1..MaxCodes, OtpExpires(o, t, i)
      PROVE  Goal
  BY <1>3, ExpiryWrites DEF OtpExpires
<1> QED
  BY <1>2, <1>3 DEF FulfilmentNext

-----------------------------------------------------------------------------
(***************************************************************************)
(* Each group of handlers is what the other module lets its environment do  *)
(***************************************************************************)
LEMMA PaymentsAreSteps ==
    ASSUME TypeInv, OrdersOfRows, KeysOfRows, PaymentInv, PaymentsNext, UNCHANGED jobRows
    PROVE  [Next]_vars /\ [JobsNext]_jobsVars
<1>1. ASSUME NEW o \in Orders, RowPaidFor(o) PROVE PaymentStep(o)
  BY <1>1 DEF RowPaidFor, PaymentStep, Takes
<1>2. status' = status \/ \E o \in Orders : RowPaidFor(o)
  BY PaymentsWrite DEF PaidOnce
<1> QED
  BY <1>1, <1>2 DEF Next, JobsNext, jobsVars

LEMMA FulfilmentsAreSteps ==
    ASSUME FulInv, FulfilmentNext, UNCHANGED payVars
    PROVE  [Next]_vars /\ [JobsNext]_jobsVars
<1>1. ASSUME NEW o \in Orders, RowProved(o) PROVE FulfilmentStep(o)
  BY <1>1 DEF RowProved, FulfilmentStep, Takes
<1>2. status' = status \/ \E o \in Orders : RowProved(o)
  BY FulfilmentWrites DEF CodeGiven
<1> QED
  BY <1>1, <1>2 DEF Next, JobsNext, vars

LEMMA ServiceStep == ServiceInv /\ [ServiceNext]_serviceVars => [Next]_vars /\ [JobsNext]_jobsVars
<1> SUFFICES ASSUME ServiceInv, [ServiceNext]_serviceVars
             PROVE  [Next]_vars /\ [JobsNext]_jobsVars
  OBVIOUS
<1>1. CASE UNCHANGED serviceVars
  BY <1>1 DEF serviceVars, vars, jobsVars
<1> QED
  BY <1>1, PaymentsAreSteps, FulfilmentsAreSteps DEF ServiceInv, ServiceNext

\* Someone is assigned to a CONFIRMED booking only, and a payment stays.
LEMMA AssignedStep == ServiceInv /\ [ServiceNext]_serviceVars => AssignedIsPaid'
<1> SUFFICES ASSUME ServiceInv, [ServiceNext]_serviceVars, NEW o \in Orders, assigned'[o] # Nobody
             PROVE  paid'[o]
  BY DEF AssignedIsPaid
<1>1. [Next]_vars /\ \A b \in Orders : paid[b] => paid'[b]
  BY ServiceStep, RazorpayStep DEF ServiceInv
<1>2. CASE assigned'[o] = assigned[o]
  BY <1>1, <1>2 DEF ServiceInv, AssignedIsPaid
<1>3. ASSUME NEW q \in Tasks, AssignWrite(q), assigned'[o] # assigned[o] PROVE paid'[o]
  <2>1. status[tasks[q].order] = "CONFIRMED" /\ o = tasks[q].order
    BY <1>3 DEF AssignWrite, Matched, ServiceInv, FulInv, JobsTypeOK
  <2> QED
    BY <1>1, <2>1 DEF ServiceInv, PaymentInv, ServedWasPaid, Served
<1>4. ASSUME NEW q \in Tasks, TaskNext(q) PROVE AssignWrite(q) \/ assigned' = assigned
  BY <1>4 DEF TaskNext, AssignRead, MarkCompleteRead, VerifyCode, ReviewRead, MarkCompleteWrite,
     Issue, UseCode, VerifiedWrite, ReviewWrite, TaskDies
<1>5. (\E q \in Tasks : AssignWrite(q)) \/ assigned' = assigned
  BY <1>4 DEF ServiceNext, FulfilmentNext, OtpExpires, serviceVars, jobRows
<1> QED
  BY <1>2, <1>3, <1>5

LEMMA ServiceInvariant == ServiceSpec => []ServiceInv
<1>1. ServiceInit => Init /\ JobsInit /\ AssignedIsPaid
  BY DEF ServiceInit, JobsInit, AssignedIsPaid
<1>2. JobsInit => FulInv
  BY FulInvInit
<1> QED
  BY <1>1, <1>2, TypeInit, OrdersOfRowsInit, KeysOfRowsInit, PaymentInit, ServiceStep, AssignedStep,
     TypeStep, OrdersOfRowsStep, KeysOfRowsStep, PaymentInvStep, FulInvKept, PTL
     DEF ServiceSpec, ServiceInv

\* What is proved of BookingPayments holds in the service: the handlers of the
\* job do to a row no more than the environment that module assumes.
THEOREM PaymentsOfService == ServiceSpec => ImplementsPayments
<1>1. ServiceInit => Init
  BY DEF ServiceInit
<1> QED
  BY <1>1, ServiceInvariant, ServiceStep, PTL DEF ServiceSpec, ImplementsPayments, Spec

\* The same of BookingFulfilment, whose environment is creation, payment and cancel.
THEOREM FulfilmentOfService == ServiceSpec => ImplementsFulfilment
<1>1. ServiceInit => JobsInit
  BY DEF ServiceInit
<1> QED
  BY <1>1, ServiceInvariant, ServiceStep, PTL DEF ServiceSpec, ImplementsFulfilment, JobsSpec

-----------------------------------------------------------------------------
(***************************************************************************)
(* The promise                                                              *)
(***************************************************************************)
LEMMA PaymentsKeepPromise ==
    ASSUME ServiceInv, PaymentsNext, UNCHANGED jobRows
    PROVE  [Lifecycle!Next]_(Lifecycle!vars)
<1>1. Proofs' = Proofs
  BY CodesAlone DEF jobRows
<1>2. ASSUME NEW o \in Orders, RowPaidFor(o) PROVE Lifecycle!Next
  <2>1. PICK s \in PaymentSteps : /\ status[o] = s[1] /\ status' = [status EXCEPT ![o] = s[2]]
                                  /\ s[2] = "CONFIRMED" => paid[o]
    BY <1>2 DEF RowPaidFor
  <2>2. paid' = paid
    BY <1>2 DEF RowPaidFor
  <2>3. CASE s = <<"NO_ROW", "PENDING_PAYMENT">>
    BY <1>1, <2>1, <2>2, <2>3 DEF Lifecycle!Next, Lifecycle!Open, Lifecycle!Moves
  <2>4. CASE s = <<"PENDING_PAYMENT", "CONFIRMED">>
    BY <1>1, <2>1, <2>2, <2>4 DEF Lifecycle!Next, Lifecycle!Confirm, Lifecycle!Moves
  <2>5. CASE s = <<"PENDING_PAYMENT", "PAYMENT_FAILED">>
    BY <1>1, <2>1, <2>2, <2>5 DEF Lifecycle!Next, Lifecycle!Fail, Lifecycle!Moves
  <2>6. CASE s \in Cancellable \X {"CANCELLED"}
    BY <1>1, <2>1, <2>2, <2>6 DEF Lifecycle!Next, Lifecycle!Cancel, Lifecycle!Moves, Cancellable
  <2> QED
    BY <2>3, <2>4, <2>5, <2>6 DEF PaymentSteps
<1>3. ASSUME NEW o \in Orders, PaidOnce(o) PROVE Lifecycle!Next
  BY <1>1, <1>3 DEF PaidOnce, Exists, Lifecycle!Next, Lifecycle!Pay
<1> QED
  BY <1>1, <1>2, <1>3, PaymentsWrite DEF ServiceInv, Lifecycle!vars

LEMMA FulfilmentsKeepPromise ==
    ASSUME ServiceInv, FulfilmentNext, UNCHANGED payVars
    PROVE  [Lifecycle!Next]_(Lifecycle!vars)
<1>1. paid' = paid
  BY DEF payVars, razorpayVars
<1>2. ASSUME NEW o \in Orders, RowProved(o) PROVE Lifecycle!Next
  <2>1. PICK s \in FulfilmentSteps :
          /\ status[o] = s[1] /\ status' = [status EXCEPT ![o] = s[2]]
          /\ s[2] = "ARRIVAL_CONFIRMED" => "ARRIVAL" \in Proofs[o]
          /\ s[2] = "COMPLETED" => "COMPLETION" \in Proofs[o]
    BY <1>2 DEF RowProved
  <2>2. Proofs' = Proofs
    BY <1>2 DEF RowProved
  <2>3. CASE s = <<"CONFIRMED", "ARRIVAL_CONFIRMED">>
    BY <1>1, <2>1, <2>2, <2>3 DEF Lifecycle!Next, Lifecycle!Arrive, Lifecycle!Moves
  <2>4. CASE s = <<"ARRIVAL_CONFIRMED", "PENDING_COMPLETION_VERIFICATION">>
    BY <1>1, <2>1, <2>2, <2>4 DEF Lifecycle!Next, Lifecycle!MarkComplete, Lifecycle!Moves
  <2>5. CASE s = <<"PENDING_COMPLETION_VERIFICATION", "COMPLETED">>
    BY <1>1, <2>1, <2>2, <2>5 DEF Lifecycle!Next, Lifecycle!Complete, Lifecycle!Moves
  <2> QED
    BY <2>3, <2>4, <2>5 DEF FulfilmentSteps
<1>3. ASSUME NEW o \in Orders, NEW t \in OtpType, CodeGiven(o, t) PROVE Lifecycle!Next
  <2>1. t = "ARRIVAL" => paid[o]
    BY <1>3 DEF CodeGiven, ServiceInv, FulInv, Tables, AssignedIsPaid
  <2>2. t = "COMPLETION" => status[o] \in {"PENDING_COMPLETION_VERIFICATION", "COMPLETED"}
    BY <1>3 DEF CodeGiven, ServiceInv, FulInv, ServedByProof
  <2>3. Lifecycle!Prove(o, t)
    BY <1>1, <1>3, <2>1, <2>2 DEF CodeGiven, Lifecycle!Prove
  <2> QED
    BY <2>3 DEF OtpType, Lifecycle!Next
<1> QED
  BY <1>1, <1>2, <1>3, FulfilmentWrites DEF ServiceInv, Lifecycle!vars

\* Whatever the requests, deliveries, crashes and failing statements, a booking
\* lives as it was promised: no confirmation unpaid, no arrival or completion
\* without the user's code, no cancel after the arrival.
THEOREM ServiceKeepsPromise == ServiceSpec => ImplementsLifecycle
<1>1. ServiceInit => Lifecycle!Init
  BY DEF ServiceInit, Init, JobsInit, StatusInit, Lifecycle!Init, Proofs, UsedCodes, OtpType
<1>2. ServiceInv /\ [ServiceNext]_serviceVars => [Lifecycle!Next]_(Lifecycle!vars)
  <2> SUFFICES ASSUME ServiceInv, [ServiceNext]_serviceVars
               PROVE  [Lifecycle!Next]_(Lifecycle!vars)
    OBVIOUS
  <2>1. CASE UNCHANGED serviceVars
    BY <2>1, CodesAlone DEF serviceVars, vars, payVars, razorpayVars, jobRows, Lifecycle!vars
  <2> QED
    BY <2>1, PaymentsKeepPromise, FulfilmentsKeepPromise DEF ServiceNext
<1> QED
  BY <1>1, <1>2, ServiceInvariant, PTL DEF ServiceSpec, ImplementsLifecycle, Lifecycle!Spec

\* What Slots lets happen to a row from outside (RowMoves, Insert) is all that
\* the handlers of the service, payments and job together, ever do to one.
THEOREM RowsMoveAsSlotsAssumes ==
    ServiceSpec =>
        StatusInit /\ [][\E o \in Orders : Takes(PaymentSteps \cup FulfilmentSteps, o)]_status
<1>1. ServiceInit => StatusInit
  BY DEF ServiceInit, Init
<1>2. ServiceInv /\ [ServiceNext]_serviceVars
        => [\E o \in Orders : Takes(PaymentSteps \cup FulfilmentSteps, o)]_status
  <2> SUFFICES ASSUME ServiceInv, [ServiceNext]_serviceVars, status' # status
               PROVE  \E o \in Orders : Takes(PaymentSteps \cup FulfilmentSteps, o)
    OBVIOUS
  <2>1. CASE PaymentsNext
    <3>1. PICK o \in Orders : RowPaidFor(o)
      BY <2>1, PaymentsWrite DEF ServiceInv, PaidOnce
    <3> QED
      BY <3>1 DEF RowPaidFor, Takes
  <2>2. CASE FulfilmentNext
    <3>1. PICK o \in Orders : RowProved(o)
      BY <2>2, FulfilmentWrites DEF ServiceInv, CodeGiven
    <3> QED
      BY <3>1 DEF RowProved, Takes
  <2>3. UNCHANGED serviceVars => status' = status
    BY DEF serviceVars, vars, payVars, jobRows
  <2> QED
    BY <2>1, <2>2, <2>3 DEF ServiceNext
<1> QED
  BY <1>1, <1>2, ServiceInvariant, PTL DEF ServiceSpec
=============================================================================
