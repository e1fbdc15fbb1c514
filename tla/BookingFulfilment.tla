-------------------------- MODULE BookingFulfilment --------------------------
(***************************************************************************)
(* From a confirmed booking to a reviewed one: the provider assigns a       *)
(* service person (an arrival code goes to the user), confirms the arrival  *)
(* with that code, marks the job complete (a completion code goes to the    *)
(* user), the user confirms the completion with that code and reviews it.   *)
(*                                                                          *)
(* Requests are processes that run once and interleave at each await, as in *)
(* BookingPayments.  Requests refused for a missing row or a foreign caller *)
(* change nothing and are left out.                                         *)
(***************************************************************************)
EXTENDS BookingTable, Naturals, Sequences

CONSTANTS
    Tasks,      \* requests to assign, confirm, complete, verify or review
    OpOf,       \* the operation each request asks for
    NoBooking,
    Persons,    \* service persons a provider may send
    Nobody,
    MaxCodes    \* bound: codes issued per booking and type

\* Two operations issue a code and two take one.
Issuing == {"assign", "markComplete"}
Verifying == {"confirmArrival", "verifyCompletion"}

ASSUME OpAssumption == OpOf \in [Tasks -> Issuing \cup Verifying \cup {"review"}]
ASSUME NoBookingAssumption == NoBooking \notin Orders
ASSUME PersonAssumption == Nobody \notin Persons
ASSUME MaxCodesAssumption == MaxCodes \in Nat

VARIABLES
    assigned,   \* the column assignedServicePersonId
    otps,       \* the table booking_otps: per booking and type, oldest first
    reviews,    \* the table booking_reviews: reviews of a booking
    tasks       \* the requests

jobRows == <<assigned, otps, reviews, tasks>>
jobsVars == <<status, jobRows>>

OtpType == {"ARRIVAL", "COMPLETION"}

Otp == [used : BOOLEAN, expired : BOOLEAN]

Task == [ pc     : {"idle", "write", "issue", "use", "done", "refused", "failed"},
          order  : Orders \cup {NoBooking},
          person : Persons \cup {Nobody},
          code   : 0..MaxCodes ]  \* the code presented; 0 is none of them

\* The code an operation issues or takes.
TypeOf(op) == IF op \in {"assign", "confirmArrival"} THEN "ARRIVAL" ELSE "COMPLETION"

\* The status an operation finds a booking in, and the one it leaves it in.
From(op) == CASE op = "assign" -> "CONFIRMED"
              [] op = "confirmArrival" -> "CONFIRMED"
              [] op = "markComplete" -> "ARRIVAL_CONFIRMED"
              [] op = "verifyCompletion" -> "PENDING_COMPLETION_VERIFICATION"
              [] op = "review" -> "COMPLETED"

To(op) == CASE op = "assign" -> "CONFIRMED"
            [] op = "confirmArrival" -> "ARRIVAL_CONFIRMED"
            [] op = "markComplete" -> "PENDING_COMPLETION_VERIFICATION"
            [] op = "verifyCompletion" -> "COMPLETED"

JobsTypeOK ==
    /\ StatusTypeOK
    /\ assigned \in [Orders -> Persons \cup {Nobody}]
    /\ \A o \in Orders, t \in OtpType :
         /\ otps[o][t] \in Seq(Otp)
         /\ Len(otps[o][t]) <= MaxCodes
    /\ reviews \in [Orders -> SUBSET Tasks]
    /\ tasks \in [Tasks -> Task]

JobsInit ==
    /\ StatusInit
    /\ assigned = [o \in Orders |-> Nobody]
    /\ otps = [o \in Orders |-> [t \in OtpType |-> <<>>]]
    /\ reviews = [o \in Orders |-> {}]
    /\ tasks = [q \in Tasks |-> [pc |-> "idle", order |-> NoBooking,
                               person |-> Nobody, code |-> 0]]

-----------------------------------------------------------------------------
At(q, op, pc) == OpOf[q] = op /\ tasks[q].pc = pc

\* The request has read what it goes by, and goes on to pc or is refused.
Begin(q, o, p, code, pc, found) ==
    /\ Exists(o)
    /\ tasks' = [tasks EXCEPT
         ![q] = [pc |-> IF found THEN pc ELSE "refused", order |-> o,
                 person |-> p, code |-> code]]

Advance(q, pc) == tasks' = [tasks EXCEPT ![q].pc = pc]

\* generateArrivalOtp, generateCompletionOtp: one more unused row.
IssueCode(o, t) ==
    /\ Len(otps[o][t]) < MaxCodes
    /\ otps' = [otps EXCEPT ![o][t] = Append(@, [used |-> FALSE, expired |-> FALSE])]

Active(o, t) == {i \in 1..Len(otps[o][t]) : ~otps[o][t][i].used /\ ~otps[o][t][i].expired}

\* Mutant: a code that has expired is taken.
IsNewestUnused(o, t, i) ==
    LET unused == {j \in 1..Len(otps[o][t]) : ~otps[o][t][j].used}
    IN  i \in unused /\ \A j \in unused : j <= i

\* findActiveByBookingAndType: the newest of the codes unused and not expired.
IsNewestActive(o, t, i) == i \in Active(o, t) /\ \A j \in Active(o, t) : j <= i

-----------------------------------------------------------------------------
(***************************************************************************)
(* assignServicePerson and markComplete                                     *)
(***************************************************************************)
AssignRead(q, o, p) ==
    /\ At(q, "assign", "idle")
    /\ Begin(q, o, p, 0, "write", status[o] = From("assign"))
    /\ UNCHANGED <<status, assigned, otps, reviews>>

MarkCompleteRead(q, o) ==
    /\ At(q, "markComplete", "idle")
    /\ Begin(q, o, Nobody, 0, "write", status[o] = From("markComplete"))
    /\ UNCHANGED <<status, assigned, otps, reviews>>

\* Mutant: the answer null of the update is not looked at.
AssignWriteUnchecked(q) ==
    LET o == tasks[q].order
    IN  /\ At(q, "assign", "write")
        /\ \E updated \in BOOLEAN :
            \/ /\ Matched(o, {"CONFIRMED"}, "CONFIRMED", updated)
               /\ assigned' = [assigned EXCEPT ![o] = tasks[q].person]
            \/ Unmatched(o, {"CONFIRMED"}, updated) /\ UNCHANGED assigned
        /\ Advance(q, "issue")
        /\ UNCHANGED <<otps, reviews>>

\* Mutant: the status is missing from the where clause.
AssignWriteAnyStatus(q) ==
    /\ At(q, "assign", "write")
    /\ assigned' = [assigned EXCEPT ![tasks[q].order] = tasks[q].person]
    /\ Advance(q, "issue")
    /\ UNCHANGED <<status, otps, reviews>>

\* updateAssignedServicePerson
AssignWrite(q) ==
    LET o == tasks[q].order
    IN  /\ At(q, "assign", "write")
        /\ \E updated \in BOOLEAN :
            /\ \/ /\ Matched(o, {"CONFIRMED"}, "CONFIRMED", updated)
                  /\ assigned' = [assigned EXCEPT ![o] = tasks[q].person]
               \/ Unmatched(o, {"CONFIRMED"}, updated) /\ UNCHANGED assigned
            /\ Advance(q, IF updated THEN "issue" ELSE "refused")
        /\ UNCHANGED <<otps, reviews>>

\* updatePendingCompletionVerification
MarkCompleteWrite(q) ==
    /\ At(q, "markComplete", "write")
    /\ \E updated \in BOOLEAN :
        /\ updateStatus(tasks[q].order, From("markComplete"), To("markComplete"), updated)
        /\ Advance(q, IF updated THEN "issue" ELSE "refused")
    /\ UNCHANGED <<assigned, otps, reviews>>

\* The code is stored after the booking was written, and sent to the user.
Issue(q) ==
    /\ tasks[q].pc = "issue"
    /\ IssueCode(tasks[q].order, TypeOf(OpOf[q]))
    /\ Advance(q, "done")
    /\ UNCHANGED <<status, assigned, reviews>>

-----------------------------------------------------------------------------
(***************************************************************************)
(* confirmArrival and verifyCompletion.  Neither looks at the status before *)
(* it takes the code, and the code is used up before the status is written. *)
(***************************************************************************)
VerifyCode(q, o, i) ==
    /\ \E op \in Verifying : At(q, op, "idle")
    /\ Begin(q, o, Nobody, i, "use", IsNewestActive(o, TypeOf(OpOf[q]), i))
    /\ UNCHANGED <<status, assigned, otps, reviews>>

\* markUsed: by id, whether or not another request has used the code since.
UseCode(q) ==
    LET k == tasks[q]
    IN  /\ k.pc = "use"
        /\ otps' = [otps EXCEPT ![k.order][TypeOf(OpOf[q])][k.code].used = TRUE]
        /\ Advance(q, "write")
        /\ UNCHANGED <<status, assigned, reviews>>

\* Mutant: the status is missing from the where clause.
VerifiedWriteAnyStatus(q) ==
    /\ \E op \in Verifying : At(q, op, "write")
    /\ status' = [status EXCEPT ![tasks[q].order] = To(OpOf[q])]
    /\ Advance(q, "done")
    /\ UNCHANGED <<assigned, otps, reviews>>

\* updateArrivalConfirmed, updateCompleted
VerifiedWrite(q) ==
    /\ \E op \in Verifying : At(q, op, "write")
    /\ \E updated \in BOOLEAN :
        /\ updateStatus(tasks[q].order, From(OpOf[q]), To(OpOf[q]), updated)
        /\ Advance(q, IF updated THEN "done" ELSE "refused")
    /\ UNCHANGED <<assigned, otps, reviews>>

OtpExpires(o, t, i) ==
    /\ i \in Active(o, t)
    /\ otps' = [otps EXCEPT ![o][t][i].expired = TRUE]
    /\ UNCHANGED <<status, assigned, reviews, tasks>>

-----------------------------------------------------------------------------
(***************************************************************************)
(* BookingReviewService.create                                              *)
(***************************************************************************)
\* Mutant: any booking may be reviewed.
ReviewReadAnyStatus(q, o) ==
    /\ At(q, "review", "idle")
    /\ Begin(q, o, Nobody, 0, "write", reviews[o] = {})
    /\ UNCHANGED <<status, assigned, otps, reviews>>

ReviewRead(q, o) ==
    /\ At(q, "review", "idle")
    /\ Begin(q, o, Nobody, 0, "write", status[o] = From("review") /\ reviews[o] = {})
    /\ UNCHANGED <<status, assigned, otps, reviews>>

\* The unique index on bookingId refuses a second row.
ReviewWrite(q) ==
    LET o == tasks[q].order
    IN  /\ At(q, "review", "write")
        /\ \/ /\ reviews[o] = {}
              /\ reviews' = [reviews EXCEPT ![o] = {q}]
              /\ Advance(q, "done")
           \/ /\ reviews[o] # {}
              /\ Advance(q, "failed")
              /\ UNCHANGED reviews
        /\ UNCHANGED <<status, assigned, otps>>

TaskDies(q) ==
    /\ tasks[q].pc \in {"write", "issue", "use"}
    /\ Advance(q, "failed")
    /\ UNCHANGED <<status, assigned, otps, reviews>>

-----------------------------------------------------------------------------
\* What creation, payment and cancel do to the row (module BookingPayments).
PaymentStep(o) ==
    /\ Takes(PaymentSteps, o)
    /\ UNCHANGED jobRows

TaskNext(q) ==
    \/ \E o \in Orders :
         \/ \E p \in Persons : AssignRead(q, o, p)
         \/ MarkCompleteRead(q, o)
         \/ \E i \in 0..MaxCodes : VerifyCode(q, o, i)
         \/ ReviewRead(q, o)
    \/ AssignWrite(q) \/ MarkCompleteWrite(q) \/ Issue(q)
    \/ UseCode(q) \/ VerifiedWrite(q) \/ ReviewWrite(q) \/ TaskDies(q)

FulfilmentNext ==
    \/ \E q \in Tasks : TaskNext(q)
    \/ \E o \in Orders, t \in OtpType, i \in 1..MaxCodes : OtpExpires(o, t, i)

JobsNext == FulfilmentNext \/ \E o \in Orders : PaymentStep(o)

JobsSpec == JobsInit /\ [][JobsNext]_jobsVars

-----------------------------------------------------------------------------
(***************************************************************************)
(* Properties                                                               *)
(***************************************************************************)
Arrived == {"ARRIVAL_CONFIRMED", "PENDING_COMPLETION_VERIFICATION", "COMPLETED"}

UsedCodes(o, t) == {i \in 1..Len(otps[o][t]) : otps[o][t][i].used}

\* No step of the job without the user's code (README "OTP-based
\* arrival/completion verification"): an arrival was confirmed with a code sent
\* after someone was assigned, a completion with a code sent after the job was
\* marked complete, and no completion code is out before that.
ServedByProof ==
    \A o \in Orders :
        /\ status[o] \in Arrived => /\ UsedCodes(o, "ARRIVAL") # {}
                                   /\ assigned[o] # Nobody
        /\ status[o] = "COMPLETED" => UsedCodes(o, "COMPLETION") # {}
        /\ otps[o]["COMPLETION"] # <<>> =>
              status[o] \in {"PENDING_COMPLETION_VERIFICATION", "COMPLETED"}

\* Requests racing with one code or one status: one request at most is told
\* that it confirmed the arrival, marked the job complete or completed it,
\* although two may both have found the same code active, or the same status.
OneTaskAdvances ==
    \A q, r \in Tasks :
        /\ tasks[q].pc = "done" /\ tasks[r].pc = "done"
        /\ OpOf[q] = OpOf[r] /\ tasks[q].order = tasks[r].order
        /\ OpOf[q] # "assign"
        => q = r

\* The row keeps the person who was sent: once the booking has left CONFIRMED
\* an assignment that read it earlier is refused by updateAssignedServicePerson.
ArrivedPersonKept ==
    [][\A o \in Orders : status[o] \in Arrived => assigned'[o] = assigned[o]]_jobsVars

\* Nothing is left that completes a booking marked complete: no code can be
\* entered, none is on its way, and no request has one entered already.
DeadEnd(o) ==
    /\ status[o] = "PENDING_COMPLETION_VERIFICATION"
    /\ Active(o, "COMPLETION") = {}
    /\ \A q \in Tasks : tasks[q].order = o =>
         /\ ~At(q, "markComplete", "issue")
         /\ OpOf[q] = "verifyCompletion" => tasks[q].pc \notin {"use", "write"}

\* A completion needs a code that is good when it is entered: with the last one
\* used in vain or expired nothing the service does completes the booking, nor
\* gives it another code, since markComplete takes ARRIVAL_CONFIRMED only.
DeadEndStays ==
    [][\A o \in Orders : DeadEnd(o) => DeadEnd(o)']_jobsVars

\* Reviews are of completed bookings only, and the request that was answered
\* with a review is the one the table holds (BookingReviewService.create, "This
\* booking has already been reviewed").
ReviewIsOfCompletedBooking ==
    /\ \A o \in Orders : reviews[o] # {} => status[o] = "COMPLETED"
    /\ \A q \in Tasks :
          At(q, "review", "done") => reviews[tasks[q].order] = {q}
=============================================================================
