-------------------------- MODULE BookingLifecycle --------------------------
(***************************************************************************)
(* What the booking service promises the two sides of a booking, with no    *)
(* requests, tables or messages: which steps a booking may take, and what   *)
(* must be true outside the service when it takes them.                     *)
(***************************************************************************)
CONSTANT Orders

VARIABLES
    status,    \* where the booking is
    paid,      \* the user's payment was captured
    proofs     \* the codes the user gave away: of arrival, of completion

vars == <<status, paid, proofs>>

Moves(o, from, to) == status[o] \in from /\ status' = [status EXCEPT ![o] = to]

Init ==
    /\ status = [o \in Orders |-> "NO_ROW"]
    /\ paid = [o \in Orders |-> FALSE]
    /\ proofs = [o \in Orders |-> {}]

Open(o) ==
    /\ Moves(o, {"NO_ROW"}, "PENDING_PAYMENT")
    /\ UNCHANGED <<paid, proofs>>

\* Only a booking that exists is paid, and it is paid once.
Pay(o) ==
    /\ status[o] # "NO_ROW" /\ ~paid[o]
    /\ paid' = [paid EXCEPT ![o] = TRUE]
    /\ UNCHANGED <<status, proofs>>

\* Nothing is confirmed unpaid.
Confirm(o) ==
    /\ paid[o]
    /\ Moves(o, {"PENDING_PAYMENT"}, "CONFIRMED")
    /\ UNCHANGED <<paid, proofs>>

Fail(o) ==
    /\ Moves(o, {"PENDING_PAYMENT"}, "PAYMENT_FAILED")
    /\ UNCHANGED <<paid, proofs>>

\* Nothing is cancelled once the service person has arrived.
Cancel(o) ==
    /\ Moves(o, {"PENDING_PAYMENT", "CONFIRMED"}, "CANCELLED")
    /\ UNCHANGED <<paid, proofs>>

\* A code of arrival is given away for a booking that was paid, a code of
\* completion for a job that was marked complete.
Prove(o, t) ==
    /\ t = "ARRIVAL" => paid[o]
    /\ t = "COMPLETION" => status[o] \in {"PENDING_COMPLETION_VERIFICATION", "COMPLETED"}
    /\ proofs' = [proofs EXCEPT ![o] = @ \cup {t}]
    /\ UNCHANGED <<status, paid>>

Arrive(o) ==
    /\ "ARRIVAL" \in proofs[o]
    /\ Moves(o, {"CONFIRMED"}, "ARRIVAL_CONFIRMED")
    /\ UNCHANGED <<paid, proofs>>

MarkComplete(o) ==
    /\ Moves(o, {"ARRIVAL_CONFIRMED"}, "PENDING_COMPLETION_VERIFICATION")
    /\ UNCHANGED <<paid, proofs>>

Complete(o) ==
    /\ "COMPLETION" \in proofs[o]
    /\ Moves(o, {"PENDING_COMPLETION_VERIFICATION"}, "COMPLETED")
    /\ UNCHANGED <<paid, proofs>>

Next ==
    \E o \in Orders :
        \/ Open(o) \/ Pay(o) \/ Confirm(o) \/ Fail(o) \/ Cancel(o)
        \/ \E t \in {"ARRIVAL", "COMPLETION"} : Prove(o, t)
        \/ Arrive(o) \/ MarkComplete(o) \/ Complete(o)

Spec == Init /\ [][Next]_vars
=============================================================================
