-------------------------- MODULE MCBookingPayments --------------------------
(* Small instances of BookingPayments for TLC. *)
EXTENDS BookingPayments, TLC

CONSTANTS o1, o2, k1, r1, r2, c1, c2, w1, w2

Symmetry == Permutations(Orders) \cup Permutations(CreateRequests)
            \cup Permutations(CancelRequests) \cup Permutations(Hooks)

\* Bookings for a slot that is less than twelve hours away: what a user gets back
\* is no question of the runs that take these.
LateInit == Init /\ \A o \in Orders : refundPct[o] = 0

LateSpec == LateInit /\ [][Next]_vars
=============================================================================
