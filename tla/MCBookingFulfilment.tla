------------------------- MODULE MCBookingFulfilment -------------------------
(* Small instances of BookingFulfilment for TLC. *)
EXTENDS BookingFulfilment, TLC

CONSTANTS o1, p1, p2, a1, a2, f1, f2, m1, m2, v1, v2, s1, s2

MCOpOf == [q \in Tasks |-> CASE q \in {a1, a2} -> "assign"
                             [] q \in {f1, f2} -> "confirmArrival"
                             [] q \in {m1, m2} -> "markComplete"
                             [] q \in {v1, v2} -> "verifyCompletion"
                             [] q \in {s1, s2} -> "review"]

\* Requests for one operation are interchangeable.
Symmetry == Permutations({a1, a2}) \cup Permutations({f1, f2})
            \cup Permutations({m1, m2}) \cup Permutations({v1, v2})
            \cup Permutations({s1, s2}) \cup Permutations(Persons)
=============================================================================
