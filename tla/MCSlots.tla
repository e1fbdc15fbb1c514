------------------------------- MODULE MCSlots -------------------------------
(* A small instance of Slots for TLC: a day of six minutes of two milliseconds. *)
EXTENDS Slots, TLC

CONSTANTS o1, o2, o3, a1, a2

Row(from, to) == [startMinutes |-> from, endMinutes |-> to]
From(start, end) == [start |-> start, end |-> end]

\* From 2 to 10 milliseconds, and a row that ends before it starts.
MCSchedules == {Row(1, 5), Row(3, 2)}

\* Across midnight, across the cuts, and on the next day.
MCOtherSlots == {From(-1, 3), From(5, 8), From(9, 13)}

Symmetry == Permutations(Orders) \cup Permutations(Asks)
=============================================================================
