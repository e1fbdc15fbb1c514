-------------------------- MODULE MCBookingService --------------------------
(* A small instance of BookingService for TLC. *)
EXTENDS BookingService, TLC

CONSTANTS o1, k1, r1, c1, w1, p1, a1, f1, m1, v1

MCOpOf == a1 :> "assign" @@ f1 :> "confirmArrival" @@ m1 :> "markComplete"
          @@ v1 :> "verifyCompletion"
=============================================================================
