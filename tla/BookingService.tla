--------------------------- MODULE BookingService ---------------------------
(***************************************************************************)
(* The booking service whole: the handlers of BookingPayments and those of  *)
(* BookingFulfilment interleave on one bookings table.  Each of the two     *)
(* modules describes the other by the steps it may take on the status       *)
(* column; here the steps are the real ones, and the service is shown to    *)
(* implement both modules and the promise of BookingLifecycle.              *)
(***************************************************************************)
EXTENDS BookingPayments, BookingFulfilment

serviceVars == <<vars, jobRows>>

ServiceInit == Init /\ JobsInit

ServiceNext ==
    \/ PaymentsNext /\ UNCHANGED jobRows
    \/ FulfilmentNext /\ UNCHANGED payVars

ServiceSpec == ServiceInit /\ [][ServiceNext]_serviceVars

-----------------------------------------------------------------------------
\* What the handlers of a job do to a row is what BookingPayments lets its
\* environment do, so what is checked and proved there holds of the service.
ImplementsPayments == Spec

\* The same of creation, payment and cancel, and BookingFulfilment.
ImplementsFulfilment == JobsSpec

\* The codes the user has given away, by kind.
Proofs == [o \in Orders |-> {t \in OtpType : UsedCodes(o, t) # {}}]

Lifecycle == INSTANCE BookingLifecycle WITH proofs <- Proofs

\* The promise to both sides, whatever requests, webhooks, crashes and failing
\* statements do: nothing is confirmed that is not paid, nobody arrives or
\* completes without the user's code, nothing is cancelled after the arrival.
ImplementsLifecycle == Lifecycle!Spec
=============================================================================
