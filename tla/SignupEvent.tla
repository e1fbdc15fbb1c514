----------------------------- MODULE SignupEvent -----------------------------
(***************************************************************************)
(* What the auth service and the consumers of its signup event share.  An   *)
(* identity is named by the signup that makes it.                           *)
(***************************************************************************)
CONSTANT Signups       \* requests, each of which may make one identity

VARIABLE announced     \* signups whose event was published
=============================================================================
