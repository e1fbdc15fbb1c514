------------------------------ MODULE MCSignup ------------------------------
(* Small instances of Signup for TLC. *)
EXTENDS Signup, TLC

CONSTANTS u1, p1, e1

\* A user and a provider with one e-mail, which the auth service allows.
MCAccountOf == (u1 :> "USER" @@ p1 :> "PROVIDER")
MCAddressesOf == (u1 :> {e1} @@ p1 :> {e1})
=============================================================================
