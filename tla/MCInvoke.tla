------------------------------ MODULE MCInvoke ------------------------------
(***************************************************************************)
(* Invoke with two tenants and quotas of two: five requests are enough to  *)
(* use up each quota of one tenant and go on serving the other.            *)
(***************************************************************************)
EXTENDS Invoke
=============================================================================
