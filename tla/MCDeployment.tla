---------------------------- MODULE MCDeployment ----------------------------
(***************************************************************************)
(* Deployment with two functions and two bundles: the same bundle can be   *)
(* deployed twice to one function and to both, and the alias of a function *)
(* can point to a bundle that only the other one has.  All the state is    *)
(* finite: crashes, restarts and failures are not bounded.                 *)
(***************************************************************************)
EXTENDS Deployment, TLC

Symmetry == Permutations(Functions) \cup Permutations(Digests)
=============================================================================
