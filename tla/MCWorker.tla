------------------------------ MODULE MCWorker ------------------------------
(***************************************************************************)
(* Worker with three invocations, a ring of two requests and a table of    *)
(* two promises: a function can fill either, an invocation can leave slots *)
(* to the next ones, and two turns of drive are enough to be cut off       *)
(* between a request and its answer.                                       *)
(***************************************************************************)
EXTENDS Worker
=============================================================================
