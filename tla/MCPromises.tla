---------------------------- MODULE MCPromises ----------------------------
(***************************************************************************)
(* Model checking Promises.  A program that used everything at once would  *)
(* need many promises before anything interesting happens, so each program *)
(* combines a few of the operations and has the bound that they need.      *)
(***************************************************************************)
EXTENDS Promises

MCPrograms ==
  {[uses |-> {"new", "then", "chain"}, promises |-> 4],
   [uses |-> {"new", "then", "thenable"}, promises |-> 3],
   [uses |-> {"new", "async", "chain"}, promises |-> 3],
   [uses |-> {"async", "then", "host"}, promises |-> 4],
   [uses |-> {"all", "host", "chain"}, promises |-> 5],
   [uses |-> {"allSettled", "any", "race", "host", "chain"}, promises |-> 4]}
=============================================================================
