------------------------------ MODULE MCArena ------------------------------
(***************************************************************************)
(* Model checking Arena with arenas of two or three blocks and a limit     *)
(* that is reached; the sizes are those at which the rounding, the formula *)
(* of the block size or the kind of block changes.                         *)
(***************************************************************************)
EXTENDS Arena

MCPrograms ==
  {[sizes |-> {0, 8, 9}, arena |-> 96, limit |-> 320],
   [sizes |-> {104, 121, 600}, arena |-> 336, limit |-> 1000],
   [sizes |-> {504, 505}, arena |-> 1072, limit |-> 2700]}

\* A size that fits into a block gets the smallest block that it fits into.
ASSUME SmallestBlock ==
  \A size \in 1 .. MaxSmall :
    LET idx == get_block_size_index(size)
    IN  /\ size <= BlockSize(idx)
        /\ \A i \in BlockSizeIdx : size <= BlockSize(i) => idx <= i
=============================================================================
