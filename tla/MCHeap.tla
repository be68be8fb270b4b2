------------------------------- MODULE MCHeap -------------------------------
(***************************************************************************)
(* Model checking Heap on three objects: with two properties each and no   *)
(* weak map, and with one property each and one weak map.  The objects are *)
(* interchangeable.                                                        *)
(***************************************************************************)
EXTENDS Heap, TLC

CONSTANTS o1, o2, o3

MCObjects == {o1, o2, o3}
MCSizes == {[slots |-> 2, maps |-> 0], [slots |-> 1, maps |-> 1]}
MCSymmetry == Permutations(MCObjects)
=============================================================================
