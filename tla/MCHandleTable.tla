--------------------------- MODULE MCHandleTable ---------------------------
(***************************************************************************)
(* HandleTable with two slots and a 6-bit int (3 bits of generation, so    *)
(* the sign bit is reached at generation 4), and enough creates to bring   *)
(* both slots there and to be refused by a full table afterwards.          *)
(***************************************************************************)
EXTENDS HandleTable
=============================================================================
