---------------------------- MODULE MCHostQueue ----------------------------
(***************************************************************************)
(* HostQueue with a ring of three slots and five buffers: enough to fill    *)
(* the ring, refuse a push, drain past the end of the array and fill the   *)
(* wrapped part again.                                                     *)
(***************************************************************************)
EXTENDS HostQueue
=============================================================================
