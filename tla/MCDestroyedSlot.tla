--------------------------- MODULE MCDestroyedSlot ---------------------------
(***************************************************************************)
(* DestroyedSlot with three originals, the fewest with which the slot of   *)
(* one can refer to a copy reversed before it, after it, or to its own.    *)
(***************************************************************************)
EXTENDS DestroyedSlot
=============================================================================
