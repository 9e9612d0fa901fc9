------------------------------- MODULE MCBench -------------------------------
(***************************************************************************)
(* main.cpp scaled down: two runs of twelve iterations over a root with    *)
(* four slots.  Child sizes up to 10 bytes make children of one and of two *)
(* granules; the heap cannot hold all the children of a run.               *)
(***************************************************************************)
EXTENDS Bench

MCChildSizes == 0 .. MAX_CHILD_SIZE - 1
=============================================================================
