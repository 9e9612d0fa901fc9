-------------------------- MODULE MCThreadLocalHeap --------------------------
(***************************************************************************)
(* ThreadLocalHeap with two threads that take chunks of up to three cells   *)
(* from a heap of four, and both builds.                                   *)
(***************************************************************************)
EXTENDS ThreadLocalHeap, TLC

CONSTANTS t1, t2

MCSizes  == {1, 2}
Symmetry == Permutations(Thread)
=============================================================================
