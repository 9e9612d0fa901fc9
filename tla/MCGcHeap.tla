------------------------------ MODULE MCGcHeap ------------------------------
(***************************************************************************)
(* GcHeap with four granules of memory, two StackRoots and arrays of one   *)
(* and of two granules, so that garbage, fragmentation, moves over an      *)
(* array's own old place, cycles and exhaustion all occur.                 *)
(***************************************************************************)
EXTENDS GcHeap
=============================================================================
