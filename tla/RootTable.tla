------------------------------ MODULE RootTable ------------------------------
(***************************************************************************)
(* What both benchmarks of main.cpp compute: a table of children in which  *)
(* step i replaces entry index(i).  How the memory of the children is      *)
(* managed is not visible here.                                            *)
(***************************************************************************)
EXTENDS Naturals

CONSTANTS ROOT_SIZE, SLOT_STRIDE, ITERATIONS

VARIABLES
    table,   \* for each entry the step whose child it holds, or None
    i        \* the next step

None  == ITERATIONS
Slots == 0 .. ROOT_SIZE - 1
Empty == [k \in Slots |-> None]

index(n) == (n * SLOT_STRIDE) % ROOT_SIZE

Begin == table = Empty /\ i = 0

\* The entry gets the child of this step, or nothing if there was no memory.
Put ==
    /\ i < ITERATIONS
    /\ table' \in {[table EXCEPT ![index(i)] = child] : child \in {i, None}}
    /\ i' = i + 1

\* The benchmark is run again, or another one is run.
Again == table' = Empty /\ i' = 0

Next == Put \/ Again

Spec == Begin /\ [][Next]_<<table, i>>
=============================================================================
