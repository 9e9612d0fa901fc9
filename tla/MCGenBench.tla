----------------------------- MODULE MCGenBench -----------------------------
(***************************************************************************)
(* GenBench with a root of two slots in two granules and children of one.  *)
(* A half of new space has room for the root and one child, old space for  *)
(* the root, its children and one more.                                    *)
(***************************************************************************)
EXTENDS GenBench

MCChildSizes == 0 .. MAX_CHILD_SIZE - 1
=============================================================================
