------------------------------ MODULE VMThreads ------------------------------
(***************************************************************************)
(* The threads of the program, which the modules that Runtime composes     *)
(* have in common.                                                         *)
(***************************************************************************)
CONSTANT Thread
=============================================================================
