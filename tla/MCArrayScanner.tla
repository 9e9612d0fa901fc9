--------------------------- MODULE MCArrayScanner ---------------------------
(***************************************************************************)
(* ArrayScanner on arrays of up to three slots.  The budgets are: nothing, *)
(* less than a slot, one slot, more than one slot but not two, and more    *)
(* than any of the arrays (SIZE_MAX, the default argument).                *)
(***************************************************************************)
EXTENDS ArrayScanner
=============================================================================
