-------------------------- MODULE SlotContraction --------------------------
(***************************************************************************)
(* MM_ContractSlotScanner: when new space contracts, the memory from       *)
(* srcBase up to srcTop is moved to dstBase, and doSlot is called for every *)
(* slot.  Where slots are found is not the scanner's business: its         *)
(* scanAllSlots is not implemented, and asserts.                           *)
(***************************************************************************)
EXTENDS Integers

NullPtr == 0

\* MM_ContractSlotScanner::MM_ContractSlotScanner
ContractSlotScanner(srcBase, srcTop, dstBase) ==
    [srcBase |-> srcBase, srcTop |-> srcTop, dstBase |-> dstBase]

IsMoved(scanner, objectPtr) ==
    objectPtr # NullPtr /\ scanner.srcBase <= objectPtr /\ objectPtr < scanner.srcTop

\* What doSlot leaves in a slot.
DoSlot(scanner, objectPtr) ==
    IF IsMoved(scanner, objectPtr)
    THEN (objectPtr - scanner.srcBase) + scanner.dstBase
    ELSE objectPtr
=============================================================================
