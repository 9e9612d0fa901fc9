---------------------------- MODULE SlotIterator ----------------------------
(***************************************************************************)
(* GC_ObjectIterator: what shows the slots of an object in builds without  *)
(* the experimental object scanner.  A word of the object is a byte offset *)
(* from its header here.                                                   *)
(***************************************************************************)
EXTENDS ArrayLayout

NULL == 0   \* the offset of the header, which is never shown

\* The iterator starts after the header slot and ends with the memory the
\* object consumes, padding included, whatever kind of object it is.
ObjectIterator(word) ==
    [scanPtr |-> SLOT_SIZE, endPtr |-> ObjectSizeWithHeader(word)]

\* The slot that nextSlot() returns, and the iterator after the call.
SlotOf(it)    == IF it.scanPtr < it.endPtr THEN it.scanPtr ELSE NULL
AfterNext(it) == IF it.scanPtr < it.endPtr
                 THEN [it EXCEPT !.scanPtr = @ + SLOT_SIZE] ELSE it

\* restore(index) adds to the position.
Restore(it, index) == [it EXCEPT !.scanPtr = @ + SLOT_SIZE * index]

\* The iterator after n calls of nextSlot().
AfterCalls(it, n) ==
    LET after[k \in 0 .. n] == IF k = 0 THEN it ELSE AfterNext(after[k - 1])
    IN  after[n]

\* The slots shown by n calls.
Shown(it, n) == {SlotOf(AfterCalls(it, k)) : k \in 0 .. n - 1} \ {NULL}
=============================================================================
