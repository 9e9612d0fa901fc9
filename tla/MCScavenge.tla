----------------------------- MODULE MCScavenge -----------------------------
(***************************************************************************)
(* Scavenge with halves of three granules, which hold a RefArray of two    *)
(* granules and a BinArray of one, or three BinArrays, and two granules of *)
(* old space: a scavenge can copy the one and have no room for the other,  *)
(* and free memory can be in pieces.                                       *)
(***************************************************************************)
EXTENDS Scavenge, SlotContraction

Ranges == {r \in (1 .. 9) \X (1 .. 9) : r[1] <= r[2]}

\* Memory, one object to an address, after the range has been moved.
AfterMove(memory, base, top, to) ==
    [a \in DOMAIN memory |->
        IF a \in to .. to + (top - base) - 1 THEN memory[a - to + base] ELSE memory[a]]

\* What a slot refers to is, after contraction, what it referred to before:
\* in the range and outside of it, where the range is moved onto itself too,
\* unless the object has been overwritten.
ASSUME ContractionFollowsTheMove ==
    LET memory == [a \in 1 .. 16 |-> a] IN
    \A range \in Ranges : \A to \in 1 .. 8 : \A p \in DOMAIN memory :
      LET scanner == ContractSlotScanner(range[1], range[2], to)
          size    == range[2] - range[1]
      IN  p \in range[1] .. range[2] - 1 \/ p \notin to .. to + size - 1
          => AfterMove(memory, range[1], range[2], to)[DoSlot(scanner, p)] = p

\* doSlot may be called twice for one slot, as long as the range is not moved
\* onto itself; where it is, twice is once too often.
ASSUME ContractionTwice ==
    \A range \in Ranges : \A to \in 1 .. 8 :
      LET scanner == ContractSlotScanner(range[1], range[2], to)
          moved   == range[1] .. range[2] - 1
          onto    == {DoSlot(scanner, p) : p \in moved}
      IN  (\A p \in moved : DoSlot(scanner, DoSlot(scanner, p)) = DoSlot(scanner, p))
             <=> (onto \cap moved = {} \/ to = range[1])
=============================================================================
