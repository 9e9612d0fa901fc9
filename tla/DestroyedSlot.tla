---------------------------- MODULE DestroyedSlot ----------------------------
(***************************************************************************)
(* Backing a scavenge out where object headers are compressed              *)
(* (OMR_INTERP_COMPRESSED_OBJECT_HEADER).                                  *)
(*                                                                         *)
(* The header shares a machine word with the slot beside it, so that the   *)
(* forwarding pointer which replaces a header destroys that slot too.  The *)
(* first pass of a back-out takes both from the copy, where the slot may   *)
(* refer to another copy by now; the second pass makes it refer to the     *)
(* original of that copy.                                                  *)
(*                                                                         *)
(* Objects have addresses: the originals 1 .. N, the copy of a at N + a,   *)
(* an object in old space after them.                                      *)
(***************************************************************************)
EXTENDS Naturals

CONSTANT N   \* how many objects there are in the half that is evacuated

ASSUME DestroyedSlotAssumption == N \in Nat

Original  == 1 .. N
CopyOf(a) == N + a
Copy      == N + 1 .. 2 * N
OldObject == 2 * N + 1
Address   == 1 .. OldObject

\* What the slot beside a header can hold at first: null, a reference, or (as
\* not every field of an object is a reference) numbers that lie within the
\* heap but are not aligned, or that lie outside.
Null       == 0
Misaligned == OldObject + 1
Outside    == OldObject + 2
Contents   == {Null, OldObject, Misaligned, Outside} \cup Original

\* What half of a forwarding pointer makes of it.
Destroyed == OldObject + 3

VARIABLES
    phase,    \* "scavenge", "reverse", "fixup", "done"
    header,   \* address -> "object", "forwarded", "reversed" or, where there
              \* is nothing, "free".  A forwarded original refers to its copy, a
              \* reversed copy to its original.
    beside,   \* address -> the contents of the slot beside the header
    unfixed,  \* originals that the second pass has still to visit
    before    \* History: beside, when the scavenge began

slotsVars == <<phase, header, beside, unfixed, before>>

SlotsInit ==
    /\ phase = "scavenge"
    /\ header = [x \in Address |-> IF x \in Copy THEN "free" ELSE "object"]
    /\ \E contents \in [Original -> Contents] :
         beside = [x \in Address |-> IF x \in Original THEN contents[x] ELSE Null]
    /\ unfixed = {}
    /\ before = beside

-----------------------------------------------------------------------------
(* The scavenge, as far as it gets.                                        *)

ForwardOriginal(a) ==
    /\ phase = "scavenge" /\ header[a] = "object"
    /\ header' = [header EXCEPT ![a] = "forwarded", ![CopyOf(a)] = "object"]
    /\ beside' = [beside EXCEPT ![a] = Destroyed, ![CopyOf(a)] = beside[a]]
    /\ UNCHANGED <<phase, unfixed, before>>

\* The slot of a copy is made to refer to a copy.
Scan(a) ==
    /\ phase = "scavenge" /\ header[a] = "forwarded"
    /\ LET referent == beside[CopyOf(a)] IN
         /\ referent \in Original /\ header[referent] = "forwarded"
         /\ beside' = [beside EXCEPT ![CopyOf(a)] = CopyOf(referent)]
    /\ UNCHANGED <<phase, header, unfixed, before>>

\* There is no memory for a copy.
BackOut ==
    /\ phase = "scavenge"
    /\ phase' = "reverse"
    /\ UNCHANGED <<header, beside, unfixed, before>>

-----------------------------------------------------------------------------
(* The first pass.                                                         *)

\* The slots of remembered objects, copies among them, are backed out while
\* headers are reversed: a slot beside the header of a copy "may be already
\* reversed".
Unscan(a) ==
    /\ phase = "reverse" /\ header[a] = "forwarded" /\ beside[CopyOf(a)] \in Copy
    /\ beside' = [beside EXCEPT ![CopyOf(a)] = @ - N]
    /\ UNCHANGED <<phase, header, unfixed, before>>

\* Mutant: the header is restored, but not the slot beside it.
ReverseHeaderOnly(a) ==
    /\ phase = "reverse" /\ header[a] = "forwarded"
    /\ header' = [header EXCEPT ![a] = header[CopyOf(a)], ![CopyOf(a)] = "reversed"]
    /\ UNCHANGED <<phase, beside, unfixed, before>>

\* scavenger_reverseForwardedObject: header and slot come from the copy, which
\* the scavenger then makes refer to the original.
Reverse(a) ==
    /\ phase = "reverse" /\ header[a] = "forwarded"
    /\ header' = [header EXCEPT ![a] = header[CopyOf(a)], ![CopyOf(a)] = "reversed"]
    /\ beside' = [beside EXCEPT ![a] = beside[CopyOf(a)]]
    /\ UNCHANGED <<phase, unfixed, before>>

-----------------------------------------------------------------------------
(* The second pass.                                                        *)

StartFixup ==
    /\ phase = "reverse" /\ \A a \in Original : header[a] # "forwarded"
    /\ phase' = "fixup"
    /\ unfixed' = Original
    /\ UNCHANGED <<header, beside, before>>

\* The object model calls no object indexable.
IsIndexable == FALSE

\* Is the number the address of a copy that refers back to its original?
RefersToReversed(slot) ==
    /\ slot # Null /\ ~IsIndexable
    /\ slot # Misaligned /\ slot \in Address
    /\ header[slot] = "reversed"

\* scavenger_fixupDestroyedSlot
FixupDestroyedSlot(a) ==
    /\ phase = "fixup" /\ a \in unfixed
    /\ beside' = IF RefersToReversed(beside[a])
                 THEN [beside EXCEPT ![a] = @ - N]
                 ELSE beside
    /\ unfixed' = unfixed \ {a}
    /\ UNCHANGED <<phase, header, before>>

FinishFixup ==
    /\ phase = "fixup" /\ unfixed = {}
    /\ phase' = "done"
    /\ UNCHANGED <<header, beside, unfixed, before>>

SlotsNext ==
    \/ \E a \in Original : \/ ForwardOriginal(a) \/ Scan(a)
                           \/ Unscan(a) \/ Reverse(a)
                           \/ FixupDestroyedSlot(a)
    \/ BackOut \/ StartFixup \/ FinishFixup

SlotsSpec == SlotsInit /\ [][SlotsNext]_slotsVars

-----------------------------------------------------------------------------
(* Properties                                                              *)

\* Every address has a header and a slot beside it, the history is one of the
\* originals' contents, and the second pass visits originals only.
SlotsTypeOK ==
    /\ phase \in {"scavenge", "reverse", "fixup", "done"}
    /\ header \in [Address -> {"object", "forwarded", "reversed", "free"}]
    /\ beside \in [Address -> Nat]
    /\ unfixed \subseteq Original
    /\ before \in [Address -> Nat]

\* However far the scavenge got, and in whatever order objects were copied,
\* scanned and reversed: when it has been backed out, every original has its
\* header again, and beside it what was there when the scavenge began.
SlotsRestored ==
    phase = "done" =>
        \A a \in Original : header[a] = "object" /\ beside[a] = before[a]
=============================================================================
