----------------------------- MODULE HeaderWord -----------------------------
(***************************************************************************)
(* The header word of one array over the array's life: an allocator writes *)
(* it, the collector keeps flags in its low byte, the scavenger copies the *)
(* array, overwrites the word of the original with a forwarding pointer    *)
(* (keeping the old word aside), and, if the scavenge is backed out,       *)
(* restores the original's word from the copy.  The collector asks for the *)
(* object's size at every moment of that life.                             *)
(***************************************************************************)
EXTENDS ArrayLayout

CONSTANTS
    Requests,        \* the element counts callers ask for (std::size_t)
    Flags,           \* values of the collector's byte
    ForwardingWords  \* words a forwarding pointer may leave in the header

ASSUME HeaderAssumption ==
    /\ Requests \subseteq Nat
    /\ Flags \subseteq 0 .. 255
    /\ ForwardingWords \subseteq Nat

VARIABLES
    kind, request,   \* what the allocation asked for
    reserved,        \* the bytes the allocator took from the heap
    word,            \* the header word in the object's memory
    forwarded,       \* does the word hold a forwarding pointer?
    preserved,       \* MM_ForwardedHeader::getPreservedSlot()
    copyWord         \* the header word of the copy, if there is one

vars == <<kind, request, reserved, word, forwarded, preserved, copyWord>>

NoWord == -1

\* allocateRefArray and allocateBinArray: reserve, then the primitive
\* initializer constructs the header in place.
Init ==
    /\ kind \in Kinds
    /\ request \in Requests
    /\ reserved = AllocationSize(kind, request)
    /\ word = InitializedWord(kind, request)
    /\ forwarded = FALSE
    /\ preserved = NoWord
    /\ copyWord = NoWord

\* The collector marks, ages or remembers the object.
SetFlags(f) ==
    /\ ~forwarded
    /\ word' = WithGCByte(word, f)
    /\ UNCHANGED <<kind, request, reserved, forwarded, preserved, copyWord>>

\* Mutant: the copy is made of an original that is already forwarded.
ForwardThenCopy(pointer, f) ==
    /\ ~forwarded
    /\ preserved' = word
    /\ word' = pointer
    /\ copyWord' = WithGCByte(word', f)
    /\ forwarded' = TRUE
    /\ UNCHANGED <<kind, request, reserved>>

\* The scavenger reads the word before the race to forward the object, and
\* copies the object from the preserved word.
Forward(pointer, f) ==
    /\ ~forwarded
    /\ preserved' = word
    /\ copyWord' = WithGCByte(word, f)
    /\ word' = pointer
    /\ forwarded' = TRUE
    /\ UNCHANGED <<kind, request, reserved>>

\* The copy is a live object: its flags change like any other's.
SetCopyFlags(f) ==
    /\ forwarded
    /\ copyWord' = WithGCByte(copyWord, f)
    /\ UNCHANGED <<kind, request, reserved, word, forwarded, preserved>>

\* scavenger_reverseForwardedObject
ReverseForwarded ==
    /\ forwarded
    /\ word' = copyWord
    /\ forwarded' = FALSE
    /\ preserved' = NoWord
    /\ copyWord' = NoWord
    /\ UNCHANGED <<kind, request, reserved>>

Next ==
    \/ \E f \in Flags : SetFlags(f) \/ SetCopyFlags(f)
    \/ \E f \in Flags, pointer \in ForwardingWords : Forward(pointer, f)
    \/ ReverseForwarded

Spec == Init /\ [][Next]_vars

(***************************************************************************)
(* Properties                                                              *)
(***************************************************************************)

\* The ranges of the variables.
TypeOK ==
    /\ kind \in Kinds
    /\ request \in Requests
    /\ reserved \in Nat
    /\ word \in Nat
    /\ forwarded \in BOOLEAN
    /\ preserved \in Nat \cup {NoWord}
    /\ copyWord \in Nat \cup {NoWord}

\* The size the object model reports for the object at any moment.
ReportedSize == IF forwarded THEN ForwardedObjectSize(preserved)
                             ELSE TotalFootprint(word)

\* A heap walk steps from one object to the next by the reported size: it has
\* to be exactly what the allocator reserved, for requests wider than the
\* header's length field, whatever the collector keeps in its byte, while the
\* header is overwritten by a forwarding pointer, and after a back-out.
SizeIsReserved == ReportedSize = reserved

\* The copy the scavenger makes is as big as the object it was made from, so
\* that copying neither truncates the array nor runs over its neighbour.
CopyIsAsBig == forwarded => ObjectSizeWithHeader(copyWord) = reserved

\* What the allocator reserves holds the header and every element the header
\* admits to, is aligned, and wastes less than one alignment unit.
FootprintFits ==
    LET n    == Narrow(request)
        data == IF kind = REF THEN SLOT_SIZE * n ELSE n
    IN  /\ reserved % ALIGNMENT = 0
        /\ HEADER_SIZE + data <= reserved
        /\ reserved < HEADER_SIZE + data + ALIGNMENT

\* The comment on getObjectSizeInBytesWithHeader: the size of the header and
\* the data, "This should not include any padding bytes added for alignment".
SizeExcludesPadding ==
    ~forwarded =>
        ObjectSizeWithHeader(word) =
            HEADER_SIZE + (IF HeaderKind(word) = REF
                           THEN SLOT_SIZE * HeaderLength(word)
                           ELSE HeaderLength(word))
=============================================================================
