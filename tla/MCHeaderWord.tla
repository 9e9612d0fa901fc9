---------------------------- MODULE MCHeaderWord ----------------------------
(***************************************************************************)
(* HeaderWord with a 4-bit length field, requests from empty to wider than *)
(* the field, and forwarding words that decode to every kind of rubbish;   *)
(* and what the operators return, for every length.                        *)
(***************************************************************************)
EXTENDS HeaderWord, SlotIterator, Bitwise

MCRequests        == {0, 1, 2, 3, 7, 8, 9, 15, 16, 17, 24, 31}
MCFlags           == {0, 1, 32, 255}
MCForwardingWords == {4, 65536 * 5 + 4, 65536 * 15 + 256 + 20, 512 + 4}

BitAlign(size, alignment) ==
    ((size + alignment - 1) % SizeMod) & (SizeMod - 1 - (alignment - 1))

\* The arithmetic of Align is the bit operation of the code,
\* (size + alignment - 1) & ~(alignment - 1), at the width of size_t: for every
\* size (those whose sum wraps included) and every power of two.
ASSUME AlignIsBitwise ==
    \A size \in Bytes : \A alignment \in {1, 2, 4, 8, 16, 32} :
        Align(size, alignment) = BitAlign(size, alignment)

\* The slots of a RefArray, as the scanner visits them.
SlotsOf(length) == {HEADER_SIZE + SLOT_SIZE * k : k \in 0 .. length - 1}

Calls == 2 * LenMod   \* more than there are words in an array

\* The iterator shows every slot of a RefArray, and nothing outside of the
\* array; but it shows the word of padding too, if there is one.
ASSUME IteratorShowsSlots ==
    \A length \in Length :
        LET it    == ObjectIterator(HeaderWord(REF, length))
            shown == Shown(it, Calls)
        IN  /\ SlotsOf(length) \subseteq shown
            /\ \A slot \in shown : slot + SLOT_SIZE <= RefArraySize(length)
            /\ shown \ SlotsOf(length) \subseteq {HEADER_SIZE + SLOT_SIZE * length}

\* Of a BinArray it shows the data, but not a word beyond.
ASSUME IteratorStaysInside ==
    \A length \in Length :
        \A slot \in Shown(ObjectIterator(HeaderWord(BIN, length)), Calls) :
            slot + SLOT_SIZE <= BinArraySize(length)

\* "Restore iterator state: nextSlot() will be at this index": so it is for a
\* new iterator, as if nextSlot() had been called that many times before.
ASSUME RestoreOfNewIterator ==
    \A length \in Length : \A index \in 0 .. length :
        LET it == ObjectIterator(HeaderWord(REF, length))
        IN  Restore(it, index) = AfterCalls(it, index)
=============================================================================
