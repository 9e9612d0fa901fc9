---------------------------- MODULE ArrayLayout ----------------------------
(***************************************************************************)
(* The layout of Splash arrays: how big an array is, and what its 64-bit   *)
(* header word says.  Everything here is a pure function of integers; the  *)
(* unsigned types of the code keep their width as a modulus:               *)
(*   LenMod   values of std::uint32_t (2^32 in the program)                *)
(*   SizeMod  values of std::size_t   (2^64 in the program)                *)
(* so that the implicit conversions of the code are explicit here.         *)
(***************************************************************************)
EXTENDS Integers

CONSTANTS LenMod, SizeMod

ALIGNMENT   == 16   \* the alignment of every heap object
HEADER_SIZE == 8    \* sizeof(ArrayHeader) = sizeof(RefArray) = sizeof(BinArray)
SLOT_SIZE   == 8    \* sizeof(RefSlot)

\* A size_t holds the size of the longest array, alignment slack included.
ASSUME LayoutAssumption ==
    /\ LenMod \in Nat \ {0}
    /\ SizeMod \in Nat
    /\ HEADER_SIZE + SLOT_SIZE * LenMod + ALIGNMENT <= SizeMod

Length == 0 .. LenMod - 1      \* std::uint32_t
Bytes  == 0 .. SizeMod - 1     \* std::size_t

REF   == 0
BIN   == 1
Kinds == {REF, BIN}

(***************************************************************************)
(* (size + alignment - 1) & ~(alignment - 1), in size_t arithmetic, for an *)
(* alignment that is a power of two: the low bits of the sum are cleared.  *)
(***************************************************************************)
Align(size, alignment) ==
    LET sum == (size + alignment - 1) % SizeMod
    IN  sum - (sum % alignment)

RefArraySize(nrefs)  == Align(HEADER_SIZE + SLOT_SIZE * nrefs, ALIGNMENT)

\* Mutant: the header is forgotten.
BinArraySizeOfData(nbytes) == Align(nbytes, ALIGNMENT)

BinArraySize(nbytes) == Align(HEADER_SIZE + nbytes, ALIGNMENT)

(***************************************************************************)
(* The header word: byte 0 belongs to the collector, byte 1 is the kind,   *)
(* bytes 2-5 the number of elements.                                       *)
(***************************************************************************)
HeaderWord(kind, length) == length * 65536 + kind * 256
HeaderLength(word)       == (word \div 65536) % LenMod
HeaderKind(word)         == (word \div 256) % 256
GCByte(word)             == word % 256

\* The collector rewrites its own byte of the word and no other.
WithGCByte(word, flags)  == word - GCByte(word) + flags

\* Splash::size.  Of a word that is no header it asserts, and without assertions
\* it returns 0.
SizeOfWord(word) == IF HeaderKind(word) = REF THEN RefArraySize(HeaderLength(word))
                    ELSE IF HeaderKind(word) = BIN THEN BinArraySize(HeaderLength(word))
                    ELSE 0

(***************************************************************************)
(* The allocators take a size_t.  The size functions and the constructors  *)
(* take a uint32_t, so both narrow the request; they must narrow it alike. *)
(***************************************************************************)
Narrow(n) == n % LenMod

\* Mutant: the size is computed before the request is narrowed.
AllocationSizeWide(kind, n) == IF kind = REF THEN RefArraySize(n)
                                             ELSE BinArraySize(n)

\* Mutant: allocateRefArray takes the size of a BinArray.
AllocationSizeOfBin(kind, n) == BinArraySize(Narrow(n))

AllocationSize(kind, n) == IF kind = REF THEN RefArraySize(Narrow(n))
                                         ELSE BinArraySize(Narrow(n))
InitializedWord(kind, n) == HeaderWord(kind, Narrow(n))

(***************************************************************************)
(* What the collector asks of the object model.  The scavenger overwrites  *)
(* the header of an object it moves and keeps the old word; the size of a  *)
(* forwarded object is computed from a copy of that preserved word.        *)
(***************************************************************************)
ObjectSizeWithHeader(word)    == SizeOfWord(word)
ObjectSizeWithoutHeader(word) == ObjectSizeWithHeader(word) - HEADER_SIZE
ForwardedObjectSize(preserved) == SizeOfWord(preserved)

\* No object is indexable, and none has discontiguous parts to be added.
TotalFootprint(word) == ObjectSizeWithHeader(word)

=============================================================================
