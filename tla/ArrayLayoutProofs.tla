------------------------- MODULE ArrayLayoutProofs -------------------------
(***************************************************************************)
(* What the operators of ArrayLayout return, at any width of the length    *)
(* field and of size_t that satisfies LayoutAssumption.                    *)
(***************************************************************************)
EXTENDS ArrayLayout, TLAPS

LEMMA ModSmall ==
  ASSUME NEW n \in Nat, NEW m \in Nat, n < m
  PROVE  n % m = n
BY SMT

LEMMA NarrowFacts ==
  ASSUME NEW n \in Nat
  PROVE  Narrow(n) \in Length
BY LayoutAssumption, SMT DEF Narrow, Length

\* Align rounds up to the next multiple of the alignment.
LEMMA AlignFacts ==
  ASSUME NEW s \in Nat, s + ALIGNMENT <= SizeMod
  PROVE  /\ Align(s, ALIGNMENT) \in Nat
         /\ Align(s, ALIGNMENT) % ALIGNMENT = 0
         /\ s <= Align(s, ALIGNMENT)
         /\ Align(s, ALIGNMENT) < s + ALIGNMENT
<1>1. SizeMod \in Nat
  BY LayoutAssumption
<1>2. s + ALIGNMENT - 1 < SizeMod /\ s + ALIGNMENT - 1 \in Nat
  BY <1>1 DEF ALIGNMENT
<1>3. (s + ALIGNMENT - 1) % SizeMod = s + ALIGNMENT - 1
  BY <1>1, <1>2, ModSmall
<1>4. Align(s, ALIGNMENT) = (s + 15) - ((s + 15) % 16)
  BY <1>3 DEF Align, ALIGNMENT
<1>5. PICK q \in Nat : s + 15 = 16 * q + ((s + 15) % 16)
  <2>1. (s + 15) \div 16 \in Nat
        /\ s + 15 = 16 * ((s + 15) \div 16) + ((s + 15) % 16)
    BY SMT
  <2> QED BY <2>1
<1>6. (s + 15) % 16 \in 0 .. 15
  BY SMT
<1>7. Align(s, ALIGNMENT) = 16 * q
  BY <1>4, <1>5, <1>6, SMT
<1>8. (16 * q) % 16 = 0
  BY <1>5, SMT
<1> QED
  BY <1>5, <1>6, <1>7, <1>8, SMT DEF ALIGNMENT

\* What the allocators reserve is aligned, fits its header and elements, and
\* wastes less than one alignment unit; no sum wraps on the way.
LEMMA ReservedFits ==
  ASSUME NEW k \in Kinds, NEW n \in Nat
  PROVE  LET data == IF k = REF THEN SLOT_SIZE * Narrow(n) ELSE Narrow(n)
         IN  /\ AllocationSize(k, n) \in Nat
             /\ AllocationSize(k, n) % ALIGNMENT = 0
             /\ HEADER_SIZE + data <= AllocationSize(k, n)
             /\ AllocationSize(k, n) < HEADER_SIZE + data + ALIGNMENT
<1>1. Narrow(n) \in Nat /\ Narrow(n) < LenMod
  BY NarrowFacts, LayoutAssumption DEF Length
<1>2. /\ HEADER_SIZE + SLOT_SIZE * Narrow(n) \in Nat
      /\ HEADER_SIZE + SLOT_SIZE * Narrow(n) + ALIGNMENT <= SizeMod
      /\ HEADER_SIZE + Narrow(n) \in Nat
      /\ HEADER_SIZE + Narrow(n) + ALIGNMENT <= SizeMod
  BY <1>1, LayoutAssumption DEF HEADER_SIZE, SLOT_SIZE, ALIGNMENT
<1>3. CASE k = REF
  BY <1>2, <1>3, AlignFacts DEF AllocationSize, RefArraySize
<1>4. CASE k = BIN
  BY <1>2, <1>4, AlignFacts DEF AllocationSize, BinArraySize, REF, BIN
<1> QED BY <1>3, <1>4 DEF Kinds

\* The fields of a header word do not overlap, whatever the flags.
LEMMA WordFields ==
  ASSUME NEW k \in Kinds, NEW n \in Length, NEW f \in 0 .. 255
  PROVE  /\ HeaderWord(k, n) + f \in Nat
         /\ HeaderLength(HeaderWord(k, n) + f) = n
         /\ HeaderKind(HeaderWord(k, n) + f) = k
<1>1. n \in Nat /\ LenMod \in Nat /\ n < LenMod /\ k \in 0 .. 1
  BY LayoutAssumption DEF Length, Kinds, REF, BIN
<1> DEFINE w == HeaderWord(k, n) + f
<1>2. w \in Nat /\ w = n * 65536 + k * 256 + f
  BY <1>1 DEF HeaderWord
<1> HIDE DEF w
<1>3. w \div 65536 = n
  BY <1>1, <1>2, SMT
<1>4. HeaderLength(w) = n
  BY <1>1, <1>3, ModSmall DEF HeaderLength
<1>5. w \div 256 = n * 256 + k
  BY <1>1, <1>2, SMT
<1>6. (n * 256 + k) % 256 = k
  BY <1>1, SMT
<1>7. HeaderKind(w) = k
  BY <1>5, <1>6 DEF HeaderKind
<1> QED BY <1>2, <1>4, <1>7 DEF w

\* Setting the flags replaces the flags.
LEMMA FlagsReplaced ==
  ASSUME NEW k \in Kinds, NEW n \in Length, NEW f \in 0 .. 255, NEW g \in 0 .. 255
  PROVE  WithGCByte(HeaderWord(k, n) + f, g) = HeaderWord(k, n) + g
<1>1. n \in Nat /\ k \in 0 .. 1
  BY LayoutAssumption DEF Length, Kinds, REF, BIN
<1>2. (n * 65536 + k * 256 + f) % 256 = f
  BY <1>1, SMT
<1> QED BY <1>1, <1>2 DEF WithGCByte, GCByte, HeaderWord

\* What an allocator writes into the header can be read back from it.
LEMMA InitializedFields ==
  ASSUME NEW k \in Kinds, NEW n \in Nat
  PROVE  /\ InitializedWord(k, n) \in Nat
         /\ HeaderKind(InitializedWord(k, n)) = k
         /\ HeaderLength(InitializedWord(k, n)) = Narrow(n)
         /\ SizeOfWord(InitializedWord(k, n)) = AllocationSize(k, n)
<1>1. Narrow(n) \in Length
  BY NarrowFacts
<1>2. HeaderWord(k, Narrow(n)) \in Nat
  BY <1>1, LayoutAssumption DEF HeaderWord, Length, Kinds, REF, BIN
<1>3. InitializedWord(k, n) = HeaderWord(k, Narrow(n)) + 0
  BY <1>2 DEF InitializedWord
<1>4. /\ HeaderKind(InitializedWord(k, n)) = k
      /\ HeaderLength(InitializedWord(k, n)) = Narrow(n)
  BY <1>1, <1>3, WordFields
<1> QED BY <1>2, <1>3, <1>4 DEF InitializedWord, SizeOfWord, AllocationSize, Kinds, REF, BIN
=============================================================================
