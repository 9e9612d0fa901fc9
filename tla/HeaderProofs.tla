---------------------------- MODULE HeaderProofs ----------------------------
(***************************************************************************)
(* What a scavenge does to headers, and what of it must not be seen.       *)
(*                                                                         *)
(* First HeaderWord: the size of an array can always be read back from its *)
(* header, at any width of the length field and of size_t that satisfies   *)
(* LayoutAssumption.  The invariant behind it: every header word that      *)
(* stands for the object (in the object itself, preserved beside a         *)
(* forwarding pointer, or in the copy) is the word its allocator wrote,    *)
(* but for the collector's byte.                                           *)
(*                                                                         *)
(* Then DestroyedSlot: however many objects there are and whatever refers  *)
(* to what, backing a scavenge out restores the slots that share a word    *)
(* with a header.                                                          *)
(***************************************************************************)
EXTENDS HeaderWord, DestroyedSlot, ArrayLayoutProofs

WordOf(w) == \E f \in 0 .. 255 : w = HeaderWord(kind, Narrow(request)) + f

WordsKept ==
    /\ ~forwarded => WordOf(word)
    /\ forwarded => WordOf(preserved) /\ WordOf(copyWord)

IInv == TypeOK /\ reserved = AllocationSize(kind, request) /\ WordsKept

-----------------------------------------------------------------------------

\* The size read from a word that stands for the object is what was reserved.
LEMMA SizeOfWordOf ==
  ASSUME kind \in Kinds, request \in Nat, NEW w, WordOf(w)
  PROVE  SizeOfWord(w) = AllocationSize(kind, request)
<1>1. PICK f \in 0 .. 255 : w = HeaderWord(kind, Narrow(request)) + f
  BY DEF WordOf
<1>2. Narrow(request) \in Length
  BY NarrowFacts
<1>3. PICK n \in Length : n = Narrow(request)
  BY <1>2
<1>4. w = HeaderWord(kind, n) + f
  BY <1>1, <1>3
<1>5. HeaderLength(w) = Narrow(request) /\ HeaderKind(w) = kind
  BY <1>3, <1>4, WordFields
<1> QED BY <1>5 DEF SizeOfWord, AllocationSize, Kinds, REF, BIN

LEMMA FlagsKeepWordOf ==
  ASSUME kind \in Kinds, request \in Nat, NEW w, WordOf(w), NEW g \in 0 .. 255
  PROVE  WithGCByte(w, g) \in Nat /\ WordOf(WithGCByte(w, g))
<1>1. PICK f \in 0 .. 255 : w = HeaderWord(kind, Narrow(request)) + f
  BY DEF WordOf
<1>2. Narrow(request) \in Length
  BY NarrowFacts
<1>3. WithGCByte(HeaderWord(kind, Narrow(request)) + f, g)
          = HeaderWord(kind, Narrow(request)) + g
  BY <1>2, FlagsReplaced
<1>4. HeaderWord(kind, Narrow(request)) + g \in Nat
  BY <1>2, WordFields
<1> QED BY <1>1, <1>3, <1>4 DEF WordOf

-----------------------------------------------------------------------------

LEMMA InitIInv == Init => IInv
<1> SUFFICES ASSUME Init PROVE IInv
  OBVIOUS
<1>1. kind \in Kinds /\ request \in Nat
  BY HeaderAssumption DEF Init
<1>2. word = HeaderWord(kind, Narrow(request)) + 0 /\ word \in Nat
  <2>1. HeaderWord(kind, Narrow(request)) \in Nat
    BY <1>1, NarrowFacts, LayoutAssumption DEF HeaderWord, Length, Kinds, REF, BIN
  <2> QED BY <2>1 DEF Init, InitializedWord
<1>3. reserved \in Nat
  BY <1>1, ReservedFits DEF Init
<1>4. WordOf(word)
  BY <1>2 DEF WordOf
<1>5. TypeOK
  BY <1>1, <1>2, <1>3 DEF Init, TypeOK
<1>6. WordsKept
  BY <1>4 DEF Init, WordsKept
<1> QED BY <1>5, <1>6 DEF Init, IInv

LEMMA NextIInv == IInv /\ [Next]_vars => IInv'
<1> SUFFICES ASSUME IInv, [Next]_vars PROVE IInv'
  OBVIOUS
<1>1. kind \in Kinds /\ request \in Nat
  BY HeaderAssumption DEF IInv, TypeOK
<1>2. ASSUME NEW f \in Flags, SetFlags(f) PROVE IInv'
  <2>1. f \in 0 .. 255 /\ ~forwarded /\ word' = WithGCByte(word, f)
    BY <1>2, HeaderAssumption DEF SetFlags
  <2>2. word' \in Nat /\ WordOf(word')
    BY <1>1, <2>1, FlagsKeepWordOf DEF IInv, WordsKept
  <2> QED BY <1>2, <2>2 DEF SetFlags, IInv, TypeOK, WordsKept, WordOf
<1>3. ASSUME NEW f \in Flags, SetCopyFlags(f) PROVE IInv'
  <2>1. f \in 0 .. 255 /\ forwarded /\ copyWord' = WithGCByte(copyWord, f)
    BY <1>3, HeaderAssumption DEF SetCopyFlags
  <2>2. copyWord' \in Nat /\ WordOf(copyWord')
    BY <1>1, <2>1, FlagsKeepWordOf DEF IInv, WordsKept
  <2> QED BY <1>3, <2>2 DEF SetCopyFlags, IInv, TypeOK, WordsKept, WordOf
<1>4. ASSUME NEW f \in Flags, NEW pointer \in ForwardingWords, Forward(pointer, f)
      PROVE  IInv'
  <2>1. f \in 0 .. 255 /\ ~forwarded /\ copyWord' = WithGCByte(word, f)
    BY <1>4, HeaderAssumption DEF Forward
  <2>2. copyWord' \in Nat /\ WordOf(copyWord')
    BY <1>1, <2>1, FlagsKeepWordOf DEF IInv, WordsKept
  <2>3. preserved' = word /\ word' \in Nat
    BY <1>4, HeaderAssumption DEF Forward
  <2> QED BY <1>4, <2>2, <2>3 DEF Forward, IInv, TypeOK, WordsKept, WordOf
<1>5. ASSUME ReverseForwarded PROVE IInv'
  <2>1. word' = copyWord /\ WordOf(copyWord)
    BY <1>5 DEF ReverseForwarded, IInv, WordsKept
  <2>2. copyWord \in Nat
    <3>1. PICK f \in 0 .. 255 : copyWord = HeaderWord(kind, Narrow(request)) + f
      BY <2>1 DEF WordOf
    <3> QED BY <3>1, <1>1, NarrowFacts, WordFields
  <2> QED BY <1>5, <2>1, <2>2 DEF ReverseForwarded, IInv, TypeOK, WordsKept, WordOf
<1>6. CASE UNCHANGED vars
  BY <1>6 DEF vars, IInv, TypeOK, WordsKept, WordOf
<1> QED BY <1>2, <1>3, <1>4, <1>5, <1>6 DEF Next

\* The inductive invariant holds throughout an object's life.
THEOREM Invariance == Spec => []IInv
BY InitIInv, NextIInv, PTL DEF Spec

\* Every variable keeps its range.
THEOREM TypeCorrect == Spec => []TypeOK
<1>1. IInv => TypeOK
  BY DEF IInv
<1> QED BY <1>1, Invariance, PTL

\* A heap walk never steps wrongly: the object model reports exactly the bytes
\* reserved for the object, flagged, forwarded or restored.
THEOREM WalkStepIsRight == Spec => []SizeIsReserved
<1>1. IInv => SizeIsReserved
  <2> SUFFICES ASSUME IInv PROVE SizeIsReserved
    OBVIOUS
  <2>1. kind \in Kinds /\ request \in Nat
    BY HeaderAssumption DEF IInv, TypeOK
  <2>2. CASE forwarded
    BY <2>1, <2>2, SizeOfWordOf
    DEF IInv, WordsKept, SizeIsReserved, ReportedSize, ForwardedObjectSize
  <2>3. CASE ~forwarded
    BY <2>1, <2>3, SizeOfWordOf
    DEF IInv, WordsKept, SizeIsReserved, ReportedSize, TotalFootprint, ObjectSizeWithHeader
  <2> QED BY <2>2, <2>3
<1> QED BY <1>1, Invariance, PTL

\* A scavenge copies the whole object and no more.
THEOREM CopyIsComplete == Spec => []CopyIsAsBig
<1>1. IInv => CopyIsAsBig
  <2> SUFFICES ASSUME IInv, forwarded
               PROVE  ObjectSizeWithHeader(copyWord) = reserved
    BY DEF CopyIsAsBig
  <2>1. kind \in Kinds /\ request \in Nat
    BY HeaderAssumption DEF IInv, TypeOK
  <2> QED BY <2>1, SizeOfWordOf DEF IInv, WordsKept, ObjectSizeWithHeader
<1> QED BY <1>1, Invariance, PTL

\* The reserved bytes are aligned and hold the header and all elements.
THEOREM FootprintIsRight == Spec => []FootprintFits
<1>1. IInv => FootprintFits
  <2> SUFFICES ASSUME IInv PROVE FootprintFits
    OBVIOUS
  <2>1. kind \in Kinds /\ request \in Nat
    BY HeaderAssumption DEF IInv, TypeOK
  <2> QED BY <2>1, ReservedFits DEF IInv, FootprintFits
<1> QED BY <1>1, Invariance, PTL

-----------------------------------------------------------------------------
(* DestroyedSlot                                                           *)

\* What a reference to a copy stands for.
OriginalOf(slot) == IF slot \in Copy THEN slot - N ELSE slot

\* An original has a copy while it is forwarded; when it is not, there is none
\* or it has been reversed.
CopiesMatch ==
    /\ header[OldObject] = "object"
    /\ \A a \in Original :
         \/ header[a] = "object" /\ header[CopyOf(a)] \in {"free", "reversed"}
         \/ header[a] = "forwarded" /\ header[CopyOf(a)] = "object"

\* A slot refers to no copy that has not been made.
NoCopyInvented ==
    \A x \in Address : beside[x] \in Copy => header[beside[x]] # "free"

\* The slot that was beside a header is carried by the copy while the original
\* is forwarded, and by the original otherwise: there may be a copy in it where
\* its original was.
Carried ==
    \A a \in Original :
        /\ before[a] \notin Copy
        /\ header[a] = "object" => OriginalOf(beside[a]) = before[a]
        /\ header[a] = "forwarded" => OriginalOf(beside[CopyOf(a)]) = before[a]

\* The second pass begins when no original is forwarded, and what it has
\* visited is restored.
FixedUp ==
    /\ phase \in {"fixup", "done"} =>
         \A a \in Original : /\ header[a] = "object"
                             /\ a \notin unfixed => beside[a] = before[a]
    /\ phase = "done" => unfixed = {}

SlotsInv == SlotsTypeOK /\ CopiesMatch /\ NoCopyInvented /\ Carried /\ FixedUp

\* The originals, their copies and the old object are apart, and so is what
\* the program's numbers are taken for.
LEMMA Addresses ==
    /\ N \in Nat
    /\ OldObject \in Address \ (Original \cup Copy)
    /\ Misaligned \notin Address /\ Outside \notin Address
    /\ Null \notin Address
    /\ \A a \in Original : /\ a \in Address \ Copy
                           /\ CopyOf(a) \in Copy /\ CopyOf(a) \in Address
                           /\ CopyOf(a) - N = a
                           /\ \A b \in Original : CopyOf(a) = CopyOf(b) => a = b
                           /\ \A b \in Original : CopyOf(a) # b
    /\ \A x \in Copy : x \in Address /\ x - N \in Original /\ CopyOf(x - N) = x
    /\ \A x \in Address : x \in Original \/ x \in Copy \/ x = OldObject
BY DestroyedSlotAssumption
   DEF OldObject, Original, Copy, CopyOf, Address, Misaligned, Outside, Null

\* What a slot holds is a number, and Destroyed is one.
LEMMA Numbers ==
    /\ Contents \subseteq Nat /\ Null \in Nat /\ Destroyed \in Nat
    /\ Destroyed \notin Copy
    /\ \A c \in Contents : c \notin Copy
BY DestroyedSlotAssumption
   DEF Contents, Destroyed, Null, OldObject, Misaligned, Outside, Original, Copy

LEMMA SlotsInitially == SlotsInit => SlotsInv
<1> SUFFICES ASSUME SlotsInit PROVE SlotsInv
  OBVIOUS
<1>0. Contents \subseteq Nat /\ Null \in Nat
  BY Numbers
<1>1. PICK contents \in [Original -> Contents] :
        beside = [x \in Address |-> IF x \in Original THEN contents[x] ELSE Null]
  BY DEF SlotsInit
<1>2. beside \in [Address -> Nat] /\ before = beside
  BY <1>0, <1>1 DEF SlotsInit
<1>3. \A x \in Address : beside[x] \notin Copy
  <2> SUFFICES ASSUME NEW x \in Address PROVE beside[x] \notin Copy
    OBVIOUS
  <2>1. beside[x] \in Contents \/ beside[x] = Null
    BY <1>1
  <2>2. Null \in Contents
    BY DEF Contents
  <2> QED
    BY <2>1, <2>2, Numbers
<1>4. SlotsTypeOK
  BY <1>2 DEF SlotsInit, SlotsTypeOK
<1>5. CopiesMatch
  BY Addresses DEF SlotsInit, CopiesMatch
<1>6. NoCopyInvented
  BY <1>3 DEF NoCopyInvented
<1>7. Carried
  BY <1>2, <1>3, Addresses DEF SlotsInit, Carried, OriginalOf
<1>8. FixedUp
  BY DEF SlotsInit, FixedUp
<1> QED
  BY <1>4, <1>5, <1>6, <1>7, <1>8 DEF SlotsInv

LEMMA SlotsStepKeeps == SlotsInv /\ [SlotsNext]_slotsVars => SlotsInv'
<1> SUFFICES ASSUME SlotsInv, [SlotsNext]_slotsVars PROVE SlotsInv'
  OBVIOUS
<1> USE Addresses
<1>t. /\ phase \in {"scavenge", "reverse", "fixup", "done"}
      /\ header \in [Address -> {"object", "forwarded", "reversed", "free"}]
      /\ beside \in [Address -> Nat] /\ before \in [Address -> Nat]
      /\ unfixed \subseteq Original
  BY DEF SlotsInv, SlotsTypeOK
<1>1. ASSUME NEW a \in Original, ForwardOriginal(a) PROVE SlotsInv'
  <2>0. \A x \in Address :
          /\ header'[x] = IF x = CopyOf(a) THEN "object"
                          ELSE IF x = a THEN "forwarded" ELSE header[x]
          /\ beside'[x] = IF x = CopyOf(a) THEN beside[a]
                          ELSE IF x = a THEN Destroyed ELSE beside[x]
    BY <1>1, <1>t DEF ForwardOriginal
  <2>1. SlotsTypeOK'
    BY <1>1, <1>t, Numbers DEF ForwardOriginal, SlotsTypeOK
  <2>2. CopiesMatch'
    <3>1. header'[OldObject] = "object"
      BY <2>0 DEF SlotsInv, CopiesMatch
    <3>2. ASSUME NEW b \in Original
          PROVE  \/ header'[b] = "object" /\ header'[CopyOf(b)] \in {"free", "reversed"}
                 \/ header'[b] = "forwarded" /\ header'[CopyOf(b)] = "object"
      BY <2>0 DEF SlotsInv, CopiesMatch
    <3> QED
      BY <3>1, <3>2 DEF CopiesMatch
  <2>3. NoCopyInvented'
    BY <2>0, Numbers DEF SlotsInv, NoCopyInvented
  <2>4. Carried'
    <3> SUFFICES ASSUME NEW b \in Original
                 PROVE  /\ before'[b] \notin Copy
                        /\ header'[b] = "object" => OriginalOf(beside'[b]) = before'[b]
                        /\ header'[b] = "forwarded"
                             => OriginalOf(beside'[CopyOf(b)]) = before'[b]
      BY DEF Carried, OriginalOf
    <3>1. before' = before /\ header[a] = "object"
      BY <1>1 DEF ForwardOriginal
    <3>2. CASE b = a
      BY <2>0, <3>1, <3>2 DEF SlotsInv, Carried
    <3>3. CASE b # a
      BY <2>0, <3>1, <3>3 DEF SlotsInv, Carried
    <3> QED
      BY <3>2, <3>3
  <2>5. FixedUp'
    BY <1>1 DEF ForwardOriginal, FixedUp
  <2> QED
    BY <2>1, <2>2, <2>3, <2>4, <2>5 DEF SlotsInv
<1>2. ASSUME NEW a \in Original, Scan(a) PROVE SlotsInv'
  <2> DEFINE referent == beside[CopyOf(a)]
  <2>0. /\ referent \in Original /\ header[referent] = "forwarded"
        /\ \A x \in Address : beside'[x] = IF x = CopyOf(a) THEN CopyOf(referent)
                                                            ELSE beside[x]
    BY <1>2, <1>t DEF Scan
  <2>1. SlotsTypeOK'
    <3>1. CopyOf(referent) \in Nat
      BY <2>0 DEF Original, CopyOf
    <3> QED
      BY <1>2, <1>t, <3>1 DEF Scan, SlotsTypeOK
  <2>2. CopiesMatch'
    BY <1>2 DEF Scan, SlotsInv, CopiesMatch
  <2>3. NoCopyInvented'
    <3>1. header[CopyOf(referent)] = "object"
      BY <2>0 DEF SlotsInv, CopiesMatch
    <3> QED
      BY <1>2, <2>0, <3>1 DEF Scan, SlotsInv, NoCopyInvented
  <2>4. Carried'
    BY <1>2, <2>0 DEF Scan, SlotsInv, Carried, OriginalOf
  <2>5. FixedUp'
    BY <1>2 DEF Scan, FixedUp
  <2> QED
    BY <2>1, <2>2, <2>3, <2>4, <2>5 DEF SlotsInv
<1>3. ASSUME NEW a \in Original, Unscan(a) PROVE SlotsInv'
  <2> DEFINE referent == beside[CopyOf(a)]
  <2>0. /\ referent \in Copy /\ referent - N \in Original
        /\ \A x \in Address : beside'[x] = IF x = CopyOf(a) THEN referent - N
                                                            ELSE beside[x]
    BY <1>3, <1>t DEF Unscan
  <2>1. SlotsTypeOK'
    <3>1. referent - N \in Nat
      BY <2>0 DEF Original
    <3> QED
      BY <1>3, <1>t, <3>1 DEF Unscan, SlotsTypeOK
  <2>2. CopiesMatch'
    BY <1>3 DEF Unscan, SlotsInv, CopiesMatch
  <2>3. NoCopyInvented'
    BY <1>3, <2>0 DEF Unscan, SlotsInv, NoCopyInvented
  <2>4. Carried'
    BY <1>3, <2>0 DEF Unscan, SlotsInv, Carried, OriginalOf
  <2>5. FixedUp'
    BY <1>3 DEF Unscan, FixedUp
  <2> QED
    BY <2>1, <2>2, <2>3, <2>4, <2>5 DEF SlotsInv
<1>4. ASSUME NEW a \in Original, Reverse(a) PROVE SlotsInv'
  <2>0. /\ header[CopyOf(a)] = "object"
        /\ \A x \in Address :
             /\ header'[x] = IF x = CopyOf(a) THEN "reversed"
                             ELSE IF x = a THEN "object" ELSE header[x]
             /\ beside'[x] = IF x = a THEN beside[CopyOf(a)] ELSE beside[x]
    BY <1>4, <1>t DEF Reverse, SlotsInv, CopiesMatch
  <2>1. SlotsTypeOK'
    BY <1>4, <1>t DEF Reverse, SlotsTypeOK
  <2>2. CopiesMatch'
    <3>1. header'[OldObject] = "object"
      BY <2>0 DEF SlotsInv, CopiesMatch
    <3>2. ASSUME NEW b \in Original
          PROVE  \/ header'[b] = "object" /\ header'[CopyOf(b)] \in {"free", "reversed"}
                 \/ header'[b] = "forwarded" /\ header'[CopyOf(b)] = "object"
      BY <2>0 DEF SlotsInv, CopiesMatch
    <3> QED
      BY <3>1, <3>2 DEF CopiesMatch
  <2>3. NoCopyInvented'
    BY <2>0 DEF SlotsInv, NoCopyInvented
  <2>4. Carried'
    <3> SUFFICES ASSUME NEW b \in Original
                 PROVE  /\ before'[b] \notin Copy
                        /\ header'[b] = "object" => OriginalOf(beside'[b]) = before'[b]
                        /\ header'[b] = "forwarded"
                             => OriginalOf(beside'[CopyOf(b)]) = before'[b]
      BY DEF Carried, OriginalOf
    <3>1. before' = before /\ header[a] = "forwarded"
      BY <1>4 DEF Reverse
    <3>2. CASE b = a
      BY <2>0, <3>1, <3>2 DEF SlotsInv, Carried
    <3>3. CASE b # a
      BY <2>0, <3>1, <3>3 DEF SlotsInv, Carried
    <3> QED
      BY <3>2, <3>3
  <2>5. FixedUp'
    BY <1>4 DEF Reverse, FixedUp
  <2> QED
    BY <2>1, <2>2, <2>3, <2>4, <2>5 DEF SlotsInv
<1>5. CASE BackOut
  <2>1. SlotsTypeOK'
    BY <1>5, <1>t DEF BackOut, SlotsTypeOK
  <2>2. FixedUp'
    BY <1>5 DEF BackOut, FixedUp
  <2> QED
    BY <1>5, <2>1, <2>2
       DEF BackOut, SlotsInv, CopiesMatch, NoCopyInvented, Carried
<1>6. CASE StartFixup
  <2>1. SlotsTypeOK'
    BY <1>6, <1>t DEF StartFixup, SlotsTypeOK
  <2>2. FixedUp'
    BY <1>6 DEF StartFixup, FixedUp, SlotsInv, CopiesMatch
  <2> QED
    BY <1>6, <2>1, <2>2
       DEF StartFixup, SlotsInv, CopiesMatch, NoCopyInvented, Carried
<1>7. ASSUME NEW a \in Original, FixupDestroyedSlot(a) PROVE SlotsInv'
  <2>1. /\ \A b \in Original : header[b] = "object"
        /\ OriginalOf(beside[a]) = before[a]
    BY <1>7 DEF FixupDestroyedSlot, SlotsInv, FixedUp, Carried
  \* A slot that refers to a copy is recognised: by now all copies are reversed.
  <2>2. ASSUME beside[a] \in Copy PROVE RefersToReversed(beside[a])
    <3>1. header[beside[a]] # "free"
      BY <2>2 DEF SlotsInv, NoCopyInvented
    <3>2. header[beside[a]] = "reversed"
      BY <2>1, <2>2, <3>1 DEF SlotsInv, CopiesMatch
    <3> QED
      BY <2>2, <3>2 DEF RefersToReversed, IsIndexable
  <2>3. ASSUME beside[a] \notin Copy PROVE ~RefersToReversed(beside[a])
    BY <2>1, <2>3 DEF RefersToReversed, SlotsInv, CopiesMatch
  <2>4. \A x \in Address : beside'[x] = IF x = a THEN before[a] ELSE beside[x]
    BY <1>7, <1>t, <2>1, <2>2, <2>3 DEF FixupDestroyedSlot, OriginalOf
  <2>5. beside' \in [Address -> Nat] /\ before[a] \notin Copy
    BY <1>7, <1>t, <2>1, <2>2, <2>3
       DEF FixupDestroyedSlot, OriginalOf, SlotsInv, Carried
  <2>6. SlotsTypeOK'
    BY <1>7, <1>t, <2>5 DEF FixupDestroyedSlot, SlotsTypeOK
  <2>7. CopiesMatch' /\ NoCopyInvented'
    BY <1>7, <2>4, <2>5
       DEF FixupDestroyedSlot, SlotsInv, CopiesMatch, NoCopyInvented
  <2>8. Carried'
    BY <1>7, <2>1, <2>4, <2>5 DEF FixupDestroyedSlot, SlotsInv, Carried, OriginalOf
  <2>9. FixedUp'
    BY <1>7, <2>4 DEF FixupDestroyedSlot, SlotsInv, FixedUp
  <2> QED
    BY <2>6, <2>7, <2>8, <2>9 DEF SlotsInv
<1>8. CASE FinishFixup
  <2>1. SlotsTypeOK'
    BY <1>8, <1>t DEF FinishFixup, SlotsTypeOK
  <2>2. FixedUp'
    BY <1>8 DEF FinishFixup, SlotsInv, FixedUp
  <2> QED
    BY <1>8, <2>1, <2>2
       DEF FinishFixup, SlotsInv, CopiesMatch, NoCopyInvented, Carried
<1>9. CASE UNCHANGED slotsVars
  BY <1>9 DEF slotsVars, SlotsInv, SlotsTypeOK, CopiesMatch, NoCopyInvented, Carried, FixedUp
<1> QED
  BY <1>1, <1>2, <1>3, <1>4, <1>5, <1>6, <1>7, <1>8, <1>9 DEF SlotsNext

\* The invariant that carries the slots through copying and both passes.
THEOREM SlotsInvariance == SlotsSpec => []SlotsInv
BY SlotsInitially, SlotsStepKeeps, PTL DEF SlotsSpec

\* scavenger_fixupDestroyedSlot completes what scavenger_reverseForwardedObject
\* began: a slot that may "need to be reversed as well or ... be already
\* reversed" is what it was, for any number of objects and any references
\* between them, in whatever order they are copied, scanned and reversed.
THEOREM BackOutRestoresSlots == SlotsSpec => []SlotsRestored
<1>1. SlotsInv => SlotsRestored
  BY DEF SlotsInv, FixedUp, SlotsRestored
<1> QED
  BY SlotsInvariance, <1>1, PTL
=============================================================================
