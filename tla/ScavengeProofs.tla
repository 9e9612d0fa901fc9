---------------------------- MODULE ScavengeProofs ----------------------------
(***************************************************************************)
(* Theorems about Scavenge, for new and old space of any size, arrays of   *)
(* any lengths and any number of StackRoots.                               *)
(*                                                                         *)
(* The properties are about the time between collections.  The invariant   *)
(* says what memory is during one, in terms of what it was when the        *)
(* program was stopped: originals are as they were but for a forwarding    *)
(* pointer, copies are what their originals were but for the collector's   *)
(* byte, and a slot refers to what it referred to then, or to the copy of  *)
(* it.                                                                     *)
(***************************************************************************)
EXTENDS Scavenge, GcHeapProofs

\* Every array lies within one of these spaces.
Placed(memory, spaces) ==
    \A a \in DOMAIN memory : \E space \in spaces : Extent(memory, a) \subseteq space

\* The old arrays that refer to new ones are in the set, and have the flag.
Remembers(memory, set) ==
    /\ \A a \in DOMAIN memory \cap OldSpace : Edges(memory, a) \cap NewSpace # {} => a \in set
    /\ set = {a \in DOMAIN memory \cap OldSpace : IsRemembered(memory, a)}

\* Memory when no scavenge is at work on it.
Settled(memory, set) == Placed(memory, {Evacuate, OldSpace}) /\ Remembers(memory, set)

\* Memory and roots when the program was stopped for a scavenge.
Before      == stopped.heap
RootsBefore == stopped.roots

StoppedInv ==
    /\ IsHeap(Before) /\ RootsBefore \in Seq(Refs) /\ Linked(Before, RootsBefore)
    /\ Settled(Before, remembered)
    /\ native = Null
    /\ request # {} /\ \A r \in request : IsRequest(r) /\ ~r.collected
    /\ \A r, s \in request : r = s

\* A header but for the collector's byte.
Bare(word) == WithGCByte(word, 0)

\* One array is the other but for the collector's byte; or but for that and
\* what its slots hold.
SameButAge(x, y) ==
    IsArray(x) /\ Bare(x.word) = Bare(y.word) /\ x.id = y.id /\ x.slots = y.slots
SameButSlots(x, y) ==
    IsArray(x) /\ Bare(x.word) = Bare(y.word) /\ x.id = y.id /\ DOMAIN x.slots = DOMAIN y.slots

\* Memory, roots and forwarding pointers in the middle of a scavenge.
Copies(memory, list, copyOf) ==
    /\ IsMemory(memory) /\ IsMemory(copyOf)
    /\ DOMAIN memory = DOMAIN Before \cup Range(copyOf)
    /\ DOMAIN copyOf \subseteq DOMAIN Before \cap Evacuate
    /\ Range(copyOf) \subseteq (Survivor \cup OldSpace) \ DOMAIN Before
    /\ \A a, b \in DOMAIN copyOf : copyOf[a] = copyOf[b] => a = b
    /\ \A a \in DOMAIN Before \ remembered :
         IF a \in DOMAIN copyOf THEN memory[a] = [Before[a] EXCEPT !.word = FORWARDED]
                                ELSE SameButAge(memory[a], Before[a])
    /\ \A a \in DOMAIN Before \cap OldSpace : memory[a].word = Before[a].word
    /\ \A a \in remembered : SameButSlots(memory[a], Before[a])
    /\ \A a \in DOMAIN copyOf : SameButSlots(memory[copyOf[a]], Before[a])
    /\ list \in Seq(Refs) /\ DOMAIN list = DOMAIN RootsBefore

\* What a slot held that now holds ref, if the array it referred to has been
\* copied and the slot redirected; or if perhaps it has not.
Redirected(copyOf, ref, held) ==
    IF held \in Evacuate THEN held \in DOMAIN copyOf /\ ref = copyOf[held] ELSE ref = held
Follows(copyOf, ref, held) == ref = held \/ (held \in DOMAIN copyOf /\ ref = copyOf[held])

\* The scavenger scans x, which is an old array or the copy of a.
Scanned(copyOf, x, a) == (x = a /\ a \in remembered) \/ (a \in DOMAIN copyOf /\ x = copyOf[a])

\* What must survive: the old arrays, and what they and the StackRoots reach.
OldBefore == DOMAIN Before \cap OldSpace
Surviving == Reachable(Before, Range(RootsBefore) \cup OldBefore)

Elsewhere(memory) == Restrict(memory, DOMAIN memory \ Evacuate)

\* The slots that are still to be dealt with, and those that have been.
Scavenging(memory, list, copyOf, slots) ==
    /\ IsHeap(Elsewhere(memory)) /\ Placed(Elsewhere(memory), {Survivor, OldSpace})
    /\ DOMAIN copyOf \subseteq Surviving
    /\ \A slot \in slots :
         \/ slot \in {0} \X DOMAIN list
         \/ \E x, a \in DOMAIN memory :
               Scanned(copyOf, x, a) /\ slot \in {x} \X DOMAIN memory[x].slots
    /\ \A k \in DOMAIN list :
         IF <<0, k>> \in slots THEN list[k] = RootsBefore[k]
                               ELSE Redirected(copyOf, list[k], RootsBefore[k])
    /\ \A x, a \in DOMAIN memory : Scanned(copyOf, x, a) =>
         \A k \in DOMAIN memory[x].slots :
           IF <<x, k>> \in slots THEN memory[x].slots[k] = Before[a].slots[k]
                                 ELSE Redirected(copyOf, memory[x].slots[k], Before[a].slots[k])

CopyInv     == Copies(heap, roots, forward)
ScavengeInv == Scavenging(heap, roots, forward, pending)

BackOutInv ==
    /\ pending = {}
    /\ \A k \in DOMAIN roots : Follows(forward, roots[k], RootsBefore[k])
    /\ \A a \in remembered : \A k \in DOMAIN heap[a].slots :
         Follows(forward, heap[a].slots[k], Before[a].slots[k])

GenInv ==
    /\ fresh \in {0, 1} /\ scavenged \in BOOLEAN
    /\ phase \in {"mutator", "mark", "scavenge", "backout"}
    /\ \A r \in request : r.collected => scavenged
    /\ phase # "mark" => grey = {}
    /\ phase \in {"mutator", "mark"} =>
         IInv /\ Settled(heap, remembered) /\ forward = <<>> /\ pending = {}
    /\ phase \in {"scavenge", "backout"} => StoppedInv /\ CopyInv
    /\ phase = "scavenge" => ScavengeInv
    /\ phase = "backout" => BackOutInv


-----------------------------------------------------------------------------
(* Spaces.                                                                 *)

LEMMA SpaceFacts ==
  ASSUME fresh \in {0, 1}
  PROVE  /\ Evacuate \cup Survivor = NewSpace /\ Evacuate \cap Survivor = {}
         /\ NewSpace \cap OldSpace = {} /\ NewSpace \cup OldSpace = Address
         /\ Address \in SUBSET (Nat \ {0}) /\ Null \notin Address
<1>1. Half \in Nat /\ 2 * Half <= HeapSize /\ HeapSize \in Nat
  BY ScavengeAssumption, HeapAssumption
<1>2. HalfSpace(0) = 1 .. Half /\ HalfSpace(1) = Half + 1 .. 2 * Half
  BY <1>1 DEF HalfSpace, Span
<1>3. HalfSpace(0) \cap HalfSpace(1) = {} /\ NewSpace \subseteq Address
  BY <1>1, <1>2 DEF NewSpace, Address
<1>4. CASE fresh = 0
  <2>1. 1 - fresh = 1
    BY <1>4
  <2> QED BY <1>3, <1>4, <2>1, AddressFacts DEF Evacuate, Survivor, NewSpace, OldSpace
<1>5. CASE fresh = 1
  <2>1. 1 - fresh = 0
    BY <1>5
  <2> QED BY <1>3, <1>5, <2>1, AddressFacts DEF Evacuate, Survivor, NewSpace, OldSpace
<1> QED BY <1>4, <1>5

\* Memory outside of an array is before or behind it.
LEMMA Apart ==
  ASSUME NEW memory, IsHeap(memory), NEW b \in DOMAIN memory, NEW a \in Nat, NEW size \in Nat \ {0},
         Span(a, size) \cap Extent(memory, b) = {}
  PROVE  b # a /\ IF b < a THEN b + SizeOf(memory[b]) <= a ELSE a + size <= b
<1>1. /\ b \in Nat /\ SizeOf(memory[b]) \in Nat /\ b \in Extent(memory, b)
      /\ \A g : g \in Extent(memory, b) <=> g \in Nat /\ b <= g /\ g < b + SizeOf(memory[b])
  BY ExtentFacts
<1>2. a \in Span(a, size)
  BY DEF Span
<1>3. a \notin Extent(memory, b) /\ b \notin Span(a, size)
  BY <1>1, <1>2
<1> QED BY <1>1, <1>3 DEF Span

\* Room for an array in a space is memory that no array has any of.
LEMMA RoomFacts ==
  ASSUME fresh \in {0, 1}, NEW space \in {Evacuate, Survivor, OldSpace},
         NEW size \in Nat \ {0}, Room(space, size) # {},
         NEW memory, IsHeap(memory), Placed(memory, {Evacuate, Survivor, OldSpace}),
         DOMAIN memory \cap space = DOMAIN heap \cap space,
         \A b \in DOMAIN memory \cap space : memory[b] = heap[b]
  PROVE  LET a == Min(Room(space, size))
         IN  /\ a \in Address \ DOMAIN memory /\ a \in space /\ Span(a, size) \subseteq space
             /\ a + size <= HeapSize + 1
             /\ \A b \in DOMAIN memory : IF b < a THEN b + SizeOf(memory[b]) <= a ELSE a + size <= b
<1>1. space \in SUBSET Address /\ Address \in SUBSET Nat
  BY SpaceFacts
<1>2. Room(space, size) \in SUBSET Nat
  BY <1>1 DEF Room
<1>3. PICK a : a = Min(Room(space, size)) /\ a \in Room(space, size)
  BY <1>2, MinFacts
<1> DEFINE inside == Restrict(heap, DOMAIN heap \cap space)
<1>4. a \in space /\ Span(a, size) \subseteq space \ InUse(inside)
  BY <1>3 DEF Room
<1> HIDE DEF inside
<1>5. a \in Nat /\ a + size - 1 \in Span(a, size)
  BY <1>1, <1>4 DEF Span
<1>6. a + size - 1 \in 1 .. HeapSize
  BY <1>1, <1>4, <1>5 DEF Address
<1>7. a + size <= HeapSize + 1
  BY <1>5, <1>6, AddressFacts
<1>8. ASSUME NEW b \in DOMAIN memory PROVE Span(a, size) \cap Extent(memory, b) = {}
  <2>1. PICK other \in {Evacuate, Survivor, OldSpace} : Extent(memory, b) \subseteq other
    BY DEF Placed
  <2>2. CASE other # space
    <3>1. other \cap space = {}
      BY <2>2, SpaceFacts
    <3> QED BY <1>4, <2>1, <3>1
  <2>3. CASE other = space
    <3>1. b \in DOMAIN heap \cap space /\ memory[b] = heap[b]
      BY <2>1, <2>3, ExtentFacts
    <3>2. b \in DOMAIN inside /\ inside[b] = memory[b]
      BY <3>1 DEF inside, Restrict
    <3>3. Extent(inside, b) = Extent(memory, b)
      BY <3>2 DEF Extent
    <3>4. Extent(inside, b) \subseteq InUse(inside)
      BY <3>2 DEF InUse
    <3> QED BY <1>4, <3>3, <3>4
  <2> QED BY <2>2, <2>3
<1>9. \A b \in DOMAIN memory : b # a /\ IF b < a THEN b + SizeOf(memory[b]) <= a ELSE a + size <= b
  BY <1>5, <1>8, Apart
<1> QED BY <1>1, <1>3, <1>4, <1>7, <1>9

\* What is in a space and what is not.
LEMMA PlacedFacts ==
  ASSUME NEW memory, IsHeap(memory), NEW spaces, Placed(memory, spaces), NEW a \in DOMAIN memory
  PROVE  \E space \in spaces : a \in space /\ Extent(memory, a) \subseteq space
BY ExtentFacts DEF Placed

-----------------------------------------------------------------------------
(* Arrays whose flags or slots change.                                     *)

LEMMA WordFlagged ==
  ASSUME NEW x, IsArray(x), NEW flags \in 0 .. 255
  PROVE  LET y == [x EXCEPT !.word = WithGCByte(@, flags)]
         IN  /\ IsArray(y) /\ y.slots = x.slots /\ y.id = x.id /\ SizeOf(y) = SizeOf(x)
             /\ HeaderKind(y.word) = HeaderKind(x.word) /\ GCByte(y.word) = flags
<1> DEFINE y == [x EXCEPT !.word = WithGCByte(@, flags)]
<1>1. PICK k \in Kinds, n \in Length, old \in 0 .. 255 :
        /\ x = [word |-> HeaderWord(k, n) + old, slots |-> x.slots, id |-> x.id]
        /\ x.slots \in [IF k = REF THEN 1 .. n ELSE {} -> Refs]
  BY DEF IsArray
<1>2. x.word = HeaderWord(k, n) + old /\ WithGCByte(x.word, flags) = HeaderWord(k, n) + flags
  <2>1. x.word = HeaderWord(k, n) + old
    BY <1>1
  <2> QED BY <2>1, FlagsReplaced
<1>3. y = [word |-> HeaderWord(k, n) + flags, slots |-> x.slots, id |-> x.id]
  BY <1>1, <1>2
<1> HIDE DEF y
<1>4. y.slots = x.slots /\ y.id = x.id /\ y.word = HeaderWord(k, n) + flags
  BY <1>3
<1>5. IsArray(y)
  BY <1>1, <1>3, <1>4 DEF IsArray
<1>6. SizeOf(y) = SizeOf(x) /\ HeaderKind(y.word) = HeaderKind(x.word)
  <2>1. HeaderKind(y.word) = k /\ HeaderLength(y.word) = n
    BY <1>4, WordFields
  <2>2. HeaderKind(x.word) = k /\ HeaderLength(x.word) = n
    BY <1>2, WordFields
  <2> QED BY <2>1, <2>2 DEF SizeOf, ObjectSizeWithHeader, SizeOfWord
<1>7. GCByte(y.word) = flags
  <2>1. n \in Nat /\ k \in 0 .. 1
    BY LayoutAssumption DEF Length, Kinds, REF, BIN
  <2>2. (n * 65536 + k * 256 + flags) % 256 = flags
    BY <2>1, SMT
  <2> QED BY <1>4, <2>2 DEF GCByte, HeaderWord
<1> QED BY <1>4, <1>5, <1>6, <1>7 DEF y

LEMMA BareOf ==
  ASSUME NEW k \in Kinds, NEW n \in Length, NEW flags \in 0 .. 255
  PROVE  Bare(HeaderWord(k, n) + flags) = HeaderWord(k, n)
<1>1. n \in Nat /\ k \in 0 .. 1
  BY LayoutAssumption DEF Length, Kinds, REF, BIN
<1>2. (n * 65536 + k * 256 + flags) % 256 = flags
  BY <1>1, SMT
<1> QED BY <1>1, <1>2 DEF Bare, WithGCByte, GCByte, HeaderWord

\* What does not depend on the collector's byte.
LEMMA BareAlike ==
  ASSUME NEW x, NEW y, IsArray(x), IsArray(y), Bare(x.word) = Bare(y.word)
  PROVE  SizeOf(x) = SizeOf(y) /\ HeaderKind(x.word) = HeaderKind(y.word)
<1>1. ASSUME NEW z, IsArray(z)
      PROVE  LET bare == [z EXCEPT !.word = Bare(@)]
             IN  /\ bare.word = Bare(z.word) /\ SizeOf(bare) = SizeOf(z)
                 /\ HeaderKind(bare.word) = HeaderKind(z.word)
  <2>1. z = [word |-> z.word, slots |-> z.slots, id |-> z.id]
    BY <1>1 DEF IsArray
  <2>2. 0 \in 0 .. 255
    OBVIOUS
  <2>3. [z EXCEPT !.word = Bare(@)].word = Bare(z.word)
    BY <2>1
  <2> QED BY <1>1, <2>2, <2>3, WordFlagged DEF Bare
<1>2. SizeOf([x EXCEPT !.word = Bare(@)]) = SizeOf([y EXCEPT !.word = Bare(@)])
  BY <1>1 DEF SizeOf
<1> QED BY <1>1, <1>2

LEMMA BareFlagged ==
  ASSUME NEW x, IsArray(x), NEW flags \in 0 .. 255
  PROVE  SameButAge([x EXCEPT !.word = WithGCByte(@, flags)], x)
<1> DEFINE y == [x EXCEPT !.word = WithGCByte(@, flags)]
<1>1. PICK k \in Kinds, n \in Length, old \in 0 .. 255 :
        x = [word |-> HeaderWord(k, n) + old, slots |-> x.slots, id |-> x.id]
  BY DEF IsArray
<1>2. x.word = HeaderWord(k, n) + old
  BY <1>1
<1>3. y.word = HeaderWord(k, n) + flags
  <2>1. y.word = WithGCByte(x.word, flags)
    BY <1>1
  <2> QED BY <1>2, <2>1, FlagsReplaced
<1>4. IsArray(y) /\ y.slots = x.slots /\ y.id = x.id
  BY WordFlagged
<1> HIDE DEF y
<1>5. Bare(y.word) = HeaderWord(k, n) /\ Bare(x.word) = HeaderWord(k, n)
  BY <1>2, <1>3, BareOf
<1>6. SameButAge(y, x)
  BY <1>4, <1>5 DEF SameButAge
<1> QED BY <1>6 DEF y

\* Arrays that are the same but for an age, which is the same too.
LEMMA SameIfWord ==
  ASSUME NEW x, NEW y, SameButAge(x, y), IsArray(y), x.word = y.word
  PROVE  x = y
<1>1. /\ x = [word |-> x.word, slots |-> x.slots, id |-> x.id]
      /\ y = [word |-> y.word, slots |-> y.slots, id |-> y.id]
  BY DEF SameButAge, IsArray
<1> QED BY <1>1 DEF SameButAge

LEMMA NoFlagsAtFirst ==
  ASSUME NEW k \in Kinds, NEW n \in Length
  PROVE  GCByte(InitializedWord(k, n)) = 0
<1>1. n \in Nat /\ k \in 0 .. 1 /\ Narrow(n) = n
  BY LayoutAssumption, ModSmall DEF Length, Kinds, REF, BIN, Narrow
<1>2. (n * 65536 + k * 256) % 256 = 0
  BY <1>1, SMT
<1> QED BY <1>1, <1>2 DEF GCByte, InitializedWord, HeaderWord

\* A heap after a store, and after a flag has been set.
LEMMA StoredHeap ==
  ASSUME NEW memory, IsHeap(memory), NEW a \in DOMAIN memory, NEW k \in DOMAIN memory[a].slots,
         NEW ref \in Refs
  PROVE  LET stored == Stored(memory, a, k, ref)
         IN  /\ IsHeap(stored) /\ DOMAIN stored = DOMAIN memory
             /\ \A x \in DOMAIN memory : /\ stored[x].word = memory[x].word
                                         /\ stored[x].id = memory[x].id
                                         /\ SizeOf(stored[x]) = SizeOf(memory[x])
                                         /\ x # a => stored[x] = memory[x]
             /\ stored[a].slots = [memory[a].slots EXCEPT ![k] = ref]
<1> DEFINE stored == Stored(memory, a, k, ref)
<1>1. IsMemory(memory) /\ IsArray(memory[a])
  BY DEF IsHeap, IsMemory
<1>2. /\ IsMemory(stored) /\ DOMAIN stored = DOMAIN memory
      /\ \A x \in DOMAIN memory \ {a} : stored[x] = memory[x]
      /\ IsArray(stored[a]) /\ SizeOf(stored[a]) = SizeOf(memory[a])
      /\ stored[a].word = memory[a].word /\ stored[a].id = memory[a].id
      /\ stored[a].slots = [memory[a].slots EXCEPT ![k] = ref]
  BY <1>1, SlotStored
<1> HIDE DEF stored
<1>3. \A x \in DOMAIN memory : IsArray(stored[x]) /\ SizeOf(stored[x]) = SizeOf(memory[x])
  BY <1>2 DEF IsHeap
<1>4. stored = [x \in DOMAIN stored |-> stored[x]]
  BY <1>2 DEF IsMemory
<1>5. IsHeap(stored)
  BY <1>2, <1>3, <1>4 DEF IsHeap
<1> QED BY <1>2, <1>3, <1>5 DEF stored

Flagged(memory, a, flags) == [memory EXCEPT ![a].word = WithGCByte(@, flags)]

\* What a heap is after the flags of one array have been set.
OnlyFlags(memory, flagged, a, flags) ==
  /\ IsHeap(flagged) /\ DOMAIN flagged = DOMAIN memory
  /\ \A x \in DOMAIN memory : /\ flagged[x].slots = memory[x].slots
                              /\ SizeOf(flagged[x]) = SizeOf(memory[x])
                              /\ x # a => flagged[x] = memory[x]
  /\ flagged[a].id = memory[a].id /\ GCByte(flagged[a].word) = flags
  /\ HeaderKind(flagged[a].word) = HeaderKind(memory[a].word)

LEMMA FlaggedHeap ==
  ASSUME NEW memory, IsHeap(memory), NEW a \in DOMAIN memory, NEW flags \in 0 .. 255
  PROVE  OnlyFlags(memory, Flagged(memory, a, flags), a, flags)
<1> DEFINE array   == [memory[a] EXCEPT !.word = WithGCByte(@, flags)]
           flagged == Flagged(memory, a, flags)
<1>1. IsArray(memory[a]) /\ memory = [x \in DOMAIN memory |-> memory[x]]
  BY DEF IsHeap
<1>2. /\ IsArray(array) /\ array.slots = memory[a].slots /\ SizeOf(array) = SizeOf(memory[a])
      /\ array.id = memory[a].id /\ GCByte(array.word) = flags
      /\ HeaderKind(array.word) = HeaderKind(memory[a].word)
  BY <1>1, WordFlagged
<1>3. flagged = [memory EXCEPT ![a] = array]
  BY DEF Flagged
<1> HIDE DEF array
<1>4. /\ flagged = [x \in DOMAIN flagged |-> flagged[x]] /\ DOMAIN flagged = DOMAIN memory
      /\ \A x \in DOMAIN memory \ {a} : flagged[x] = memory[x]
      /\ flagged[a] = array
  BY <1>1, <1>3
<1> HIDE DEF flagged
<1>5. \A x \in DOMAIN memory : IsArray(flagged[x]) /\ SizeOf(flagged[x]) = SizeOf(memory[x])
  BY <1>2, <1>4 DEF IsHeap
<1>6. IsHeap(flagged)
  BY <1>4, <1>5 DEF IsHeap
<1>7. OnlyFlags(memory, flagged, a, flags)
  BY <1>2, <1>4, <1>5, <1>6 DEF OnlyFlags
<1> QED BY <1>7 DEF flagged

\* Arrays of the same sizes at the same places.
LEMMA PlacedAlike ==
  ASSUME NEW memory, NEW other, NEW spaces, Placed(memory, spaces),
         DOMAIN other \subseteq DOMAIN memory,
         \A a \in DOMAIN other : SizeOf(other[a]) = SizeOf(memory[a])
  PROVE  Placed(other, spaces)
<1>1. \A a \in DOMAIN other : Extent(other, a) = Extent(memory, a)
  BY DEF Extent
<1> QED BY <1>1 DEF Placed

-----------------------------------------------------------------------------
(* The program.                                                            *)

LEMMA GenInitially == GenInit => GenInv
<1> SUFFICES ASSUME GenInit PROVE GenInv
  OBVIOUS
<1>1. /\ IInv /\ heap = <<>> /\ phase = "mutator" /\ grey = {} /\ forward = <<>> /\ pending = {}
      /\ request = {} /\ remembered = {} /\ fresh = 0 /\ scavenged = FALSE
  BY Initially DEF GenInit, Init
<1>2. DOMAIN heap = {}
  BY <1>1
<1>3. Settled(heap, remembered)
  BY <1>1, <1>2 DEF Settled, Placed, Remembers
<1> QED BY <1>1, <1>3 DEF GenInv

\* The steps between collections that leave memory alone.
LEMMA QuietKeeps ==
  ASSUME GenInv, phase = "mutator", phase' = "mutator", IInv', heap' = heap,
         UNCHANGED <<grey, forward, fresh, remembered, pending>>,
         scavenged' \in BOOLEAN, \A r \in request' : r.collected => scavenged'
  PROVE  GenInv'
<1>1. Settled(heap, remembered) /\ forward = <<>> /\ pending = {} /\ grey = {} /\ fresh \in {0, 1}
  BY DEF GenInv
<1>2. Settled(heap, remembered)'
  BY <1>1 DEF Settled, Placed, Remembers, Evacuate
<1> QED BY <1>1, <1>2 DEF GenInv

\* The slot is written and nothing else changes but, perhaps, a flag.
LEMMA StoreBarrieredFacts ==
  ASSUME GenInv, NEW r \in DOMAIN roots, NEW k, StoreBarriered(r, k)
  PROVE  LET a == roots[r]
         IN  /\ a \in DOMAIN heap /\ k \in DOMAIN heap[a].slots
             /\ IsHeap(heap') /\ DOMAIN heap' = DOMAIN heap
             /\ \A x \in DOMAIN heap : /\ SizeOf(heap'[x]) = SizeOf(heap[x])
                                       /\ x # a => heap'[x] = heap[x]
             /\ heap'[a].slots = [heap[a].slots EXCEPT ![k] = native] /\ heap'[a].id = heap[a].id
             /\ HeaderKind(heap'[a].word) = HeaderKind(heap[a].word)
             /\ IF MustRemember(a, native) THEN GCByte(heap'[a].word) = REMEMBERED
                                           ELSE heap'[a].word = heap[a].word
<1> DEFINE a      == roots[r]
           stored == Stored(heap, a, k, native)
<1>1. /\ phase = "mutator" /\ request = {} /\ phase' = "mutator" /\ request' = {}
      /\ HasSlot(r, k) /\ InMutator
      /\ IF MustRemember(a, native)
         THEN heap' = Flagged(stored, a, REMEMBERED) ELSE heap' = stored
  BY DEF StoreBarriered, InMutator, collector, Stored, Flagged
<1>2. IInv
  BY <1>1 DEF GenInv
<1>3. a \in DOMAIN heap /\ k \in DOMAIN heap[a].slots
  BY <1>1, <1>2, SlotFacts
<1>4. IsHeap(heap) /\ native \in Refs
  BY <1>2 DEF IInv, TypeInv
<1> HIDE DEF a
<1>5. /\ IsHeap(stored) /\ DOMAIN stored = DOMAIN heap
      /\ \A x \in DOMAIN heap : /\ stored[x].word = heap[x].word
                                /\ stored[x].id = heap[x].id
                                /\ SizeOf(stored[x]) = SizeOf(heap[x])
                                /\ x # a => stored[x] = heap[x]
      /\ stored[a].slots = [heap[a].slots EXCEPT ![k] = native]
  BY <1>3, <1>4, StoredHeap
<1> HIDE DEF stored
<1>6. REMEMBERED \in 0 .. 255
  BY DEF REMEMBERED
<1>7. /\ IsHeap(heap') /\ DOMAIN heap' = DOMAIN heap
      /\ \A x \in DOMAIN heap : /\ SizeOf(heap'[x]) = SizeOf(heap[x])
                                /\ x # a => heap'[x] = heap[x]
      /\ heap'[a].slots = [heap[a].slots EXCEPT ![k] = native] /\ heap'[a].id = heap[a].id
      /\ HeaderKind(heap'[a].word) = HeaderKind(heap[a].word)
      /\ IF MustRemember(a, native) THEN GCByte(heap'[a].word) = REMEMBERED
                                    ELSE heap'[a].word = heap[a].word
  <2>1. CASE MustRemember(a, native)
    <3>1. /\ IsHeap(heap') /\ DOMAIN heap' = DOMAIN stored
          /\ \A x \in DOMAIN stored : /\ heap'[x].slots = stored[x].slots
                                      /\ SizeOf(heap'[x]) = SizeOf(stored[x])
                                      /\ x # a => heap'[x] = stored[x]
          /\ GCByte(heap'[a].word) = REMEMBERED /\ heap'[a].id = stored[a].id
          /\ HeaderKind(heap'[a].word) = HeaderKind(stored[a].word)
      <4>1. heap' = Flagged(stored, a, REMEMBERED) /\ a \in DOMAIN stored
        BY <1>1, <1>3, <1>5, <2>1
      <4>2. IsHeap(stored)
        BY <1>5
      <4>3. OnlyFlags(stored, heap', a, REMEMBERED)
        BY <1>6, <4>1, <4>2, FlaggedHeap
      <4> QED BY <4>3 DEF OnlyFlags
    <3> QED BY <1>3, <1>5, <2>1, <3>1
  <2>2. CASE ~MustRemember(a, native)
    BY <1>1, <1>3, <1>5, <2>2
  <2> QED BY <2>1, <2>2
<1> QED BY <1>3, <1>7 DEF a

LEMMA StoreBarrieredKeeps ==
  ASSUME GenInv, NEW r \in DOMAIN roots, NEW k, StoreBarriered(r, k)
  PROVE  GenInv'
<1> DEFINE a == roots[r]
<1>1. /\ phase = "mutator" /\ request = {} /\ phase' = "mutator" /\ request' = {}
      /\ roots' = roots /\ native' = native
      /\ UNCHANGED <<grey, forward, fresh, pending, scavenged>>
      /\ IF MustRemember(a, native) THEN remembered' = remembered \cup {a}
                                    ELSE remembered' = remembered
  BY DEF StoreBarriered, InMutator, collector
<1>2. IInv /\ Settled(heap, remembered) /\ forward = <<>> /\ pending = {} /\ grey = {} /\ fresh \in {0, 1}
  BY <1>1 DEF GenInv
<1>3. a \in DOMAIN heap /\ k \in DOMAIN heap[a].slots
  BY StoreBarrieredFacts
<1>4. /\ native \in Refs /\ native \in DOMAIN heap \cup {Null}
      /\ Linked(heap, roots) /\ roots \in Seq(Refs)
  BY <1>1, <1>2 DEF IInv, TypeInv, MutatorInv
<1>7. /\ IsHeap(heap') /\ DOMAIN heap' = DOMAIN heap
      /\ \A x \in DOMAIN heap : /\ SizeOf(heap'[x]) = SizeOf(heap[x])
                                /\ x # a => heap'[x] = heap[x]
      /\ heap'[a].slots = [heap[a].slots EXCEPT ![k] = native]
      /\ IF MustRemember(a, native) THEN GCByte(heap'[a].word) = REMEMBERED
                                    ELSE heap'[a].word = heap[a].word
  BY StoreBarrieredFacts
<1> HIDE DEF a
<1>8. Linked(heap', roots)
  <2>1. \A x \in DOMAIN heap : RefersInto(heap'[x], DOMAIN heap)
    BY <1>3, <1>4, <1>7 DEF Linked, RefersInto
  <2> QED BY <1>4, <1>7, <2>1 DEF Linked
<1>9. IInv'
  <2>1. TypeInv'
    BY <1>1, <1>2, <1>4, <1>7 DEF IInv, TypeInv
  <2>2. MutatorInv' /\ RequestInv'
    BY <1>1, <1>4, <1>7, <1>8 DEF MutatorInv, RequestInv
  <2> QED BY <1>1, <2>1, <2>2 DEF IInv
<1>10. Settled(heap, remembered)'
  <2>1. Placed(heap', {Evacuate, OldSpace})
    BY <1>2, <1>7, PlacedAlike DEF Settled
  <2>2. Evacuate' = Evacuate
    BY <1>1 DEF Evacuate
  <2>3. Remembers(heap, remembered)
    BY <1>2 DEF Settled
  <2>4. \A x \in DOMAIN heap \cap OldSpace : IsRemembered(heap', x) <=> x \in remembered'
    BY <1>1, <1>3, <1>7, <2>3 DEF IsRemembered, Remembers, MustRemember
  <2>5. remembered' \subseteq OldSpace /\ remembered' \subseteq DOMAIN heap
    BY <1>1, <1>3, <2>3 DEF Remembers, MustRemember
  <2>6. ASSUME NEW x \in DOMAIN heap \cap OldSpace, Edges(heap', x) \cap NewSpace # {}
        PROVE  x \in remembered'
    <3>1. CASE x # a
      <4>1. Edges(heap', x) = Edges(heap, x)
        BY <1>7, <3>1 DEF Edges
      <4> QED BY <1>1, <2>3, <2>6, <4>1 DEF Remembers
    <3>2. CASE x = a /\ native \in NewSpace
      BY <1>1, <2>3, <2>4, <3>2 DEF MustRemember, Remembers
    <3>3. CASE x = a /\ native \notin NewSpace
      <4>1. Edges(heap', a) \subseteq Edges(heap, a) \cup {native}
        BY <1>3, <1>7 DEF Edges, Range
      <4> QED BY <1>1, <2>3, <2>6, <3>3, <4>1 DEF Remembers
    <3> QED BY <3>1, <3>2, <3>3
  <2> QED BY <1>7, <2>1, <2>2, <2>4, <2>5, <2>6 DEF Settled, Remembers
<1> QED BY <1>1, <1>2, <1>9, <1>10 DEF GenInv

LEMMA GenProgramKeeps == ASSUME GenInv, GenProgram PROVE GenInv'
<1>1. CASE \E r \in DOMAIN roots, k \in UsedSlots : StoreBarriered(r, k)
  BY <1>1, StoreBarrieredKeeps
<1>2. ASSUME NEW kind \in Kinds, NEW length \in Length, Request(kind, length), UNCHANGED generational
      PROVE  GenInv'
  <2>1. /\ phase = "mutator" /\ phase' = "mutator" /\ heap' = heap /\ UNCHANGED <<grey, forward>>
        /\ UNCHANGED <<fresh, remembered, pending, scavenged>>
        /\ \A r \in request' : ~r.collected
    BY <1>2 DEF Request, InMutator, collector, generational
  <2>2. IInv'
    BY <1>2, <2>1, RequestKeeps DEF GenInv
  <2> QED BY <2>1, <2>2, QuietKeeps DEF GenInv
<1>3. ASSUME Program, heap' = heap, request' = request, UNCHANGED collector,
             InMutator, UNCHANGED generational
      PROVE  GenInv'
  <2>1. /\ phase = "mutator" /\ phase' = "mutator" /\ request' = {} /\ UNCHANGED <<grey, forward>>
        /\ UNCHANGED <<fresh, remembered, pending, scavenged>>
    BY <1>3 DEF InMutator, collector, generational
  <2>2. IInv'
    BY <1>3, <2>1, ProgramKeeps DEF GenInv
  <2> QED BY <1>3, <2>1, <2>2, QuietKeeps DEF GenInv
<1>4. ASSUME NEW ref \in {Null, native}, PushRoot(ref), UNCHANGED generational PROVE GenInv'
  <2>1. Program
    BY <1>4 DEF Program
  <2> QED BY <1>3, <1>4, <2>1 DEF PushRoot
<1>5. ASSUME PopRoot, UNCHANGED generational PROVE GenInv'
  <2>1. Program
    BY <1>5 DEF Program
  <2> QED BY <1>3, <1>5, <2>1 DEF PopRoot
<1>6. ASSUME NEW r \in DOMAIN roots, AssignRoot(r), UNCHANGED generational PROVE GenInv'
  <2>1. Program
    BY <1>6 DEF Program
  <2> QED BY <1>3, <1>6, <2>1 DEF AssignRoot
<1>7. ASSUME NEW r \in DOMAIN roots, GetRoot(r), UNCHANGED generational PROVE GenInv'
  <2>1. Program
    BY <1>7 DEF Program
  <2> QED BY <1>3, <1>7, <2>1 DEF GetRoot
<1>8. ASSUME NEW r \in DOMAIN roots, NEW k \in UsedSlots, Load(r, k), UNCHANGED generational
      PROVE  GenInv'
  <2>1. Program
    BY <1>8 DEF Program
  <2> QED BY <1>3, <1>8, <2>1 DEF Load
<1>9. RefLengths \subseteq Length /\ BinLengths \subseteq Length /\ REF \in Kinds /\ BIN \in Kinds
  BY HeapAssumption DEF Kinds
<1> QED BY <1>1, <1>2, <1>4, <1>5, <1>6, <1>7, <1>8, <1>9 DEF GenProgram

-----------------------------------------------------------------------------
(* Allocation.                                                             *)

LEMMA RequestSizes ==
  ASSUME IInv, NEW r \in request
  PROVE  RequestSize(r) \in Nat \ {0} /\ r.kind \in Kinds /\ r.length \in Length
<1>1. r.kind \in Kinds /\ r.length \in Length
  BY DEF IInv, TypeInv, IsRequest
<1> QED BY <1>1, SomeGranules, LayoutAssumption DEF Length, RequestSize

LEMMA GenAllocateFacts ==
  ASSUME GenInv, GenAllocate
  PROVE  \E r \in request, space \in {Evacuate, OldSpace} :
           /\ PlacedFor(r, native')
           /\ native' \in Address \ DOMAIN heap /\ Span(native', RequestSize(r)) \subseteq space
           /\ native' + RequestSize(r) <= HeapSize + 1
           /\ \A b \in DOMAIN heap : IF b < native' THEN b + SizeOf(heap[b]) <= native'
                                                    ELSE native' + RequestSize(r) <= b
<1>2. IInv /\ Settled(heap, remembered) /\ fresh \in {0, 1}
  BY DEF GenAllocate, GenInv
<1>3. PICK r \in request, space \in {Evacuate, OldSpace} :
        /\ Room(space, RequestSize(r)) # {}
        /\ native' = Min(Room(space, RequestSize(r)))
        /\ \E slots \in FreshSlots(r.kind, r.length) :
              heap' = Place(r, Min(Room(space, RequestSize(r))), slots)
  <2>1. PICK r \in request :
          LET room == IF Room(Evacuate, RequestSize(r)) # {} \/ ~r.collected
                      THEN Room(Evacuate, RequestSize(r))
                      ELSE Room(OldSpace, RequestSize(r))
          IN  /\ room # {} /\ native' = Min(room)
              /\ \E slots \in FreshSlots(r.kind, r.length) : heap' = Place(r, Min(room), slots)
    BY DEF GenAllocate
  <2>2. CASE Room(Evacuate, RequestSize(r)) # {} \/ ~r.collected
    BY <2>1, <2>2
  <2>3. CASE ~(Room(Evacuate, RequestSize(r)) # {} \/ ~r.collected)
    BY <2>1, <2>3
  <2> QED BY <2>2, <2>3
<1>4. PICK slots \in FreshSlots(r.kind, r.length) : heap' = Place(r, native', slots)
  BY <1>3
<1>5. RequestSize(r) \in Nat \ {0} /\ r.kind \in Kinds /\ r.length \in Length
  BY <1>2, RequestSizes
<1>6. IsHeap(heap) /\ Placed(heap, {Evacuate, OldSpace})
  BY <1>2 DEF IInv, TypeInv, Settled
<1>7. Placed(heap, {Evacuate, Survivor, OldSpace})
  BY <1>6 DEF Placed
<1>8. /\ native' \in Address \ DOMAIN heap /\ Span(native', RequestSize(r)) \subseteq space
      /\ native' + RequestSize(r) <= HeapSize + 1
      /\ \A b \in DOMAIN heap : IF b < native' THEN b + SizeOf(heap[b]) <= native'
                                               ELSE native' + RequestSize(r) <= b
  BY <1>2, <1>3, <1>5, <1>6, <1>7, RoomFacts
<1> QED BY <1>4, <1>5, <1>8 DEF PlacedFor

LEMMA GenAllocateKeeps == ASSUME GenInv, GenAllocate PROVE GenInv'
<1>1. /\ phase = "mutator" /\ phase' = "mutator" /\ request' = {} /\ roots' = roots
      /\ UNCHANGED <<grey, forward, fresh, remembered, pending>> /\ scavenged' = FALSE
  BY DEF GenAllocate, collector
<1>2. IInv /\ Settled(heap, remembered) /\ forward = <<>> /\ pending = {} /\ grey = {} /\ fresh \in {0, 1}
  BY <1>1 DEF GenInv
<1>3. PICK r \in request, space \in {Evacuate, OldSpace} :
        /\ PlacedFor(r, native')
        /\ native' \in Address \ DOMAIN heap /\ Span(native', RequestSize(r)) \subseteq space
        /\ native' + RequestSize(r) <= HeapSize + 1
        /\ \A b \in DOMAIN heap : IF b < native' THEN b + SizeOf(heap[b]) <= native'
                                                 ELSE native' + RequestSize(r) <= b
  BY GenAllocateFacts
<1>4. PICK slots \in FreshSlots(r.kind, r.length) : heap' = Place(r, native', slots)
  BY <1>3 DEF PlacedFor
<1>5. r.kind \in Kinds /\ r.length \in Length
  BY <1>3 DEF PlacedFor
<1>6. Placed(heap, {Evacuate, OldSpace}) /\ Remembers(heap, remembered)
  BY <1>2 DEF Settled
<1>8. /\ native' \in Address \ DOMAIN heap /\ Span(native', RequestSize(r)) \subseteq space
      /\ native' + RequestSize(r) <= HeapSize + 1
      /\ \A b \in DOMAIN heap : IF b < native' THEN b + SizeOf(heap[b]) <= native'
                                               ELSE native' + RequestSize(r) <= b
  BY <1>3
<1>9. /\ IInv'
      /\ DOMAIN heap' = DOMAIN heap \cup {native'} /\ \A x \in DOMAIN heap : heap'[x] = heap[x]
      /\ SizeOf(heap'[native']) = RequestSize(r)
      /\ heap'[native'].word = InitializedWord(r.kind, r.length)
      /\ RefersInto(heap'[native'], {})
  BY <1>1, <1>2, <1>4, <1>8, PlaceKeeps DEF RequestSize
<1>10. Placed(heap', {Evacuate, OldSpace})
  <2>1. Extent(heap', native') \subseteq space
    BY <1>8, <1>9 DEF Extent
  <2>2. \A x \in DOMAIN heap : Extent(heap', x) = Extent(heap, x)
    BY <1>9 DEF Extent
  <2> QED BY <1>6, <1>9, <2>1, <2>2 DEF Placed
<1>11. Remembers(heap', remembered)
  <2>1. ~IsRemembered(heap', native')
    BY <1>5, <1>9, NoFlagsAtFirst DEF IsRemembered, REMEMBERED
  <2>2. Edges(heap', native') = {}
    BY <1>9, EdgesInto
  <2>3. \A x \in DOMAIN heap : /\ IsRemembered(heap', x) <=> IsRemembered(heap, x)
                               /\ Edges(heap', x) = Edges(heap, x)
    BY <1>9 DEF IsRemembered, Edges
  <2> QED BY <1>6, <1>9, <2>1, <2>2, <2>3 DEF Remembers
<1>12. Settled(heap, remembered)'
  BY <1>1, <1>10, <1>11 DEF Settled, Evacuate, Placed, Remembers
<1> QED BY <1>1, <1>2, <1>9, <1>12 DEF GenInv

LEMMA GenAllocationFailsKeeps == ASSUME GenInv, GenAllocationFails PROVE GenInv'
<1>1. /\ phase = "mutator" /\ phase' = "mutator" /\ request' = {} /\ heap' = heap
      /\ roots' = roots /\ native' = native /\ scavenged' = FALSE
      /\ UNCHANGED <<grey, forward, fresh, remembered, pending>>
  BY DEF GenAllocationFails, collector
<1>2. IInv
  BY <1>1 DEF GenInv
<1>3. IInv'
  BY <1>1, <1>2 DEF IInv, TypeInv, MutatorInv, RequestInv
<1> QED BY <1>1, <1>3, QuietKeeps

-----------------------------------------------------------------------------
(* The global collection.                                                  *)

LEMMA StartGlobalKeeps == ASSUME GenInv, StartGlobal PROVE GenInv'
<1>1. /\ StartCollection /\ scavenged /\ phase = "mutator" /\ phase' = "mark" /\ heap' = heap
      /\ UNCHANGED <<forward, fresh, remembered, pending, scavenged>>
  BY DEF StartGlobal, GlobalInstead, Percolates, TimeForGlobalKickoff, StartCollection,
         generational
<1>2. IInv /\ Settled(heap, remembered) /\ forward = <<>> /\ pending = {} /\ fresh \in {0, 1}
  BY <1>1 DEF GenInv
<1>3. IInv'
  BY <1>1, <1>2, StartCollectionKeeps
<1>4. Settled(heap, remembered)'
  BY <1>1, <1>2 DEF Settled, Placed, Remembers, Evacuate
<1> QED BY <1>1, <1>2, <1>3, <1>4 DEF GenInv

LEMMA MarkGlobalKeeps == ASSUME GenInv, MarkGlobal PROVE GenInv'
<1>1. /\ Mark /\ phase = "mark" /\ phase' = "mark" /\ heap' = heap /\ request' = request
      /\ UNCHANGED <<forward, fresh, remembered, pending, scavenged>>
  BY DEF MarkGlobal, Mark, generational, mutator
<1>2. IInv /\ Settled(heap, remembered) /\ forward = <<>> /\ pending = {} /\ fresh \in {0, 1}
  BY <1>1 DEF GenInv
<1>3. IInv'
  BY <1>1, <1>2, MarkKeeps
<1>4. Settled(heap, remembered)'
  BY <1>1, <1>2 DEF Settled, Placed, Remembers, Evacuate
<1> QED BY <1>1, <1>2, <1>3, <1>4 DEF GenInv

LEMMA SweepGlobalKeeps == ASSUME GenInv, SweepGlobal PROVE GenInv'
<1>1. /\ Sweep /\ phase = "mark" /\ grey = {} /\ heap' = Restrict(heap, marked)
      /\ remembered' = remembered \cap marked /\ request' = request /\ grey' = grey
      /\ UNCHANGED <<fresh, pending, scavenged>>
      /\ phase' = "mutator" /\ forward' = forward
  BY ScavengeAssumption DEF SweepGlobal, Sweep, Compacts, CompactionPrevented
<1>2. IInv /\ Settled(heap, remembered) /\ forward = <<>> /\ pending = {} /\ fresh \in {0, 1}
  BY <1>1 DEF GenInv
<1>3. IInv'
  BY <1>1, <1>2, SweepKeeps
<1>4. IsHeap(heap) /\ marked \in SUBSET DOMAIN heap
  BY <1>1, <1>2, ReachableFacts DEF IInv, TypeInv, MarkInv
<1>5. DOMAIN heap' = marked /\ \A a \in marked : heap'[a] = heap[a]
  BY <1>1, <1>4, RestrictedHeap
<1>6. Placed(heap', {Evacuate, OldSpace})
  BY <1>2, <1>4, <1>5, PlacedAlike DEF Settled
<1>7. Remembers(heap', remembered')
  <2>1. \A x \in marked : /\ IsRemembered(heap', x) <=> IsRemembered(heap, x)
                          /\ Edges(heap', x) = Edges(heap, x)
    BY <1>5 DEF IsRemembered, Edges
  <2> QED BY <1>1, <1>2, <1>4, <1>5, <2>1 DEF Settled, Remembers
<1>8. Settled(heap, remembered)'
  BY <1>1, <1>6, <1>7 DEF Settled, Evacuate, Placed, Remembers
<1> QED BY <1>1, <1>2, <1>3, <1>8 DEF GenInv

-----------------------------------------------------------------------------
(* A scavenge begins.                                                      *)

LEMMA StartScavengeKeeps == ASSUME GenInv, StartScavenge PROVE GenInv'
<1>1. /\ phase = "mutator" /\ ~scavenged /\ request # {}
      /\ phase' = "scavenge" /\ scavenged' = TRUE /\ pending' = ScavengeRoots
      /\ stopped' = [heap |-> heap, roots |-> roots]
      /\ heap' = heap /\ roots' = roots /\ native' = native /\ request' = request
      /\ UNCHANGED <<grey, forward, fresh, remembered>>
  BY DEF StartScavenge, mutator
<1>2. /\ IInv /\ Settled(heap, remembered) /\ forward = <<>> /\ grey = {} /\ fresh \in {0, 1}
      /\ \A r \in request : ~r.collected
  BY <1>1 DEF GenInv
<1>3. /\ IsHeap(heap) /\ roots \in Seq(Refs) /\ Linked(heap, roots) /\ native = Null
      /\ \A r \in request : IsRequest(r)
      /\ \A r, s \in request : r = s
  BY <1>1, <1>2 DEF IInv, TypeInv, MutatorInv, RequestInv
<1>4. Before' = heap /\ RootsBefore' = roots
  BY <1>1 DEF Before, RootsBefore
<1>5. StoppedInv'
  BY <1>1, <1>2, <1>3, <1>4 DEF StoppedInv, Settled, Placed, Remembers, Evacuate
<1>6. DOMAIN forward = {} /\ Range(forward) = {} /\ IsMemory(forward)
  BY <1>2 DEF Range, IsMemory
<1>7. remembered \subseteq DOMAIN heap
  BY <1>2 DEF Settled, Remembers
<1>8. CopyInv'
  <2>1. \A a \in DOMAIN heap : SameButSlots(heap[a], heap[a]) /\ SameButAge(heap[a], heap[a])
    BY <1>3 DEF SameButSlots, SameButAge, IsHeap
  <2>2. IsMemory(heap)
    BY <1>3 DEF IsHeap, IsMemory
  <2> QED BY <1>1, <1>3, <1>4, <1>6, <1>7, <2>1, <2>2 DEF CopyInv, Copies
<1>9. /\ Evacuate' = Evacuate /\ Survivor' = Survivor
      /\ Elsewhere(heap)' = Elsewhere(heap)
  BY <1>1 DEF Evacuate, Survivor, Elsewhere
<1>10. IsHeap(Elsewhere(heap)) /\ Placed(Elsewhere(heap), {Survivor, OldSpace})
  <2>1. /\ IsHeap(Elsewhere(heap)) /\ DOMAIN Elsewhere(heap) = DOMAIN heap \ Evacuate
        /\ \A a \in DOMAIN heap \ Evacuate : Elsewhere(heap)[a] = heap[a]
    BY <1>3, RestrictedHeap DEF Elsewhere
  <2>2. ASSUME NEW a \in DOMAIN heap \ Evacuate PROVE Extent(heap, a) \subseteq OldSpace
    BY <1>2, <1>3, PlacedFacts DEF Settled
  <2>3. \A a \in DOMAIN heap \ Evacuate : Extent(Elsewhere(heap), a) = Extent(heap, a)
    BY <2>1 DEF Extent
  <2> QED BY <2>1, <2>2, <2>3 DEF Placed
<1>11. \A x, a : Scanned(forward, x, a) <=> x = a /\ a \in remembered
  BY <1>6 DEF Scanned
<1>12. ScavengeRoots = ({0} \X DOMAIN roots) \cup UNION {SlotsOf(heap, a) : a \in remembered}
  BY DEF ScavengeRoots, RootSlots, IndirectReferents
<1>13. \A slot \in ScavengeRoots :
         \/ slot \in {0} \X DOMAIN roots
         \/ \E x, a \in DOMAIN heap : Scanned(forward, x, a) /\ slot \in {x} \X DOMAIN heap[x].slots
  BY <1>7, <1>11, <1>12 DEF SlotsOf, Shown
<1>14. \A k \in DOMAIN roots : <<0, k>> \in ScavengeRoots
  BY <1>12
<1>15. ASSUME NEW x \in remembered, NEW k \in DOMAIN heap[x].slots, <<x, k>> \notin ScavengeRoots
       PROVE  Redirected(forward, heap[x].slots[k], heap[x].slots[k])
  <2>1. <<x, k>> \notin SlotsOf(heap, x)
    BY <1>12, <1>15
  <2>2. heap[x].slots[k] = Null
    BY <2>1 DEF SlotsOf, Shown
  <2> QED BY <1>2, <2>2, SpaceFacts DEF Redirected
<1>16. ScavengeInv'
  <2>1. pending' = ScavengeRoots /\ heap' = heap /\ roots' = roots /\ forward' = forward
    BY <1>1
  <2>2. \A x, a : Scanned(forward, x, a)' <=> x = a /\ a \in remembered
    BY <1>1, <1>11 DEF Scanned
  <2>3. \A ref, held : Redirected(forward, ref, held)' <=> Redirected(forward, ref, held)
    BY <1>1, <1>9 DEF Redirected
  <2>4. IsHeap(Elsewhere(heap))' /\ Placed(Elsewhere(heap), {Survivor, OldSpace})'
    BY <1>9, <1>10 DEF Placed
  <2>5. \A slot \in pending' :
          \/ slot \in {0} \X DOMAIN roots'
          \/ \E x, a \in DOMAIN heap' :
                Scanned(forward, x, a)' /\ slot \in {x} \X DOMAIN heap'[x].slots
    BY <1>11, <1>13, <2>1, <2>2
  <2>6. \A k \in DOMAIN roots' :
          IF <<0, k>> \in pending' THEN roots'[k] = RootsBefore'[k]
                                   ELSE Redirected(forward, roots[k], RootsBefore[k])'
    BY <1>4, <1>14, <2>1
  <2>7. \A x, a \in DOMAIN heap' : Scanned(forward, x, a)' =>
          \A k \in DOMAIN heap'[x].slots :
            IF <<x, k>> \in pending' THEN heap'[x].slots[k] = Before'[a].slots[k]
                                     ELSE Redirected(forward, heap[x].slots[k], Before[a].slots[k])'
    BY <1>4, <1>15, <2>1, <2>2, <2>3
  <2> QED BY <1>6, <2>1, <2>4, <2>5, <2>6, <2>7 DEF ScavengeInv, Scavenging
<1> QED BY <1>1, <1>2, <1>5, <1>8, <1>16 DEF GenInv

-----------------------------------------------------------------------------
(* A scavenge goes on.                                                     *)

\* What is scanned are arrays in memory outside of the half that is evacuated,
\* each for one original.
LEMMA ScannedFacts ==
  ASSUME fresh \in {0, 1}, StoppedInv, NEW memory, NEW list, NEW copyOf,
         Copies(memory, list, copyOf), NEW x, NEW a, Scanned(copyOf, x, a)
  PROVE  /\ x \in DOMAIN memory \ Evacuate /\ a \in DOMAIN Before /\ x \in Address
         /\ SameButSlots(memory[x], Before[a]) /\ IsArray(Before[a])
         /\ \A b : Scanned(copyOf, x, b) => b = a
<1>1. remembered \subseteq DOMAIN Before \cap OldSpace /\ IsHeap(Before)
  BY DEF StoppedInv, Settled, Remembers
<1>2. IsArray(Before[a])  /\ a \in DOMAIN Before
  BY <1>1 DEF Scanned, Copies, IsHeap
<1>3. CASE x = a /\ a \in remembered
  <2>1. x \notin Range(copyOf)
    BY <1>1, <1>3 DEF Copies
  <2> QED BY <1>1, <1>2, <1>3, <2>1, SpaceFacts DEF Scanned, Copies, Range
<1>4. CASE a \in DOMAIN copyOf /\ x = copyOf[a]
  <2>1. x \in Range(copyOf)
    BY <1>4 DEF Range
  <2>2. x \in Survivor \cup OldSpace /\ x \notin DOMAIN Before /\ x \notin remembered
    BY <1>1, <2>1 DEF Copies
  <2> QED BY <1>2, <1>4, <2>1, <2>2, SpaceFacts DEF Scanned, Copies
<1> QED BY <1>3, <1>4 DEF Scanned

\* Old arrays that are not scanned are left alone.
LEMMA OldUntouched ==
  ASSUME fresh \in {0, 1}, StoppedInv, NEW memory, NEW list, NEW copyOf,
         Copies(memory, list, copyOf), NEW a \in (DOMAIN Before \cap OldSpace) \ remembered
  PROVE  memory[a] = Before[a]
<1>1. a \notin DOMAIN copyOf
  BY SpaceFacts DEF Copies
<1>2. SameButAge(memory[a], Before[a]) /\ memory[a].word = Before[a].word
  BY <1>1 DEF Copies
<1>3. IsArray(Before[a])
  BY DEF StoppedInv, IsHeap
<1> QED BY <1>2, <1>3, SameIfWord

\* A slot that is still to be dealt with holds what it did, which survives.
LEMMA PendingFacts ==
  ASSUME fresh \in {0, 1}, StoppedInv, CopyInv, ScavengeInv, NEW slot \in pending
  PROVE  /\ Referent(slot) \in Surviving \cup {Null}
         /\ \/ \E k \in DOMAIN roots : slot = <<0, k>> /\ Referent(slot) = RootsBefore[k]
            \/ \E x, a \in DOMAIN heap : \E k \in DOMAIN heap[x].slots :
                 /\ Scanned(forward, x, a) /\ slot = <<x, k>> /\ x # 0
                 /\ Referent(slot) = Before[a].slots[k]
<1>1. /\ Surviving \subseteq DOMAIN Before
      /\ (Range(RootsBefore) \cup OldBefore) \cap DOMAIN Before \subseteq Surviving
      /\ Closed(Before, Surviving)
  BY ReachableFacts DEF Surviving
<1>2. Linked(Before, RootsBefore) /\ remembered \subseteq DOMAIN Before \cap OldSpace
  BY DEF StoppedInv, Settled, Remembers
<1>3. CASE slot \in {0} \X DOMAIN roots
  <2>1. PICK k \in DOMAIN roots : slot = <<0, k>>
    BY <1>3
  <2>2. Referent(slot) = roots[k] /\ roots[k] = RootsBefore[k]
    BY <2>1 DEF Referent, ScavengeInv, Scavenging
  <2>3. k \in DOMAIN RootsBefore
    BY DEF CopyInv, Copies
  <2>4. RootsBefore[k] \in DOMAIN Before \cup {Null} /\ RootsBefore[k] \in Range(RootsBefore)
    BY <1>2, <2>3 DEF Linked, RootsInto, Range
  <2> QED BY <1>1, <2>1, <2>2, <2>4
<1>4. CASE slot \notin {0} \X DOMAIN roots
  <2>1. PICK x \in DOMAIN heap, a \in DOMAIN heap :
          Scanned(forward, x, a) /\ slot \in {x} \X DOMAIN heap[x].slots
    BY <1>4 DEF ScavengeInv, Scavenging
  <2>2. PICK k \in DOMAIN heap[x].slots : slot = <<x, k>>
    BY <2>1
  <2>3. heap[x].slots[k] = Before[a].slots[k]
    BY <2>1, <2>2 DEF ScavengeInv, Scavenging
  <2>4. x \in Address /\ a \in DOMAIN Before /\ SameButSlots(heap[x], Before[a])
    BY <2>1, ScannedFacts DEF CopyInv
  <2>5. x # 0
    BY <2>4, SpaceFacts DEF Null
  <2>6. Referent(slot) = Before[a].slots[k]
    BY <2>2, <2>3, <2>5 DEF Referent
  <2>7. a \in Surviving
    BY <1>1, <1>2, <2>1 DEF Scanned, ScavengeInv, Scavenging, OldBefore
  <2>8. k \in DOMAIN Before[a].slots
    BY <2>4 DEF SameButSlots
  <2>9. Before[a].slots[k] \in DOMAIN Before \cup {Null}
    BY <1>2, <2>4, <2>8 DEF Linked, RefersInto
  <2>10. Before[a].slots[k] # Null => Before[a].slots[k] \in Edges(Before, a)
    BY <2>8 DEF Edges, Range
  <2>11. Before[a].slots[k] \in Surviving \cup {Null}
    BY <1>1, <2>7, <2>9, <2>10 DEF Closed
  <2> QED BY <2>1, <2>2, <2>5, <2>6, <2>11
<1> QED BY <1>3, <1>4

\* A slot needs no redirection.
LEMMA Skipping ==
  ASSUME NEW memory, NEW list, NEW copyOf, NEW slots, Scavenging(memory, list, copyOf, slots),
         NEW slot \in slots,
         \A k \in DOMAIN list : slot = <<0, k>> => list[k] \notin Evacuate,
         \A x \in DOMAIN memory : \A k \in DOMAIN memory[x].slots :
            slot = <<x, k>> => memory[x].slots[k] \notin Evacuate
  PROVE  Scavenging(memory, list, copyOf, slots \ {slot})
<1>1. \A k \in DOMAIN list :
        IF <<0, k>> \in slots \ {slot} THEN list[k] = RootsBefore[k]
                                       ELSE Redirected(copyOf, list[k], RootsBefore[k])
  BY DEF Scavenging, Redirected
<1>2. \A x, a \in DOMAIN memory : Scanned(copyOf, x, a) =>
        \A k \in DOMAIN memory[x].slots :
          IF <<x, k>> \in slots \ {slot}
          THEN memory[x].slots[k] = Before[a].slots[k]
          ELSE Redirected(copyOf, memory[x].slots[k], Before[a].slots[k])
  BY DEF Scavenging, Redirected
<1> QED BY <1>1, <1>2 DEF Scavenging

\* A slot of a StackRoot is redirected.
LEMMA RedirectingRoot ==
  ASSUME fresh \in {0, 1}, NEW memory, NEW list, NEW copyOf, NEW slots, Copies(memory, list, copyOf),
         Scavenging(memory, list, copyOf, slots), 0 \notin DOMAIN memory,
         NEW j \in DOMAIN list, <<0, j>> \in slots, list[j] \in DOMAIN copyOf
  PROVE  LET redirected == [list EXCEPT ![j] = copyOf[list[j]]]
         IN  /\ Copies(memory, redirected, copyOf)
             /\ Scavenging(memory, redirected, copyOf, slots \ {<<0, j>>})
<1> DEFINE redirected == [list EXCEPT ![j] = copyOf[list[j]]]
<1>1. copyOf[list[j]] \in Refs
  <2>1. copyOf[list[j]] \in Survivor \cup OldSpace
    BY DEF Copies, Range
  <2> QED BY <2>1, SpaceFacts DEF Refs
<1>2. redirected \in Seq(Refs) /\ DOMAIN redirected = DOMAIN list
  BY <1>1 DEF Copies
<1>3. redirected[j] = copyOf[list[j]] /\ \A k \in DOMAIN list \ {j} : redirected[k] = list[k]
  BY <1>2
<1>4. list[j] = RootsBefore[j] /\ list[j] \in Evacuate
  BY DEF Scavenging, Copies
<1> HIDE DEF redirected
<1>5. Copies(memory, redirected, copyOf)
  BY <1>2 DEF Copies
<1>6. \A k \in DOMAIN redirected :
        IF <<0, k>> \in slots \ {<<0, j>>} THEN redirected[k] = RootsBefore[k]
                                           ELSE Redirected(copyOf, redirected[k], RootsBefore[k])
  BY <1>2, <1>3, <1>4 DEF Scavenging, Redirected
<1>7. Scavenging(memory, redirected, copyOf, slots \ {<<0, j>>})
  BY <1>2, <1>6 DEF Scavenging
<1> QED BY <1>5, <1>7 DEF redirected


LEMMA ElsewhereFacts ==
  ASSUME NEW memory
  PROVE  /\ IsMemory(Elsewhere(memory)) /\ DOMAIN Elsewhere(memory) = DOMAIN memory \ Evacuate
         /\ \A a \in DOMAIN memory \ Evacuate : Elsewhere(memory)[a] = memory[a]
BY DEF Elsewhere, Restrict, IsMemory

\* Arrays of the same sizes at the same places are a heap if one is.
LEMMA AlikeHeap ==
  ASSUME NEW memory, IsHeap(memory), NEW other, IsMemory(other), DOMAIN other \subseteq DOMAIN memory,
         \A a \in DOMAIN other : IsArray(other[a]) /\ SizeOf(other[a]) = SizeOf(memory[a])
  PROVE  IsHeap(other)
<1>1. other = [a \in DOMAIN other |-> other[a]]
  BY DEF IsMemory
<1>2. \A a \in DOMAIN other : a \in Address /\ a + SizeOf(other[a]) <= HeapSize + 1
  BY DEF IsHeap
<1>3. \A a, b \in DOMAIN other : a < b => a + SizeOf(other[a]) <= b
  BY DEF IsHeap
<1> QED BY <1>1, <1>2, <1>3 DEF IsHeap

\* A slot of an array is redirected.
LEMMA RedirectingSlot ==
  ASSUME fresh \in {0, 1}, StoppedInv, NEW memory, NEW list, NEW copyOf, NEW slots,
         Copies(memory, list, copyOf), Scavenging(memory, list, copyOf, slots),
         NEW x, NEW a, Scanned(copyOf, x, a), NEW j \in DOMAIN memory[x].slots,
         <<x, j>> \in slots, memory[x].slots[j] \in DOMAIN copyOf
  PROVE  LET redirected == Stored(memory, x, j, copyOf[memory[x].slots[j]])
         IN  /\ Copies(redirected, list, copyOf)
             /\ Scavenging(redirected, list, copyOf, slots \ {<<x, j>>})
<1> DEFINE ref        == copyOf[memory[x].slots[j]]
           redirected == Stored(memory, x, j, ref)
<1>1. /\ x \in DOMAIN memory \ Evacuate /\ a \in DOMAIN Before /\ SameButSlots(memory[x], Before[a])
      /\ \A b : Scanned(copyOf, x, b) => b = a
  BY ScannedFacts
<1>2. ref \in Refs
  <2>1. ref \in Survivor \cup OldSpace
    BY DEF Copies, Range
  <2> QED BY <2>1, SpaceFacts DEF Refs
<1>3. /\ IsMemory(redirected) /\ DOMAIN redirected = DOMAIN memory
      /\ \A y \in DOMAIN memory \ {x} : redirected[y] = memory[y]
      /\ IsArray(redirected[x]) /\ SizeOf(redirected[x]) = SizeOf(memory[x])
      /\ redirected[x].word = memory[x].word /\ redirected[x].id = memory[x].id
      /\ redirected[x].slots = [memory[x].slots EXCEPT ![j] = ref]
  <2>1. IsMemory(memory) /\ IsArray(memory[x])
    BY <1>1 DEF Copies, SameButSlots
  <2> QED BY <1>1, <1>2, <2>1, SlotStored
<1> HIDE DEF redirected
<1>4. DOMAIN redirected[x].slots = DOMAIN memory[x].slots
  BY <1>3
<1>5. SameButSlots(redirected[x], Before[a])
  BY <1>1, <1>3, <1>4 DEF SameButSlots
<1>6. Copies(redirected, list, copyOf)
  <2>1. x \notin DOMAIN Before \ remembered
    BY DEF Scanned, Copies, Range
  <2>2. remembered \subseteq DOMAIN Before
    BY DEF StoppedInv, Settled, Remembers
  <2>3. \A b \in DOMAIN Before \ remembered : redirected[b] = memory[b]
    BY <1>3, <2>1 DEF Copies
  <2>4. \A b \in remembered : SameButSlots(redirected[b], Before[b])
    <3>1. ASSUME NEW b \in remembered PROVE SameButSlots(redirected[b], Before[b])
      <4>1. CASE b = x
        BY <1>1, <1>5, <3>1, <4>1 DEF Scanned
      <4>2. CASE b # x
        BY <1>3, <2>2, <4>2 DEF Copies
      <4> QED BY <4>1, <4>2
    <3> QED BY <3>1
  <2>5. \A b \in DOMAIN copyOf : SameButSlots(redirected[copyOf[b]], Before[b])
    <3>1. ASSUME NEW b \in DOMAIN copyOf PROVE SameButSlots(redirected[copyOf[b]], Before[b])
      <4>1. CASE copyOf[b] = x
        BY <1>1, <1>5, <3>1, <4>1 DEF Scanned
      <4>2. CASE copyOf[b] # x
        BY <1>3, <4>2 DEF Copies, Range
      <4> QED BY <4>1, <4>2
    <3> QED BY <3>1
  <2>6. \A b \in DOMAIN Before \cap OldSpace : redirected[b].word = Before[b].word
    <3>1. \A b \in DOMAIN memory : redirected[b].word = memory[b].word
      BY <1>3
    <3> QED BY <3>1 DEF Copies
  <2> QED BY <1>3, <2>3, <2>4, <2>5, <2>6 DEF Copies
<1>7. IsHeap(Elsewhere(redirected)) /\ Placed(Elsewhere(redirected), {Survivor, OldSpace})
  <2>1. /\ IsMemory(Elsewhere(redirected))
        /\ DOMAIN Elsewhere(redirected) = DOMAIN Elsewhere(memory)
        /\ x \in DOMAIN Elsewhere(memory)
        /\ \A y \in DOMAIN Elsewhere(memory) :
             Elsewhere(redirected)[y] = redirected[y] /\ Elsewhere(memory)[y] = memory[y]
    <3>1. /\ DOMAIN Elsewhere(memory) = DOMAIN memory \ Evacuate
          /\ \A y \in DOMAIN memory \ Evacuate : Elsewhere(memory)[y] = memory[y]
      BY ElsewhereFacts
    <3>2. /\ IsMemory(Elsewhere(redirected)) /\ DOMAIN Elsewhere(redirected) = DOMAIN redirected \ Evacuate
          /\ \A y \in DOMAIN redirected \ Evacuate : Elsewhere(redirected)[y] = redirected[y]
      BY ElsewhereFacts
    <3> QED BY <1>1, <1>3, <3>1, <3>2
  <2>2. IsHeap(Elsewhere(memory)) /\ Placed(Elsewhere(memory), {Survivor, OldSpace})
    BY DEF Scavenging
  <2>3. \A y \in DOMAIN Elsewhere(memory) :
          /\ IsArray(Elsewhere(redirected)[y])
          /\ SizeOf(Elsewhere(redirected)[y]) = SizeOf(Elsewhere(memory)[y])
    <3>1. ASSUME NEW y \in DOMAIN Elsewhere(memory)
          PROVE  /\ IsArray(Elsewhere(redirected)[y])
                 /\ SizeOf(Elsewhere(redirected)[y]) = SizeOf(Elsewhere(memory)[y])
      <4>1. y \in DOMAIN memory /\ IsArray(Elsewhere(memory)[y])
        BY <2>2, ElsewhereFacts DEF IsHeap
      <4> QED BY <1>3, <2>1, <4>1
    <3> QED BY <3>1
  <2>4. IsHeap(Elsewhere(redirected))
    BY <2>1, <2>2, <2>3, AlikeHeap
  <2>5. Placed(Elsewhere(redirected), {Survivor, OldSpace})
    BY <2>1, <2>2, <2>3, PlacedAlike
  <2> QED BY <2>4, <2>5
<1>8. \A y \in DOMAIN memory : DOMAIN redirected[y].slots = DOMAIN memory[y].slots
  BY <1>3, <1>4
<1>9. \A slot \in slots \ {<<x, j>>} :
         \/ slot \in {0} \X DOMAIN list
         \/ \E y, b \in DOMAIN redirected :
               Scanned(copyOf, y, b) /\ slot \in {y} \X DOMAIN redirected[y].slots
  BY <1>3, <1>8 DEF Scavenging
<1>10. \A k \in DOMAIN list :
         IF <<0, k>> \in slots \ {<<x, j>>} THEN list[k] = RootsBefore[k]
                                            ELSE Redirected(copyOf, list[k], RootsBefore[k])
  <2>1. x # 0
    BY ScannedFacts, SpaceFacts DEF Null
  <2> QED BY <2>1 DEF Scavenging
<1>11. ASSUME NEW y \in DOMAIN memory, NEW b \in DOMAIN memory, Scanned(copyOf, y, b),
              NEW k \in DOMAIN memory[y].slots
       PROVE  IF <<y, k>> \in slots \ {<<x, j>>}
              THEN redirected[y].slots[k] = Before[b].slots[k]
              ELSE Redirected(copyOf, redirected[y].slots[k], Before[b].slots[k])
  <2>1. IF <<y, k>> \in slots THEN memory[y].slots[k] = Before[b].slots[k]
                              ELSE Redirected(copyOf, memory[y].slots[k], Before[b].slots[k])
    BY <1>11 DEF Scavenging
  <2>2. CASE y = x /\ k = j
    <3>1. b = a /\ redirected[y].slots[k] = ref /\ memory[y].slots[k] = Before[b].slots[k]
      BY <1>1, <1>3, <1>11, <2>1, <2>2
    <3>2. Before[b].slots[k] \in DOMAIN copyOf /\ ref = copyOf[Before[b].slots[k]]
      BY <2>2, <3>1
    <3>3. Before[b].slots[k] \in Evacuate
      BY <3>2 DEF Copies
    <3> QED BY <2>2, <3>1, <3>2, <3>3 DEF Redirected
  <2>3. CASE ~(y = x /\ k = j)
    <3>1. redirected[y].slots[k] = memory[y].slots[k]
      BY <1>3, <1>11, <2>3
    <3>2. <<y, k>> \in slots \ {<<x, j>>} <=> <<y, k>> \in slots
      BY <2>3
    <3> QED BY <2>1, <3>1, <3>2
  <2> QED BY <2>2, <2>3
<1>12. Scavenging(redirected, list, copyOf, slots \ {<<x, j>>})
  BY <1>3, <1>7, <1>8, <1>9, <1>10, <1>11 DEF Scavenging
<1> QED BY <1>6, <1>12 DEF redirected


\* Memory with a copy of an array, and the forwarding pointers with the one to it.
WithCopy(memory, a, to, flags) ==
    [x \in DOMAIN memory \cup {to} |->
        IF x = to THEN [memory[a] EXCEPT !.word = WithGCByte(@, flags)]
        ELSE IF x = a THEN [memory[a] EXCEPT !.word = FORWARDED] ELSE memory[x]]
WithPointer(copyOf, a, to) == [x \in DOMAIN copyOf \cup {a} |-> IF x = a THEN to ELSE copyOf[x]]

\* Memory in which there is room for a copy.
Fits(memory, to, size) ==
    /\ to \in Address \ DOMAIN memory /\ to + size <= HeapSize + 1
    /\ \E space \in {Survivor, OldSpace} : to \in space /\ Span(to, size) \subseteq space
    /\ \A b \in DOMAIN memory : IF b < to THEN b + SizeOf(memory[b]) <= to ELSE to + size <= b

\* What there is room for is added to memory.
LEMMA HeapWithCopy ==
  ASSUME NEW memory, IsHeap(memory), Placed(memory, {Survivor, OldSpace}),
         NEW to, NEW x, IsArray(x), Fits(memory, to, SizeOf(x)),
         NEW copy, IsMemory(copy), DOMAIN copy = DOMAIN memory \cup {to}, copy[to] = x,
         \A b \in DOMAIN memory : copy[b] = memory[b]
  PROVE  IsHeap(copy) /\ Placed(copy, {Survivor, OldSpace})
<1>1. copy = [b \in DOMAIN copy |-> copy[b]]
  BY DEF IsMemory
<1>2. /\ to \in Address /\ to + SizeOf(x) <= HeapSize + 1
      /\ \A b \in DOMAIN memory : IF b < to THEN b + SizeOf(memory[b]) <= to ELSE to + SizeOf(x) <= b
  BY DEF Fits
<1>3. \A b \in DOMAIN copy : b \in Address /\ IsArray(copy[b]) /\ b + SizeOf(copy[b]) <= HeapSize + 1
  BY <1>2 DEF IsHeap
<1>4. ASSUME NEW b \in DOMAIN copy, NEW c \in DOMAIN copy, b < c
      PROVE  b + SizeOf(copy[b]) <= c
  <2>1. ~(b = to /\ c = to)
    BY <1>2, <1>4, AddressFacts
  <2>2. CASE b = to /\ c # to
    <3>1. c \in DOMAIN memory /\ copy[b] = x /\ ~(c < to)
      BY <1>2, <1>3, <1>4, <2>2, AddressFacts
    <3> QED BY <1>2, <2>2, <3>1
  <2>3. CASE b # to /\ c = to
    BY <1>2, <1>4, <2>3
  <2>4. CASE b # to /\ c # to
    BY <1>4, <2>4 DEF IsHeap
  <2> QED BY <2>1, <2>2, <2>3, <2>4
<1>5. IsHeap(copy)
  BY <1>1, <1>3, <1>4 DEF IsHeap
<1>6. \E space \in {Survivor, OldSpace} : Extent(copy, to) \subseteq space
  BY DEF Fits, Extent
<1>7. \A b \in DOMAIN memory : Extent(copy, b) = Extent(memory, b)
  BY DEF Extent
<1> QED BY <1>5, <1>6, <1>7 DEF Placed

\* An array is copied.
LEMMA Copying ==
  ASSUME fresh \in {0, 1}, StoppedInv, NEW memory, NEW list, NEW copyOf, NEW slots,
         Copies(memory, list, copyOf), Scavenging(memory, list, copyOf, slots),
         NEW a \in (Surviving \cap Evacuate) \ DOMAIN copyOf,
         NEW to, Fits(Elsewhere(memory), to, SizeOf(Before[a])),
         NEW flags \in Ages, NEW copy, copy = WithCopy(memory, a, to, flags),
         NEW pointers, pointers = WithPointer(copyOf, a, to)
  PROVE  /\ Copies(copy, list, pointers)
         /\ Scavenging(copy, list, pointers, slots \cup SlotsOf(copy, to))
<1>1. /\ a \in DOMAIN Before /\ remembered \subseteq DOMAIN Before \cap OldSpace
      /\ IsArray(Before[a]) /\ IsHeap(Before)
  BY ReachableFacts DEF Surviving, StoppedInv, Settled, Remembers, IsHeap
<1>2. a \notin remembered /\ a \in DOMAIN memory /\ SameButAge(memory[a], Before[a]) /\ a \notin OldSpace
  BY <1>1, SpaceFacts DEF Copies
<1>2a. PICK twin : twin = [memory[a] EXCEPT !.word = WithGCByte(@, flags)]
  OBVIOUS
<1>2b. /\ IsArray(twin) /\ SizeOf(twin) = SizeOf(Before[a])
       /\ SameButSlots(twin, Before[a]) /\ twin.slots = Before[a].slots
  <2>1. flags \in 0 .. 255
    BY ScavengeAssumption
  <2>2. SameButAge(twin, memory[a])
    BY <1>2, <1>2a, <2>1, BareFlagged DEF SameButAge
  <2>3. SameButAge(twin, Before[a])
    BY <1>2, <2>2 DEF SameButAge
  <2> QED BY <1>1, <2>3, BareAlike DEF SameButAge, SameButSlots
<1>2c. [memory[a] EXCEPT !.word = FORWARDED] = [Before[a] EXCEPT !.word = FORWARDED]
  <2>1. /\ memory[a] = [word |-> memory[a].word, slots |-> memory[a].slots, id |-> memory[a].id]
        /\ Before[a] = [word |-> Before[a].word, slots |-> Before[a].slots, id |-> Before[a].id]
    BY <1>1, <1>2 DEF SameButAge, IsArray
  <2> QED BY <1>2, <2>1 DEF SameButAge
<1>3. to \in Address /\ to \in Survivor \cup OldSpace /\ to \notin DOMAIN memory /\ to # 0
  <2>1. to \in Address /\ to \in Survivor \cup OldSpace /\ to \notin DOMAIN Elsewhere(memory)
    BY DEF Fits
  <2> QED BY <2>1, ElsewhereFacts, SpaceFacts DEF Null
<1>4. /\ IsMemory(pointers) /\ DOMAIN pointers = DOMAIN copyOf \cup {a}
      /\ pointers[a] = to /\ \A x \in DOMAIN copyOf : pointers[x] = copyOf[x]
  BY DEF WithPointer, IsMemory
<1>5. /\ IsMemory(copy) /\ DOMAIN copy = DOMAIN memory \cup {to}
      /\ copy[to] = twin /\ copy[a] = [Before[a] EXCEPT !.word = FORWARDED]
      /\ \A y \in DOMAIN memory \ {a} : copy[y] = memory[y]
  <2>1. /\ IsMemory(copy) /\ DOMAIN copy = DOMAIN memory \cup {to}
        /\ copy[to] = twin /\ copy[a] = [memory[a] EXCEPT !.word = FORWARDED]
        /\ \A y \in DOMAIN memory \ {a} : copy[y] = memory[y]
    BY <1>2, <1>2a, <1>3 DEF WithCopy, IsMemory
  <2> QED BY <1>2c, <2>1
<1>5a. Range(pointers) = Range(copyOf) \cup {to}
  BY <1>4 DEF Range
<1>6. Copies(copy, list, pointers)
  <2>1. Range(pointers) \subseteq (Survivor \cup OldSpace) \ DOMAIN Before
    BY <1>3, <1>5a DEF Copies
  <2>2. \A b, c \in DOMAIN pointers : pointers[b] = pointers[c] => b = c
    <3>1. to \notin Range(copyOf)
      BY <1>3 DEF Copies
    <3>2. \A b \in DOMAIN copyOf : pointers[b] # to
      BY <1>4, <3>1 DEF Range
    <3> QED BY <1>4, <3>2 DEF Copies
  <2>3. ASSUME NEW b \in DOMAIN Before \ remembered
        PROVE  IF b \in DOMAIN pointers THEN copy[b] = [Before[b] EXCEPT !.word = FORWARDED]
                                         ELSE SameButAge(copy[b], Before[b])
    BY <1>4, <1>5 DEF Copies
  <2>4. \A b \in remembered : SameButSlots(copy[b], Before[b])
    BY <1>1, <1>2, <1>5 DEF Copies
  <2>5. ASSUME NEW b \in DOMAIN pointers PROVE SameButSlots(copy[pointers[b]], Before[b])
    <3>1. CASE b = a
      BY <1>2b, <1>4, <1>5, <3>1
    <3>2. CASE b # a
      <4>1. b \in DOMAIN copyOf /\ pointers[b] = copyOf[b] /\ copyOf[b] \in Range(copyOf)
        BY <1>4, <3>2 DEF Range
      <4>2. copyOf[b] \in DOMAIN memory \ {a}
        BY <1>1, <4>1 DEF Copies
      <4> QED BY <1>5, <4>1, <4>2 DEF Copies
    <3> QED BY <3>1, <3>2
  <2>6. DOMAIN pointers \subseteq DOMAIN Before \cap Evacuate
    BY <1>1, <1>4 DEF Copies
  <2>7. DOMAIN copy = DOMAIN Before \cup Range(pointers)
    BY <1>5, <1>5a DEF Copies
  <2>8. list \in Seq(Refs) /\ DOMAIN list = DOMAIN RootsBefore
    BY DEF Copies
  <2>9. \A b \in DOMAIN Before \cap OldSpace : copy[b].word = Before[b].word
    BY <1>2, <1>5 DEF Copies
  <2> QED BY <1>4, <1>5, <2>1, <2>2, <2>3, <2>4, <2>5, <2>6, <2>7, <2>8, <2>9 DEF Copies
<1>7. IsHeap(Elsewhere(copy)) /\ Placed(Elsewhere(copy), {Survivor, OldSpace})
  <2>1. /\ IsMemory(Elsewhere(copy)) /\ DOMAIN Elsewhere(copy) = DOMAIN copy \ Evacuate
        /\ \A y \in DOMAIN copy \ Evacuate : Elsewhere(copy)[y] = copy[y]
    BY ElsewhereFacts
  <2>2. /\ DOMAIN Elsewhere(memory) = DOMAIN memory \ Evacuate
        /\ \A y \in DOMAIN memory \ Evacuate : Elsewhere(memory)[y] = memory[y]
    BY ElsewhereFacts
  <2>3. to \notin Evacuate
    BY <1>3, SpaceFacts
  <2>4. /\ DOMAIN Elsewhere(copy) = DOMAIN Elsewhere(memory) \cup {to}
        /\ Elsewhere(copy)[to] = twin
        /\ \A y \in DOMAIN Elsewhere(memory) : Elsewhere(copy)[y] = Elsewhere(memory)[y]
    BY <1>5, <2>1, <2>2, <2>3
  <2>5. IsHeap(Elsewhere(memory)) /\ Placed(Elsewhere(memory), {Survivor, OldSpace})
    BY DEF Scavenging
  <2> QED BY <1>2b, <2>1, <2>4, <2>5, HeapWithCopy
<1>8. \A x, b : Scanned(copyOf, x, b) => Scanned(pointers, x, b)
  BY <1>4 DEF Scanned
<1>9. \A x, b : Scanned(pointers, x, b) => Scanned(copyOf, x, b) \/ (x = to /\ b = a)
  BY <1>4 DEF Scanned
<1>10. \A x, b : Scanned(copyOf, x, b) => x \in DOMAIN memory \ {a} /\ copy[x] = memory[x] /\ b \in DOMAIN memory
  <2>1. ASSUME NEW x, NEW b, Scanned(copyOf, x, b)
        PROVE  x \in DOMAIN memory \ {a} /\ copy[x] = memory[x] /\ b \in DOMAIN memory
    <3>1. x \in DOMAIN memory \ Evacuate /\ b \in DOMAIN Before
      BY <2>1, ScannedFacts
    <3> QED BY <1>5, <3>1 DEF Copies
  <2> QED BY <2>1
<1>11. \A ref, held : Redirected(copyOf, ref, held) => Redirected(pointers, ref, held)
  BY <1>4 DEF Redirected
<1> DEFINE all == slots \cup SlotsOf(copy, to)
<1>12. ASSUME NEW slot \in all
       PROVE  \/ slot \in {0} \X DOMAIN list
              \/ \E x, b \in DOMAIN copy : Scanned(pointers, x, b) /\ slot \in {x} \X DOMAIN copy[x].slots
  <2>1. CASE slot \in SlotsOf(copy, to)
    <3>1. slot \in {to} \X DOMAIN copy[to].slots
      BY <2>1 DEF SlotsOf, Shown
    <3>2. Scanned(pointers, to, a) /\ to \in DOMAIN copy /\ a \in DOMAIN copy
      BY <1>2, <1>4, <1>5 DEF Scanned
    <3> QED BY <3>1, <3>2
  <2>2. CASE slot \in slots /\ slot \notin {0} \X DOMAIN list
    <3>1. PICK x, b \in DOMAIN memory : Scanned(copyOf, x, b) /\ slot \in {x} \X DOMAIN memory[x].slots
      BY <2>2 DEF Scavenging
    <3>2. x \in DOMAIN copy /\ b \in DOMAIN copy /\ Scanned(pointers, x, b) /\ copy[x] = memory[x]
      BY <1>5, <1>8, <1>10, <3>1
    <3> QED BY <3>1, <3>2
  <2> QED BY <1>12, <2>1, <2>2
<1>13. ASSUME NEW k \in DOMAIN list
       PROVE  IF <<0, k>> \in all THEN list[k] = RootsBefore[k]
                                  ELSE Redirected(pointers, list[k], RootsBefore[k])
  <2>1. <<0, k>> \notin SlotsOf(copy, to)
    BY <1>3 DEF SlotsOf
  <2> QED BY <1>11, <2>1 DEF Scavenging
<1>14. ASSUME NEW x \in DOMAIN copy, NEW b \in DOMAIN copy, Scanned(pointers, x, b),
              NEW k \in DOMAIN copy[x].slots
       PROVE  IF <<x, k>> \in all THEN copy[x].slots[k] = Before[b].slots[k]
                                  ELSE Redirected(pointers, copy[x].slots[k], Before[b].slots[k])
  <2>1. CASE x = to /\ b = a
    <3>1. copy[x].slots[k] = Before[b].slots[k]
      BY <1>2b, <1>5, <2>1
    <3>2. ASSUME <<x, k>> \notin all PROVE Redirected(pointers, copy[x].slots[k], Before[b].slots[k])
      <4>1. copy[to].slots[k] = Null
        BY <1>14, <2>1, <3>2 DEF SlotsOf, Shown
      <4> QED BY <2>1, <3>1, <4>1, SpaceFacts DEF Redirected
    <3> QED BY <3>1, <3>2
  <2>2. CASE Scanned(copyOf, x, b)
    <3>1. x \in DOMAIN memory /\ b \in DOMAIN memory /\ copy[x] = memory[x]
      BY <1>10, <2>2
    <3>2. <<x, k>> \in all <=> <<x, k>> \in slots
      BY <1>3, <3>1 DEF SlotsOf
    <3>3. IF <<x, k>> \in slots THEN memory[x].slots[k] = Before[b].slots[k]
                                ELSE Redirected(copyOf, memory[x].slots[k], Before[b].slots[k])
      BY <1>14, <2>2, <3>1 DEF Scavenging
    <3> QED BY <1>11, <3>1, <3>2, <3>3
  <2> QED BY <1>9, <1>14, <2>1, <2>2
<1>15. DOMAIN pointers \subseteq Surviving
  BY <1>4 DEF Scavenging
<1>16. Scavenging(copy, list, pointers, all)
  BY <1>7, <1>12, <1>13, <1>14, <1>15 DEF Scavenging
<1> QED BY <1>6, <1>16


\* What the program was when it was stopped stays what it was.
LEMMA StillStopped ==
  ASSUME StoppedInv, UNCHANGED <<native, request, stopped, fresh, remembered>>,
         Copies(heap', roots', forward')
  PROVE  StoppedInv' /\ CopyInv'
<1>1. Before' = Before /\ RootsBefore' = RootsBefore /\ Evacuate' = Evacuate /\ Survivor' = Survivor
  BY DEF Before, RootsBefore, Evacuate, Survivor
<1>2. StoppedInv'
  BY <1>1 DEF StoppedInv, Settled, Placed, Remembers
<1>3. CopyInv'
  BY <1>1 DEF CopyInv, Copies
<1> QED BY <1>2, <1>3

\* The invariant is about the new state if memory, roots and forwarding pointers
\* are what they must be for the old one's sake.
LEMMA GoesOn ==
  ASSUME GenInv, phase = "scavenge", phase' = "scavenge",
         UNCHANGED <<native, request, grey, stopped, fresh, remembered, scavenged>>,
         Copies(heap', roots', forward'), Scavenging(heap', roots', forward', pending')
  PROVE  GenInv'
<1>1. Before' = Before /\ RootsBefore' = RootsBefore
  BY DEF Before, RootsBefore
<1>2. Evacuate' = Evacuate /\ Survivor' = Survivor /\ OldBefore' = OldBefore
  BY <1>1 DEF Evacuate, Survivor, OldBefore
<1>3. Surviving' = Surviving
  BY <1>1, <1>2 DEF Surviving
<1>4. StoppedInv' /\ CopyInv'
  BY StillStopped DEF GenInv
<1>5. Elsewhere(heap)' = Elsewhere(heap')
  BY <1>2 DEF Elsewhere
<1>6. \A ref, held : Redirected(forward', ref, held) <=> Redirected(forward, ref, held)'
  BY <1>2 DEF Redirected
<1>7. \A x, a : Scanned(forward', x, a) <=> Scanned(forward, x, a)'
  BY DEF Scanned
<1>8. ScavengeInv'
  <2>1. IsHeap(Elsewhere(heap)') /\ Placed(Elsewhere(heap)', {Survivor', OldSpace})
    BY <1>2, <1>5 DEF Scavenging
  <2>2. /\ DOMAIN forward' \subseteq Surviving'
        /\ \A slot \in pending' :
             \/ slot \in {0} \X DOMAIN roots'
             \/ \E x, a \in DOMAIN heap' :
                   Scanned(forward, x, a)' /\ slot \in {x} \X DOMAIN heap'[x].slots
    BY <1>3, <1>7 DEF Scavenging
  <2>3. \A k \in DOMAIN roots' :
          IF <<0, k>> \in pending' THEN roots'[k] = RootsBefore'[k]
                                   ELSE Redirected(forward, roots[k], RootsBefore[k])'
    BY <1>1, <1>2 DEF Scavenging, Redirected
  <2>4. \A x, a \in DOMAIN heap' : Scanned(forward, x, a)' =>
          \A k \in DOMAIN heap'[x].slots :
            IF <<x, k>> \in pending' THEN heap'[x].slots[k] = Before'[a].slots[k]
                                     ELSE Redirected(forward, heap[x].slots[k], Before[a].slots[k])'
    BY <1>1, <1>2, <1>7 DEF Scavenging, Redirected
  <2>5. Placed(Elsewhere(heap), {Survivor, OldSpace})' /\ IsHeap(Elsewhere(heap))'
    BY <2>1 DEF Placed
  <2> QED BY <2>2, <2>3, <2>4, <2>5 DEF ScavengeInv, Scavenging
<1> QED BY <1>4, <1>8 DEF GenInv

LEMMA NothingAtNull ==
  ASSUME fresh \in {0, 1}, StoppedInv, NEW memory, NEW list, NEW copyOf, Copies(memory, list, copyOf)
  PROVE  0 \notin DOMAIN memory
<1>1. DOMAIN Before \subseteq Address /\ Range(copyOf) \subseteq Address
  BY SpaceFacts DEF StoppedInv, IsHeap, Copies
<1> QED BY <1>1, SpaceFacts DEF Copies, Null

\* What a slot that is pending refers to has been copied: it is redirected.
LEMMA Redirecting ==
  ASSUME fresh \in {0, 1}, StoppedInv, NEW memory, NEW list, NEW copyOf, NEW slots,
         Copies(memory, list, copyOf), Scavenging(memory, list, copyOf, slots), NEW slot \in slots,
         NEW a \in DOMAIN copyOf,
         \/ \E k \in DOMAIN list : slot = <<0, k>> /\ list[k] = a
         \/ \E x, b \in DOMAIN memory : \E k \in DOMAIN memory[x].slots :
               Scanned(copyOf, x, b) /\ slot = <<x, k>> /\ x # 0 /\ memory[x].slots[k] = a,
         NEW copy, copy = copyOf[a], roots \in Seq(Refs), list = roots, Redirect(slot, memory, copy)
  PROVE  Copies(heap', roots', copyOf) /\ Scavenging(heap', roots', copyOf, slots \ {slot})
<1>1. 0 \notin DOMAIN memory
  BY NothingAtNull
<1>2. CASE \E k \in DOMAIN list : slot = <<0, k>> /\ list[k] = a
  <2>1. PICK k \in DOMAIN list : slot = <<0, k>> /\ list[k] = a
    BY <1>2
  <2>2. slot[1] = 0 /\ slot[2] = k
    BY <2>1
  <2>3. heap' = memory /\ roots' = [list EXCEPT ![k] = copyOf[list[k]]]
    BY <2>1, <2>2 DEF Redirect
  <2> QED BY <1>1, <2>1, <2>3, RedirectingRoot
<1>3. CASE \E x, b \in DOMAIN memory : \E k \in DOMAIN memory[x].slots :
             Scanned(copyOf, x, b) /\ slot = <<x, k>> /\ x # 0 /\ memory[x].slots[k] = a
  <2>1. PICK x \in DOMAIN memory, b \in DOMAIN memory :
          \E k \in DOMAIN memory[x].slots :
             Scanned(copyOf, x, b) /\ slot = <<x, k>> /\ x # 0 /\ memory[x].slots[k] = a
    BY <1>3
  <2>2. PICK k \in DOMAIN memory[x].slots :
             Scanned(copyOf, x, b) /\ slot = <<x, k>> /\ x # 0 /\ memory[x].slots[k] = a
    BY <2>1
  <2>3. slot[1] = x /\ slot[2] = k /\ slot[1] # 0
    BY <2>2
  <2>4. heap' = Stored(memory, x, k, copyOf[memory[x].slots[k]]) /\ roots' = list
    BY <2>2, <2>3 DEF Redirect, Stored
  <2>5. LET redirected == Stored(memory, x, k, copyOf[memory[x].slots[k]])
        IN  /\ Copies(redirected, list, copyOf)
            /\ Scavenging(redirected, list, copyOf, slots \ {<<x, k>>})
    BY <2>2, RedirectingSlot
  <2> QED BY <2>2, <2>4, <2>5
<1> QED BY <1>2, <1>3

LEMMA ScavengeSlotKeeps ==
  ASSUME GenInv, NEW slot \in pending, ScavengeSlot(slot)
  PROVE  GenInv'
<1> DEFINE a == Referent(slot)
<1>1. /\ phase = "scavenge" /\ phase' = "scavenge" /\ pending' = pending \ {slot}
      /\ UNCHANGED <<native, request, grey, forward, stopped, fresh, remembered, scavenged>>
      /\ ~(a \in Evacuate \ DOMAIN forward)
      /\ IF a \in DOMAIN forward THEN Redirect(slot, heap, forward[a]) ELSE heap' = heap /\ roots' = roots
  BY DEF ScavengeSlot, collector, Unscavenged
<1>2. /\ fresh \in {0, 1} /\ StoppedInv /\ CopyInv /\ ScavengeInv
      /\ Copies(heap, roots, forward) /\ Scavenging(heap, roots, forward, pending)
      /\ roots \in Seq(Refs)
  BY <1>1 DEF GenInv, CopyInv, ScavengeInv, Copies
<1>3. \/ \E k \in DOMAIN roots : slot = <<0, k>> /\ roots[k] = a
      \/ \E x, b \in DOMAIN heap : \E k \in DOMAIN heap[x].slots :
            Scanned(forward, x, b) /\ slot = <<x, k>> /\ x # 0 /\ heap[x].slots[k] = a
  BY <1>2, PendingFacts DEF Referent
<1> HIDE DEF a
<1>4. CASE a \in DOMAIN forward
  <2>1. Copies(heap', roots', forward) /\ Scavenging(heap', roots', forward, pending \ {slot})
    BY <1>1, <1>2, <1>3, <1>4, Redirecting
  <2> QED BY <1>1, <2>1, GoesOn
<1>5. CASE a \notin DOMAIN forward
  <2>1. heap' = heap /\ roots' = roots /\ a \notin Evacuate
    BY <1>1, <1>5
  <2>2. Scavenging(heap, roots, forward, pending \ {slot})
    <3>1. \A k \in DOMAIN roots : slot = <<0, k>> => roots[k] \notin Evacuate
      BY <1>3, <2>1
    <3>2. \A x \in DOMAIN heap : \A k \in DOMAIN heap[x].slots :
             slot = <<x, k>> => heap[x].slots[k] \notin Evacuate
      <4>1. 0 \notin DOMAIN heap
        BY <1>2, NothingAtNull
      <4> QED BY <1>3, <2>1, <4>1
    <3> QED BY <1>2, <3>1, <3>2, Skipping
  <2> QED BY <1>1, <1>2, <2>1, <2>2, GoesOn
<1> QED BY <1>4, <1>5


LEMMA CopyArrayKeeps ==
  ASSUME GenInv, NEW slot \in pending, CopyArray(slot)
  PROVE  GenInv'
<1> DEFINE a == Referent(slot)
<1>1. /\ phase = "scavenge" /\ phase' = "scavenge" /\ a \in Evacuate \ DOMAIN forward
      /\ UNCHANGED <<native, request, grey, stopped, fresh, remembered, scavenged>>
  BY DEF CopyArray, Unscavenged
<1>2. /\ fresh \in {0, 1} /\ StoppedInv /\ CopyInv /\ ScavengeInv
      /\ Copies(heap, roots, forward) /\ Scavenging(heap, roots, forward, pending)
      /\ roots \in Seq(Refs)
  BY <1>1 DEF GenInv, CopyInv, ScavengeInv, Copies
<1>3. /\ a \in Surviving \cup {Null}
      /\ \/ \E k \in DOMAIN roots : slot = <<0, k>> /\ roots[k] = a
         \/ \E x, b \in DOMAIN heap : \E k \in DOMAIN heap[x].slots :
               Scanned(forward, x, b) /\ slot = <<x, k>> /\ x # 0 /\ heap[x].slots[k] = a
  BY <1>2, PendingFacts DEF Referent
<1>4. PICK space \in {Survivor, OldSpace}, flags \in Ages :
        LET room == Room(space, CopySize(a))
            to   == Min(room)
            copy == WithCopy(heap, a, to, flags)
        IN  /\ room # {} /\ Redirect(slot, copy, to)
            /\ forward' = WithPointer(forward, a, to)
            /\ pending' = (pending \ {slot}) \cup SlotsOf(copy, to)
  BY DEF CopyArray, WithCopy, WithPointer
<1> HIDE DEF a
<1>5. PICK to : to = Min(Room(space, CopySize(a)))
  OBVIOUS
<1>6. PICK copy : copy = WithCopy(heap, a, to, flags)
  OBVIOUS
<1>7. /\ Room(space, CopySize(a)) # {} /\ Redirect(slot, copy, to)
      /\ forward' = WithPointer(forward, a, to)
      /\ pending' = (pending \ {slot}) \cup SlotsOf(copy, to)
  BY <1>4, <1>5, <1>6
<1>8. a \in (Surviving \cap Evacuate) \ DOMAIN forward
  BY <1>1, <1>2, <1>3, SpaceFacts
<1>9. /\ a \in DOMAIN Before /\ a \in DOMAIN heap /\ IsArray(Before[a])
      /\ SameButAge(heap[a], Before[a])
  <2>1. a \in DOMAIN Before /\ remembered \subseteq OldSpace /\ IsHeap(Before)
    BY <1>2, <1>8, ReachableFacts DEF Surviving, StoppedInv, Settled, Remembers
  <2>2. a \notin remembered
    BY <1>2, <1>8, <2>1, SpaceFacts
  <2> QED BY <1>2, <1>8, <2>1, <2>2 DEF Copies, IsHeap
<1>10. CopySize(a) = SizeOf(Before[a]) /\ SizeOf(Before[a]) \in Nat \ {0}
  <2>1. CopySize(a) = SizeOf(heap[a])
    BY DEF CopySize, SizeOf, ForwardedObjectSize, ObjectSizeWithHeader
  <2> QED BY <1>9, <2>1, ArrayFacts, BareAlike DEF SameButAge
<1>11. Fits(Elsewhere(heap), to, SizeOf(Before[a]))
  <2>1. /\ DOMAIN Elsewhere(heap) = DOMAIN heap \ Evacuate
        /\ \A b \in DOMAIN heap \ Evacuate : Elsewhere(heap)[b] = heap[b]
    BY ElsewhereFacts
  <2>2. space \in {Evacuate, Survivor, OldSpace} /\ space \cap Evacuate = {}
    BY <1>2, SpaceFacts
  <2>3. IsHeap(Elsewhere(heap)) /\ Placed(Elsewhere(heap), {Evacuate, Survivor, OldSpace})
    BY <1>2 DEF Scavenging, Placed
  <2>4. /\ DOMAIN Elsewhere(heap) \cap space = DOMAIN heap \cap space
        /\ \A b \in DOMAIN Elsewhere(heap) \cap space : Elsewhere(heap)[b] = heap[b]
    BY <2>1, <2>2
  <2>5. /\ to \in Address \ DOMAIN Elsewhere(heap) /\ to \in space /\ Span(to, CopySize(a)) \subseteq space
        /\ to + CopySize(a) <= HeapSize + 1
        /\ \A b \in DOMAIN Elsewhere(heap) :
             IF b < to THEN b + SizeOf(Elsewhere(heap)[b]) <= to ELSE to + CopySize(a) <= b
    BY <1>2, <1>5, <1>7, <1>10, <2>2, <2>3, <2>4, RoomFacts
  <2> QED BY <1>10, <2>5 DEF Fits
<1>12. PICK pointers : pointers = WithPointer(forward, a, to)
  OBVIOUS
<1>13. PICK slots : slots = pending \cup SlotsOf(copy, to)
  OBVIOUS
<1>14. Copies(copy, roots, pointers) /\ Scavenging(copy, roots, pointers, slots)
  BY <1>2, <1>6, <1>8, <1>11, <1>12, <1>13, Copying
<1>15. to \notin DOMAIN heap /\ to # 0
  <2>1. to \in Address /\ to \in Survivor \cup OldSpace /\ to \notin DOMAIN Elsewhere(heap)
    BY <1>11 DEF Fits
  <2> QED BY <1>2, <2>1, ElsewhereFacts, SpaceFacts DEF Null
<1>16. /\ DOMAIN copy = DOMAIN heap \cup {to} /\ \A x \in DOMAIN heap \ {a} : copy[x] = heap[x]
  BY <1>6, <1>15 DEF WithCopy
<1>17. /\ DOMAIN pointers = DOMAIN forward \cup {a} /\ pointers[a] = to
       /\ \A x \in DOMAIN forward : pointers[x] = forward[x]
  BY <1>8, <1>12 DEF WithPointer
<1>18. \/ \E k \in DOMAIN roots : slot = <<0, k>> /\ roots[k] = a
       \/ \E x, b \in DOMAIN copy : \E k \in DOMAIN copy[x].slots :
             Scanned(pointers, x, b) /\ slot = <<x, k>> /\ x # 0 /\ copy[x].slots[k] = a
  <2>1. CASE \E k \in DOMAIN roots : slot = <<0, k>> /\ roots[k] = a
    BY <2>1
  <2>2. CASE \E x, b \in DOMAIN heap : \E k \in DOMAIN heap[x].slots :
               Scanned(forward, x, b) /\ slot = <<x, k>> /\ x # 0 /\ heap[x].slots[k] = a
    <3>1. PICK x \in DOMAIN heap, b \in DOMAIN heap :
            \E k \in DOMAIN heap[x].slots :
               Scanned(forward, x, b) /\ slot = <<x, k>> /\ x # 0 /\ heap[x].slots[k] = a
      BY <2>2
    <3>2. x \notin Evacuate /\ Scanned(pointers, x, b)
      <4>1. x \in DOMAIN heap \ Evacuate
        BY <1>2, <3>1, ScannedFacts
      <4> QED BY <1>17, <3>1, <4>1 DEF Scanned
    <3>3. copy[x] = heap[x] /\ x \in DOMAIN copy /\ b \in DOMAIN copy
      BY <1>1, <1>16, <3>2
    <3> QED BY <3>1, <3>2, <3>3
  <2> QED BY <1>3, <2>1, <2>2
<1>19. slot \in slots
  BY <1>13
<1>20. Copies(heap', roots', pointers) /\ Scavenging(heap', roots', pointers, slots \ {slot})
  BY <1>2, <1>7, <1>14, <1>17, <1>18, <1>19, Redirecting
<1>21. pending' = slots \ {slot}
  <2>1. slot \notin SlotsOf(copy, to)
    <3>1. slot \notin {to} \X DOMAIN copy[to].slots
      BY <1>3, <1>15
    <3> QED BY <3>1 DEF SlotsOf, Shown
  <2> QED BY <1>7, <1>13, <2>1
<1> QED BY <1>1, <1>7, <1>12, <1>20, <1>21, GoesOn


-----------------------------------------------------------------------------
(* A scavenge ends.                                                        *)

\* What a slot holds that has been dealt with is not in the half evacuated.
LEMMA RedirectedInto ==
  ASSUME fresh \in {0, 1}, NEW memory, NEW list, NEW copyOf, Copies(memory, list, copyOf),
         NEW held \in DOMAIN Before \cup {Null}, NEW ref, Redirected(copyOf, ref, held)
  PROVE  ref \in (DOMAIN memory \ Evacuate) \cup {Null}
<1>1. CASE held \in Evacuate
  <2>1. ref \in Range(copyOf)
    BY <1>1 DEF Redirected, Range
  <2> QED BY <2>1, SpaceFacts DEF Copies
<1>2. CASE held \notin Evacuate
  BY <1>2 DEF Redirected, Copies
<1> QED BY <1>1, <1>2

\* When all slots have been dealt with: what arrays that stay refer to stays.
LEMMA AllRedirected ==
  ASSUME fresh \in {0, 1}, StoppedInv, Copies(heap, roots, forward), Scavenging(heap, roots, forward, {})
  PROVE  /\ RootsInto(roots, DOMAIN heap \ Evacuate)
         /\ \A x \in DOMAIN heap \ Evacuate : RefersInto(heap[x], DOMAIN heap \ Evacuate)
         /\ \A x \in DOMAIN heap \cap OldSpace : Edges(heap, x) \cap NewSpace # {} => x \in MayRefer
         /\ MayRefer \subseteq (DOMAIN heap \ Evacuate) \cap OldSpace
<1>1. /\ IsHeap(Before) /\ Linked(Before, RootsBefore) /\ Placed(Before, {Evacuate, OldSpace})
      /\ \A x \in DOMAIN Before \cap OldSpace : Edges(Before, x) \cap NewSpace # {} => x \in remembered
      /\ remembered \subseteq DOMAIN Before \cap OldSpace
  BY DEF StoppedInv, Settled, Remembers
<1>2. \A x \in DOMAIN Before \ Evacuate : x \in OldSpace
  BY <1>1, PlacedFacts
<1>3. RootsInto(roots, DOMAIN heap \ Evacuate)
  <2>1. ASSUME NEW k \in DOMAIN roots PROVE roots[k] \in (DOMAIN heap \ Evacuate) \cup {Null}
    <3>1. Redirected(forward, roots[k], RootsBefore[k])
      BY DEF Scavenging
    <3>2. RootsBefore[k] \in DOMAIN Before \cup {Null}
      BY <1>1 DEF Copies, Linked, RootsInto
    <3> QED BY <3>1, <3>2, RedirectedInto
  <2> QED BY <2>1 DEF RootsInto
<1>4. ASSUME NEW x, NEW a, Scanned(forward, x, a) PROVE RefersInto(heap[x], DOMAIN heap \ Evacuate)
  <2>1. /\ x \in DOMAIN heap /\ a \in DOMAIN Before /\ a \in DOMAIN heap
        /\ DOMAIN heap[x].slots = DOMAIN Before[a].slots
    <3>1. x \in DOMAIN heap /\ a \in DOMAIN Before /\ SameButSlots(heap[x], Before[a])
      BY <1>4, ScannedFacts
    <3> QED BY <3>1 DEF SameButSlots, Copies
  <2>2. ASSUME NEW k \in DOMAIN heap[x].slots
        PROVE  heap[x].slots[k] \in (DOMAIN heap \ Evacuate) \cup {Null}
    <3>1. Redirected(forward, heap[x].slots[k], Before[a].slots[k])
      BY <1>4, <2>1 DEF Scavenging
    <3>2. Before[a].slots[k] \in DOMAIN Before \cup {Null}
      BY <1>1, <2>1 DEF Linked, RefersInto
    <3> QED BY <3>1, <3>2, RedirectedInto
  <2> QED BY <2>2 DEF RefersInto
<1>5. ASSUME NEW x \in DOMAIN heap \ Evacuate, \A a : ~Scanned(forward, x, a)
      PROVE  /\ x \in (DOMAIN Before \cap OldSpace) \ remembered /\ heap[x] = Before[x]
             /\ Edges(heap, x) \cap NewSpace = {}
  <2>1. x \in DOMAIN Before \ remembered
    BY <1>5 DEF Scanned, Copies, Range
  <2>2. heap[x] = Before[x]
    BY <1>2, <1>5, <2>1, OldUntouched
  <2> QED BY <1>1, <1>2, <1>5, <2>1, <2>2 DEF Edges
<1>6. ASSUME NEW x \in DOMAIN heap \ Evacuate PROVE RefersInto(heap[x], DOMAIN heap \ Evacuate)
  <2>1. CASE \E a : Scanned(forward, x, a)
    BY <1>4, <2>1
  <2>2. CASE \A a : ~Scanned(forward, x, a)
    <3>1. x \in DOMAIN Before /\ heap[x] = Before[x] /\ Edges(heap, x) \cap NewSpace = {}
      BY <1>5, <2>2
    <3>2. Edges(heap, x) \subseteq DOMAIN Before
      BY <1>1, <3>1, EdgesInto DEF Linked, Edges
    <3>3. Edges(heap, x) \subseteq DOMAIN heap \ Evacuate
      BY <3>1, <3>2, SpaceFacts DEF Copies
    <3> QED BY <3>3, EdgesInto
  <2> QED BY <2>1, <2>2
<1>7. ASSUME NEW x \in DOMAIN heap \cap OldSpace, Edges(heap, x) \cap NewSpace # {} PROVE x \in MayRefer
  <2>1. x \in DOMAIN heap \ Evacuate
    BY SpaceFacts
  <2>2. PICK a : Scanned(forward, x, a)
    BY <1>5, <1>7, <2>1
  <2> QED BY <2>2 DEF Scanned, MayRefer, Range
<1>8. MayRefer \subseteq (DOMAIN heap \ Evacuate) \cap OldSpace
  BY <1>1, SpaceFacts DEF MayRefer, Copies
<1> QED BY <1>3, <1>6, <1>7, <1>8

\* What has been copied is what must survive and is not old.
LEMMA CopiedSurvivors ==
  ASSUME fresh \in {0, 1}, StoppedInv, Copies(heap, roots, forward), Scavenging(heap, roots, forward, {})
  PROVE  Surviving = OldBefore \cup DOMAIN forward
<1> DEFINE S == OldBefore \cup DOMAIN forward
<1>1. /\ IsHeap(Before) /\ Linked(Before, RootsBefore) /\ Placed(Before, {Evacuate, OldSpace})
      /\ \A x \in DOMAIN Before \cap OldSpace : Edges(Before, x) \cap NewSpace # {} => x \in remembered
      /\ remembered \subseteq DOMAIN Before \cap OldSpace
  BY DEF StoppedInv, Settled, Remembers
<1>2. /\ OldBefore \subseteq Surviving
      /\ \A T \in SUBSET DOMAIN Before :
           (Range(RootsBefore) \cup OldBefore) \cap DOMAIN Before \subseteq T /\ Closed(Before, T)
              => Surviving \subseteq T
  BY ReachableFacts DEF Surviving, OldBefore
<1>3. S \subseteq Surviving /\ S \in SUBSET DOMAIN Before
  BY <1>2 DEF Scavenging, Copies, OldBefore
<1>4. ASSUME NEW held \in DOMAIN Before, NEW ref, Redirected(forward, ref, held) PROVE held \in S
  <2>1. held \in Evacuate \/ held \in OldSpace
    BY <1>1, PlacedFacts
  <2> QED BY <1>4, <2>1 DEF Redirected, OldBefore
<1>5. ASSUME NEW k \in DOMAIN RootsBefore, RootsBefore[k] \in DOMAIN Before PROVE RootsBefore[k] \in S
  <2>1. Redirected(forward, roots[k], RootsBefore[k])
    BY DEF Scavenging, Copies
  <2> QED BY <1>4, <1>5, <2>1
<1>6. ASSUME NEW x, NEW a, Scanned(forward, x, a), NEW b \in Edges(Before, a) \cap DOMAIN Before
      PROVE  b \in S
  <2>1. /\ x \in DOMAIN heap /\ a \in DOMAIN Before /\ a \in DOMAIN heap
        /\ DOMAIN heap[x].slots = DOMAIN Before[a].slots
    <3>1. x \in DOMAIN heap /\ a \in DOMAIN Before /\ SameButSlots(heap[x], Before[a])
      BY <1>6, ScannedFacts
    <3> QED BY <3>1 DEF SameButSlots, Copies
  <2>2. PICK k \in DOMAIN Before[a].slots : b = Before[a].slots[k]
    BY <1>6 DEF Edges, Range
  <2>3. Redirected(forward, heap[x].slots[k], Before[a].slots[k])
    BY <1>6, <2>1 DEF Scavenging
  <2> QED BY <1>4, <1>6, <2>2, <2>3
<1>7. ASSUME NEW a \in S, NEW b \in Edges(Before, a) \cap DOMAIN Before PROVE b \in S
  <2>1. CASE a \in DOMAIN forward
    <3>1. Scanned(forward, forward[a], a)
      BY <2>1 DEF Scanned
    <3> QED BY <1>6, <1>7, <3>1
  <2>2. CASE a \in remembered
    <3>1. Scanned(forward, a, a)
      BY <2>2 DEF Scanned
    <3> QED BY <1>6, <1>7, <3>1
  <2>3. CASE a \in OldBefore \ remembered
    <3>1. b \notin NewSpace
      BY <1>1, <1>7, <2>3 DEF OldBefore
    <3>2. b \in Evacuate \/ b \in OldSpace
      BY <1>1, <1>7, PlacedFacts
    <3> QED BY <1>7, <3>1, <3>2, SpaceFacts DEF OldBefore
  <2> QED BY <1>7, <2>1, <2>2, <2>3
<1>8. (Range(RootsBefore) \cup OldBefore) \cap DOMAIN Before \subseteq S
  BY <1>5 DEF Range
<1>9. Closed(Before, S)
  BY <1>7 DEF Closed
<1> QED BY <1>2, <1>3, <1>8, <1>9


\* An array with its flags as a scavenge leaves them.
Reflagged(x, isRemembered) ==
    [x EXCEPT !.word = WithGCByte(@, IF isRemembered THEN REMEMBERED ELSE 0)]

LEMMA ReflaggedHeap ==
  ASSUME NEW memory, IsHeap(memory), NEW now,
         NEW reflagged, IsMemory(reflagged), DOMAIN reflagged = DOMAIN memory,
         \A a \in DOMAIN memory :
            reflagged[a] = IF a \in OldSpace THEN Reflagged(memory[a], a \in now) ELSE memory[a]
  PROVE  /\ IsHeap(reflagged)
         /\ \A a \in DOMAIN memory :
              /\ reflagged[a].slots = memory[a].slots /\ reflagged[a].id = memory[a].id
              /\ SizeOf(reflagged[a]) = SizeOf(memory[a])
              /\ HeaderKind(reflagged[a].word) = HeaderKind(memory[a].word)
              /\ a \in OldSpace => (IsRemembered(reflagged, a) <=> a \in now)
<1>1. ASSUME NEW a \in DOMAIN memory
      PROVE  /\ IsArray(reflagged[a])
             /\ reflagged[a].slots = memory[a].slots /\ reflagged[a].id = memory[a].id
             /\ SizeOf(reflagged[a]) = SizeOf(memory[a])
             /\ HeaderKind(reflagged[a].word) = HeaderKind(memory[a].word)
             /\ a \in OldSpace => (IsRemembered(reflagged, a) <=> a \in now)
  <2>1. PICK flags : flags = IF a \in now THEN REMEMBERED ELSE 0
    OBVIOUS
  <2>2. flags \in 0 .. 255 /\ (flags = REMEMBERED <=> a \in now)
    BY <2>1 DEF REMEMBERED
  <2>3. IsArray(memory[a])
    BY DEF IsHeap
  <2>4. CASE a \in OldSpace
    <3>1. LET y == [memory[a] EXCEPT !.word = WithGCByte(@, flags)]
          IN  /\ IsArray(y) /\ y.slots = memory[a].slots /\ y.id = memory[a].id
              /\ SizeOf(y) = SizeOf(memory[a]) /\ GCByte(y.word) = flags
              /\ HeaderKind(y.word) = HeaderKind(memory[a].word)
      BY <2>2, <2>3, WordFlagged
    <3>2. reflagged[a] = [memory[a] EXCEPT !.word = WithGCByte(@, flags)]
      BY <2>1, <2>4 DEF Reflagged
    <3> QED BY <2>2, <3>1, <3>2 DEF IsRemembered
  <2>5. CASE a \notin OldSpace
    BY <2>3, <2>5
  <2> QED BY <2>4, <2>5
<1>2. IsHeap(reflagged)
  BY <1>1, AlikeHeap
<1> QED BY <1>1, <1>2

LEMMA FinishScavengeKeeps == ASSUME GenInv, FinishScavenge PROVE GenInv'
<1> DEFINE now  == {a \in MayRefer : Referents(heap, a) \cap Survivor # {}}
           left == DOMAIN heap \ Evacuate
<1>1. /\ phase = "scavenge" /\ pending = {} /\ phase' = "mutator" /\ forward' = <<>> /\ pending' = {}
      /\ roots' = roots /\ native' = native /\ request' = request /\ grey' = grey
      /\ scavenged' = scavenged /\ fresh' = 1 - fresh
      /\ remembered' = now
      /\ heap' = [a \in left |-> IF a \in OldSpace THEN Reflagged(heap[a], a \in now) ELSE heap[a]]
  BY DEF FinishScavenge, Reflagged
<1>2. /\ fresh \in {0, 1} /\ scavenged \in BOOLEAN /\ grey = {} /\ StoppedInv
      /\ Copies(heap, roots, forward) /\ Scavenging(heap, roots, forward, {})
      /\ \A r \in request : r.collected => scavenged
  BY <1>1 DEF GenInv, CopyInv, ScavengeInv
<1>3. /\ RootsInto(roots, left)
      /\ \A x \in left : RefersInto(heap[x], left)
      /\ \A x \in DOMAIN heap \cap OldSpace : Edges(heap, x) \cap NewSpace # {} => x \in MayRefer
      /\ MayRefer \subseteq left \cap OldSpace
  BY <1>2, AllRedirected
<1>4. fresh' \in {0, 1} /\ Evacuate' = Survivor
  <2>1. fresh' \in {0, 1}
    BY <1>1, <1>2
  <2> QED BY <1>1, <2>1 DEF Evacuate, Survivor
<1>5. now \subseteq left \cap OldSpace
  BY <1>3
<1>6. /\ IsHeap(Elsewhere(heap)) /\ Placed(Elsewhere(heap), {Survivor, OldSpace})
      /\ DOMAIN Elsewhere(heap) = left /\ \A a \in left : Elsewhere(heap)[a] = heap[a]
  BY <1>2, ElsewhereFacts DEF Scavenging
<1>7. /\ DOMAIN heap' = left /\ IsMemory(heap')
      /\ \A a \in left : heap'[a] = IF a \in OldSpace THEN Reflagged(heap[a], a \in now) ELSE heap[a]
  BY <1>1 DEF IsMemory
<1> HIDE DEF now, left
<1>8. /\ IsHeap(heap')
      /\ \A a \in left : /\ heap'[a].slots = heap[a].slots /\ heap'[a].id = heap[a].id
                         /\ SizeOf(heap'[a]) = SizeOf(heap[a])
                         /\ a \in OldSpace => (IsRemembered(heap', a) <=> a \in now)
  <2>1. \A a \in left : heap'[a] = IF a \in OldSpace THEN Reflagged(Elsewhere(heap)[a], a \in now)
                                                   ELSE Elsewhere(heap)[a]
    BY <1>6, <1>7
  <2>2. /\ IsHeap(heap')
        /\ \A a \in DOMAIN Elsewhere(heap) :
             /\ heap'[a].slots = Elsewhere(heap)[a].slots /\ heap'[a].id = Elsewhere(heap)[a].id
             /\ SizeOf(heap'[a]) = SizeOf(Elsewhere(heap)[a])
             /\ a \in OldSpace => (IsRemembered(heap', a) <=> a \in now)
    BY <1>6, <1>7, <2>1, ReflaggedHeap
  <2> QED BY <1>6, <2>2
<1>9. IInv'
  <2>1. Linked(heap', roots)
    <3>1. \A x \in left : RefersInto(heap'[x], left)
      BY <1>3, <1>8 DEF RefersInto
    <3> QED BY <1>3, <1>7, <3>1 DEF Linked
  <2>2. /\ roots \in Seq(Refs) /\ native = Null /\ ~Compacting
        /\ \A r \in request : IsRequest(r) /\ ~r.collected
        /\ \A r, s \in request : r = s
    BY <1>2, ScavengeAssumption DEF StoppedInv, Copies
  <2>3. TypeInv'
    BY <1>1, <1>8, <2>2 DEF TypeInv, Refs
  <2>4. MutatorInv' /\ RequestInv'
    BY <1>1, <2>1, <2>2 DEF MutatorInv, RequestInv
  <2> QED BY <1>1, <2>3, <2>4 DEF IInv
<1>10. Settled(heap, remembered)'
  <2>1. Placed(heap', {Survivor, OldSpace})
    <3>1. \A a \in DOMAIN heap' : SizeOf(heap'[a]) = SizeOf(Elsewhere(heap)[a])
      BY <1>6, <1>7, <1>8
    <3> QED BY <1>6, <1>7, <3>1, PlacedAlike
  <2>2. ASSUME NEW a \in left \cap OldSpace, Edges(heap', a) \cap NewSpace # {} PROVE a \in now
    <3>1. Edges(heap, a) \cap NewSpace # {} /\ a \in DOMAIN heap
      BY <1>8, <2>2 DEF Edges, left
    <3>2. a \in MayRefer
      BY <1>3, <3>1
    <3>3. Edges(heap, a) \subseteq left
      BY <1>3, <3>1, EdgesInto
    <3>4. Edges(heap, a) \cap Survivor # {}
      BY <1>2, <3>1, <3>3, SpaceFacts DEF left
    <3>5. Edges(heap, a) = Referents(heap, a)
      BY DEF Edges, Referents, Shown, Range
    <3> QED BY <3>2, <3>4, <3>5 DEF now
  <2>3. now = {a \in DOMAIN heap' \cap OldSpace : IsRemembered(heap', a)}
    BY <1>5, <1>7, <1>8
  <2>4. Remembers(heap', now)
    BY <1>5, <1>7, <2>2, <2>3 DEF Remembers
  <2> QED BY <1>1, <1>4, <2>1, <2>4 DEF Settled, Placed, Remembers
<1> QED BY <1>1, <1>2, <1>4, <1>9, <1>10 DEF GenInv

\* The arrays that are left have the names of those that must survive.
LEMMA FinishScavengeExact ==
  ASSUME GenInv, FinishScavenge
  PROVE  IdsOf(heap', DOMAIN heap') = IdsOf(Before, Surviving)
<1> DEFINE left == DOMAIN heap \ Evacuate
<1>1. phase = "scavenge" /\ pending = {} /\ DOMAIN heap' = left
  BY DEF FinishScavenge
<1>2. /\ fresh \in {0, 1} /\ StoppedInv
      /\ Copies(heap, roots, forward) /\ Scavenging(heap, roots, forward, {})
  BY <1>1 DEF GenInv, CopyInv, ScavengeInv
<1>3. Surviving = OldBefore \cup DOMAIN forward
  BY <1>2, CopiedSurvivors
<1>4. ASSUME NEW a \in left PROVE heap'[a].id = heap[a].id
  <2>1. IsHeap(Elsewhere(heap)) /\ a \in DOMAIN Elsewhere(heap) /\ Elsewhere(heap)[a] = heap[a]
    BY <1>2, ElsewhereFacts DEF Scavenging
  <2>2. IsArray(heap[a])
    BY <2>1 DEF IsHeap
  <2>3. heap[a] = [word |-> heap[a].word, slots |-> heap[a].slots, id |-> heap[a].id]
    BY <2>2 DEF IsArray
  <2>4. CASE a \in OldSpace
    <3>1. PICK word : heap'[a] = [heap[a] EXCEPT !.word = word]
      BY <2>4 DEF FinishScavenge
    <3> QED BY <2>3, <3>1
  <2>5. CASE a \notin OldSpace
    BY <2>5 DEF FinishScavenge
  <2> QED BY <2>4, <2>5
<1>5. OldBefore \subseteq left /\ Range(forward) \subseteq left
  BY <1>2, SpaceFacts DEF OldBefore, Copies
<1>6. left = OldBefore \cup Range(forward)
  <2>1. \A a \in DOMAIN Before \ Evacuate : a \in OldBefore
    BY <1>2, PlacedFacts DEF StoppedInv, Settled, OldBefore
  <2> QED BY <1>2, <1>5, <2>1 DEF Copies
<1>7. ASSUME NEW a \in OldBefore PROVE heap[a].id = Before[a].id
  <2>1. a \notin DOMAIN forward
    BY <1>2, SpaceFacts DEF OldBefore, Copies
  <2> QED BY <1>2, <2>1 DEF OldBefore, Copies, SameButSlots, SameButAge
<1>8. \A a \in DOMAIN forward : heap[forward[a]].id = Before[a].id
  BY <1>2 DEF Copies, SameButSlots
<1> HIDE DEF left
<1>9. ASSUME NEW a \in left PROVE \E b \in Surviving : heap'[a].id = Before[b].id
  <2>1. CASE a \in OldBefore
    BY <1>3, <1>4, <1>7, <2>1
  <2>2. CASE a \in Range(forward)
    <3>1. PICK b \in DOMAIN forward : a = forward[b]
      BY <2>2 DEF Range
    <3> QED BY <1>3, <1>4, <1>8, <3>1
  <2> QED BY <1>6, <2>1, <2>2
<1>10. ASSUME NEW b \in Surviving PROVE \E a \in left : heap'[a].id = Before[b].id
  <2>1. CASE b \in OldBefore
    BY <1>4, <1>5, <1>7, <2>1
  <2>2. CASE b \in DOMAIN forward
    <3>1. forward[b] \in left
      BY <1>5, <2>2 DEF Range
    <3> QED BY <1>4, <1>8, <2>2, <3>1
  <2> QED BY <1>3, <2>1, <2>2
<1> QED BY <1>1, <1>9, <1>10 DEF IdsOf


-----------------------------------------------------------------------------
(* A scavenge is backed out.                                               *)

LEMMA StartBackOutKeeps ==
  ASSUME GenInv, NEW slot \in pending, StartBackOut(slot)
  PROVE  GenInv'
<1>1. /\ phase = "scavenge" /\ phase' = "backout" /\ pending' = {}
      /\ heap' = heap /\ roots' = roots /\ forward' = forward
      /\ UNCHANGED <<native, request, grey, stopped, fresh, remembered, scavenged>>
  BY DEF StartBackOut, mutator
<1>2. /\ fresh \in {0, 1} /\ StoppedInv
      /\ Copies(heap, roots, forward) /\ Scavenging(heap, roots, forward, pending)
  BY <1>1 DEF GenInv, CopyInv, ScavengeInv
<1>3. StoppedInv' /\ CopyInv'
  BY <1>1, <1>2, StillStopped
<1>4. \A ref, held : ref = held \/ Redirected(forward, ref, held) => Follows(forward, ref, held)
  BY DEF Redirected, Follows
<1>5. \A k \in DOMAIN roots : Follows(forward, roots[k], RootsBefore[k])
  BY <1>2, <1>4 DEF Scavenging
<1>6. ASSUME NEW a \in remembered, NEW k \in DOMAIN heap[a].slots
      PROVE  Follows(forward, heap[a].slots[k], Before[a].slots[k])
  <2>1. Scanned(forward, a, a) /\ a \in DOMAIN heap
    BY <1>2 DEF Scanned, Copies, StoppedInv, Settled, Remembers
  <2> QED BY <1>2, <1>4, <2>1 DEF Scavenging
<1>7. BackOutInv'
  BY <1>1, <1>5, <1>6 DEF BackOutInv, Follows, RootsBefore, Before
<1> QED BY <1>1, <1>3, <1>7 DEF GenInv

\* What referred to the copy of an array refers to the array.
BackTo(a, copy, ref) == IF ref = copy THEN a ELSE ref

LEMMA BackToFacts ==
  ASSUME NEW memory, NEW list, NEW copyOf, Copies(memory, list, copyOf), Null \notin Address,
         IsHeap(Before), Range(copyOf) \subseteq Address,
         NEW a \in DOMAIN copyOf, NEW held \in DOMAIN Before \cup {Null}, NEW ref, Follows(copyOf, ref, held)
  PROVE  /\ BackTo(a, copyOf[a], ref) \in Refs
         /\ Follows(Restrict(copyOf, DOMAIN copyOf \ {a}), BackTo(a, copyOf[a], ref), held)
<1> DEFINE rest == Restrict(copyOf, DOMAIN copyOf \ {a})
<1>1. DOMAIN rest = DOMAIN copyOf \ {a} /\ \A x \in DOMAIN copyOf \ {a} : rest[x] = copyOf[x]
  BY DEF Restrict
<1> HIDE DEF rest
<1>2. /\ copyOf[a] \in Address \ DOMAIN Before /\ a \in DOMAIN Before
      /\ DOMAIN Before \subseteq Address
      /\ \A x \in DOMAIN copyOf : copyOf[x] \in Address /\ (copyOf[x] = copyOf[a] => x = a)
  BY DEF Copies, Range, IsHeap
<1>3. CASE ref = held
  <2>1. ref # copyOf[a]
    BY <1>2, <1>3
  <2> QED BY <1>2, <1>3, <2>1 DEF BackTo, Follows, Refs
<1>4. CASE held \in DOMAIN copyOf /\ ref = copyOf[held]
  <2>1. CASE held = a
    <3>1. BackTo(a, copyOf[a], ref) = a
      BY <1>4, <2>1 DEF BackTo
    <3> QED BY <1>2, <2>1, <3>1 DEF Follows, Refs
  <2>2. CASE held # a
    <3>1. BackTo(a, copyOf[a], ref) = copyOf[held] /\ copyOf[held] \in Address
      BY <1>2, <1>4, <2>2 DEF BackTo
    <3>2. held \in DOMAIN rest /\ rest[held] = copyOf[held]
      BY <1>1, <1>4, <2>2
    <3> QED BY <3>1, <3>2 DEF Follows, Refs, rest
  <2> QED BY <2>1, <2>2
<1> QED BY <1>3, <1>4 DEF Follows, rest

\* A header that comes from the copy.
LEMMA HeaderRestored ==
  ASSUME NEW x, NEW y, IsArray(x), IsArray(y), Bare(y.word) = Bare(x.word)
  PROVE  SameButAge([x EXCEPT !.word = y.word], x)
<1> DEFINE z == [x EXCEPT !.word = y.word]
<1>1. PICK k \in Kinds, n \in Length, f \in 0 .. 255 :
        /\ x = [word |-> HeaderWord(k, n) + f, slots |-> x.slots, id |-> x.id]
        /\ x.slots \in [IF k = REF THEN 1 .. n ELSE {} -> Refs]
  BY DEF IsArray
<1>2. PICK l \in Kinds, m \in Length, g \in 0 .. 255 :
        y = [word |-> HeaderWord(l, m) + g, slots |-> y.slots, id |-> y.id]
  BY DEF IsArray
<1>3. x.word = HeaderWord(k, n) + f /\ y.word = HeaderWord(l, m) + g
  BY <1>1, <1>2
<1>4. HeaderWord(k, n) = HeaderWord(l, m)
  BY <1>3, BareOf
<1>5. z = [word |-> HeaderWord(k, n) + g, slots |-> x.slots, id |-> x.id]
  BY <1>1, <1>3, <1>4
<1>6. z.slots = x.slots /\ z.id = x.id /\ z.word = y.word
  BY <1>1, <1>5, <1>3, <1>4
<1> HIDE DEF z
<1>7. IsArray(z)
  BY <1>1, <1>5, <1>6 DEF IsArray
<1>8. SameButAge(z, x)
  BY <1>6, <1>7 DEF SameButAge
<1> QED BY <1>8 DEF z

LEMMA ReverseForwardedKeeps == ASSUME GenInv, ReverseForwarded PROVE GenInv'
<1>1. /\ phase = "backout" /\ phase' = "backout" /\ forward # <<>>
      /\ UNCHANGED <<native, request, grey, stopped, fresh, remembered, pending, scavenged>>
  BY DEF ReverseForwarded, generational
<1>2. /\ fresh \in {0, 1} /\ StoppedInv /\ Copies(heap, roots, forward) /\ BackOutInv
  BY <1>1 DEF GenInv, CopyInv
<1>3. PICK a : a = Min(DOMAIN forward)
  OBVIOUS
<1>4. a \in DOMAIN forward
  <2>1. DOMAIN forward \subseteq Nat
    BY <1>2, SpaceFacts DEF Copies
  <2>2. DOMAIN forward # {}
    <3>1. IsMemory(forward)
      BY <1>2 DEF Copies
    <3>2. DOMAIN forward = {} => forward = <<>>
      BY <3>1 DEF IsMemory
    <3> QED BY <1>1, <3>2
  <2> QED BY <1>3, <2>1, <2>2, MinFacts
<1> DEFINE copy == forward[a]
<1>5. /\ roots' = [r \in DOMAIN roots |-> BackTo(a, copy, roots[r])]
      /\ heap' = [x \in DOMAIN heap \ {copy} |->
           IF x = a THEN [heap[a] EXCEPT !.word = heap[copy].word]
           ELSE IF x \in remembered
           THEN [heap[x] EXCEPT !.slots = [k \in DOMAIN @ |-> BackTo(a, copy, @[k])]]
           ELSE heap[x]]
      /\ forward' = Restrict(forward, DOMAIN forward \ {a})
  BY <1>3 DEF ReverseForwarded, Reversed, HeaderFromCopy, BackTo
<1>6. /\ IsHeap(Before) /\ Linked(Before, RootsBefore) /\ remembered \subseteq DOMAIN Before \cap OldSpace
      /\ Null \notin Address /\ DOMAIN Before \subseteq Address /\ Range(forward) \subseteq Address
  BY <1>2, SpaceFacts DEF StoppedInv, Settled, Remembers, IsHeap, Copies
<1>7. a \in DOMAIN Before /\ a \notin remembered /\ IsArray(Before[a])
  BY <1>2, <1>4, <1>6, SpaceFacts DEF Copies, IsHeap
<1>8. copy \in Range(forward) /\ copy \notin DOMAIN Before /\ copy # a
  BY <1>2, <1>4, <1>7 DEF Copies, Range
<1>9. /\ IsMemory(forward') /\ DOMAIN forward' = DOMAIN forward \ {a}
      /\ \A x \in DOMAIN forward' : forward'[x] = forward[x]
  BY <1>5 DEF Restrict, IsMemory
<1>10. Range(forward') = Range(forward) \ {copy}
  BY <1>2, <1>4, <1>9 DEF Copies, Range
<1>11. \A held \in DOMAIN Before \cup {Null} : \A ref :
          Follows(forward, ref, held) => /\ BackTo(a, copy, ref) \in Refs
                                         /\ Follows(forward', BackTo(a, copy, ref), held)
  BY <1>2, <1>4, <1>5, <1>6, BackToFacts
<1> HIDE DEF copy
<1>12. DOMAIN heap' = DOMAIN Before \cup Range(forward') /\ IsMemory(heap')
  <2>1. DOMAIN heap' = DOMAIN heap \ {copy} /\ IsMemory(heap')
    BY <1>5 DEF IsMemory
  <2>2. DOMAIN heap = DOMAIN Before \cup Range(forward)
    BY <1>2 DEF Copies
  <2> QED BY <1>8, <1>10, <2>1, <2>2
<1>13. /\ roots' \in Seq(Refs) /\ DOMAIN roots' = DOMAIN RootsBefore
       /\ \A k \in DOMAIN roots' : Follows(forward', roots'[k], RootsBefore[k])
  <2>1. roots \in Seq(Refs) /\ DOMAIN roots = DOMAIN RootsBefore
    BY <1>2 DEF Copies
  <2>2. \A k \in DOMAIN roots : /\ BackTo(a, copy, roots[k]) \in Refs
                                /\ Follows(forward', BackTo(a, copy, roots[k]), RootsBefore[k])
    BY <1>2, <1>6, <1>11, <2>1 DEF BackOutInv, Linked, RootsInto
  <2>3. DOMAIN roots = 1 .. Len(roots) /\ Len(roots) \in Nat
    BY <2>1
  <2>4. roots' \in Seq(Refs)
    BY <1>5, <2>2, <2>3
  <2> QED BY <1>5, <2>1, <2>2, <2>4
<1>14. ASSUME NEW x \in remembered
       PROVE  /\ SameButSlots(heap'[x], Before[x]) /\ heap'[x].word = heap[x].word
              /\ \A k \in DOMAIN heap'[x].slots : Follows(forward', heap'[x].slots[k], Before[x].slots[k])
  <2>1. /\ SameButSlots(heap[x], Before[x]) /\ x \in DOMAIN Before /\ x # a
        /\ x \in DOMAIN heap \ {copy}
    BY <1>2, <1>6, <1>7, <1>8 DEF Copies
  <2> DEFINE f == [k \in DOMAIN heap[x].slots |-> BackTo(a, copy, heap[x].slots[k])]
             y == [heap[x] EXCEPT !.slots = f]
  <2>2. heap'[x] = y
    BY <1>5, <1>14, <2>1
  <2>3. \A k \in DOMAIN heap[x].slots :
          /\ BackTo(a, copy, heap[x].slots[k]) \in Refs
          /\ Follows(forward', BackTo(a, copy, heap[x].slots[k]), Before[x].slots[k])
    BY <1>2, <1>6, <1>11, <1>14, <2>1 DEF BackOutInv, Linked, RefersInto, SameButSlots
  <2>4. f \in [DOMAIN heap[x].slots -> Refs]
    BY <2>3
  <2>5. IsArray(heap[x])
    BY <2>1 DEF SameButSlots
  <2>6. IsArray(y) /\ y.slots = f /\ y.word = heap[x].word /\ y.id = heap[x].id
    BY <2>4, <2>5, SlotsReplaced
  <2> HIDE DEF y
  <2> QED BY <2>1, <2>2, <2>3, <2>6 DEF SameButSlots
<1>15. ASSUME NEW b \in DOMAIN Before \ remembered
       PROVE  IF b \in DOMAIN forward' THEN heap'[b] = [Before[b] EXCEPT !.word = FORWARDED]
                                        ELSE SameButAge(heap'[b], Before[b])
  <2>1. b \in DOMAIN heap \ {copy}
    BY <1>2, <1>8 DEF Copies
  <2>2. IF b \in DOMAIN forward THEN heap[b] = [Before[b] EXCEPT !.word = FORWARDED]
                                ELSE SameButAge(heap[b], Before[b])
    BY <1>2, <1>15 DEF Copies
  <2>3. CASE b = a
    <3>1. IsArray(heap[copy]) /\ Bare(heap[copy].word) = Bare(Before[a].word)
      BY <1>2, <1>4 DEF Copies, SameButSlots, copy
    <3>2. heap'[a] = [heap[a] EXCEPT !.word = heap[copy].word]
      BY <1>5, <2>1, <2>3
    <3>3. heap[a] = [Before[a] EXCEPT !.word = FORWARDED]
      BY <1>4, <2>2, <2>3
    <3>4. heap'[a] = [Before[a] EXCEPT !.word = heap[copy].word]
      <4>1. Before[a] = [word |-> Before[a].word, slots |-> Before[a].slots, id |-> Before[a].id]
        BY <1>7 DEF IsArray
      <4> QED BY <3>2, <3>3, <4>1
    <3>5. SameButAge(heap'[a], Before[a])
      BY <1>7, <3>1, <3>4, HeaderRestored
    <3> QED BY <1>9, <2>3, <3>5
  <2>4. CASE b # a
    BY <1>5, <1>9, <1>15, <2>1, <2>2, <2>4
  <2> QED BY <2>3, <2>4
<1>16. ASSUME NEW b \in DOMAIN forward' PROVE SameButSlots(heap'[forward'[b]], Before[b])
  <2>1. b \in DOMAIN forward /\ b # a /\ forward'[b] = forward[b]
    BY <1>9, <1>16
  <2>2. forward[b] # copy /\ forward[b] \notin DOMAIN Before /\ forward[b] \in DOMAIN heap
    BY <1>2, <1>4, <2>1 DEF Copies, Range, copy
  <2>3. heap'[forward[b]] = heap[forward[b]]
    BY <1>5, <1>6, <1>7, <2>2
  <2> QED BY <1>2, <2>1, <2>3 DEF Copies
<1>16a. ASSUME NEW b \in DOMAIN Before \cap OldSpace PROVE heap'[b].word = Before[b].word
  <2>1. heap[b].word = Before[b].word /\ b \in DOMAIN heap \ {copy} /\ b # a
    BY <1>2, <1>4, <1>8, SpaceFacts DEF Copies
  <2>2. heap'[b].word = heap[b].word
    BY <1>5, <1>14, <2>1
  <2> QED BY <2>1, <2>2
<1>17. Copies(heap', roots', forward')
  BY <1>2, <1>9, <1>10, <1>12, <1>13, <1>14, <1>15, <1>16, <1>16a DEF Copies
<1>18. StoppedInv' /\ CopyInv'
  BY <1>1, <1>2, <1>17, StillStopped
<1>19. BackOutInv'
  <2>1. Before' = Before /\ RootsBefore' = RootsBefore /\ pending' = {} /\ remembered' = remembered
    BY <1>1, <1>2 DEF Before, RootsBefore, BackOutInv
  <2> QED BY <1>13, <1>14, <2>1 DEF BackOutInv, Follows
<1> QED BY <1>1, <1>18, <1>19 DEF GenInv

\* All that has been copied has been put back: memory is what it was, but for
\* the ages of new arrays.
LEMMA BackedOut ==
  ASSUME fresh \in {0, 1}, StoppedInv, CopyInv, BackOutInv, forward = <<>>
  PROVE  /\ roots = RootsBefore
         /\ IsHeap(heap) /\ DOMAIN heap = DOMAIN Before
         /\ \A a \in DOMAIN Before : SameButAge(heap[a], Before[a])
         /\ \A a \in DOMAIN Before \cap OldSpace : heap[a] = Before[a]
<1>1. DOMAIN forward = {} /\ Range(forward) = {}
  BY DEF Range
<1>2. /\ IsMemory(heap) /\ DOMAIN heap = DOMAIN Before
      /\ \A a \in DOMAIN Before \ remembered : SameButAge(heap[a], Before[a])
      /\ \A a \in DOMAIN Before \cap OldSpace : heap[a].word = Before[a].word
      /\ \A a \in remembered : SameButSlots(heap[a], Before[a])
      /\ roots \in Seq(Refs) /\ DOMAIN roots = DOMAIN RootsBefore
  BY <1>1 DEF CopyInv, Copies
<1>3. /\ \A k \in DOMAIN roots : roots[k] = RootsBefore[k]
      /\ \A a \in remembered : \A k \in DOMAIN heap[a].slots : heap[a].slots[k] = Before[a].slots[k]
  BY <1>1 DEF BackOutInv, Follows
<1>4. IsHeap(Before) /\ RootsBefore \in Seq(Refs) /\ remembered \subseteq DOMAIN Before
  BY DEF StoppedInv, Settled, Remembers
<1>5. ASSUME NEW a \in remembered PROVE SameButAge(heap[a], Before[a])
  <2>1. SameButSlots(heap[a], Before[a]) /\ IsArray(heap[a]) /\ IsArray(Before[a])
    BY <1>2, <1>4, <1>5 DEF SameButSlots, IsHeap
  <2>2. /\ heap[a].slots = [k \in DOMAIN heap[a].slots |-> heap[a].slots[k]]
        /\ Before[a].slots = [k \in DOMAIN Before[a].slots |-> Before[a].slots[k]]
    BY <2>1, ArrayFacts
  <2>3. DOMAIN heap[a].slots = DOMAIN Before[a].slots
    BY <2>1 DEF SameButSlots
  <2>4. heap[a].slots = Before[a].slots
    BY <1>3, <1>5, <2>2, <2>3
  <2> QED BY <2>1, <2>4 DEF SameButAge, SameButSlots
<1>6. \A a \in DOMAIN Before : SameButAge(heap[a], Before[a])
  BY <1>2, <1>5
<1>7. \A a \in DOMAIN Before \cap OldSpace : heap[a] = Before[a]
  <2>1. \A a \in DOMAIN Before : IsArray(Before[a])
    BY <1>4 DEF IsHeap
  <2> QED BY <1>2, <1>6, <2>1, SameIfWord
<1>8. IsHeap(heap)
  <2>1. \A a \in DOMAIN heap : IsArray(heap[a]) /\ SizeOf(heap[a]) = SizeOf(Before[a])
    BY <1>2, <1>4, <1>6, BareAlike DEF SameButAge, IsHeap
  <2> QED BY <1>2, <1>4, <2>1, AlikeHeap
<1>9. roots = RootsBefore
  <2>1. Len(roots) = Len(RootsBefore)
    BY <1>2, <1>4
  <2> QED BY <1>2, <1>3, <1>4, <2>1
<1> QED BY <1>2, <1>6, <1>7, <1>8, <1>9

LEMMA FinishBackOutKeeps == ASSUME GenInv, FinishBackOut PROVE GenInv'
<1>1. /\ phase = "backout" /\ phase' = "mutator" /\ forward = <<>> /\ forward' = <<>>
      /\ heap' = heap /\ roots' = roots /\ native' = native /\ request' = request
      /\ UNCHANGED <<grey, fresh, remembered, pending, scavenged>>
  BY DEF FinishBackOut, mutator, generational
<1>2. /\ fresh \in {0, 1} /\ StoppedInv /\ CopyInv /\ BackOutInv /\ grey = {} /\ pending = {}
      /\ \A r \in request : r.collected => scavenged
  BY <1>1 DEF GenInv, BackOutInv
<1>3. /\ roots = RootsBefore /\ IsHeap(heap) /\ DOMAIN heap = DOMAIN Before
      /\ \A a \in DOMAIN Before : SameButAge(heap[a], Before[a])
      /\ \A a \in DOMAIN Before \cap OldSpace : heap[a] = Before[a]
  BY <1>1, <1>2, BackedOut
<1>4. /\ IsHeap(Before) /\ roots \in Seq(Refs) /\ Linked(Before, roots) /\ native = Null
      /\ Settled(Before, remembered)
      /\ \A r \in request : IsRequest(r) /\ ~r.collected
      /\ \A r, s \in request : r = s
  BY <1>2, <1>3 DEF StoppedInv
<1>5. Linked(heap, roots)
  BY <1>3, <1>4 DEF Linked, RefersInto, SameButAge
<1>6. TypeInv'
  BY <1>1, <1>3, <1>4 DEF TypeInv, Refs
<1>7. MutatorInv' /\ RequestInv'
  BY <1>1, <1>4, <1>5 DEF MutatorInv, RequestInv
<1>8. Settled(heap, remembered)
  <2>1. \A a \in DOMAIN heap : SizeOf(heap[a]) = SizeOf(Before[a])
    BY <1>3, <1>4, BareAlike DEF SameButAge, IsHeap
  <2>2. Placed(heap, {Evacuate, OldSpace})
    BY <1>3, <1>4, <2>1, PlacedAlike DEF Settled
  <2>3. \A a \in DOMAIN Before \cap OldSpace :
          /\ Edges(heap, a) = Edges(Before, a)
          /\ IsRemembered(heap, a) <=> IsRemembered(Before, a)
    BY <1>3 DEF Edges, IsRemembered
  <2> QED BY <1>3, <1>4, <2>2, <2>3 DEF Settled, Remembers
<1>9. Settled(heap, remembered)'
  BY <1>1, <1>8 DEF Settled, Placed, Remembers, Evacuate
<1> QED BY <1>1, <1>2, <1>6, <1>7, <1>9 DEF GenInv, IInv


LEMMA GenNextKeeps == GenInv /\ [GenNext]_everything => GenInv'
<1> SUFFICES ASSUME GenInv, [GenNext]_everything PROVE GenInv'
  OBVIOUS
<1>1. CASE UNCHANGED everything
  <2>1. /\ UNCHANGED <<heap, roots, native, request, phase, marked, grey, unmoved, forward, unfixed, stopped>>
        /\ UNCHANGED <<fresh, remembered, pending, scavenged>>
    BY <1>1 DEF everything, vars, generational
  <2>2. CASE phase \in {"mutator", "mark"}
    <3>1. IInv' /\ Settled(heap, remembered)'
      <4>1. IInv /\ Settled(heap, remembered)
        BY <2>2 DEF GenInv
      <4>2. IInv'
        BY <2>1, <4>1, NextKeeps DEF vars
      <4>3. Settled(heap, remembered)'
        BY <2>1, <4>1 DEF Settled, Placed, Remembers, Evacuate
      <4> QED BY <4>2, <4>3
    <3> QED BY <2>1, <2>2, <3>1 DEF GenInv
  <2>3. CASE phase = "scavenge"
    <3>1. Copies(heap', roots', forward') /\ Scavenging(heap', roots', forward', pending')
      BY <2>1, <2>3 DEF GenInv, CopyInv, ScavengeInv
    <3> QED BY <2>1, <2>3, <3>1, GoesOn
  <2>4. CASE phase = "backout"
    <3>1. StoppedInv /\ Copies(heap', roots', forward') /\ BackOutInv
      BY <2>1, <2>4 DEF GenInv, CopyInv
    <3>2. StoppedInv' /\ CopyInv'
      BY <2>1, <3>1, StillStopped
    <3>3. BackOutInv'
      BY <2>1, <3>1 DEF BackOutInv, Follows, Before, RootsBefore
    <3> QED BY <2>1, <2>4, <3>2, <3>3 DEF GenInv
  <2> QED BY <2>2, <2>3, <2>4 DEF GenInv
<1>2. CASE GenProgram
  BY <1>2, GenProgramKeeps
<1>3. CASE GenAllocate \/ GenAllocationFails
  BY <1>3, GenAllocateKeeps, GenAllocationFailsKeeps
<1>4. CASE StartScavenge
  BY <1>4, StartScavengeKeeps
<1>5. CASE \E slot \in pending : ScavengeSlot(slot) \/ CopyArray(slot) \/ StartBackOut(slot)
  BY <1>5, ScavengeSlotKeeps, CopyArrayKeeps, StartBackOutKeeps
<1>6. CASE FinishScavenge
  BY <1>6, FinishScavengeKeeps
<1>7. CASE ReverseForwarded \/ FinishBackOut
  BY <1>7, ReverseForwardedKeeps, FinishBackOutKeeps
<1>8. CASE StartGlobal \/ MarkGlobal \/ SweepGlobal
  BY <1>8, StartGlobalKeeps, MarkGlobalKeeps, SweepGlobalKeeps
<1> QED BY <1>1, <1>2, <1>3, <1>4, <1>5, <1>6, <1>7, <1>8 DEF GenNext, GenInside, GenCollect

\* Between collections and in the middle of every one of them, of either kind,
\* memory, StackRoots, forwarding pointers and the remembered set are what the
\* invariant says.
THEOREM GenInvariance == GenSpec => []GenInv
BY GenInitially, GenNextKeeps, PTL DEF GenSpec

-----------------------------------------------------------------------------
(* The properties.                                                         *)

\* While the program runs no array lies across the border of two spaces, and
\* the half of new space that collections copy to is empty.
THEOREM SpacesApart == GenSpec => []GenTypeOK
<1>1. GenInv => GenTypeOK
  BY DEF GenInv, GenTypeOK, Settled, Placed
<1> QED BY <1>1, GenInvariance, PTL

\* While the program runs the remembered set holds every old array, dead ones
\* too, that refers to a new one, and it agrees with the flags in the headers:
\* after every barrier, tenuring, backing out and sweep.
THEOREM RememberedSetIsComplete == GenSpec => []RememberedSetComplete
<1>1. GenInv => RememberedSetComplete
  BY DEF GenInv, RememberedSetComplete, Settled, Remembers
<1> QED BY <1>1, GenInvariance, PTL

\* A scavenge that finishes leaves the arrays that were old and what they and
\* the StackRoots reached when it started, each once, and nothing else.
THEOREM ScavengesAreExact == GenSpec => ScavengeIsExact
<1> DEFINE Exact ==
      phase = "scavenge" /\ phase' = "mutator" =>
          LET before == stopped.heap
              old    == DOMAIN before \cap OldSpace
          IN  IdsOf(heap', DOMAIN heap')
                = IdsOf(before, old \cup Reachable(before, Range(stopped.roots) \cup old))
<1>1. GenInv /\ [GenNext]_everything => [Exact]_everything
  <2> SUFFICES ASSUME GenInv, GenNext, phase = "scavenge", phase' = "mutator"
               PROVE  IdsOf(heap', DOMAIN heap')
                        = IdsOf(Before, OldBefore \cup Reachable(Before, Range(RootsBefore) \cup OldBefore))
    BY DEF Before, OldBefore, RootsBefore
  <2>1. FinishScavenge
    BY DEF GenNext, GenProgram, GenInside, GenCollect, GenAllocate, GenAllocationFails, InMutator,
           StoreBarriered, Request, PushRoot, PopRoot, AssignRoot, GetRoot, Load, StartScavenge,
           ScavengeSlot, CopyArray, StartBackOut, ReverseForwarded, FinishBackOut, StartGlobal,
           StartCollection, MarkGlobal, Mark, SweepGlobal, Sweep, collector
  <2>2. OldBefore \subseteq Surviving
    BY ReachableFacts DEF Surviving, OldBefore
  <2> QED BY <2>1, <2>2, FinishScavengeExact DEF Surviving
<1>2. [][Exact]_everything => ScavengeIsExact
  BY PTL DEF ScavengeIsExact
<1> QED BY <1>1, <1>2, GenInvariance, PTL DEF GenSpec

\* A scavenge that is given up, whenever it is and whatever the flags of the
\* copies are then, puts memory and StackRoots back to what they were when it
\* started, but for the ages of new arrays, which are those of the copies.
THEOREM BackOutsLeaveNoTrace == GenSpec => BackOutLeavesNoTrace
<1> DEFINE NoTrace ==
      phase = "backout" /\ phase' = "mutator" =>
          Ageless(heap') = Ageless(stopped.heap) /\ roots' = stopped.roots
<1>1. GenInv /\ [GenNext]_everything => [NoTrace]_everything
  <2> SUFFICES ASSUME GenInv, GenNext, phase = "backout", phase' = "mutator"
               PROVE  Ageless(heap') = Ageless(Before) /\ roots' = RootsBefore
    BY DEF Before, RootsBefore
  <2>1. FinishBackOut
    BY DEF GenNext, GenProgram, GenInside, GenCollect, GenAllocate, GenAllocationFails, InMutator,
           StoreBarriered, Request, PushRoot, PopRoot, AssignRoot, GetRoot, Load, StartScavenge,
           ScavengeSlot, CopyArray, StartBackOut, ReverseForwarded, FinishScavenge, StartGlobal,
           StartCollection, MarkGlobal, Mark, SweepGlobal, Sweep, collector
  <2>2. heap' = heap /\ roots' = roots /\ forward = <<>>
    BY <2>1 DEF FinishBackOut, mutator
  <2>3. fresh \in {0, 1} /\ StoppedInv /\ CopyInv /\ BackOutInv
    BY DEF GenInv
  <2>4. /\ roots = RootsBefore /\ DOMAIN heap = DOMAIN Before
        /\ \A a \in DOMAIN Before : SameButAge(heap[a], Before[a])
        /\ \A a \in DOMAIN Before \cap OldSpace : heap[a] = Before[a]
    BY <2>2, <2>3, BackedOut
  <2>5. ASSUME NEW a \in DOMAIN Before
        PROVE  [heap[a] EXCEPT !.word = Bare(@)] = [Before[a] EXCEPT !.word = Bare(@)]
    <3>1. /\ heap[a] = [word |-> heap[a].word, slots |-> heap[a].slots, id |-> heap[a].id]
          /\ Before[a] = [word |-> Before[a].word, slots |-> Before[a].slots, id |-> Before[a].id]
      <4>1. IsArray(heap[a]) /\ IsArray(Before[a])
        BY <2>3, <2>4, <2>5 DEF SameButAge, StoppedInv, IsHeap
      <4> QED BY <4>1 DEF IsArray
    <3>2. /\ [heap[a] EXCEPT !.word = Bare(@)]
               = [word |-> Bare(heap[a].word), slots |-> heap[a].slots, id |-> heap[a].id]
          /\ [Before[a] EXCEPT !.word = Bare(@)]
               = [word |-> Bare(Before[a].word), slots |-> Before[a].slots, id |-> Before[a].id]
      BY <3>1
    <3> QED BY <2>4, <3>2 DEF SameButAge
  <2>6. Ageless(heap) = Ageless(Before)
    BY <2>4, <2>5 DEF Ageless, Bare
  <2> QED BY <2>2, <2>4, <2>6
<1>2. [][NoTrace]_everything => BackOutLeavesNoTrace
  BY PTL DEF BackOutLeavesNoTrace
<1> QED BY <1>1, <1>2, GenInvariance, PTL DEF GenSpec

-----------------------------------------------------------------------------
(* What the program sees of the collector.                                 *)

\* Where an array is after a scavenge.
GoneTo(ref) == IF ref \in DOMAIN forward THEN forward[ref] ELSE ref

LEMMA LeftAlike ==
  ASSUME GenInv, FinishScavenge
  PROVE  /\ DOMAIN heap' = DOMAIN heap \ Evacuate
         /\ \A x \in DOMAIN heap' : /\ heap'[x].slots = heap[x].slots /\ heap'[x].id = heap[x].id
                                    /\ HeaderKind(heap'[x].word) = HeaderKind(heap[x].word)
<1> DEFINE now  == {a \in MayRefer : Referents(heap, a) \cap Survivor # {}}
           left == DOMAIN heap \ Evacuate
<1>1. /\ heap' = [a \in left |-> IF a \in OldSpace THEN Reflagged(heap[a], a \in now) ELSE heap[a]]
      /\ phase = "scavenge"
  BY DEF FinishScavenge, Reflagged
<1>2. IsHeap(Elsewhere(heap))
  BY <1>1 DEF GenInv, ScavengeInv, Scavenging
<1>3. DOMAIN Elsewhere(heap) = left /\ \A a \in left : Elsewhere(heap)[a] = heap[a]
  BY ElsewhereFacts
<1>4. DOMAIN heap' = left /\ IsMemory(heap')
  BY <1>1 DEF IsMemory
<1>5. \A a \in DOMAIN Elsewhere(heap) :
         heap'[a] = IF a \in OldSpace THEN Reflagged(Elsewhere(heap)[a], a \in now)
                                      ELSE Elsewhere(heap)[a]
  BY <1>1, <1>3
<1> HIDE DEF now, left
<1>6. \A a \in DOMAIN Elsewhere(heap) :
         /\ heap'[a].slots = Elsewhere(heap)[a].slots /\ heap'[a].id = Elsewhere(heap)[a].id
         /\ HeaderKind(heap'[a].word) = HeaderKind(Elsewhere(heap)[a].word)
  BY <1>2, <1>3, <1>4, <1>5, ReflaggedHeap
<1> QED BY <1>3, <1>4, <1>6 DEF left

\* What a slot holds that has been dealt with is where the array is that it held.
LEMMA RedirectedTo ==
  ASSUME CopyInv, NEW held, NEW ref, Redirected(forward, ref, held)
  PROVE  ref = GoneTo(held)
<1>1. DOMAIN forward \subseteq Evacuate
  BY DEF CopyInv, Copies
<1> QED BY <1>1 DEF Redirected, GoneTo

\* The survivors are all that is left, with the identities, kinds and references
\* that they had.
LEMMA SurvivorsLeft ==
  ASSUME fresh \in {0, 1}, StoppedInv, CopyInv, Scavenging(heap, roots, forward, {})
  PROVE  /\ \A y \in DOMAIN heap \ Evacuate : \E a \in Surviving : y = GoneTo(a)
         /\ \A a \in Surviving :
              /\ a \in DOMAIN Before /\ GoneTo(a) \in DOMAIN heap \ Evacuate
              /\ heap[GoneTo(a)].id = Before[a].id
              /\ HeaderKind(heap[GoneTo(a)].word) = HeaderKind(Before[a].word)
              /\ DOMAIN heap[GoneTo(a)].slots = DOMAIN Before[a].slots
              /\ \A k \in DOMAIN Before[a].slots :
                    heap[GoneTo(a)].slots[k] = GoneTo(Before[a].slots[k])
         /\ DOMAIN roots = DOMAIN RootsBefore
         /\ \A k \in DOMAIN RootsBefore : roots[k] = GoneTo(RootsBefore[k])
<1>1. /\ IsHeap(Before) /\ Placed(Before, {Evacuate, OldSpace})
      /\ \A x \in DOMAIN Before \cap OldSpace : Edges(Before, x) \cap NewSpace # {} => x \in remembered
      /\ remembered \subseteq DOMAIN Before \cap OldSpace
  BY DEF StoppedInv, Settled, Remembers
<1>2. Copies(heap, roots, forward)
  BY DEF CopyInv
<1>3. Surviving = OldBefore \cup DOMAIN forward
  BY <1>2, CopiedSurvivors
<1>4. DOMAIN roots = DOMAIN RootsBefore /\ \A k \in DOMAIN RootsBefore : roots[k] = GoneTo(RootsBefore[k])
  BY <1>2, RedirectedTo DEF Copies, Scavenging
<1>5. ASSUME NEW y \in DOMAIN heap \ Evacuate PROVE \E a \in Surviving : y = GoneTo(a)
  <2>1. CASE y \in Range(forward)
    <3>1. PICK a \in DOMAIN forward : y = forward[a]
      BY <2>1 DEF Range
    <3> QED BY <1>3, <3>1 DEF GoneTo
  <2>2. CASE y \notin Range(forward)
    <3>1. y \in DOMAIN Before \ Evacuate
      BY <1>2, <2>2 DEF Copies
    <3>2. y \in OldBefore
      BY <1>1, <3>1, PlacedFacts DEF OldBefore
    <3>3. y \notin DOMAIN forward
      BY <1>2, <3>1 DEF Copies
    <3> QED BY <1>3, <3>2, <3>3 DEF GoneTo
  <2> QED BY <2>1, <2>2
<1>6. ASSUME NEW x, NEW a, Scanned(forward, x, a)
      PROVE  /\ x \in DOMAIN heap \ Evacuate /\ a \in DOMAIN Before
             /\ heap[x].id = Before[a].id /\ HeaderKind(heap[x].word) = HeaderKind(Before[a].word)
             /\ DOMAIN heap[x].slots = DOMAIN Before[a].slots
             /\ \A k \in DOMAIN Before[a].slots : heap[x].slots[k] = GoneTo(Before[a].slots[k])
  <2>1. /\ x \in DOMAIN heap \ Evacuate /\ a \in DOMAIN Before /\ SameButSlots(heap[x], Before[a])
        /\ IsArray(Before[a])
    BY <1>2, <1>6, ScannedFacts
  <2>1a. HeaderKind(heap[x].word) = HeaderKind(Before[a].word)
    BY <2>1, BareAlike DEF SameButSlots
  <2>2. a \in DOMAIN heap
    BY <1>2, <2>1 DEF Copies
  <2>3. ASSUME NEW k \in DOMAIN heap[x].slots
        PROVE  heap[x].slots[k] = GoneTo(Before[a].slots[k])
    <3>1. Redirected(forward, heap[x].slots[k], Before[a].slots[k])
      BY <1>6, <2>1, <2>2 DEF Scavenging
    <3> QED BY <3>1, RedirectedTo
  <2> QED BY <2>1, <2>1a, <2>3 DEF SameButSlots
<1>7. ASSUME NEW a \in Surviving
      PROVE  /\ a \in DOMAIN Before /\ GoneTo(a) \in DOMAIN heap \ Evacuate
             /\ heap[GoneTo(a)].id = Before[a].id
             /\ HeaderKind(heap[GoneTo(a)].word) = HeaderKind(Before[a].word)
             /\ DOMAIN heap[GoneTo(a)].slots = DOMAIN Before[a].slots
             /\ \A k \in DOMAIN Before[a].slots :
                   heap[GoneTo(a)].slots[k] = GoneTo(Before[a].slots[k])
  <2>1. CASE a \in DOMAIN forward
    <3>1. Scanned(forward, forward[a], a) /\ GoneTo(a) = forward[a]
      BY <2>1 DEF Scanned, GoneTo
    <3> QED BY <1>6, <3>1
  <2>2. CASE a \in remembered
    <3>1. Scanned(forward, a, a)
      BY <2>2 DEF Scanned
    <3>2. a \notin Evacuate
      BY <1>6, <3>1
    <3>3. GoneTo(a) = a
      BY <1>2, <3>2 DEF GoneTo, Copies
    <3> QED BY <1>6, <3>1, <3>3
  <2>3. CASE a \in OldBefore \ remembered
    <3>1. a \in DOMAIN Before \ Evacuate
      BY <2>3, SpaceFacts DEF OldBefore
    <3>2. a \notin DOMAIN forward /\ GoneTo(a) = a /\ a \in DOMAIN heap
      BY <1>2, <3>1 DEF Copies, GoneTo
    <3>3. heap[a] = Before[a]
      BY <1>2, <2>3, OldUntouched DEF OldBefore
    <3>4. Edges(Before, a) \cap Evacuate = {}
      BY <1>1, <2>3, SpaceFacts DEF OldBefore
    <3>5. Null \notin DOMAIN forward
      BY <1>2, SpaceFacts DEF Copies
    <3>6. ASSUME NEW k \in DOMAIN Before[a].slots
          PROVE  Before[a].slots[k] = GoneTo(Before[a].slots[k])
      <4>1. Before[a].slots[k] \in Edges(Before, a) \cup {Null}
        BY DEF Edges, Range
      <4> QED BY <1>2, <3>4, <3>5, <4>1 DEF GoneTo, Copies
    <3> QED BY <3>1, <3>2, <3>3, <3>6
  <2> QED BY <1>3, <2>1, <2>2, <2>3
<1> QED BY <1>4, <1>5, <1>7

\* After a scavenge the program sees what it saw before.
LEMMA FinishScavengeSeen ==
  ASSUME GenInv, SeenInv, GenInv', FinishScavenge
  PROVE  SeenInv' /\ UNCHANGED Graph!vars
<1>1. /\ phase = "scavenge" /\ phase' = "mutator" /\ pending = {}
      /\ roots' = roots /\ native' = native /\ request' = request
  BY DEF FinishScavenge
<1>2. /\ fresh \in {0, 1} /\ StoppedInv /\ CopyInv /\ Scavenging(heap, roots, forward, {})
      /\ IsHeap(Before) /\ Linked(Before, RootsBefore) /\ native = Null /\ IInv'
  BY <1>1 DEF GenInv, ScavengeInv, StoppedInv
<1>3. /\ DOMAIN heap' = DOMAIN heap \ Evacuate
      /\ \A x \in DOMAIN heap' : /\ heap'[x].slots = heap[x].slots /\ heap'[x].id = heap[x].id
                                 /\ HeaderKind(heap'[x].word) = HeaderKind(heap[x].word)
  BY LeftAlike
<1>4. /\ \A y \in DOMAIN heap' : \E a \in Surviving : y = GoneTo(a)
      /\ \A a \in Surviving :
           /\ a \in DOMAIN Before /\ GoneTo(a) \in DOMAIN heap'
           /\ heap'[GoneTo(a)].id = Before[a].id
           /\ HeaderKind(heap'[GoneTo(a)].word) = HeaderKind(Before[a].word)
           /\ DOMAIN heap'[GoneTo(a)].slots = DOMAIN Before[a].slots
           /\ \A k \in DOMAIN Before[a].slots :
                 heap'[GoneTo(a)].slots[k] = GoneTo(Before[a].slots[k])
      /\ DOMAIN roots = DOMAIN RootsBefore
      /\ \A k \in DOMAIN RootsBefore : roots[k] = GoneTo(RootsBefore[k])
  BY <1>2, <1>3, SurvivorsLeft
<1>5. /\ Surviving \in SUBSET DOMAIN Before
      /\ RootsInto(RootsBefore, Surviving)
      /\ \A a \in Surviving : RefersInto(Before[a], Surviving)
  <2>1. /\ Surviving \subseteq DOMAIN Before
        /\ (Range(RootsBefore) \cup OldBefore) \cap DOMAIN Before \subseteq Surviving
        /\ Closed(Before, Surviving)
    BY ReachableFacts DEF Surviving
  <2>2. RootsInto(RootsBefore, Surviving)
    BY <1>2, <2>1 DEF Linked, RootsInto, Range
  <2>3. ASSUME NEW a \in Surviving PROVE RefersInto(Before[a], Surviving)
    <3>1. Edges(Before, a) \subseteq DOMAIN Before
      BY <1>2, <2>1, EdgesInto DEF Linked
    <3> QED BY <2>1, <3>1, EdgesInto DEF Closed
  <2> QED BY <2>1, <2>2, <2>3
<1>6. \A ref \in Surviving \cup {Null} : IdAt(heap', GoneTo(ref)) = IdAt(Before, ref)
  <2>1. Null \notin DOMAIN Before /\ Null \notin DOMAIN heap'
    BY <1>2, AddressFacts DEF IsHeap, IInv, TypeInv
  <2>2. GoneTo(Null) = Null
    BY <1>2, <2>1 DEF GoneTo, CopyInv, Copies
  <2> QED BY <1>4, <2>1, <2>2 DEF IdAt
<1>7. ASSUME NEW a \in Surviving PROVE Node(heap', GoneTo(a)) = Node(Before, a)
  <2>1. \A k \in DOMAIN Before[a].slots :
           IdAt(heap', heap'[GoneTo(a)].slots[k]) = IdAt(Before, Before[a].slots[k])
    BY <1>4, <1>5, <1>6 DEF RefersInto
  <2> QED BY <1>4, <2>1 DEF Node
<1>8. IdList(heap', roots') = IdList(Before, RootsBefore)
  <2>1. \A k \in DOMAIN RootsBefore : IdAt(heap', roots[k]) = IdAt(Before, RootsBefore[k])
    BY <1>4, <1>5, <1>6 DEF RootsInto
  <2> QED BY <1>1, <1>4, <2>1 DEF IdList
<1> DEFINE at == [a \in Surviving |-> GoneTo(a)]
<1>9. \A a \in Surviving : at[a] = GoneTo(a)
  OBVIOUS
<1> HIDE DEF at
<1>10. \A y \in DOMAIN heap' : \E a \in Surviving : y = at[a]
  BY <1>4, <1>9
<1>11. \A a \in Surviving : /\ at[a] \in DOMAIN heap' /\ heap'[at[a]].id = Before[a].id
                            /\ Node(heap', at[a]) = Node(Before, a)
  BY <1>4, <1>7, <1>9
<1> QED BY <1>1, <1>2, <1>5, <1>8, <1>10, <1>11, ResumedSeen DEF Before, RootsBefore

\* After a scavenge that is backed out the program sees what it saw before: it
\* does not see ages.
LEMMA FinishBackOutSeen ==
  ASSUME GenInv, SeenInv, GenInv', FinishBackOut
  PROVE  SeenInv' /\ UNCHANGED Graph!vars
<1>1. /\ phase = "backout" /\ phase' = "mutator" /\ forward = <<>>
      /\ heap' = heap /\ roots' = roots /\ native' = native /\ request' = request
  BY DEF FinishBackOut, mutator
<1>2. /\ fresh \in {0, 1} /\ StoppedInv /\ CopyInv /\ BackOutInv
      /\ IsHeap(Before) /\ Linked(Before, RootsBefore) /\ native = Null /\ IInv'
  BY <1>1 DEF GenInv, StoppedInv
<1>3. /\ roots = RootsBefore /\ DOMAIN heap = DOMAIN Before
      /\ \A a \in DOMAIN Before : SameButAge(heap[a], Before[a])
  BY <1>1, <1>2, BackedOut
<1>4. \A a \in DOMAIN Before : /\ heap[a].id = Before[a].id /\ heap[a].slots = Before[a].slots
                              /\ HeaderKind(heap[a].word) = HeaderKind(Before[a].word)
  BY <1>2, <1>3, BareAlike DEF SameButAge, IsHeap
<1>5. \A ref : IdAt(heap, ref) = IdAt(Before, ref)
  BY <1>3, <1>4 DEF IdAt
<1>6. \A a \in DOMAIN Before : Node(heap, a) = Node(Before, a)
  BY <1>4, <1>5 DEF Node
<1>7. IdList(heap', roots') = IdList(Before, RootsBefore)
  BY <1>1, <1>3, <1>5 DEF IdList
<1> DEFINE at == [a \in DOMAIN Before |-> a]
<1>8. \A a \in DOMAIN Before : at[a] = a
  OBVIOUS
<1> HIDE DEF at
<1>9. /\ RootsInto(RootsBefore, DOMAIN Before)
      /\ \A a \in DOMAIN Before : RefersInto(Before[a], DOMAIN Before)
  BY <1>2 DEF Linked
<1>10. \A y \in DOMAIN heap' : \E a \in DOMAIN Before : y = at[a]
  BY <1>1, <1>3, <1>8
<1>11. \A a \in DOMAIN Before : /\ at[a] \in DOMAIN heap' /\ heap'[at[a]].id = Before[a].id
                                /\ Node(heap', at[a]) = Node(Before, a)
  BY <1>1, <1>3, <1>4, <1>6, <1>8
<1> QED BY <1>1, <1>2, <1>7, <1>9, <1>10, <1>11, ResumedSeen DEF Before, RootsBefore

\* A store through the barrier is a store.
LEMMA StoreBarrieredSeen ==
  ASSUME GenInv, SeenInv, GenInv', NEW r \in DOMAIN roots, NEW k \in 1 .. MaxLength, StoreBarriered(r, k)
  PROVE  SeenInv' /\ Graph!Next /\ Graph!Store(r, k)
<1>1. /\ phase = "mutator" /\ phase' = "mutator" /\ InMutator /\ HasSlot(r, k)
      /\ UNCHANGED <<roots, native, request, collector>>
  BY DEF StoreBarriered, InMutator, collector
<1>2. IInv /\ IInv'
  BY <1>1 DEF GenInv
<1>3. /\ DOMAIN heap' = DOMAIN heap /\ \A x \in DOMAIN heap \ {roots[r]} : heap'[x] = heap[x]
      /\ heap'[roots[r]].slots = [heap[roots[r]].slots EXCEPT ![k] = native]
      /\ heap'[roots[r]].id = heap[roots[r]].id
      /\ HeaderKind(heap'[roots[r]].word) = HeaderKind(heap[roots[r]].word)
  BY StoreBarrieredFacts
<1> QED BY <1>1, <1>2, <1>3, SlotWrittenSeen

LEMMA GenProgramSeen ==
  ASSUME GenInv, SeenInv, GenInv', GenProgram
  PROVE  SeenInv' /\ Graph!Next
<1>1. CASE \E r \in DOMAIN roots, k \in UsedSlots : StoreBarriered(r, k)
  BY <1>1, HeapAssumption, StoreBarrieredSeen
<1>2. CASE Program
  <2>1. phase = "mutator" /\ phase' = "mutator"
    BY <1>2 DEF Program, Request, PushRoot, PopRoot, AssignRoot, GetRoot, Load, Store, InMutator,
                collector
  <2>2. IInv /\ IInv'
    BY <2>1 DEF GenInv
  <2> QED BY <1>2, <2>2, ProgramSeen
<1>3. (\E r \in DOMAIN roots, k \in UsedSlots : StoreBarriered(r, k)) \/ Program
  BY DEF GenProgram, Program
<1> QED BY <1>1, <1>2, <1>3

LEMMA GenAllocateSeen ==
  ASSUME GenInv, SeenInv, GenInv', GenAllocate
  PROVE  SeenInv' /\ Graph!Next /\ GotNewArray
<1>1. phase = "mutator" /\ phase' = "mutator" /\ request' = {} /\ roots' = roots
  BY DEF GenAllocate, collector
<1>2. IInv /\ IInv'
  BY <1>1 DEF GenInv
<1>3. PICK r \in request, a \in Address \ DOMAIN heap : PlacedFor(r, a)
  BY GenAllocateFacts
<1> QED BY <1>1, <1>2, <1>3, PlacedSeen

LEMMA GenAllocationFailsSeen ==
  ASSUME SeenInv, GenAllocationFails
  PROVE  SeenInv' /\ Graph!Next /\ Graph!Fail
BY NothingPlacedSeen DEF GenAllocationFails, collector

\* The program does not notice what a collector does.
LEMMA GenCollectSeen ==
  ASSUME GenInv, SeenInv, GenInv', GenCollect
  PROVE  SeenInv' /\ UNCHANGED Graph!vars
<1>1. \A r \in request : IsRequest(r)
  BY DEF GenInv, IInv, TypeInv, StoppedInv
<1>2. CASE StartScavenge
  <2>1. Seen' = Seen /\ native' = native /\ request' = request
    BY <1>2 DEF StartScavenge, mutator, Seen
  <2> QED BY <1>1, <2>1, StoppedSeen
<1>3. ASSUME NEW slot \in pending, ScavengeSlot(slot) \/ CopyArray(slot) \/ StartBackOut(slot)
      PROVE  SeenInv' /\ UNCHANGED Graph!vars
  <2>1. /\ phase # "mutator" /\ phase' # "mutator"
        /\ native' = native /\ request' = request /\ stopped' = stopped
    BY <1>3 DEF ScavengeSlot, CopyArray, StartBackOut, mutator, collector
  <2> QED BY <1>1, <2>1, StepWhileStopped
<1>4. CASE FinishScavenge
  BY <1>4, FinishScavengeSeen
<1>5. CASE ReverseForwarded
  <2>1. /\ phase # "mutator" /\ phase' # "mutator"
        /\ native' = native /\ request' = request /\ stopped' = stopped
    BY <1>5 DEF ReverseForwarded
  <2> QED BY <1>1, <2>1, StepWhileStopped
<1>6. CASE FinishBackOut
  BY <1>6, FinishBackOutSeen
<1>7. CASE StartGlobal
  <2>1. StartCollection /\ IInv
    BY <1>7 DEF StartGlobal, StartCollection, GenInv
  <2> QED BY <2>1, StartCollectionSeen
<1>8. CASE MarkGlobal
  <2>1. /\ phase # "mutator" /\ phase' # "mutator"
        /\ native' = native /\ request' = request /\ stopped' = stopped
    BY <1>8 DEF MarkGlobal, Mark, mutator
  <2> QED BY <1>1, <2>1, StepWhileStopped
<1>9. CASE SweepGlobal
  <2>1. Sweep /\ phase = "mark" /\ phase' = "mutator"
    BY <1>9, ScavengeAssumption DEF SweepGlobal, Sweep, Compacts, CompactionPrevented
  <2>2. IInv /\ IInv'
    BY <2>1 DEF GenInv
  <2> QED BY <2>1, <2>2, SweepSeen
<1> QED BY <1>2, <1>3, <1>4, <1>5, <1>6, <1>7, <1>8, <1>9 DEF GenCollect

LEMMA GenNextSeen ==
  GenInv /\ SeenInv /\ GenInv' /\ [GenNext]_everything => SeenInv' /\ [Graph!Next]_(Graph!vars)
<1> SUFFICES ASSUME GenInv, SeenInv, GenInv', [GenNext]_everything
             PROVE  SeenInv' /\ (Graph!Next \/ UNCHANGED Graph!vars)
  OBVIOUS
<1>1. CASE GenProgram
  BY <1>1, GenProgramSeen
<1>2. CASE GenAllocate \/ GenAllocationFails
  BY <1>2, GenAllocateSeen, GenAllocationFailsSeen
<1>3. CASE GenCollect
  BY <1>3, GenCollectSeen
<1>4. CASE UNCHANGED everything
  <2>1. Seen' = Seen /\ native' = native /\ request' = request
    BY <1>4 DEF everything, vars, Seen
  <2>2. \A r \in request : IsRequest(r)
    BY DEF GenInv, IInv, TypeInv, StoppedInv
  <2> QED BY <2>1, <2>2, StoppedSeen
<1> QED BY <1>1, <1>2, <1>3, <1>4 DEF GenNext, GenInside

\* The program cannot tell that there is a generational collector: what it does
\* through the store barrier to arrays that are copied, tenured, put back when a
\* scavenge is given up, and swept, it does to a graph in which nothing moves
\* and nothing it can reach is ever taken from it.
THEOREM ScavengerIsInvisible == GenSpec => CollectorIsInvisible
<1>1. GenInit => GenInv /\ SeenInv /\ Graph!Init
  BY GenInitially, InitiallySeen DEF GenInit
<1>2. GenInv /\ SeenInv /\ GenInv' /\ [GenNext]_everything => SeenInv' /\ [Graph!Next]_(Graph!vars)
  BY GenNextSeen
<1> QED BY <1>1, <1>2, GenInvariance, PTL DEF CollectorIsInvisible, Graph!Spec, GenSpec
=============================================================================
