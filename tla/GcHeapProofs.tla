---------------------------- MODULE GcHeapProofs ----------------------------
(***************************************************************************)
(* Theorems about GcHeap, for a heap of any size, arrays of any lengths,   *)
(* any number of StackRoots, and with and without compaction.              *)
(*                                                                         *)
(* The invariant follows a collection through its phases.  While it marks, *)
(* every marked array is reachable, and what a marked array refers to is   *)
(* marked or the array is grey.  While it compacts, the survivors are those *)
(* already moved, without gaps from the bottom, and above them those not   *)
(* yet moved; all references still lead to where the survivors were.       *)
(* While it fixes up, an array's slots are the old ones or the new ones.   *)
(***************************************************************************)
EXTENDS GcHeap, ArrayLayoutProofs, FiniteSetTheorems

Refs == Address \cup {Null}

\* An array as an allocator makes it and the collector may flag it.
IsArray(x) ==
    \E k \in Kinds, n \in Length, flags \in 0 .. 255 :
        /\ x = [word |-> HeaderWord(k, n) + flags, slots |-> x.slots, id |-> x.id]
        /\ x.slots \in [IF k = REF THEN 1 .. n ELSE {} -> Refs]

\* Arrays lie in the heap, one behind the other.
IsHeap(memory) ==
    /\ memory = [a \in DOMAIN memory |-> memory[a]]
    /\ \A a \in DOMAIN memory :
         /\ a \in Address /\ IsArray(memory[a])
         /\ a + SizeOf(memory[a]) <= HeapSize + 1
    /\ \A a, b \in DOMAIN memory : a < b => a + SizeOf(memory[a]) <= b

\* References lead to members of S.
RefersInto(x, S) == \A i \in DOMAIN x.slots : x.slots[i] \in S \cup {Null}

RootsInto(list, S) == \A r \in DOMAIN list : list[r] \in S \cup {Null}

\* No reference dangles.
Linked(memory, list) ==
    /\ RootsInto(list, DOMAIN memory)
    /\ \A a \in DOMAIN memory : RefersInto(memory[a], DOMAIN memory)

\* Memory is in use from the bottom up to an address, and not from there on.
InUseUpTo(memory, top) ==
    /\ \A a \in DOMAIN memory : a + SizeOf(memory[a]) <= top
    /\ \A g \in 1 .. top - 1 : \E a \in DOMAIN memory : g \in Extent(memory, a)

\* Nothing is in memory that is not reachable.
Collected(memory, list) ==
    /\ DOMAIN memory = Reachable(memory, Range(list))
    /\ Compacting => \E top \in 1 .. HeapSize + 1 : InUseUpTo(memory, top)

IsRequest(r) ==
    \E k \in Kinds, n \in Length, c \in BOOLEAN :
        r = [kind |-> k, length |-> n, collected |-> c]

TypeInv ==
    /\ IsHeap(heap)
    /\ roots \in Seq(Refs)
    /\ native \in Refs
    /\ \A r \in request : IsRequest(r)
    /\ \A r, s \in request : r = s
    /\ phase \in {"mutator", "mark", "compact", "fixup"}
    /\ ~Compacting => phase \in {"mutator", "mark"}

\* The program allocates without a reference of its own; it is stopped only by
\* an allocation, which has then collected or is doing so.
RequestInv ==
    /\ request # {} => native = Null
    /\ phase # "mutator" => request # {} /\ \A r \in request : r.collected

MutatorInv ==
    /\ Linked(heap, roots)
    /\ native \in DOMAIN heap \cup {Null}
    /\ \A r \in request : r.collected => Collected(heap, roots)

MarkInv ==
    /\ stopped = [heap |-> heap, roots |-> roots]
    /\ Linked(heap, roots)
    /\ grey \subseteq marked
    /\ marked \subseteq Reachable(heap, Range(roots))
    /\ RootsInto(roots, marked)
    /\ \A a \in marked \ grey : RefersInto(heap[a], marked)

\* Where the survivors were when the program was stopped.
Survivors == DOMAIN forward \cup unmoved

SurvivorsInv ==
    /\ stopped.roots = roots
    /\ IsHeap(stopped.heap)
    /\ Survivors = Reachable(stopped.heap, Range(roots))
    /\ RootsInto(roots, Survivors)
    /\ \A a \in Survivors : RefersInto(stopped.heap[a], Survivors)
    /\ DOMAIN forward \cap unmoved = {}
    /\ DOMAIN heap = Range(forward) \cup unmoved
    /\ \A a, b \in DOMAIN forward : forward[a] = forward[b] => a = b

\* The arrays that have been moved fill the memory below Bottom.
MovedInv ==
    /\ forward # <<>> => \E last \in Range(forward) : \A y \in Range(forward) : last >= y
    /\ Bottom \in 1 .. HeapSize + 1
    /\ \A a \in DOMAIN forward : forward[a] + SizeOf(heap[forward[a]]) <= Bottom
    /\ \A g \in 1 .. Bottom - 1 : \E a \in DOMAIN forward : g \in Extent(heap, forward[a])
    /\ \A u \in unmoved : Bottom <= u

CompactInv ==
    /\ SurvivorsInv
    /\ MovedInv
    /\ \A a \in DOMAIN forward : heap[forward[a]] = stopped.heap[a]
    /\ \A u \in unmoved : heap[u] = stopped.heap[u]

\* An array with its references fixed up.
FixedUp(x) == [x EXCEPT !.slots = [i \in DOMAIN x.slots |-> Forwarded(x.slots[i])]]

FixupInv ==
    /\ SurvivorsInv
    /\ unmoved = {}
    /\ unfixed \subseteq DOMAIN heap
    /\ \E top \in 1 .. HeapSize + 1 : InUseUpTo(heap, top)
    /\ \A a \in DOMAIN forward :
         heap[forward[a]] = IF forward[a] \in unfixed THEN stopped.heap[a]
                                                      ELSE FixedUp(stopped.heap[a])

IInv ==
    /\ TypeInv
    /\ RequestInv
    /\ phase = "mutator" => MutatorInv
    /\ phase = "mark" => MarkInv
    /\ phase = "compact" => CompactInv
    /\ phase = "fixup" => FixupInv

-----------------------------------------------------------------------------
(* Arrays and heaps.                                                       *)

\* A set of numbers has a least one.
LEMMA MinFacts ==
  ASSUME NEW S \in SUBSET Nat, S # {}
  PROVE  Min(S) \in S /\ \A y \in S : Min(S) <= y
<1> DEFINE LT == {p \in Nat \X Nat : p[1] < p[2]}
<1>1. IsWellFoundedOn(LT, Nat)
  BY NatLessThanWellFounded DEF OpToRel
<1>2. \A x \in Nat, y \in Nat : y < x => <<y, x>> \in LT
  OBVIOUS
<1> HIDE DEF LT
<1>3. \E x \in S : \A y \in S : ~(<<y, x>> \in LT)
  BY <1>1, WFMin
<1>4. PICK x \in S : \A y \in S : ~(<<y, x>> \in LT)
  BY <1>3
<1>5. \A y \in S : x =< y
  <2> SUFFICES ASSUME NEW y \in S PROVE x =< y
    OBVIOUS
  <2>1. ~(y < x)
    BY <1>2, <1>4
  <2> QED BY <2>1
<1> QED BY <1>5 DEF Min

LEMMA AddressFacts == HeapSize \in Nat /\ Address \subseteq Nat \ {0} /\ Null = 0 /\ Refs \subseteq Nat
BY HeapAssumption DEF Address, Refs, Null

\* What an allocation reserves is some granules.
LEMMA SomeGranules ==
  ASSUME NEW k \in Kinds, NEW n \in Nat
  PROVE  Granules(AllocationSize(k, n)) \in Nat \ {0}
<1>1. Narrow(n) \in Nat
  BY NarrowFacts, LayoutAssumption DEF Length
<1>2. AllocationSize(k, n) \in Nat /\ AllocationSize(k, n) % 16 = 0 /\ 8 <= AllocationSize(k, n)
  BY <1>1, ReservedFits DEF ALIGNMENT, HEADER_SIZE, SLOT_SIZE
<1> QED BY <1>2, SMT DEF Granules, ALIGNMENT

\* An array has a size, and the slots its header says.
LEMMA ArrayFacts ==
  ASSUME NEW x, IsArray(x)
  PROVE  /\ SizeOf(x) \in Nat \ {0}
         /\ x.slots \in [IF HeaderKind(x.word) = REF THEN 1 .. HeaderLength(x.word) ELSE {} -> Refs]
         /\ HeaderKind(x.word) \in Kinds /\ HeaderLength(x.word) \in Length
<1>1. PICK k \in Kinds, n \in Length, flags \in 0 .. 255 :
          /\ x = [word |-> HeaderWord(k, n) + flags, slots |-> x.slots, id |-> x.id]
          /\ x.slots \in [IF k = REF THEN 1 .. n ELSE {} -> Refs]
  BY DEF IsArray
<1>2. x.word = HeaderWord(k, n) + flags
  BY <1>1
<1>3. HeaderLength(x.word) = n /\ HeaderKind(x.word) = k
  BY <1>2, WordFields
<1>4. n \in Nat /\ Narrow(n) = n
  BY LayoutAssumption, ModSmall DEF Length, Narrow
<1>5. SizeOfWord(x.word) = AllocationSize(k, n)
  BY <1>3, <1>4 DEF SizeOfWord, AllocationSize, Kinds, REF, BIN
<1>6. SizeOf(x) \in Nat \ {0}
  BY <1>4, <1>5, SomeGranules DEF SizeOf, ObjectSizeWithHeader
<1> QED BY <1>1, <1>3, <1>6

\* Replacing the references keeps the array what it is.
LEMMA SlotsReplaced ==
  ASSUME NEW x, IsArray(x), NEW f \in [DOMAIN x.slots -> Refs]
  PROVE  LET y == [x EXCEPT !.slots = f]
         IN  IsArray(y) /\ y.slots = f /\ y.word = x.word /\ y.id = x.id /\ SizeOf(y) = SizeOf(x)
<1> DEFINE y == [x EXCEPT !.slots = f]
<1>1. PICK k \in Kinds, n \in Length, flags \in 0 .. 255 :
          /\ x = [word |-> HeaderWord(k, n) + flags, slots |-> x.slots, id |-> x.id]
          /\ x.slots \in [IF k = REF THEN 1 .. n ELSE {} -> Refs]
  BY DEF IsArray
<1>2. y = [word |-> HeaderWord(k, n) + flags, slots |-> f, id |-> x.id]
  BY <1>1
<1>3. y.slots = f /\ y.word = x.word /\ y.id = x.id
  BY <1>1, <1>2
<1>4. f \in [IF k = REF THEN 1 .. n ELSE {} -> Refs]
  BY <1>1
<1> HIDE DEF y
<1>5. IsArray(y)
  BY <1>2, <1>3, <1>4 DEF IsArray
<1> QED BY <1>3, <1>5 DEF y, SizeOf

\* The extent of an array is the granules from its header to its end.
LEMMA ExtentFacts ==
  ASSUME NEW memory, IsHeap(memory), NEW a \in DOMAIN memory
  PROVE  /\ a \in Nat /\ SizeOf(memory[a]) \in Nat \ {0}
         /\ a \in Extent(memory, a)
         /\ \A g : g \in Extent(memory, a) <=> g \in Nat /\ a <= g /\ g < a + SizeOf(memory[a])
<1>1. a \in Nat /\ SizeOf(memory[a]) \in Nat \ {0}
  BY ArrayFacts, AddressFacts DEF IsHeap
<1> QED BY <1>1 DEF Extent, Span

LEMMA InUseFacts ==
  ASSUME NEW memory, NEW g
  PROVE  g \in InUse(memory) <=> \E a \in DOMAIN memory : g \in Extent(memory, a)
BY DEF InUse

\* The heap can be walked, whoever is at work on it.
LEMMA Walkable == TypeInv => HeapWalkable
<1> SUFFICES ASSUME TypeInv PROVE HeapWalkable
  OBVIOUS
<1>1. IsHeap(heap)
  BY DEF TypeInv
<1>2. ASSUME NEW g \in InUse(heap) PROVE g \in Address
  <2>1. PICK a \in DOMAIN heap : g \in Extent(heap, a)
    BY <1>2, InUseFacts
  <2>2. a \in Address /\ a + SizeOf(heap[a]) <= HeapSize + 1
    BY <1>1 DEF IsHeap
  <2> QED BY <1>1, <2>1, <2>2, ExtentFacts, AddressFacts DEF Address
<1>3. ASSUME NEW a \in DOMAIN heap
      PROVE  DOMAIN heap[a].slots = IF HeaderKind(heap[a].word) = REF
                                    THEN 1 .. HeaderLength(heap[a].word) ELSE {}
  BY <1>1, ArrayFacts DEF IsHeap
<1>4. ASSUME NEW a \in DOMAIN heap, NEW b \in DOMAIN heap, a # b
      PROVE  Extent(heap, a) \cap Extent(heap, b) = {}
  <2>1. /\ a < b => a + SizeOf(heap[a]) <= b
        /\ b < a => b + SizeOf(heap[b]) <= a
    BY <1>1 DEF IsHeap
  <2>2. /\ a \in Nat /\ SizeOf(heap[a]) \in Nat
        /\ \A g : g \in Extent(heap, a) => g \in Nat /\ a <= g /\ g < a + SizeOf(heap[a])
    BY <1>1, ExtentFacts
  <2>3. /\ b \in Nat /\ SizeOf(heap[b]) \in Nat
        /\ \A g : g \in Extent(heap, b) => g \in Nat /\ b <= g /\ g < b + SizeOf(heap[b])
    BY <1>1, ExtentFacts
  <2> QED BY <1>4, <2>1, <2>2, <2>3
<1> QED BY <1>2, <1>3, <1>4 DEF HeapWalkable

-----------------------------------------------------------------------------
(* Reachability.                                                           *)

\* The smallest closed set that holds some references.
LEMMA ReachableFacts ==
  ASSUME NEW memory, NEW from
  PROVE  LET R == Reachable(memory, from)
         IN  /\ R \subseteq DOMAIN memory
             /\ from \cap DOMAIN memory \subseteq R
             /\ Closed(memory, R)
             /\ \A S \in SUBSET DOMAIN memory :
                   from \cap DOMAIN memory \subseteq S /\ Closed(memory, S) => R \subseteq S
<1> DEFINE R == Reachable(memory, from)
<1>1. R \subseteq DOMAIN memory /\ from \cap DOMAIN memory \subseteq R
  BY DEF Reachable
<1>2. ASSUME NEW S \in SUBSET DOMAIN memory,
             from \cap DOMAIN memory \subseteq S, Closed(memory, S)
      PROVE  R \subseteq S
  BY <1>2 DEF Reachable
<1>3. Closed(memory, R)
  <2> SUFFICES ASSUME NEW a \in R, NEW b \in Edges(memory, a) \cap DOMAIN memory
               PROVE  b \in R
    BY DEF Closed
  <2>1. ASSUME NEW S \in SUBSET DOMAIN memory,
               from \cap DOMAIN memory \subseteq S, Closed(memory, S)
        PROVE  b \in S
    BY <2>1, <1>2 DEF Closed
  <2> QED BY <2>1 DEF Reachable
<1> QED BY <1>1, <1>2, <1>3

\* The same of arrays whose references are null or lead into the set.
LEMMA EdgesInto ==
  ASSUME NEW memory, NEW a \in DOMAIN memory, NEW S
  PROVE  RefersInto(memory[a], S) <=> Edges(memory, a) \subseteq S
BY DEF RefersInto, Edges, Range

LEMMA ListInto ==
  ASSUME NEW list, NEW S
  PROVE  RootsInto(list, S) <=> Range(list) \ {Null} \subseteq S
BY DEF RootsInto, Range

\* What no reference dangles from stays so when only what can be reached stays.
LEMMA ReachableLinked ==
  ASSUME NEW memory, NEW list, Linked(memory, list)
  PROVE  LET R == Reachable(memory, Range(list))
         IN  RootsInto(list, R) /\ \A a \in R : RefersInto(memory[a], R)
<1> DEFINE R == Reachable(memory, Range(list))
<1>1. /\ R \subseteq DOMAIN memory
      /\ Range(list) \cap DOMAIN memory \subseteq R
      /\ Closed(memory, R)
  BY ReachableFacts
<1> HIDE DEF R
<1>2. RootsInto(list, R)
  BY <1>1, ListInto DEF Linked
<1>3. ASSUME NEW a \in R PROVE RefersInto(memory[a], R)
  <2>1. Edges(memory, a) \subseteq DOMAIN memory
    BY <1>1, EdgesInto DEF Linked
  <2> QED BY <1>1, <2>1, EdgesInto DEF Closed
<1> QED BY <1>2, <1>3 DEF R

\* A closed set of marked arrays that holds the roots and nothing that cannot be
\* reached is the set of arrays that can be reached.
LEMMA MarkedIsReachable ==
  ASSUME NEW memory, IsHeap(memory), NEW list, NEW S,
         S \subseteq Reachable(memory, Range(list)),
         RootsInto(list, S), \A a \in S : RefersInto(memory[a], S)
  PROVE  S = Reachable(memory, Range(list))
<1>1. S \in SUBSET DOMAIN memory
  BY ReachableFacts
<1>2. Range(list) \ {Null} \subseteq S
  BY ListInto
<1>3. Closed(memory, S)
  BY <1>1, EdgesInto DEF Closed
<1>4. Null \notin DOMAIN memory
  BY AddressFacts DEF IsHeap
<1> QED BY <1>1, <1>2, <1>3, <1>4, ReachableFacts

\* When the rest is gone the same can be reached.
LEMMA RestrictedReachable ==
  ASSUME NEW memory, NEW from
  PROVE  LET R == Reachable(memory, from)
         IN  Reachable(Restrict(memory, R), from) = R
<1> DEFINE R  == Reachable(memory, from)
           M  == Restrict(memory, R)
           RM == Reachable(M, from)
<1>1. /\ R \subseteq DOMAIN memory /\ from \cap DOMAIN memory \subseteq R
      /\ Closed(memory, R)
      /\ \A S \in SUBSET DOMAIN memory :
            from \cap DOMAIN memory \subseteq S /\ Closed(memory, S) => R \subseteq S
  BY ReachableFacts
<1>2. /\ RM \subseteq DOMAIN M /\ from \cap DOMAIN M \subseteq RM /\ Closed(M, RM)
  BY ReachableFacts
<1>3. DOMAIN M = R /\ \A a \in R : M[a] = memory[a]
  BY DEF Restrict
<1> HIDE DEF R, M, RM
<1>4. from \cap DOMAIN memory \subseteq RM
  BY <1>1, <1>2, <1>3
<1>5. Closed(memory, RM)
  <2> SUFFICES ASSUME NEW a \in RM, NEW b \in Edges(memory, a) \cap DOMAIN memory
               PROVE  b \in RM
    BY DEF Closed
  <2>1. a \in R /\ Edges(M, a) = Edges(memory, a)
    BY <1>2, <1>3 DEF Edges
  <2>2. b \in R
    BY <1>1, <2>1 DEF Closed
  <2> QED BY <1>2, <1>3, <2>1, <2>2 DEF Closed
<1>6. R \subseteq RM
  BY <1>1, <1>2, <1>3, <1>4, <1>5
<1> QED BY <1>2, <1>3, <1>6 DEF R, M, RM

LEMMA RestrictedHeap ==
  ASSUME NEW memory, IsHeap(memory), NEW S \in SUBSET DOMAIN memory
  PROVE  /\ IsHeap(Restrict(memory, S))
         /\ DOMAIN Restrict(memory, S) = S
         /\ \A a \in S : Restrict(memory, S)[a] = memory[a]
<1>1. DOMAIN Restrict(memory, S) = S /\ \A a \in S : Restrict(memory, S)[a] = memory[a]
  BY DEF Restrict
<1>2. Restrict(memory, S) = [a \in DOMAIN Restrict(memory, S) |-> Restrict(memory, S)[a]]
  BY DEF Restrict
<1> QED BY <1>1, <1>2 DEF IsHeap

-----------------------------------------------------------------------------
(* The program.                                                            *)

LEMMA Initially == Init => IInv
<1> SUFFICES ASSUME Init PROVE IInv
  OBVIOUS
<1>1. heap = <<>> /\ DOMAIN heap = {} /\ DOMAIN roots = {}
  BY DEF Init
<1>2. heap = [a \in DOMAIN heap |-> heap[a]]
  BY <1>1
<1>3. IsHeap(heap)
  BY <1>1, <1>2 DEF IsHeap
<1>4. TypeInv
  BY <1>3 DEF Init, TypeInv, Refs, Null
<1>5. MutatorInv
  BY <1>1 DEF Init, MutatorInv, Linked, RootsInto
<1>6. RequestInv
  BY DEF Init, RequestInv
<1> QED BY <1>4, <1>5, <1>6 DEF Init, IInv

\* A list of references that changes in one place or at its end.
LEMMA ListFacts ==
  ASSUME NEW list \in Seq(Refs), NEW ref \in Refs, NEW S, RootsInto(list, S)
  PROVE  /\ Append(list, ref) \in Seq(Refs)
         /\ ref \in S \cup {Null} => RootsInto(Append(list, ref), S)
         /\ \A r \in DOMAIN list :
              /\ [list EXCEPT ![r] = ref] \in Seq(Refs)
              /\ ref \in S \cup {Null} => RootsInto([list EXCEPT ![r] = ref], S)
         /\ list # <<>> => /\ SubSeq(list, 1, Len(list) - 1) \in Seq(Refs)
                           /\ RootsInto(SubSeq(list, 1, Len(list) - 1), S)
<1>1. Append(list, ref) \in Seq(Refs) /\ (ref \in S \cup {Null} => RootsInto(Append(list, ref), S))
  BY DEF RootsInto
<1>2. \A r \in DOMAIN list :
        /\ [list EXCEPT ![r] = ref] \in Seq(Refs)
        /\ ref \in S \cup {Null} => RootsInto([list EXCEPT ![r] = ref], S)
  BY DEF RootsInto
<1>3. list # <<>> => /\ SubSeq(list, 1, Len(list) - 1) \in Seq(Refs)
                     /\ RootsInto(SubSeq(list, 1, Len(list) - 1), S)
  BY DEF RootsInto
<1> QED BY <1>1, <1>2, <1>3

\* The steps of the program between calls that leave memory alone.
LEMMA RootStepKeeps ==
  ASSUME IInv, InMutator, heap' = heap, request' = request, UNCHANGED collector,
         roots' \in Seq(Refs), RootsInto(roots', DOMAIN heap),
         native' \in DOMAIN heap \cup {Null}
  PROVE  IInv'
<1>1. phase = "mutator" /\ request = {} /\ phase' = "mutator"
  BY DEF InMutator, collector
<1>2. native' \in Refs
  BY DEF IInv, TypeInv, IsHeap, Refs
<1>3. TypeInv'
  BY <1>1, <1>2 DEF IInv, TypeInv
<1>4. RequestInv'
  BY <1>1 DEF RequestInv
<1>5. MutatorInv'
  BY <1>1 DEF IInv, MutatorInv, Linked
<1> QED BY <1>1, <1>3, <1>4, <1>5 DEF IInv

LEMMA RequestKeeps ==
  ASSUME IInv, NEW kind \in Kinds, NEW length \in Length, Request(kind, length)
  PROVE  IInv'
<1>1. /\ phase = "mutator" /\ phase' = "mutator" /\ heap' = heap /\ roots' = roots
      /\ native' = Null
      /\ request' = {[kind |-> kind, length |-> length, collected |-> FALSE]}
  BY DEF Request, InMutator, collector
<1>2. \A r \in request' : IsRequest(r) /\ ~r.collected
  <2> DEFINE q == [kind |-> kind, length |-> length, collected |-> FALSE]
  <2>1. FALSE \in BOOLEAN /\ q.collected = FALSE
    OBVIOUS
  <2>2. IsRequest(q)
    BY Zenon DEF IsRequest
  <2>3. \A r \in request' : r = q
    BY <1>1
  <2> QED BY <2>1, <2>2, <2>3
<1>3. TypeInv'
  BY <1>1, <1>2, AddressFacts DEF IInv, TypeInv, Refs
<1>4. RequestInv'
  BY <1>1 DEF RequestInv
<1>5. MutatorInv'
  BY <1>1, <1>2 DEF IInv, MutatorInv
<1> QED BY <1>1, <1>3, <1>4, <1>5 DEF IInv

\* A slot of a rooted array.
LEMMA SlotFacts ==
  ASSUME IInv, InMutator, NEW r \in DOMAIN roots, NEW i, HasSlot(r, i)
  PROVE  /\ roots[r] \in DOMAIN heap /\ i \in DOMAIN heap[roots[r]].slots
         /\ heap[roots[r]].slots[i] \in DOMAIN heap \cup {Null}
<1>1. roots[r] \in DOMAIN heap
  BY DEF IInv, InMutator, MutatorInv, Linked, RootsInto, HasSlot
<1> QED BY <1>1 DEF IInv, InMutator, MutatorInv, Linked, RefersInto, HasSlot

IsMemory(memory) == memory = [a \in DOMAIN memory |-> memory[a]]

\* Memory with a reference stored into a slot.
Stored(memory, a, i, ref) == [memory EXCEPT ![a].slots[i] = ref]

LEMMA SlotStored ==
  ASSUME NEW memory, IsMemory(memory),
         NEW a \in DOMAIN memory, IsArray(memory[a]),
         NEW i \in DOMAIN memory[a].slots, NEW ref \in Refs
  PROVE  LET stored == Stored(memory, a, i, ref)
         IN  /\ IsMemory(stored) /\ DOMAIN stored = DOMAIN memory
             /\ \A x \in DOMAIN memory \ {a} : stored[x] = memory[x]
             /\ IsArray(stored[a]) /\ SizeOf(stored[a]) = SizeOf(memory[a])
             /\ stored[a].word = memory[a].word /\ stored[a].id = memory[a].id
             /\ stored[a].slots = [memory[a].slots EXCEPT ![i] = ref]
<1> DEFINE f      == [memory[a].slots EXCEPT ![i] = ref]
           array  == [memory[a] EXCEPT !.slots = f]
           stored == Stored(memory, a, i, ref)
<1>1. f \in [DOMAIN memory[a].slots -> Refs]
  BY ArrayFacts
<1>2. /\ IsArray(array) /\ array.slots = f /\ array.word = memory[a].word
      /\ array.id = memory[a].id /\ SizeOf(array) = SizeOf(memory[a])
  BY <1>1, SlotsReplaced
<1>3. stored = [memory EXCEPT ![a] = array]
  BY DEF Stored
<1> HIDE DEF array
<1>4. /\ DOMAIN stored = DOMAIN memory /\ stored[a] = array
      /\ \A x \in DOMAIN memory \ {a} : stored[x] = memory[x]
      /\ IsMemory(stored)
  BY <1>3 DEF IsMemory
<1> QED BY <1>2, <1>4

LEMMA StoreKeeps ==
  ASSUME IInv, NEW r \in DOMAIN roots, NEW i, Store(r, i)
  PROVE  IInv'
<1> DEFINE a == roots[r]
           f == [heap[a].slots EXCEPT ![i] = native]
<1>1. /\ phase = "mutator" /\ request = {} /\ phase' = "mutator" /\ request' = {}
      /\ roots' = roots /\ native' = native
      /\ heap' = [heap EXCEPT ![a].slots[i] = native]
  BY DEF Store, InMutator, collector
<1>2. a \in DOMAIN heap /\ i \in DOMAIN heap[a].slots
  BY SlotFacts DEF Store
<1>3. IsHeap(heap) /\ IsArray(heap[a]) /\ native \in Refs /\ native \in DOMAIN heap \cup {Null}
  BY <1>1, <1>2 DEF IInv, TypeInv, IsHeap, MutatorInv
<1>4. IsMemory(heap)
  BY <1>3 DEF IsHeap, IsMemory
<1> HIDE DEF a
<1>5. /\ heap' = [x \in DOMAIN heap' |-> heap'[x]]
      /\ DOMAIN heap' = DOMAIN heap /\ \A x \in DOMAIN heap \ {a} : heap'[x] = heap[x]
      /\ IsArray(heap'[a]) /\ SizeOf(heap'[a]) = SizeOf(heap[a]) /\ heap'[a].slots = f
  <2>1. heap' = Stored(heap, a, i, native)
    BY <1>1 DEF Stored
  <2>2. heap' = [x \in DOMAIN heap' |-> heap'[x]] <=> IsMemory(heap')
    BY DEF IsMemory
  <2> QED BY <1>2, <1>3, <1>4, <2>1, <2>2, SlotStored
<1> HIDE DEF f
<1>6. \A x \in DOMAIN heap' : IsArray(heap'[x]) /\ SizeOf(heap'[x]) = SizeOf(heap[x])
  BY <1>3, <1>5 DEF IsHeap
<1>7. IsHeap(heap')
  BY <1>3, <1>5, <1>6 DEF IsHeap
<1>8. \A x \in DOMAIN heap : RefersInto(heap'[x], DOMAIN heap)
  <2>1. RefersInto(heap[a], DOMAIN heap)
    BY <1>1, <1>2 DEF IInv, MutatorInv, Linked
  <2>2. RefersInto(heap'[a], DOMAIN heap)
    BY <1>2, <1>3, <1>5, <2>1 DEF RefersInto, f
  <2> QED BY <1>1, <1>5, <2>2 DEF IInv, MutatorInv, Linked
<1>9. TypeInv'
  BY <1>1, <1>7 DEF IInv, TypeInv
<1>10. MutatorInv'
  BY <1>1, <1>5, <1>8 DEF IInv, MutatorInv, Linked
<1>11. RequestInv'
  BY <1>1 DEF RequestInv
<1> QED BY <1>1, <1>9, <1>10, <1>11 DEF IInv

-----------------------------------------------------------------------------
(* Allocation.                                                             *)

\* A hole is memory that no array has any of.
LEMMA HoleFacts ==
  ASSUME TypeInv, NEW size \in Nat \ {0}, Holes(size) # {}
  PROVE  LET a == Min(Holes(size))
         IN  /\ a \in Address \ DOMAIN heap /\ a + size <= HeapSize + 1
             /\ \A b \in DOMAIN heap : IF b < a THEN b + SizeOf(heap[b]) <= a ELSE a + size <= b
<1>1. Holes(size) \in SUBSET Nat
  BY AddressFacts DEF Holes
<1>2. PICK a : a = Min(Holes(size)) /\ a \in Holes(size)
  BY <1>1, MinFacts
<1>3. a \in Nat /\ 1 <= a /\ a + size <= HeapSize + 1
  BY <1>2, AddressFacts DEF Holes
<1>4. a \in Span(a, size)
  BY <1>3 DEF Span
<1>5. ASSUME NEW b \in DOMAIN heap
      PROVE  /\ b # a
             /\ IF b < a THEN b + SizeOf(heap[b]) <= a ELSE a + size <= b
  <2>1. /\ b \in Nat /\ SizeOf(heap[b]) \in Nat /\ b \in Extent(heap, b)
        /\ \A g : g \in Extent(heap, b) <=> g \in Nat /\ b <= g /\ g < b + SizeOf(heap[b])
    BY ExtentFacts DEF TypeInv
  <2>2. Span(a, size) \cap Extent(heap, b) = {}
    BY <1>2, InUseFacts DEF Holes
  <2>3. a \notin Extent(heap, b) /\ b \notin Span(a, size)
    BY <1>4, <2>1, <2>2
  <2> QED BY <1>3, <2>1, <2>3 DEF Span
<1> QED BY <1>2, <1>3, <1>5, AddressFacts DEF Address

\* A new array, wherever there is room for it.
LEMMA PlaceKeeps ==
  ASSUME IInv, phase = "mutator", phase' = "mutator", request' = {}, roots' = roots,
         NEW r \in request, NEW slots \in FreshSlots(r.kind, r.length),
         NEW a \in Address \ DOMAIN heap, native' = a, heap' = Place(r, a, slots),
         a + Granules(AllocationSize(r.kind, r.length)) <= HeapSize + 1,
         \A b \in DOMAIN heap : IF b < a THEN b + SizeOf(heap[b]) <= a
                                ELSE a + Granules(AllocationSize(r.kind, r.length)) <= b
  PROVE  /\ IInv'
         /\ DOMAIN heap' = DOMAIN heap \cup {a} /\ \A x \in DOMAIN heap : heap'[x] = heap[x]
         /\ SizeOf(heap'[a]) = Granules(AllocationSize(r.kind, r.length))
         /\ heap'[a].word = InitializedWord(r.kind, r.length)
         /\ RefersInto(heap'[a], {})
<1> DEFINE size == Granules(AllocationSize(r.kind, r.length))
<1>1. r.kind \in Kinds /\ r.length \in Length
  BY DEF IInv, TypeInv, IsRequest
<1>2. r.length \in Nat /\ Narrow(r.length) = r.length
  BY <1>1, LayoutAssumption, ModSmall DEF Length, Narrow
<1>3. size \in Nat \ {0}
  BY <1>1, <1>2, SomeGranules
<1> DEFINE array == [word |-> InitializedWord(r.kind, r.length), slots |-> slots, id |-> FreshId]
<1>4. /\ a \in Address \ DOMAIN heap /\ a + size <= HeapSize + 1
      /\ \A b \in DOMAIN heap : IF b < a THEN b + SizeOf(heap[b]) <= a ELSE a + size <= b
  OBVIOUS
<1>5. heap' = [x \in DOMAIN heap \cup {a} |-> IF x = a THEN array ELSE heap[x]]
  BY DEF Place
<1>6. slots \in [IF r.kind = REF THEN 1 .. r.length ELSE {} -> {Null}]
  <2>1. CASE r.kind = REF
    <3>1. slots = [i \in 1 .. r.length |-> Null]
      BY <2>1 DEF FreshSlots, ZeroedSlots
    <3> QED BY <2>1, <3>1
  <2>2. CASE r.kind # REF
    <3>1. slots = <<>> /\ DOMAIN slots = {}
      BY <2>2 DEF FreshSlots
    <3>2. slots = [i \in {} |-> Null]
      BY <3>1
    <3> QED BY <2>2, <3>2
  <2> QED BY <2>1, <2>2
<1>7. IsArray(array) /\ SizeOf(array) = size
  <2>1. InitializedWord(r.kind, r.length) = HeaderWord(r.kind, r.length) + 0
    <3>1. HeaderWord(r.kind, r.length) \in Nat
      BY <1>1, <1>2 DEF HeaderWord, Kinds, REF, BIN
    <3> QED BY <1>2, <3>1 DEF InitializedWord
  <2>2. slots \in [IF r.kind = REF THEN 1 .. r.length ELSE {} -> Refs]
    BY <1>6 DEF Refs
  <2>3. 0 \in 0 .. 255 /\ array.slots = slots /\ array.id = FreshId
        /\ array = [word |-> HeaderWord(r.kind, r.length) + 0, slots |-> slots, id |-> FreshId]
    BY <2>1
  <2> HIDE DEF array
  <2>5. IsArray(array)
    BY <1>1, <2>2, <2>3, Zenon DEF IsArray
  <2> USE DEF array
  <2>4. SizeOfWord(InitializedWord(r.kind, r.length)) = AllocationSize(r.kind, r.length)
    BY <1>1, <1>2, InitializedFields
  <2> QED BY <2>4, <2>5 DEF SizeOf, ObjectSizeWithHeader
<1> HIDE DEF size, array
<1>8. DOMAIN heap' = DOMAIN heap \cup {a} /\ heap'[a] = array
       /\ \A x \in DOMAIN heap : heap'[x] = heap[x]
  BY <1>4, <1>5
<1>9. IsHeap(heap)
  BY DEF IInv, TypeInv
<1>10. IsHeap(heap')
  <2>1. \A x \in DOMAIN heap' : x \in Address /\ IsArray(heap'[x]) /\ x + SizeOf(heap'[x]) <= HeapSize + 1
    BY <1>4, <1>7, <1>8, <1>9 DEF IsHeap
  <2>2. \A x, y \in DOMAIN heap' : x < y => x + SizeOf(heap'[x]) <= y
    <3> SUFFICES ASSUME NEW x \in DOMAIN heap', NEW y \in DOMAIN heap', x < y
                 PROVE  x + SizeOf(heap'[x]) <= y
      OBVIOUS
    <3>1. x \in Nat /\ y \in Nat /\ a \in Nat
      BY <1>4, <2>1, AddressFacts
    <3>2. CASE x = a
      BY <1>4, <1>7, <1>8, <3>1, <3>2
    <3>3. CASE x # a /\ y = a
      BY <1>4, <1>8, <3>1, <3>3
    <3>4. CASE x # a /\ y # a
      BY <1>8, <1>9, <3>4 DEF IsHeap
    <3> QED BY <3>2, <3>3, <3>4
  <2> QED BY <1>5, <2>1, <2>2 DEF IsHeap
<1>11. TypeInv'
  BY <1>4, <1>10 DEF IInv, TypeInv, Refs
<1>12. Linked(heap', roots)
  <2>1. \A x \in DOMAIN heap : RefersInto(heap'[x], DOMAIN heap')
    BY <1>8 DEF IInv, MutatorInv, Linked, RefersInto
  <2>2. RefersInto(array, DOMAIN heap')
    BY <1>6 DEF RefersInto, array
  <2>3. RootsInto(roots, DOMAIN heap')
    BY <1>8 DEF IInv, MutatorInv, Linked, RootsInto
  <2> QED BY <1>8, <2>1, <2>2, <2>3 DEF Linked
<1>13. MutatorInv'
  BY <1>8, <1>12 DEF MutatorInv
<1>14. RequestInv'
  BY DEF RequestInv
<1>15. IInv'
  BY <1>11, <1>13, <1>14 DEF IInv
<1>16. RefersInto(heap'[a], {})
  BY <1>6, <1>8 DEF RefersInto, array
<1> QED BY <1>7, <1>8, <1>15, <1>16 DEF size, array

LEMMA AllocateKeeps == ASSUME IInv, Allocate PROVE IInv'
<1>1. PICK r \in request :
        /\ Holes(Granules(AllocationSize(r.kind, r.length))) # {}
        /\ native' = Min(Holes(Granules(AllocationSize(r.kind, r.length))))
        /\ \E slots \in FreshSlots(r.kind, r.length) :
              heap' = Place(r, Min(Holes(Granules(AllocationSize(r.kind, r.length)))), slots)
  BY DEF Allocate
<1>2. /\ phase = "mutator" /\ phase' = "mutator" /\ request' = {} /\ roots' = roots
  BY DEF Allocate, collector
<1>3. Granules(AllocationSize(r.kind, r.length)) \in Nat \ {0}
  <2>1. r.kind \in Kinds /\ r.length \in Length
    BY DEF IInv, TypeInv, IsRequest
  <2> QED BY <2>1, SomeGranules, LayoutAssumption DEF Length
<1>4. PICK slots \in FreshSlots(r.kind, r.length) : heap' = Place(r, native', slots)
  BY <1>1
<1>5. /\ native' \in Address \ DOMAIN heap
      /\ native' + Granules(AllocationSize(r.kind, r.length)) <= HeapSize + 1
      /\ \A b \in DOMAIN heap : IF b < native' THEN b + SizeOf(heap[b]) <= native'
                                ELSE native' + Granules(AllocationSize(r.kind, r.length)) <= b
  BY <1>1, <1>3, HoleFacts DEF IInv
<1> QED BY <1>2, <1>4, <1>5, PlaceKeeps

LEMMA AllocationFailsKeeps == ASSUME IInv, AllocationFails PROVE IInv'
<1>1. /\ phase = "mutator" /\ phase' = "mutator" /\ request' = {} /\ heap' = heap
      /\ roots' = roots /\ native' = native
  BY DEF AllocationFails, collector
<1>2. TypeInv'
  BY <1>1 DEF IInv, TypeInv
<1>3. MutatorInv' /\ RequestInv'
  BY <1>1 DEF IInv, MutatorInv, RequestInv
<1> QED BY <1>1, <1>2, <1>3 DEF IInv

-----------------------------------------------------------------------------
(* Marking and sweeping.                                                   *)

LEMMA StartCollectionKeeps == ASSUME IInv, StartCollection PROVE IInv'
<1>1. PICK r \in request : ~r.collected /\ request' = {[r EXCEPT !.collected = TRUE]}
  BY DEF StartCollection
<1>2. /\ phase = "mutator" /\ phase' = "mark" /\ heap' = heap /\ roots' = roots
      /\ native' = native /\ marked' = RootSet /\ grey' = RootSet
      /\ stopped' = [heap |-> heap, roots |-> roots]
  BY DEF StartCollection
<1>3. \A s \in request' : IsRequest(s) /\ s.collected
  <2>1. PICK k \in Kinds, n \in Length, c \in BOOLEAN :
            r = [kind |-> k, length |-> n, collected |-> c]
    BY DEF IInv, TypeInv, IsRequest
  <2> DEFINE q == [kind |-> k, length |-> n, collected |-> TRUE]
  <2>2. request' = {q}
    BY <1>1, <2>1
  <2>3. TRUE \in BOOLEAN /\ q.collected
    OBVIOUS
  <2>4. IsRequest(q)
    BY <2>3, Zenon DEF IsRequest
  <2>5. \A s \in request' : s = q
    BY <2>2
  <2> QED BY <2>3, <2>4, <2>5
<1>4. TypeInv'
  BY <1>1, <1>2, <1>3 DEF IInv, TypeInv
<1>5. RequestInv'
  BY <1>1, <1>2, <1>3 DEF IInv, RequestInv
<1>6. Linked(heap, roots) /\ IsHeap(heap)
  BY <1>2 DEF IInv, TypeInv, MutatorInv
<1>7. RootsInto(roots, RootSet)
  BY ListInto DEF RootSet
<1>8. RootSet \subseteq Reachable(heap, Range(roots))
  BY <1>6, ReachableLinked, ListInto DEF RootSet
<1>9. MarkInv'
  BY <1>2, <1>6, <1>7, <1>8 DEF MarkInv
<1> QED BY <1>2, <1>4, <1>5, <1>9 DEF IInv

\* What the scanner shows is what the array refers to.
LEMMA ShownIsAll ==
  ASSUME NEW memory, NEW a \in DOMAIN memory
  PROVE  Referents(memory, a) = Edges(memory, a)
BY DEF Referents, Shown, Edges, Range

LEMMA MarkKeeps == ASSUME IInv, Mark PROVE IInv'
<1>1. /\ phase = "mark" /\ phase' = "mark" /\ grey # {} /\ heap' = heap /\ roots' = roots
      /\ native' = native /\ request' = request /\ stopped' = stopped
      /\ grey' = (grey \ {Min(grey)}) \cup (Referents(heap, Min(grey)) \ marked)
      /\ marked' = marked \cup Referents(heap, Min(grey))
  BY DEF Mark, mutator
<1>2. MarkInv /\ IsHeap(heap) /\ Linked(heap, roots)
  BY <1>1 DEF IInv, TypeInv, MarkInv
<1> DEFINE R == Reachable(heap, Range(roots))
<1>3. R \subseteq DOMAIN heap /\ RootsInto(roots, R) /\ \A x \in R : RefersInto(heap[x], R)
  BY <1>2, ReachableFacts, ReachableLinked
<1> HIDE DEF R
<1>4. grey \subseteq marked /\ marked \subseteq R
  BY <1>2 DEF MarkInv, R
<1>5. grey \in SUBSET Nat
  BY <1>2, <1>3, <1>4, AddressFacts DEF IsHeap
<1>6. PICK a \in grey : a = Min(grey)
  BY <1>1, <1>5, MinFacts
<1>7. a \in DOMAIN heap /\ Referents(heap, a) = Edges(heap, a) /\ RefersInto(heap[a], R)
  BY <1>3, <1>4, <1>6, ShownIsAll
<1>8. Edges(heap, a) \subseteq R
  BY <1>7, EdgesInto
<1>9. grey' \subseteq marked' /\ marked' \subseteq R
  BY <1>1, <1>4, <1>6, <1>7, <1>8
<1>10. RootsInto(roots, marked')
  BY <1>1, <1>2 DEF MarkInv, RootsInto
<1>11. ASSUME NEW x \in marked' \ grey' PROVE RefersInto(heap[x], marked')
  <2>1. x = a \/ x \in marked \ grey
    BY <1>1, <1>6, <1>7, <1>11
  <2>2. CASE x = a
    BY <1>1, <1>6, <1>7, <2>2, EdgesInto
  <2>3. CASE x \in marked \ grey
    BY <1>1, <1>2, <2>3 DEF MarkInv, RefersInto
  <2> QED BY <2>1, <2>2, <2>3
<1>12. MarkInv'
  BY <1>1, <1>2, <1>9, <1>10, <1>11 DEF MarkInv, R
<1>13. TypeInv' /\ RequestInv'
  BY <1>1 DEF IInv, TypeInv, RequestInv
<1> QED BY <1>1, <1>12, <1>13 DEF IInv


\* When nothing is grey the marked arrays are those that can be reached.
LEMMA MarkedAll ==
  ASSUME IInv, phase = "mark", grey = {}
  PROVE  marked = Reachable(heap, Range(roots))
<1>1. MarkInv /\ IsHeap(heap)
  BY DEF IInv, TypeInv
<1>2. \A a \in marked : RefersInto(heap[a], marked)
  BY <1>1 DEF MarkInv
<1> QED BY <1>1, <1>2, MarkedIsReachable DEF MarkInv

LEMMA SweepKeeps == ASSUME IInv, Sweep PROVE IInv'
<1>1. /\ phase = "mark" /\ grey = {} /\ heap' = Restrict(heap, marked)
      /\ roots' = roots /\ native' = native /\ request' = request
      /\ Compacting => /\ phase' = "compact" /\ unmoved' = marked /\ forward' = <<>>
                       /\ stopped' = stopped
      /\ ~Compacting => phase' = "mutator"
  BY DEF Sweep, Compacts, CompactionPrevented
<1>2. MarkInv /\ IsHeap(heap)
  BY <1>1 DEF IInv, TypeInv
<1>3. marked = Reachable(heap, Range(roots)) /\ marked \in SUBSET DOMAIN heap
  BY <1>1, MarkedAll, ReachableFacts
<1>4. IsHeap(heap') /\ DOMAIN heap' = marked /\ \A a \in marked : heap'[a] = heap[a]
  BY <1>1, <1>2, <1>3, RestrictedHeap
<1>5. RootsInto(roots, marked) /\ \A a \in marked : RefersInto(heap[a], marked)
  BY <1>1, <1>2 DEF MarkInv
<1>6. Compacting \in BOOLEAN
  BY HeapAssumption
<1>7. TypeInv'
  BY <1>1, <1>4, <1>6 DEF IInv, TypeInv
<1>8. request # {} /\ native = Null /\ \A r \in request : r.collected
  BY <1>1 DEF IInv, RequestInv
<1>9. RequestInv'
  BY <1>1, <1>8 DEF RequestInv
<1>10. CASE ~Compacting
  <2>1. Linked(heap', roots')
    BY <1>1, <1>4, <1>5 DEF Linked
  <2>2. Collected(heap', roots')
    BY <1>1, <1>3, <1>4, <1>10, RestrictedReachable DEF Collected
  <2>3. MutatorInv'
    BY <1>1, <1>8, <2>1, <2>2 DEF MutatorInv
  <2> QED BY <1>1, <1>7, <1>9, <1>10, <2>3 DEF IInv
<1>11. CASE Compacting
  <2>1. forward' = <<>> /\ DOMAIN forward' = {} /\ Range(forward') = {} /\ unmoved' = marked
    BY <1>1, <1>11 DEF Range
  <2>2. Survivors' = marked
    BY <2>1 DEF Survivors
  <2>3. stopped' = stopped /\ stopped.heap = heap /\ stopped.roots = roots
    BY <1>1, <1>2, <1>11 DEF MarkInv
  <2>4. SurvivorsInv'
    BY <1>1, <1>2, <1>3, <1>4, <1>5, <2>1, <2>2, <2>3 DEF SurvivorsInv
  <2>5. MovedInv'
    <3>1. Bottom' = 1
      BY <2>1 DEF Bottom
    <3>2. 1 \in 1 .. HeapSize + 1 /\ 1 .. 1 - 1 = {}
      BY AddressFacts
    <3>3. \A u \in marked : 1 <= u
      BY <1>2, <1>3, AddressFacts DEF IsHeap
    <3> QED BY <2>1, <3>1, <3>2, <3>3 DEF MovedInv
  <2>6. CompactInv'
    BY <1>4, <2>1, <2>3, <2>4, <2>5 DEF CompactInv
  <2> QED BY <1>1, <1>7, <1>9, <1>11, <2>6 DEF IInv
<1> QED BY <1>10, <1>11


-----------------------------------------------------------------------------
(* Compaction.                                                             *)

\* A function changed or extended in one place.
LEMMA OverrideFacts ==
  ASSUME NEW f, NEW S, NEW x, NEW y, NEW g, g = [z \in S \cup {x} |-> IF z = x THEN y ELSE f[z]],
         S \subseteq DOMAIN f
  PROVE  DOMAIN g = S \cup {x} /\ g[x] = y /\ \A z \in S \ {x} : g[z] = f[z]
OBVIOUS

\* The next array to move only writes over itself and over free memory.
LEMMA SlideFacts ==
  ASSUME IInv, Slide
  PROVE  LET a == NextToMove
             s == SizeOf(heap[a])
             B == Bottom
         IN  /\ a \in unmoved /\ a \in DOMAIN heap /\ s \in Nat \ {0} /\ B \in 1 .. a
             /\ a + s <= HeapSize + 1
             /\ \A x \in Range(forward) : x < B /\ x + SizeOf(heap[x]) <= B
             /\ \A u \in unmoved \ {a} : a < u /\ a + s <= u
             /\ DOMAIN heap \ {a} = Range(forward) \cup (unmoved \ {a})
             /\ B \notin DOMAIN heap \ {a}
             /\ heap' = [x \in (DOMAIN heap \ {a}) \cup {B} |-> IF x = B THEN heap[a] ELSE heap[x]]
<1> DEFINE a == NextToMove
           s == SizeOf(heap[a])
           B == Bottom
<1>1. phase = "compact" /\ unmoved # {} /\ heap' = Move(a, B)
  BY DEF Slide
<1>2. IsHeap(heap) /\ SurvivorsInv /\ MovedInv
  BY <1>1 DEF IInv, TypeInv, CompactInv
<1>3. DOMAIN heap = Range(forward) \cup unmoved
  BY <1>2 DEF SurvivorsInv
<1>4. unmoved \in SUBSET Nat
  BY <1>2, <1>3, AddressFacts DEF IsHeap
<1>5. a \in unmoved /\ \A u \in unmoved : a <= u
  BY <1>1, <1>4, MinFacts DEF NextToMove
<1>6. a \in DOMAIN heap /\ a \in Nat /\ s \in Nat \ {0} /\ a + s <= HeapSize + 1
  BY <1>2, <1>3, <1>5, ExtentFacts DEF IsHeap
<1>7. B \in Nat /\ 1 <= B /\ B <= a
  BY <1>2, <1>5, AddressFacts DEF MovedInv
<1> HIDE DEF a, s, B
<1>8. ASSUME NEW x \in Range(forward) PROVE x \in Nat /\ x < B /\ x + SizeOf(heap[x]) <= B
  <2>1. PICK b \in DOMAIN forward : x = forward[b]
    BY DEF Range
  <2>2. x + SizeOf(heap[x]) <= B
    BY <1>2, <2>1 DEF MovedInv, B
  <2>3. x \in Nat /\ SizeOf(heap[x]) \in Nat \ {0}
    BY <1>2, <1>3, ExtentFacts
  <2> QED BY <1>7, <2>2, <2>3
<1>9. ASSUME NEW u \in unmoved \ {a} PROVE u \in Nat /\ a < u /\ a + s <= u
  <2>1. a < u /\ u \in DOMAIN heap /\ u \in Nat
    BY <1>3, <1>4, <1>5, <1>6
  <2> QED BY <1>2, <1>6, <2>1 DEF IsHeap, s
<1>10. DOMAIN heap \ {a} = Range(forward) \cup (unmoved \ {a})
  BY <1>3, <1>6, <1>7, <1>8
<1>11. B \notin DOMAIN heap \ {a}
  BY <1>6, <1>7, <1>8, <1>9, <1>10
<1>12. ASSUME NEW x \in DOMAIN heap \ {a} PROVE Extent(heap, x) \cap Span(B, s) = {}
  <2>1. \A g \in Extent(heap, x) : g \in Nat /\ x <= g /\ g < x + SizeOf(heap[x])
    BY <1>2, ExtentFacts
  <2>2. \A g \in Span(B, s) : g \in Nat /\ B <= g /\ g < B + s
    BY <1>6, <1>7 DEF Span
  <2>3. x \in Nat /\ SizeOf(heap[x]) \in Nat
    BY <1>2, ExtentFacts
  <2>4. CASE x \in Range(forward)
    <3>1. x + SizeOf(heap[x]) <= B
      BY <1>8, <2>4
    <3> QED BY <1>7, <2>1, <2>2, <2>3, <3>1
  <2>5. CASE x \in unmoved \ {a}
    <3>1. a + s <= x
      BY <1>9, <2>5
    <3> QED BY <1>6, <1>7, <2>1, <2>2, <2>3, <3>1
  <2> QED BY <1>10, <2>4, <2>5
<1>13. {x \in DOMAIN heap \ {a} : Extent(heap, x) \cap Span(B, s) = {}} = DOMAIN heap \ {a}
  BY <1>12
<1>14. heap' = [x \in (DOMAIN heap \ {a}) \cup {B} |-> IF x = B THEN heap[a] ELSE heap[x]]
  BY <1>1, <1>13 DEF Move, s
<1>15. B \in 1 .. a
  BY <1>6, <1>7
<1> QED BY <1>5, <1>6, <1>8, <1>9, <1>10, <1>11, <1>14, <1>15 DEF a, s, B

LEMMA SlideKeeps == ASSUME IInv, Slide PROVE IInv'
<1>1. PICK a, s, B : a = NextToMove /\ B = Bottom /\ s = SizeOf(heap[a])
  OBVIOUS
<1>2. /\ a \in unmoved /\ a \in DOMAIN heap /\ s \in Nat \ {0} /\ B \in 1 .. a
      /\ a + s <= HeapSize + 1
      /\ \A x \in Range(forward) : x < B /\ x + SizeOf(heap[x]) <= B
      /\ \A u \in unmoved \ {a} : a < u /\ a + s <= u
      /\ DOMAIN heap \ {a} = Range(forward) \cup (unmoved \ {a})
      /\ B \notin DOMAIN heap \ {a}
      /\ heap' = [x \in (DOMAIN heap \ {a}) \cup {B} |-> IF x = B THEN heap[a] ELSE heap[x]]
  BY <1>1, SlideFacts
<1>3. /\ phase = "compact" /\ phase' = "compact" /\ unmoved' = unmoved \ {a}
      /\ forward' = [x \in DOMAIN forward \cup {a} |-> IF x = a THEN B ELSE forward[x]]
      /\ roots' = roots /\ native' = native /\ request' = request /\ stopped' = stopped
  BY <1>1 DEF Slide
<1>4. IsHeap(heap) /\ CompactInv /\ SurvivorsInv /\ MovedInv
  BY <1>3 DEF IInv, TypeInv, CompactInv
<1>5. a \in Address /\ a \in Nat /\ B \in Nat /\ 1 <= B /\ B <= a /\ B \in Address /\ s \in Nat /\ 0 < s
  BY <1>2, <1>4, AddressFacts DEF IsHeap, Address
<1>6. a \notin DOMAIN forward /\ \A b \in DOMAIN forward : forward[b] \in Range(forward)
  BY <1>2, <1>4 DEF SurvivorsInv, Range
<1>7. DOMAIN heap' = (DOMAIN heap \ {a}) \cup {B} /\ heap'[B] = heap[a]
      /\ \A x \in DOMAIN heap \ {a} : heap'[x] = heap[x]
  BY <1>2
<1>8. /\ DOMAIN forward' = DOMAIN forward \cup {a} /\ forward'[a] = B
      /\ \A b \in DOMAIN forward : forward'[b] = forward[b]
  BY <1>3, <1>6
<1>9. Range(forward') = Range(forward) \cup {B}
  BY <1>8 DEF Range
<1>10. \A b \in DOMAIN forward : forward[b] \in DOMAIN heap \ {a} /\ heap'[forward[b]] = heap[forward[b]]
  BY <1>2, <1>6, <1>7
<1>11. IsHeap(heap')
  <2>1. ASSUME NEW x \in DOMAIN heap'
        PROVE  x \in Address /\ IsArray(heap'[x]) /\ x + SizeOf(heap'[x]) <= HeapSize + 1
    <3>1. CASE x = B
      BY <1>1, <1>2, <1>4, <1>5, <1>7, <3>1, AddressFacts DEF IsHeap
    <3>2. CASE x # B
      BY <1>4, <1>7, <3>2 DEF IsHeap
    <3> QED BY <3>1, <3>2
  <2>2. ASSUME NEW x \in DOMAIN heap', NEW y \in DOMAIN heap', x < y
        PROVE  x + SizeOf(heap'[x]) <= y
    <3>1. x \in Nat /\ y \in Nat
      BY <2>1, AddressFacts
    <3>2. CASE x = B
      <4>1. y \in unmoved \ {a}
        BY <1>2, <1>5, <1>7, <2>2, <3>1, <3>2
      <4>2. a + s <= y
        BY <1>2, <4>1
      <4> QED BY <1>1, <1>5, <1>7, <3>1, <3>2, <4>2
    <3>3. CASE y = B
      <4>1. x \in Range(forward)
        BY <1>2, <1>5, <1>7, <2>2, <3>1, <3>3
      <4> QED BY <1>2, <1>7, <2>2, <3>1, <3>3, <4>1
    <3>4. CASE x # B /\ y # B
      BY <1>4, <1>7, <2>2, <3>4 DEF IsHeap
    <3> QED BY <3>2, <3>3, <3>4
  <2>3. heap' = [x \in DOMAIN heap' |-> heap'[x]]
    BY <1>2
  <2> QED BY <2>1, <2>2, <2>3 DEF IsHeap
<1>12. SurvivorsInv'
  <2>1. Survivors' = Survivors
    BY <1>2, <1>3, <1>8 DEF Survivors
  <2>2. DOMAIN forward' \cap unmoved' = {}
    BY <1>3, <1>4, <1>8 DEF SurvivorsInv
  <2>3. DOMAIN heap' = Range(forward') \cup unmoved'
    BY <1>2, <1>3, <1>7, <1>9
  <2>4. \A b, c \in DOMAIN forward' : forward'[b] = forward'[c] => b = c
    <3>1. \A b \in DOMAIN forward : forward[b] # B
      BY <1>2, <1>6
    <3> QED BY <1>4, <1>8, <3>1 DEF SurvivorsInv
  <2> QED BY <1>3, <1>4, <2>1, <2>2, <2>3, <2>4 DEF SurvivorsInv
<1>13. Bottom' = B + s /\ \A y \in Range(forward') : B >= y
  <2>1. forward' # <<>>
    BY <1>8
  <2>2. \A y \in Range(forward') : y \in Nat /\ B >= y
    <3>1. Range(forward) \subseteq Nat
      BY <1>2, <1>4, AddressFacts DEF IsHeap
    <3> QED BY <1>2, <1>5, <1>9, <3>1
  <2>3. B \in Range(forward')
    BY <1>9
  <2>4. Max(Range(forward')) = B
    <3>1. PICK m : m = Max(Range(forward'))
      OBVIOUS
    <3>2. m \in Range(forward') /\ \A y \in Range(forward') : m >= y
      BY <2>2, <2>3, <3>1 DEF Max
    <3>3. m >= B /\ B >= m
      BY <2>2, <2>3, <3>2
    <3> QED BY <1>5, <2>2, <3>1, <3>2, <3>3
  <2>5. SizeOf(heap'[B]) = s
    BY <1>1, <1>7
  <2> QED BY <2>1, <2>2, <2>4, <2>5 DEF Bottom
<1>14. MovedInv'
  <2>1. forward' # <<>> => \E last \in Range(forward') : \A y \in Range(forward') : last >= y
    BY <1>9, <1>13
  <2>2. Bottom' \in 1 .. HeapSize + 1
    BY <1>2, <1>5, <1>13, AddressFacts
  <2>3. ASSUME NEW b \in DOMAIN forward' PROVE forward'[b] + SizeOf(heap'[forward'[b]]) <= Bottom'
    <3>1. CASE b = a
      BY <1>1, <1>5, <1>7, <1>8, <1>13, <3>1
    <3>2. CASE b \in DOMAIN forward
      <4>1. forward[b] + SizeOf(heap[forward[b]]) <= B /\ forward[b] \in DOMAIN heap
        BY <1>2, <1>6, <1>10, <3>2
      <4>2. forward[b] \in Nat /\ SizeOf(heap[forward[b]]) \in Nat
        BY <1>4, <4>1, ExtentFacts
      <4> QED BY <1>5, <1>8, <1>10, <1>13, <3>2, <4>1, <4>2
    <3> QED BY <1>8, <3>1, <3>2
  <2>4. ASSUME NEW g \in 1 .. Bottom' - 1
        PROVE  \E b \in DOMAIN forward' : g \in Extent(heap', forward'[b])
    <3>1. g \in Nat /\ 1 <= g /\ g < B + s
      BY <1>5, <1>13
    <3>2. CASE g < B
      <4>1. g \in 1 .. Bottom - 1
        BY <1>1, <1>5, <3>1, <3>2
      <4>2. PICK b \in DOMAIN forward : g \in Extent(heap, forward[b])
        BY <1>4, <4>1 DEF MovedInv
      <4>3. Extent(heap', forward'[b]) = Extent(heap, forward[b])
        BY <1>8, <1>10 DEF Extent
      <4> QED BY <1>8, <4>2, <4>3
    <3>3. CASE g >= B
      <4>1. g \in Extent(heap', B)
        BY <1>1, <1>7, <1>11, <3>1, <3>3, ExtentFacts
      <4> QED BY <1>8, <4>1
    <3> QED BY <1>5, <3>1, <3>2, <3>3
  <2>5. \A u \in unmoved' : Bottom' <= u
    <3>1. \A u \in unmoved' : a + s <= u /\ u \in Nat
      BY <1>2, <1>3, <1>4, AddressFacts DEF IsHeap
    <3> QED BY <1>5, <1>13, <3>1
  <2> QED BY <2>1, <2>2, <2>3, <2>4, <2>5 DEF MovedInv
<1>15. CompactInv'
  <2>1. \A b \in DOMAIN forward' : heap'[forward'[b]] = stopped.heap[b]
    BY <1>2, <1>4, <1>7, <1>8, <1>10 DEF CompactInv
  <2>2. \A u \in unmoved' : heap'[u] = stopped.heap[u]
    BY <1>2, <1>3, <1>4, <1>7 DEF CompactInv
  <2> QED BY <1>3, <1>12, <1>14, <2>1, <2>2 DEF CompactInv
<1>16. TypeInv' /\ RequestInv'
  BY <1>3, <1>11 DEF IInv, TypeInv, RequestInv
<1> QED BY <1>3, <1>15, <1>16 DEF IInv


LEMMA StartFixupKeeps == ASSUME IInv, StartFixup PROVE IInv'
<1>1. /\ phase = "compact" /\ unmoved = {} /\ phase' = "fixup" /\ unfixed' = DOMAIN heap
      /\ heap' = heap /\ roots' = roots /\ native' = native /\ request' = request
      /\ unmoved' = unmoved /\ forward' = forward /\ stopped' = stopped
  BY DEF StartFixup, mutator
<1>2. CompactInv /\ SurvivorsInv /\ MovedInv
  BY <1>1 DEF IInv, CompactInv
<1>3. DOMAIN heap = Range(forward)
  BY <1>1, <1>2 DEF SurvivorsInv
<1>4. \A x \in DOMAIN heap : \E a \in DOMAIN forward : x = forward[a]
  BY <1>3 DEF Range
<1>5. \A a \in DOMAIN forward : forward[a] \in DOMAIN heap
  BY <1>3 DEF Range
<1>6. InUseUpTo(heap, Bottom) /\ Bottom \in 1 .. HeapSize + 1
  BY <1>2, <1>4, <1>5 DEF MovedInv, InUseUpTo
<1>7. SurvivorsInv'
  BY <1>1, <1>2 DEF SurvivorsInv, Survivors
<1>8. \A a \in DOMAIN forward : heap[forward[a]] = stopped.heap[a]
  BY <1>2 DEF CompactInv
<1>9. FixupInv'
  BY <1>1, <1>5, <1>6, <1>7, <1>8 DEF FixupInv
<1>10. TypeInv' /\ RequestInv'
  BY <1>1 DEF IInv, TypeInv, RequestInv
<1> QED BY <1>1, <1>9, <1>10 DEF IInv

\* While references are fixed up every survivor has a place, and no two the same.
LEMMA ForwardFacts ==
  ASSUME IInv, phase = "fixup"
  PROVE  /\ DOMAIN heap = Range(forward) /\ Range(forward) \subseteq Address
         /\ DOMAIN forward = Reachable(stopped.heap, Range(roots))
         /\ DOMAIN forward \subseteq DOMAIN stopped.heap
         /\ \A ref \in DOMAIN forward \cup {Null} : Forwarded(ref) \in Range(forward) \cup {Null}
         /\ \A a \in DOMAIN forward :
              /\ a # Null /\ forward[a] # Null /\ Forwarded(a) = forward[a]
              /\ IsArray(stopped.heap[a]) /\ RefersInto(stopped.heap[a], DOMAIN forward)
<1>1. FixupInv /\ SurvivorsInv /\ IsHeap(heap) /\ IsHeap(stopped.heap)
  BY DEF IInv, TypeInv, FixupInv, SurvivorsInv
<1>2. unmoved = {} /\ Survivors = DOMAIN forward
  BY <1>1 DEF FixupInv, Survivors
<1>3. DOMAIN heap = Range(forward) /\ Range(forward) \subseteq Address
  BY <1>1, <1>2 DEF SurvivorsInv, IsHeap
<1>4. DOMAIN forward = Reachable(stopped.heap, Range(roots)) /\ DOMAIN forward \subseteq DOMAIN stopped.heap
  BY <1>1, <1>2, ReachableFacts DEF SurvivorsInv
<1>5. ASSUME NEW a \in DOMAIN forward
      PROVE  /\ a # Null /\ forward[a] # Null /\ Forwarded(a) = forward[a]
             /\ forward[a] \in Range(forward)
             /\ IsArray(stopped.heap[a]) /\ RefersInto(stopped.heap[a], DOMAIN forward)
  <2>1. forward[a] \in Range(forward)
    BY DEF Range
  <2>2. a # Null /\ forward[a] # Null
    BY <1>1, <1>3, <1>4, <2>1, AddressFacts DEF IsHeap
  <2> QED BY <1>1, <1>2, <1>4, <2>1, <2>2 DEF IsHeap, Forwarded, SurvivorsInv
<1>6. \A ref \in DOMAIN forward \cup {Null} : Forwarded(ref) \in Range(forward) \cup {Null}
  BY <1>5 DEF Forwarded
<1> QED BY <1>3, <1>4, <1>5, <1>6

\* Fixing up an array's references changes nothing else about it.
LEMMA FixedUpFacts ==
  ASSUME IInv, phase = "fixup", NEW a \in DOMAIN forward
  PROVE  LET x == stopped.heap[a]
             y == FixedUp(x)
         IN  /\ IsArray(y) /\ SizeOf(y) = SizeOf(x) /\ y.id = x.id
             /\ y.slots = [i \in DOMAIN x.slots |-> Forwarded(x.slots[i])]
             /\ RefersInto(y, Range(forward))
             /\ y = [x EXCEPT !.slots =
                       [i \in DOMAIN @ |-> IF i \in Shown(x) THEN Forwarded(@[i]) ELSE @[i]]]
<1> DEFINE x == stopped.heap[a]
           y == FixedUp(x)
           f == [i \in DOMAIN x.slots |-> Forwarded(x.slots[i])]
<1>1. IsArray(x) /\ RefersInto(x, DOMAIN forward)
  BY ForwardFacts
<1>2. \A i \in DOMAIN x.slots : Forwarded(x.slots[i]) \in Range(forward) \cup {Null}
  BY <1>1, ForwardFacts DEF RefersInto
<1>3. f \in [DOMAIN x.slots -> Refs]
  BY <1>2, ForwardFacts DEF Refs
<1>4. IsArray(y) /\ y.slots = f /\ y.id = x.id /\ SizeOf(y) = SizeOf(x)
  BY <1>1, <1>3, SlotsReplaced DEF FixedUp
<1>5. RefersInto(y, Range(forward))
  BY <1>2, <1>4 DEF RefersInto
<1>6. [i \in DOMAIN x.slots |-> IF i \in Shown(x) THEN Forwarded(x.slots[i]) ELSE x.slots[i]] = f
  BY DEF Shown, Forwarded
<1>7. y = [x EXCEPT !.slots =
              [i \in DOMAIN @ |-> IF i \in Shown(x) THEN Forwarded(@[i]) ELSE @[i]]]
  BY <1>6 DEF FixedUp
<1> QED BY <1>4, <1>5, <1>7

LEMMA FixSlotsKeeps == ASSUME IInv, FixSlots PROVE IInv'
<1>1. PICK a : a = Min(unfixed)
  OBVIOUS
<1>2. /\ phase = "fixup" /\ phase' = "fixup" /\ unfixed # {} /\ unfixed' = unfixed \ {a}
      /\ heap' = [heap EXCEPT ![a].slots =
                    [i \in DOMAIN @ |-> IF i \in Shown(heap[a]) THEN Forwarded(@[i]) ELSE @[i]]]
      /\ roots' = roots /\ native' = native /\ request' = request
      /\ unmoved' = unmoved /\ forward' = forward /\ stopped' = stopped
  BY <1>1 DEF FixSlots
<1>3. FixupInv /\ SurvivorsInv /\ IsHeap(heap) /\ DOMAIN heap = Range(forward)
  BY <1>2, ForwardFacts DEF IInv, TypeInv, FixupInv
<1>4. unfixed \subseteq DOMAIN heap
  BY <1>3 DEF FixupInv
<1>5. a \in unfixed /\ a \in DOMAIN heap
  <2>1. unfixed \in SUBSET Nat
    BY <1>3, <1>4, AddressFacts DEF IsHeap
  <2> QED BY <1>1, <1>2, <1>4, <2>1, MinFacts
<1>6. PICK b \in DOMAIN forward : forward[b] = a
  BY <1>3, <1>5 DEF Range
<1> DEFINE x == stopped.heap[b]
<1>7. heap[a] = x
  BY <1>3, <1>5, <1>6 DEF FixupInv
<1>8. /\ DOMAIN heap' = DOMAIN heap /\ \A z \in DOMAIN heap \ {a} : heap'[z] = heap[z]
      /\ heap' = [z \in DOMAIN heap' |-> heap'[z]]
  BY <1>2
<1>9. heap'[a] = FixedUp(x)
  <2>1. heap'[a] = [heap[a] EXCEPT !.slots =
                      [i \in DOMAIN @ |-> IF i \in Shown(heap[a]) THEN Forwarded(@[i]) ELSE @[i]]]
    BY <1>2, <1>5
  <2> QED BY <1>2, <1>7, <2>1, FixedUpFacts
<1>10. IsArray(heap'[a]) /\ SizeOf(heap'[a]) = SizeOf(heap[a])
  BY <1>2, <1>7, <1>9, FixedUpFacts
<1>11. \A z \in DOMAIN heap : IsArray(heap'[z]) /\ SizeOf(heap'[z]) = SizeOf(heap[z])
  BY <1>3, <1>8, <1>10 DEF IsHeap
<1>12. IsHeap(heap')
  BY <1>3, <1>8, <1>11 DEF IsHeap
<1>13. PICK top \in 1 .. HeapSize + 1 : InUseUpTo(heap, top)
  BY <1>3 DEF FixupInv
<1>14. InUseUpTo(heap', top)
  BY <1>8, <1>11, <1>13 DEF InUseUpTo, Extent
<1>15. ASSUME NEW c \in DOMAIN forward
       PROVE  heap'[forward[c]] = IF forward[c] \in unfixed' THEN stopped.heap[c]
                                                             ELSE FixedUp(stopped.heap[c])
  <2>1. CASE c = b
    BY <1>2, <1>6, <1>9, <2>1
  <2>2. CASE c # b
    <3>1. forward[c] # a
      BY <1>3, <1>6, <2>2 DEF SurvivorsInv
    <3>2. forward[c] \in DOMAIN heap
      BY <1>3 DEF Range
    <3>3. heap'[forward[c]] = heap[forward[c]] /\ (forward[c] \in unfixed' <=> forward[c] \in unfixed)
      BY <1>2, <1>8, <3>1, <3>2
    <3> QED BY <1>3, <3>3 DEF FixupInv
  <2> QED BY <2>1, <2>2
<1>16. SurvivorsInv'
  BY <1>2, <1>3, <1>8 DEF SurvivorsInv, Survivors
<1>17. \A y : FixedUp(y)' = FixedUp(y)
  BY <1>2 DEF FixedUp, Forwarded
<1>18. FixupInv'
  <2>1. unmoved' = {} /\ unfixed' \subseteq DOMAIN heap'
    BY <1>2, <1>3, <1>4, <1>8 DEF FixupInv
  <2>2. \A c \in DOMAIN forward' :
            heap'[forward'[c]] = IF forward'[c] \in unfixed' THEN stopped'.heap[c]
                                                             ELSE FixedUp(stopped.heap[c])'
    BY <1>2, <1>15, <1>17
  <2> QED BY <1>14, <1>16, <2>1, <2>2 DEF FixupInv
<1>19. TypeInv' /\ RequestInv'
  BY <1>2, <1>12 DEF IInv, TypeInv, RequestInv
<1> QED BY <1>2, <1>18, <1>19 DEF IInv


\* Everything is fixed up: what could be reached before can be reached after, in
\* the place it was moved to, and there is nothing else.
LEMMA ReachableMoved ==
  ASSUME IInv, phase = "fixup", unfixed = {}
  PROVE  /\ \A a \in DOMAIN forward : heap[forward[a]] = FixedUp(stopped.heap[a])
         /\ Linked(heap, FixedRoots)
         /\ DOMAIN heap = Reachable(heap, Range(FixedRoots))
<1> DEFINE T == Reachable(heap, Range(FixedRoots))
           P == {a \in DOMAIN forward : forward[a] \in T}
<1>1. FixupInv /\ SurvivorsInv /\ IsHeap(heap) /\ IsHeap(stopped.heap)
  BY DEF IInv, TypeInv, FixupInv, SurvivorsInv
<1>2. /\ DOMAIN heap = Range(forward)
      /\ DOMAIN forward = Reachable(stopped.heap, Range(roots))
      /\ DOMAIN forward \subseteq DOMAIN stopped.heap
  BY ForwardFacts
<1>3. ASSUME NEW a \in DOMAIN forward
      PROVE  heap[forward[a]] = FixedUp(stopped.heap[a]) /\ forward[a] \in DOMAIN heap
  BY <1>1, <1>2 DEF FixupInv, Range
<1>4. RootsInto(roots, DOMAIN forward)
  BY <1>1 DEF FixupInv, SurvivorsInv, Survivors
<1>5. Linked(heap, FixedRoots)
  <2>1. RootsInto(FixedRoots, DOMAIN heap)
    BY <1>2, <1>4, ForwardFacts DEF RootsInto, FixedRoots
  <2>2. ASSUME NEW y \in DOMAIN heap PROVE RefersInto(heap[y], DOMAIN heap)
    <3>1. PICK a \in DOMAIN forward : y = forward[a]
      BY <1>2 DEF Range
    <3> QED BY <1>2, <1>3, <3>1, FixedUpFacts
  <2> QED BY <2>1, <2>2 DEF Linked
<1>6. T \subseteq DOMAIN heap /\ Range(FixedRoots) \cap DOMAIN heap \subseteq T /\ Closed(heap, T)
  BY ReachableFacts
<1> HIDE DEF T
<1>7. Range(roots) \cap DOMAIN stopped.heap \subseteq P
  <2> SUFFICES ASSUME NEW r \in DOMAIN roots, roots[r] \in DOMAIN stopped.heap
               PROVE  roots[r] \in P
    BY DEF Range
  <2>1. roots[r] # Null
    BY <1>1, AddressFacts DEF IsHeap
  <2>2. roots[r] \in DOMAIN forward
    BY <1>4, <2>1 DEF RootsInto
  <2>3. FixedRoots[r] = forward[roots[r]] /\ FixedRoots[r] \in Range(FixedRoots)
    BY <2>2, ForwardFacts DEF FixedRoots, Range
  <2> QED BY <1>3, <1>6, <2>2, <2>3
<1>8. Closed(stopped.heap, P)
  <2> SUFFICES ASSUME NEW a \in P, NEW b \in Edges(stopped.heap, a) PROVE b \in P
    BY DEF Closed
  <2> DEFINE x == stopped.heap[a]
  <2>1. a \in DOMAIN forward /\ forward[a] \in T
    OBVIOUS
  <2>2. PICK i \in DOMAIN x.slots : b = x.slots[i] /\ b # Null
    BY DEF Edges, Range
  <2>3. b \in DOMAIN forward
    BY <2>1, <2>2, ForwardFacts DEF RefersInto
  <2>4. forward[b] # Null /\ forward[b] \in DOMAIN heap /\ Forwarded(b) = forward[b]
    BY <1>3, <2>3, ForwardFacts
  <2>5. heap[forward[a]].slots = [j \in DOMAIN x.slots |-> Forwarded(x.slots[j])]
    BY <1>3, <2>1, FixedUpFacts
  <2>6. forward[b] \in Range(heap[forward[a]].slots)
    BY <2>2, <2>4, <2>5 DEF Range
  <2>7. forward[b] \in Edges(heap, forward[a]) \cap DOMAIN heap
    BY <2>4, <2>6 DEF Edges
  <2>8. forward[b] \in T
    BY <1>6, <2>1, <2>7 DEF Closed
  <2> QED BY <2>3, <2>8
<1>9. DOMAIN forward \subseteq P
  <2>1. P \in SUBSET DOMAIN stopped.heap
    BY <1>2
  <2> HIDE DEF P
  <2> QED BY <1>2, <1>7, <1>8, <2>1, ReachableFacts
<1>10. DOMAIN heap \subseteq T
  BY <1>2, <1>9 DEF Range
<1> QED BY <1>3, <1>5, <1>6, <1>10 DEF T

LEMMA FinishCompactionKeeps == ASSUME IInv, FinishCompaction PROVE IInv'
<1>1. /\ phase = "fixup" /\ unfixed = {} /\ phase' = "mutator" /\ heap' = heap
      /\ roots' = FixedRoots /\ native' = native /\ request' = request
  BY DEF FinishCompaction
<1>2. Linked(heap', roots') /\ DOMAIN heap' = Reachable(heap', Range(roots'))
  BY <1>1, ReachableMoved
<1>3. \E top \in 1 .. HeapSize + 1 : InUseUpTo(heap', top)
  BY <1>1 DEF IInv, FixupInv
<1>4. native = Null /\ RequestInv'
  BY <1>1 DEF IInv, RequestInv
<1>5. MutatorInv'
  BY <1>1, <1>2, <1>3, <1>4 DEF MutatorInv, Collected
<1>6. FixedRoots \in Seq(Refs)
  <2>1. roots \in Seq(Refs) /\ DOMAIN roots = 1 .. Len(roots) /\ Len(roots) \in Nat
    BY DEF IInv, TypeInv
  <2>2. \A r \in DOMAIN roots : Forwarded(roots[r]) \in Refs
    <3>1. RootsInto(roots, DOMAIN forward)
      BY <1>1 DEF IInv, FixupInv, SurvivorsInv, Survivors
    <3> QED BY <1>1, <3>1, ForwardFacts DEF RootsInto, Refs
  <2>3. FixedRoots = [r \in 1 .. Len(roots) |-> Forwarded(roots[r])]
    BY <2>1 DEF FixedRoots
  <2> QED BY <2>1, <2>2, <2>3
<1>7. TypeInv'
  BY <1>1, <1>6 DEF IInv, TypeInv
<1> QED BY <1>1, <1>4, <1>5, <1>7 DEF IInv

-----------------------------------------------------------------------------
(* The invariant.                                                          *)

LEMMA LinkedRefs ==
  ASSUME IInv, InMutator, NEW r \in DOMAIN roots
  PROVE  roots[r] \in DOMAIN heap \cup {Null}
BY DEF IInv, InMutator, MutatorInv, Linked, RootsInto

LEMMA ProgramKeeps == ASSUME IInv, Program PROVE IInv'
<1>1. RefLengths \subseteq Length /\ BinLengths \subseteq Length /\ REF \in Kinds /\ BIN \in Kinds
  BY HeapAssumption DEF Kinds
<1>2. ASSUME NEW length \in RefLengths, Request(REF, length) PROVE IInv'
  BY <1>1, <1>2, RequestKeeps
<1>3. ASSUME NEW length \in BinLengths, Request(BIN, length) PROVE IInv'
  BY <1>1, <1>3, RequestKeeps
<1>4. InMutator => roots \in Seq(Refs) /\ RootsInto(roots, DOMAIN heap)
                   /\ native \in Refs /\ native \in DOMAIN heap \cup {Null}
  BY DEF IInv, InMutator, TypeInv, MutatorInv, Linked
<1>5. ASSUME NEW ref \in {Null, native}, PushRoot(ref) PROVE IInv'
  <2>1. /\ InMutator /\ roots' = Append(roots, ref) /\ heap' = heap /\ native' = native
        /\ request' = request /\ UNCHANGED collector
    BY <1>5 DEF PushRoot
  <2>2. ref \in Refs /\ ref \in DOMAIN heap \cup {Null}
    BY <1>4, <2>1 DEF Refs
  <2> QED BY <1>4, <2>1, <2>2, ListFacts, RootStepKeeps
<1>6. ASSUME PopRoot PROVE IInv'
  <2>1. /\ InMutator /\ roots # <<>> /\ roots' = SubSeq(roots, 1, Len(roots) - 1)
        /\ heap' = heap /\ native' = native /\ request' = request /\ UNCHANGED collector
    BY <1>6 DEF PopRoot
  <2> QED BY <1>4, <2>1, ListFacts, RootStepKeeps
<1>7. ASSUME NEW r \in DOMAIN roots, AssignRoot(r) PROVE IInv'
  <2>1. /\ InMutator /\ roots' = [roots EXCEPT ![r] = native]
        /\ heap' = heap /\ native' = native /\ request' = request /\ UNCHANGED collector
    BY <1>7 DEF AssignRoot
  <2> QED BY <1>4, <2>1, ListFacts, RootStepKeeps
<1>8. ASSUME NEW r \in DOMAIN roots, GetRoot(r) PROVE IInv'
  <2>1. /\ InMutator /\ native' = roots[r] /\ roots' = roots
        /\ heap' = heap /\ request' = request /\ UNCHANGED collector
    BY <1>8 DEF GetRoot
  <2> QED BY <1>4, <2>1, LinkedRefs, RootStepKeeps
<1>9. ASSUME NEW r \in DOMAIN roots, NEW i \in UsedSlots, Store(r, i) PROVE IInv'
  BY <1>9, StoreKeeps
<1>10. ASSUME NEW r \in DOMAIN roots, NEW i \in UsedSlots, Load(r, i) PROVE IInv'
  <2>1. /\ InMutator /\ HasSlot(r, i) /\ native' = heap[roots[r]].slots[i] /\ roots' = roots
        /\ heap' = heap /\ request' = request /\ UNCHANGED collector
    BY <1>10 DEF Load
  <2> QED BY <1>4, <2>1, SlotFacts, RootStepKeeps
<1> QED BY <1>2, <1>3, <1>5, <1>6, <1>7, <1>8, <1>9, <1>10 DEF Program

LEMMA NextKeeps == IInv /\ [Next]_vars => IInv'
<1> SUFFICES ASSUME IInv, [Next]_vars PROVE IInv'
  OBVIOUS
<1>1. CASE Program
  BY <1>1, ProgramKeeps
<1>2. CASE Allocate
  BY <1>2, AllocateKeeps
<1>3. CASE AllocationFails
  BY <1>3, AllocationFailsKeeps
<1>4. CASE Collect
  BY <1>4, StartCollectionKeeps, MarkKeeps, SweepKeeps, SlideKeeps, StartFixupKeeps,
     FixSlotsKeeps, FinishCompactionKeeps DEF Collect
<1>5. CASE UNCHANGED vars
  <2>1. TypeInv' /\ RequestInv' /\ (MutatorInv => MutatorInv') /\ (MarkInv => MarkInv')
    BY <1>5 DEF IInv, TypeInv, RequestInv, MutatorInv, MarkInv, vars
  <2>2. SurvivorsInv => SurvivorsInv'
    BY <1>5 DEF SurvivorsInv, Survivors, vars
  <2>3. CompactInv => CompactInv'
    BY <1>5, <2>2 DEF CompactInv, MovedInv, Bottom, vars
  <2>4. FixupInv => FixupInv'
    BY <1>5, <2>2 DEF FixupInv, FixedUp, Forwarded, vars
  <2> QED BY <1>5, <2>1, <2>3, <2>4 DEF IInv, vars
<1> QED BY <1>1, <1>2, <1>3, <1>4, <1>5 DEF Next

\* The heap stays as the phase of the collection says, whatever the program
\* allocates, stores and drops, and however often it is stopped.
THEOREM Invariance == Spec => []IInv
BY Initially, NextKeeps, PTL DEF Spec


-----------------------------------------------------------------------------
(* The properties.                                                         *)

\* At every moment, in the middle of a compaction too, the heap can be walked
\* from header to header: no array overlaps another or the end of the heap,
\* and each has the slots its header says.
THEOREM TheHeapIsWalkable == Spec => []HeapWalkable
<1>1. IInv => HeapWalkable
  BY Walkable DEF IInv
<1> QED BY <1>1, Invariance, PTL

\* No reference the program can get at, and none in any array still in memory,
\* leads anywhere but to the header of an array, after any number of
\* collections, with and without compaction.
THEOREM NoReferenceDangles == Spec => []NoDanglingReference
<1>1. IInv => NoDanglingReference
  <2> SUFFICES ASSUME IInv, phase = "mutator"
               PROVE  (Range(roots) \cup {native} \cup UNION {Range(heap[a].slots) : a \in DOMAIN heap})
                          \subseteq DOMAIN heap \cup {Null}
    BY DEF NoDanglingReference
  <2>1. Linked(heap, roots) /\ native \in DOMAIN heap \cup {Null}
    BY DEF IInv, MutatorInv
  <2>2. Range(roots) \subseteq DOMAIN heap \cup {Null}
    BY <2>1 DEF Linked, RootsInto, Range
  <2>3. \A a \in DOMAIN heap : Range(heap[a].slots) \subseteq DOMAIN heap \cup {Null}
    BY <2>1 DEF Linked, RefersInto, Range
  <2> QED BY <2>1, <2>2, <2>3
<1> QED BY <1>1, Invariance, PTL

\* Memory used without gaps from the bottom is one piece of that many granules.
LEMMA OnePiece ==
  ASSUME NEW memory, IsHeap(memory), NEW top \in 1 .. HeapSize + 1, InUseUpTo(memory, top)
  PROVE  InUse(memory) = 1 .. top - 1 /\ Cardinality(InUse(memory)) = top - 1
<1>1. top \in Nat /\ 1 <= top
  BY AddressFacts
<1>2. ASSUME NEW g \in InUse(memory) PROVE g \in 1 .. top - 1
  <2>1. PICK a \in DOMAIN memory : g \in Extent(memory, a)
    BY <1>2, InUseFacts
  <2>2. a \in Nat \ {0} /\ a + SizeOf(memory[a]) <= top
    BY <2>1, AddressFacts DEF IsHeap, InUseUpTo
  <2>3. g \in Nat /\ a <= g /\ g < a + SizeOf(memory[a]) /\ SizeOf(memory[a]) \in Nat
    BY <2>1, ExtentFacts
  <2> QED BY <1>1, <2>2, <2>3
<1>3. ASSUME NEW g \in 1 .. top - 1 PROVE g \in InUse(memory)
  BY <1>3, InUseFacts DEF InUseUpTo
<1>4. InUse(memory) = 1 .. top - 1
  BY <1>2, <1>3
<1>5. Cardinality(1 .. top - 1) = top - 1
  BY <1>1, FS_Interval
<1> QED BY <1>4, <1>5

\* A collection leaves exactly what the StackRoots reached when the program was
\* stopped, each array once, and after a compaction without gaps.
THEOREM CollectionsAreExact == Spec => CollectionIsExact
<1> DEFINE Exact ==
      phase # "mutator" /\ phase' = "mutator" =>
          /\ IdsOf(heap', DOMAIN heap')
                = IdsOf(stopped.heap, Reachable(stopped.heap, Range(stopped.roots)))
          /\ DOMAIN heap' = Reachable(heap', Range(roots'))
          /\ Compacting => InUse(heap') = 1 .. Cardinality(InUse(heap'))
<1>1. IInv /\ IInv' /\ [Next]_vars => [Exact]_vars
  <2> SUFFICES ASSUME IInv, IInv', Next, phase # "mutator", phase' = "mutator"
               PROVE  Exact
    OBVIOUS
  <2>1. Sweep \/ FinishCompaction
    BY DEF Next, Program, Request, PushRoot, PopRoot, AssignRoot, GetRoot, Store, Load,
           InMutator, Allocate, AllocationFails, Collect, StartCollection, Mark, Slide,
           StartFixup, FixSlots
  <2>2. CASE Sweep
    <3>1. /\ phase = "mark" /\ grey = {} /\ ~Compacting
          /\ heap' = Restrict(heap, marked) /\ roots' = roots
      BY <2>2 DEF Sweep, Compacts, CompactionPrevented
    <3>2. stopped.heap = heap /\ stopped.roots = roots /\ IsHeap(heap)
      BY <3>1 DEF IInv, TypeInv, MarkInv
    <3>3. marked = Reachable(heap, Range(roots)) /\ marked \in SUBSET DOMAIN heap
      BY <3>1, MarkedAll, ReachableFacts
    <3>4. DOMAIN heap' = marked /\ \A a \in marked : heap'[a] = heap[a]
      BY <3>1, <3>2, <3>3, RestrictedHeap
    <3>5. IdsOf(heap', marked) = IdsOf(heap, marked)
      BY <3>4 DEF IdsOf
    <3>6. marked = Reachable(heap', Range(roots))
      BY <3>1, <3>3, RestrictedReachable
    <3> QED BY <3>1, <3>2, <3>3, <3>4, <3>5, <3>6
  <2>3. CASE FinishCompaction
    <3>1. phase = "fixup" /\ unfixed = {} /\ heap' = heap /\ roots' = FixedRoots
      BY <2>3 DEF FinishCompaction
    <3>2. IsHeap(heap) /\ stopped.roots = roots
      BY <3>1 DEF IInv, TypeInv, FixupInv, SurvivorsInv
    <3>3. DOMAIN heap = Range(forward) /\ DOMAIN forward = Reachable(stopped.heap, Range(roots))
      BY <3>1, ForwardFacts
    <3>4. \A a \in DOMAIN forward : heap[forward[a]].id = stopped.heap[a].id
      BY <3>1, ReachableMoved, FixedUpFacts
    <3>5. IdsOf(heap, DOMAIN heap) = IdsOf(stopped.heap, DOMAIN forward)
      <4>1. IdsOf(heap, DOMAIN heap) = {heap[forward[a]].id : a \in DOMAIN forward}
        BY <3>3 DEF IdsOf, Range
      <4> QED BY <3>4, <4>1 DEF IdsOf
    <3>6. DOMAIN heap = Reachable(heap, Range(FixedRoots))
      BY <3>1, ReachableMoved
    <3>7. \E top \in 1 .. HeapSize + 1 : InUseUpTo(heap, top)
      BY <3>1 DEF IInv, FixupInv
    <3>8. InUse(heap) = 1 .. Cardinality(InUse(heap))
      BY <3>2, <3>7, OnePiece
    <3> QED BY <3>1, <3>2, <3>3, <3>5, <3>6, <3>8
  <2> QED BY <2>1, <2>2, <2>3
<1>2. CollectionIsExact <=> [][Exact]_vars
  BY DEF CollectionIsExact
<1> HIDE DEF Exact
<1> QED BY <1>1, <1>2, Invariance, PTL DEF Spec

\* Nothing is in memory but what can be reached, so restricting it to that
\* leaves it as it is.
LEMMA NothingToFree ==
  ASSUME NEW memory, IsHeap(memory)
  PROVE  Restrict(memory, DOMAIN memory) = memory
BY DEF Restrict, IsHeap

\* In a compacting build an allocation returns nullptr only when what can be
\* reached leaves less memory than it asks for.
THEOREM FailureMeansFull == Spec => FailsOnlyWhenFull
<1> DEFINE Live == InUse(Restrict(heap, Reachable(heap, Range(roots))))
           Size(r) == Granules(AllocationSize(r.kind, r.length))
           Full ==
      request # {} /\ request' = {} /\ native' = Null =>
          \A r \in request : Compacting => Cardinality(Live) + Size(r) > HeapSize
<1>1. IInv /\ [Next]_vars => [Full]_vars
  <2> SUFFICES ASSUME IInv, Next, request # {}, request' = {}, native' = Null,
                      NEW r \in request, Compacting
               PROVE  Cardinality(Live) + Size(r) > HeapSize
    OBVIOUS
  <2>1. IsHeap(heap) /\ \A s \in request : s = r
    BY DEF IInv, TypeInv
  <2>2. Size(r) \in Nat \ {0}
    <3>1. PICK k \in Kinds, n \in Length, c \in BOOLEAN :
              r = [kind |-> k, length |-> n, collected |-> c]
      BY DEF IInv, TypeInv, IsRequest
    <3>2. r.kind \in Kinds /\ r.length \in Nat
      BY <3>1, LayoutAssumption DEF Length
    <3> QED BY <3>2, SomeGranules
  <2>3. ~Allocate
    <3> SUFFICES ASSUME Allocate PROVE FALSE
      OBVIOUS
    <3>1. Holes(Size(r)) # {} /\ native' = Min(Holes(Size(r)))
      BY <2>1 DEF Allocate
    <3>2. Min(Holes(Size(r))) \in Address
      BY <2>2, <3>1, HoleFacts DEF IInv
    <3> QED BY <3>1, <3>2, AddressFacts
  <2>4. AllocationFails
    BY <2>3 DEF Next, Program, Request, PushRoot, PopRoot, AssignRoot, GetRoot, Store, Load,
           InMutator, Collect, StartCollection, Mark, Sweep, Slide,
           StartFixup, FixSlots, FinishCompaction, mutator
  <2>5. phase = "mutator" /\ r.collected /\ Holes(Size(r)) = {}
    BY <2>1, <2>4 DEF AllocationFails
  <2>6. Collected(heap, roots)
    BY <2>5 DEF IInv, MutatorInv
  <2>7. Live = InUse(heap)
    BY <2>1, <2>6, NothingToFree DEF Collected
  <2>8. PICK top \in 1 .. HeapSize + 1 : InUseUpTo(heap, top)
    BY <2>6 DEF Collected
  <2>9. InUse(heap) = 1 .. top - 1 /\ Cardinality(InUse(heap)) = top - 1
    BY <2>1, <2>8, OnePiece
  <2>10. ~(top + Size(r) <= HeapSize + 1)
    <3> SUFFICES ASSUME top + Size(r) <= HeapSize + 1 PROVE FALSE
      OBVIOUS
    <3>1. PICK size \in Nat \ {0} : size = Size(r)
      BY <2>2
    <3>2. top \in Nat /\ top \in 1 .. HeapSize + 1 - size
      BY <3>1, AddressFacts
    <3>3. Span(top, size) \cap InUse(heap) = {}
      BY <2>9, <3>1, <3>2 DEF Span
    <3>4. top \in Holes(size)
      BY <3>2, <3>3 DEF Holes
    <3> QED BY <2>5, <3>1, <3>4
  <2> HIDE DEF Live, Size
  <2> QED BY <2>2, <2>7, <2>9, <2>10, AddressFacts
<1>2. FailsOnlyWhenFull <=> [][Full]_vars
  BY DEF FailsOnlyWhenFull
<1> HIDE DEF Full
<1> QED BY <1>1, <1>2, Invariance, PTL DEF Spec


-----------------------------------------------------------------------------
(* Memory as a graph of identities.                                        *)

\* No two arrays have the same identity.
Identified(memory) ==
    /\ \A a \in DOMAIN memory : memory[a].id \in Address
    /\ \A a, b \in DOMAIN memory : memory[a].id = memory[b].id => a = b

IdsAt(memory, refs) == {IdAt(memory, ref) : ref \in refs}

Node(memory, a) ==
    [kind  |-> HeaderKind(memory[a].word),
     slots |-> [i \in DOMAIN memory[a].slots |-> IdAt(memory, memory[a].slots[i])]]

\* The graph of some of the arrays in memory.
GraphOf(memory, S) ==
    [id \in IdsOf(memory, S) |-> Node(memory, CHOOSE a \in S : memory[a].id = id)]

Live == Reachable(Seen.heap, Range(Seen.roots) \cup {native})

\* Both modules mean the same by what they take from Functions.
LEMMA SameOperators ==
  /\ \A f : Graph!Range(f) = Range(f)
  /\ \A f, S : Graph!Restrict(f, S) = Restrict(f, S)
BY DEF Range, Restrict, Graph!Range, Graph!Restrict

LEMMA VisibleIsGraph == Visible = GraphOf(Seen.heap, Live)
BY Zenon DEF Visible, GraphOf, Live, Node, IdsOf

LEMMA GraphFacts ==
  ASSUME NEW memory, Identified(memory), NEW S \in SUBSET DOMAIN memory
  PROVE  /\ DOMAIN GraphOf(memory, S) = IdsOf(memory, S)
         /\ \A a \in S : /\ memory[a].id \in IdsOf(memory, S)
                         /\ GraphOf(memory, S)[memory[a].id] = Node(memory, a)
         /\ \A T \in SUBSET S : IdsOf(memory, T) \subseteq IdsOf(memory, S)
         /\ 0 \notin IdsOf(memory, S)
<1>1. DOMAIN GraphOf(memory, S) = IdsOf(memory, S)
  BY DEF GraphOf
<1>2. ASSUME NEW a \in S
      PROVE  /\ memory[a].id \in IdsOf(memory, S)
             /\ GraphOf(memory, S)[memory[a].id] = Node(memory, a)
  <2>1. memory[a].id \in IdsOf(memory, S)
    BY DEF IdsOf
  <2>2. \A b \in S : memory[b].id = memory[a].id => b = a
    BY DEF Identified
  <2>3. (CHOOSE b \in S : memory[b].id = memory[a].id) = a
    BY <2>2
  <2> QED BY <2>1, <2>3 DEF GraphOf
<1>3. \A T \in SUBSET S : IdsOf(memory, T) \subseteq IdsOf(memory, S)
  BY DEF IdsOf
<1>4. 0 \notin IdsOf(memory, S)
  BY DEF IdsOf, Identified, Address
<1> QED BY <1>1, <1>2, <1>3, <1>4

\* A function that agrees with the graph at every array is the graph.
LEMMA GraphEqual ==
  ASSUME NEW memory, Identified(memory), NEW S \in SUBSET DOMAIN memory,
         NEW g, g = [id \in DOMAIN g |-> g[id]], DOMAIN g = IdsOf(memory, S),
         \A a \in S : g[memory[a].id] = Node(memory, a)
  PROVE  g = GraphOf(memory, S)
<1>1. \A id \in DOMAIN g : \E a \in S : id = memory[a].id
  BY DEF IdsOf
<1>2. \A id \in DOMAIN g : g[id] = GraphOf(memory, S)[id]
  BY <1>1, GraphFacts
<1>3. GraphOf(memory, S) = [id \in DOMAIN g |-> GraphOf(memory, S)[id]]
  BY DEF GraphOf
<1> QED BY <1>2, <1>3

\* Null has no identity, and every array its own.
LEMMA IdFacts ==
  ASSUME NEW memory, IsHeap(memory), Identified(memory), NEW ref \in DOMAIN memory \cup {Null}
  PROVE  /\ IdAt(memory, ref) \in Refs
         /\ IdAt(memory, Null) = 0
         /\ ref \in DOMAIN memory => IdAt(memory, ref) = memory[ref].id /\ IdAt(memory, ref) # 0
         /\ \A T \in SUBSET DOMAIN memory :
               IdAt(memory, ref) \in IdsOf(memory, T) \cup {0} <=> ref \in T \cup {Null}
<1>1. Null \notin DOMAIN memory /\ Null = 0
  BY AddressFacts DEF IsHeap
<1>2. IdAt(memory, Null) = 0
  BY <1>1 DEF IdAt
<1>3. ref \in DOMAIN memory => /\ IdAt(memory, ref) = memory[ref].id
                               /\ IdAt(memory, ref) \in Address /\ IdAt(memory, ref) # 0
  BY AddressFacts DEF IdAt, Identified
<1>4. ASSUME NEW T \in SUBSET DOMAIN memory
      PROVE  IdAt(memory, ref) \in IdsOf(memory, T) \cup {0} <=> ref \in T \cup {Null}
  <2>1. ref \in T => IdAt(memory, ref) \in IdsOf(memory, T)
    BY <1>3 DEF IdsOf
  <2>2. ASSUME IdAt(memory, ref) \in IdsOf(memory, T) PROVE ref \in T
    <3>1. PICK a \in T : IdAt(memory, ref) = memory[a].id
      BY <2>2 DEF IdsOf
    <3>2. memory[a].id # 0
      BY AddressFacts DEF Identified
    <3>3. ref \in DOMAIN memory
      BY <1>2, <3>1, <3>2
    <3> QED BY <1>3, <3>1, <3>3 DEF Identified
  <2> QED BY <1>2, <1>3, <2>1, <2>2
<1> QED BY <1>1, <1>2, <1>3, <1>4 DEF Refs

LEMMA NodeInto ==
  ASSUME NEW memory, IsHeap(memory), Identified(memory), NEW a \in DOMAIN memory,
         RefersInto(memory[a], DOMAIN memory), NEW T \in SUBSET DOMAIN memory
  PROVE  Range(Node(memory, a).slots) \subseteq IdsOf(memory, T) \cup {0} <=> RefersInto(memory[a], T)
<1>1. DOMAIN Node(memory, a).slots = DOMAIN memory[a].slots
  BY DEF Node
<1>2. \A i \in DOMAIN memory[a].slots :
          Node(memory, a).slots[i] = IdAt(memory, memory[a].slots[i])
  BY DEF Node
<1>3. \A i \in DOMAIN memory[a].slots :
          Node(memory, a).slots[i] \in IdsOf(memory, T) \cup {0} <=> memory[a].slots[i] \in T \cup {Null}
  BY <1>2, IdFacts DEF RefersInto
<1> QED BY <1>1, <1>3 DEF RefersInto, Range

\* What can be reached in the graph is what can be reached in memory.
LEMMA ReachableIds ==
  ASSUME NEW memory, IsHeap(memory), Identified(memory),
         NEW S \in SUBSET DOMAIN memory, \A a \in S : RefersInto(memory[a], S),
         NEW from, from \subseteq S \cup {Null}
  PROVE  /\ Reachable(memory, from) \subseteq S
         /\ Graph!Reachable(GraphOf(memory, S), IdsAt(memory, from))
                = IdsOf(memory, Reachable(memory, from))
<1> DEFINE R  == Reachable(memory, from)
           G  == GraphOf(memory, S)
           GR == Graph!Reachable(G, IdsAt(memory, from))
<1>1. /\ R \subseteq DOMAIN memory /\ from \cap DOMAIN memory \subseteq R /\ Closed(memory, R)
      /\ \A T \in SUBSET DOMAIN memory :
            from \cap DOMAIN memory \subseteq T /\ Closed(memory, T) => R \subseteq T
  BY ReachableFacts
<1>2. Null \notin DOMAIN memory
  BY AddressFacts DEF IsHeap
<1>3. \A T \in SUBSET DOMAIN memory :
         from \subseteq T \cup {Null} /\ (\A a \in T : RefersInto(memory[a], T)) => R \subseteq T
  BY <1>1, <1>2, EdgesInto DEF Closed
<1>4. R \subseteq S
  BY <1>3
<1>5. \A a \in S : RefersInto(memory[a], DOMAIN memory)
  BY DEF RefersInto
<1>6. from \subseteq R \cup {Null}
  BY <1>1
<1>7. \A a \in R : RefersInto(memory[a], R)
  BY <1>1, <1>4, <1>5, EdgesInto DEF Closed
<1>8. /\ DOMAIN G = IdsOf(memory, S)
      /\ \A a \in S : memory[a].id \in IdsOf(memory, S) /\ G[memory[a].id] = Node(memory, a)
      /\ IdsOf(memory, R) \subseteq IdsOf(memory, S)
  BY <1>4, GraphFacts
<1> HIDE DEF R, G
<1>9. GR \subseteq IdsOf(memory, R)
  <2>1. IdsAt(memory, from) \subseteq IdsOf(memory, R) \cup {0}
    BY <1>1, <1>6, IdFacts DEF IdsAt
  <2>2. Graph!Closed(G, IdsOf(memory, R))
    <3> SUFFICES ASSUME NEW id \in IdsOf(memory, R)
                 PROVE  Range(G[id].slots) \subseteq IdsOf(memory, R) \cup {0}
      BY SameOperators DEF Graph!Closed, Graph!Nothing
    <3>1. PICK a \in R : id = memory[a].id
      BY DEF IdsOf
    <3> QED BY <1>1, <1>4, <1>5, <1>7, <1>8, <3>1, NodeInto
  <2> QED BY <1>8, <2>1, <2>2 DEF Graph!Reachable, Graph!Nothing
<1>10. IdsOf(memory, R) \subseteq GR
  <2> SUFFICES ASSUME NEW a \in R, NEW T \in SUBSET DOMAIN G,
                      IdsAt(memory, from) \subseteq T \cup {0}, Graph!Closed(G, T)
               PROVE  memory[a].id \in T
    BY <1>4, <1>8 DEF IdsOf, Graph!Reachable, Graph!Nothing
  <2> DEFINE P == {b \in S : memory[b].id \in T}
  <2>1. IdsOf(memory, P) = T
    BY <1>8 DEF IdsOf
  <2>2. P \in SUBSET DOMAIN memory
    OBVIOUS
  <2>3. from \subseteq P \cup {Null}
    <3> SUFFICES ASSUME NEW ref \in from PROVE ref \in P \cup {Null}
      OBVIOUS
    <3>1. IdAt(memory, ref) \in IdsOf(memory, P) \cup {0}
      BY <2>1 DEF IdsAt
    <3>2. ref \in DOMAIN memory \cup {Null}
      OBVIOUS
    <3> HIDE DEF P
    <3> QED BY <2>2, <3>1, <3>2, IdFacts
  <2>4. ASSUME NEW b \in P PROVE RefersInto(memory[b], P)
    <3>1. Range(G[memory[b].id].slots) \subseteq IdsOf(memory, P) \cup {0}
      BY <2>1, SameOperators DEF Graph!Closed, Graph!Nothing
    <3>2. b \in S /\ G[memory[b].id] = Node(memory, b)
      BY <1>8
    <3> HIDE DEF P
    <3> QED BY <1>5, <2>2, <3>1, <3>2, NodeInto
  <2>5. a \in P
    BY <1>3, <2>2, <2>3, <2>4
  <2> QED BY <2>5
<1> QED BY <1>4, <1>9, <1>10 DEF R, G

LEMMA GraphRestricted ==
  ASSUME NEW memory, IsHeap(memory), Identified(memory),
         NEW S \in SUBSET DOMAIN memory, \A a \in S : RefersInto(memory[a], S),
         NEW from, from \subseteq S \cup {Null}
  PROVE  Restrict(GraphOf(memory, S), Graph!Reachable(GraphOf(memory, S), IdsAt(memory, from)))
             = GraphOf(memory, Reachable(memory, from))
<1> DEFINE R == Reachable(memory, from)
           G == GraphOf(memory, S)
           g == Restrict(G, IdsOf(memory, R))
<1>1. R \in SUBSET S /\ Graph!Reachable(G, IdsAt(memory, from)) = IdsOf(memory, R)
  BY ReachableIds
<1>2. DOMAIN g = IdsOf(memory, R) /\ g = [id \in DOMAIN g |-> g[id]]
      /\ \A id \in IdsOf(memory, R) : g[id] = G[id]
  BY DEF Restrict
<1>3. \A a \in R : g[memory[a].id] = Node(memory, a)
  BY <1>1, <1>2, GraphFacts
<1> HIDE DEF g, R
<1>4. g = GraphOf(memory, R)
  BY <1>1, <1>2, <1>3, GraphEqual
<1> QED BY <1>1, <1>4 DEF g, R


-----------------------------------------------------------------------------
(* The program on the graph.                                               *)

IdList(memory, list) == [r \in DOMAIN list |-> IdAt(memory, list[r])]

RootIds  == IdList(Seen.heap, Seen.roots)
NativeId == IdAt(Seen.heap, native)

\* What the program sees is a heap without dangling references, whoever is at
\* work on it, and it asks for arrays of the lengths it is said to.
SeenInv ==
    /\ IsHeap(Seen.heap) /\ Identified(Seen.heap)
    /\ Seen.roots \in Seq(Refs)
    /\ Linked(Seen.heap, Seen.roots)
    /\ native \in DOMAIN Seen.heap \cup {Null}
    /\ \A r \in request : r.kind = REF => r.length \in RefLengths

LEMMA LiveFacts ==
  ASSUME SeenInv
  PROVE  /\ Live \in SUBSET DOMAIN Seen.heap
         /\ \A a \in Live : RefersInto(Seen.heap[a], Live)
         /\ Range(Seen.roots) \cup {native} \subseteq Live \cup {Null}
<1>1. /\ Live \subseteq DOMAIN Seen.heap
      /\ (Range(Seen.roots) \cup {native}) \cap DOMAIN Seen.heap \subseteq Live
      /\ Closed(Seen.heap, Live)
  BY ReachableFacts DEF Live
<1>2. \A a \in DOMAIN Seen.heap : RefersInto(Seen.heap[a], DOMAIN Seen.heap)
  BY DEF SeenInv, Linked
<1>3. \A a \in Live : RefersInto(Seen.heap[a], Live)
  BY <1>1, <1>2, EdgesInto DEF Closed
<1>4. Range(Seen.roots) \subseteq DOMAIN Seen.heap \cup {Null}
  BY DEF SeenInv, Linked, RootsInto, Range
<1>5. native \in DOMAIN Seen.heap \cup {Null}
  BY DEF SeenInv
<1> QED BY <1>1, <1>3, <1>4, <1>5

LEMMA SeenFacts ==
  /\ phase = "mutator" => Seen.heap = heap /\ Seen.roots = roots
  /\ phase # "mutator" => Seen = stopped
BY DEF Seen

LEMMA AppendIs ==
  ASSUME NEW s \in Seq(Refs), NEW x \in Refs
  PROVE  Append(s, x) = [r \in 1 .. Len(s) + 1 |-> IF r = Len(s) + 1 THEN x ELSE s[r]]
<1> DEFINE t == Append(s, x)
<1>1. t \in Seq(Refs) /\ Len(t) = Len(s) + 1
  OBVIOUS
<1>2. \A r \in 1 .. Len(s) + 1 : t[r] = IF r = Len(s) + 1 THEN x ELSE s[r]
  OBVIOUS
<1> HIDE DEF t
<1>3. t = [r \in 1 .. Len(t) |-> t[r]]
  BY <1>1
<1> QED BY <1>1, <1>2, <1>3 DEF t

\* Identities of a list that changes in one place or at its end.
LEMMA IdListFacts ==
  ASSUME NEW memory, IsHeap(memory), Identified(memory), NEW list \in Seq(Refs),
         RootsInto(list, DOMAIN memory)
  PROVE  /\ IdList(memory, list) \in Seq(Refs) /\ Len(IdList(memory, list)) = Len(list)
         /\ \A ref \in DOMAIN memory \cup {Null} :
              /\ IdList(memory, Append(list, ref)) = Append(IdList(memory, list), IdAt(memory, ref))
              /\ \A r \in DOMAIN list :
                   IdList(memory, [list EXCEPT ![r] = ref])
                       = [IdList(memory, list) EXCEPT ![r] = IdAt(memory, ref)]
         /\ list # <<>> =>
              IdList(memory, SubSeq(list, 1, Len(list) - 1))
                  = SubSeq(IdList(memory, list), 1, Len(list) - 1)
         /\ Range(IdList(memory, list)) = IdsAt(memory, Range(list))
<1> DEFINE ids == IdList(memory, list)
<1>1. \A r \in 1 .. Len(list) : list[r] \in DOMAIN memory \cup {Null}
  BY DEF RootsInto
<1>2. \A r \in 1 .. Len(list) : IdAt(memory, list[r]) \in Refs
  BY <1>1, IdFacts
<1>3. ids = [r \in 1 .. Len(list) |-> IdAt(memory, list[r])]
  BY DEF IdList
<1>4. ids \in Seq(Refs) /\ Len(ids) = Len(list) /\ DOMAIN ids = 1 .. Len(list)
      /\ \A r \in 1 .. Len(list) : ids[r] = IdAt(memory, list[r])
  BY <1>2, <1>3
<1> HIDE DEF ids
<1>5. ASSUME NEW ref \in DOMAIN memory \cup {Null}
      PROVE  IdList(memory, Append(list, ref)) = Append(ids, IdAt(memory, ref))
  <2>1. IdAt(memory, ref) \in Refs
    BY IdFacts
  <2>2. PICK id \in Refs : id = IdAt(memory, ref)
    BY <2>1
  <2>3. DOMAIN Append(list, ref) = 1 .. Len(list) + 1
        /\ \A r \in 1 .. Len(list) + 1 :
              Append(list, ref)[r] = IF r = Len(list) + 1 THEN ref ELSE list[r]
    OBVIOUS
  <2>4. IdList(memory, Append(list, ref)) =
            [r \in 1 .. Len(list) + 1 |-> IF r = Len(list) + 1 THEN id ELSE ids[r]]
    <3>1. \A r \in 1 .. Len(list) + 1 : IdAt(memory, Append(list, ref)[r]) =
              IF r = Len(list) + 1 THEN id ELSE ids[r]
      BY <1>4, <2>2, <2>3
    <3> QED BY <2>3, <3>1 DEF IdList
  <2>5. Append(ids, id) = [r \in 1 .. Len(list) + 1 |-> IF r = Len(list) + 1 THEN id ELSE ids[r]]
    BY <1>4, AppendIs
  <2> QED BY <2>2, <2>4, <2>5
<1>6. ASSUME NEW ref \in DOMAIN memory \cup {Null}, NEW r \in DOMAIN list
      PROVE  IdList(memory, [list EXCEPT ![r] = ref]) = [ids EXCEPT ![r] = IdAt(memory, ref)]
  BY <1>3 DEF IdList, ids
<1>7. ASSUME list # <<>>
      PROVE  IdList(memory, SubSeq(list, 1, Len(list) - 1)) = SubSeq(ids, 1, Len(list) - 1)
  <2>1. Len(list) - 1 \in Nat
    BY <1>7
  <2>2. SubSeq(list, 1, Len(list) - 1) = [r \in 1 .. Len(list) - 1 |-> list[r]]
    BY <2>1
  <2>3. SubSeq(ids, 1, Len(list) - 1) = [r \in 1 .. Len(list) - 1 |-> ids[r]]
    BY <1>4, <2>1
  <2>4. \A r \in 1 .. Len(list) - 1 : r \in 1 .. Len(list)
    BY <2>1
  <2> QED BY <1>4, <2>2, <2>3, <2>4 DEF IdList
<1>8. Range(ids) = IdsAt(memory, Range(list))
  BY <1>4 DEF Range, IdsAt
<1> QED BY <1>4, <1>5, <1>6, <1>7, <1>8 DEF ids

\* The state after a step, as far as the program can still reach it.
LEMMA Becoming ==
  ASSUME phase' = "mutator", SeenInv',
         NEW S \in SUBSET DOMAIN heap', \A a \in S : RefersInto(heap'[a], S),
         Range(roots') \cup {native'} \subseteq S \cup {Null}
  PROVE  Graph!Becomes(GraphOf(heap', S), RootIds', NativeId')
<1>1. /\ IsHeap(heap') /\ Identified(heap') /\ roots' \in Seq(Refs)
      /\ RootsInto(roots', DOMAIN heap') /\ Seen'.heap = heap' /\ Seen'.roots = roots'
  BY DEF SeenInv, Seen, Linked
<1> DEFINE from == Range(roots') \cup {native'}
<1>2. Visible' = GraphOf(heap', Reachable(heap', from))
  <2>1. (Visible = GraphOf(Seen.heap, Live))'
    BY VisibleIsGraph, PTL
  <2> QED BY <1>1, <2>1 DEF Live
<1>3. Range(RootIds') \cup {NativeId'} = IdsAt(heap', from)
  <2>1. Range(IdList(heap', roots')) = IdsAt(heap', Range(roots'))
    BY <1>1, IdListFacts
  <2> QED BY <1>1, <2>1 DEF IdsAt, RootIds, NativeId
<1>4. Restrict(GraphOf(heap', S), Graph!Reachable(GraphOf(heap', S), IdsAt(heap', from)))
          = GraphOf(heap', Reachable(heap', from))
  BY <1>1, GraphRestricted
<1>5. Visible' = Restrict(GraphOf(heap', S),
                          Graph!Reachable(GraphOf(heap', S), Range(RootIds') \cup {NativeId'}))
  BY <1>2, <1>3, <1>4
<1> QED BY <1>5, SameOperators DEF Graph!Becomes, RootIds, NativeId, IdList


LEMMA SeenInMutator ==
  ASSUME IInv', phase' = "mutator", Identified(heap'),
         \A r \in request' : r.kind = REF => r.length \in RefLengths
  PROVE  SeenInv'
<1>1. Seen'.heap = heap' /\ Seen'.roots = roots'
  BY DEF Seen
<1>2. /\ IsHeap(heap') /\ roots' \in Seq(Refs) /\ Linked(heap', roots')
      /\ native' \in DOMAIN heap' \cup {Null}
  BY DEF IInv, TypeInv, MutatorInv
<1> QED BY <1>1, <1>2 DEF SeenInv

\* The program changes its references only to ones it can get at.
LEMMA RootStepSeen ==
  ASSUME SeenInv, IInv', InMutator, heap' = heap, UNCHANGED collector,
         \A r \in request' : r.kind = REF => r.length \in RefLengths,
         Range(roots') \cup {native'} \subseteq Live \cup {Null}
  PROVE  SeenInv' /\ Graph!Becomes(Visible, RootIds', NativeId')
<1>1. phase = "mutator" /\ phase' = "mutator"
  BY DEF InMutator, collector
<1>2. Seen.heap = heap /\ Seen.roots = roots
  BY <1>1, SeenFacts
<1>3. SeenInv'
  BY <1>1, <1>2, SeenInMutator DEF SeenInv
<1>4. Live \in SUBSET DOMAIN heap /\ \A a \in Live : RefersInto(heap[a], Live)
  BY <1>2, LiveFacts
<1>5. Visible = GraphOf(heap, Live)
  BY <1>2, VisibleIsGraph
<1> QED BY <1>1, <1>3, <1>4, <1>5, Becoming

LEMMA RequestSeen ==
  ASSUME IInv, SeenInv, IInv', NEW kind, NEW length, Request(kind, length),
         kind = REF => length \in RefLengths
  PROVE  SeenInv' /\ Graph!Next /\ Graph!Call
<1>1. /\ InMutator /\ heap' = heap /\ roots' = roots /\ native' = Null /\ UNCHANGED collector
      /\ request' = {[kind |-> kind, length |-> length, collected |-> FALSE]}
  BY DEF Request
<1>2. /\ phase = "mutator" /\ request = {} /\ request' # {} /\ phase' = "mutator"
      /\ \A r \in request' : r.kind = REF => r.length \in RefLengths
  BY <1>1 DEF InMutator, collector
<1>3. Seen.heap = heap /\ Seen.roots = roots /\ Seen'.heap = heap /\ Seen'.roots = roots
  BY <1>1, <1>2 DEF Seen
<1>4. Range(roots') \cup {native'} \subseteq Live \cup {Null}
  BY <1>1, <1>3, LiveFacts
<1>5. SeenInv' /\ Graph!Becomes(Visible, RootIds', NativeId')
  BY <1>1, <1>2, <1>4, RootStepSeen
<1>6. RootIds' = RootIds /\ NativeId' = 0
  <2>1. IdAt(heap, Null) = 0
    BY <1>3, IdFacts DEF SeenInv
  <2> QED BY <1>1, <1>3, <2>1 DEF RootIds, NativeId
<1>7. Graph!Call
  BY <1>2, <1>5, <1>6 DEF Graph!Call, Graph!Nothing, RootIds, IdList
<1> QED BY <1>5, <1>7 DEF Graph!Next

\* The steps between two calls that leave memory alone.
LEMMA RootStepActs ==
  ASSUME IInv, SeenInv, IInv', InMutator, heap' = heap, UNCHANGED collector,
         request' = request, Range(roots') \cup {native'} \subseteq Live \cup {Null}
  PROVE  /\ SeenInv' /\ Graph!Acts(Visible, RootIds', NativeId')
         /\ Seen.heap = heap /\ Seen.roots = roots
         /\ RootIds' = IdList(heap, roots') /\ NativeId' = IdAt(heap, native')
<1>1. phase = "mutator" /\ request = {} /\ phase' = "mutator"
  BY DEF InMutator, collector
<1>2. SeenInv' /\ Graph!Becomes(Visible, RootIds', NativeId')
  BY RootStepSeen DEF SeenInv
<1>3. Seen.heap = heap /\ Seen.roots = roots /\ Seen'.heap = heap /\ Seen'.roots = roots'
  BY <1>1 DEF Seen
<1>4. RootIds' = IdList(heap, roots') /\ NativeId' = IdAt(heap, native')
  BY <1>3 DEF RootIds, NativeId
<1> QED BY <1>1, <1>2, <1>3, <1>4 DEF Graph!Acts

LEMMA PushRootSeen ==
  ASSUME IInv, SeenInv, IInv', NEW ref \in {Null, native}, PushRoot(ref)
  PROVE  SeenInv' /\ Graph!Next /\ Graph!PushRoot(IdAt(Seen.heap, ref))
<1>1. /\ InMutator /\ heap' = heap /\ roots' = Append(roots, ref) /\ native' = native
      /\ UNCHANGED collector /\ request' = request
  BY DEF PushRoot
<1>2. Seen.heap = heap /\ Seen.roots = roots
  BY <1>1, SeenFacts DEF InMutator
<1>3. /\ IsHeap(heap) /\ Identified(heap) /\ roots \in Seq(Refs) /\ RootsInto(roots, DOMAIN heap)
      /\ native \in DOMAIN heap \cup {Null}
  BY <1>2 DEF SeenInv, Linked
<1>4. Range(roots') \cup {native'} \subseteq Live \cup {Null}
  <2>1. Range(Append(roots, ref)) \subseteq Range(roots) \cup {ref}
    BY <1>3 DEF Range
  <2> QED BY <1>1, <1>2, <2>1, LiveFacts
<1>5. /\ SeenInv' /\ Graph!Acts(Visible, RootIds', NativeId')
      /\ RootIds' = IdList(heap, roots') /\ NativeId' = IdAt(heap, native')
  BY <1>1, <1>4, RootStepActs
<1>6. RootIds' = Append(RootIds, IdAt(heap, ref)) /\ NativeId' = NativeId
  BY <1>1, <1>2, <1>3, <1>5, IdListFacts DEF RootIds, NativeId
<1>7. IdAt(heap, ref) \in {Graph!Nothing, NativeId}
  BY <1>2, <1>3, IdFacts DEF Graph!Nothing, NativeId
<1>8. Graph!PushRoot(IdAt(heap, ref))
  BY <1>5, <1>6 DEF Graph!PushRoot, RootIds, NativeId, IdList
<1>9. Graph!Next
  BY <1>7, <1>8 DEF Graph!Next, NativeId
<1> QED BY <1>2, <1>5, <1>8, <1>9

LEMMA PopRootSeen ==
  ASSUME IInv, SeenInv, IInv', PopRoot
  PROVE  SeenInv' /\ Graph!Next /\ Graph!PopRoot
<1>1. /\ InMutator /\ heap' = heap /\ roots # <<>> /\ roots' = SubSeq(roots, 1, Len(roots) - 1)
      /\ native' = native /\ UNCHANGED collector /\ request' = request
  BY DEF PopRoot
<1>2. Seen.heap = heap /\ Seen.roots = roots
  BY <1>1, SeenFacts DEF InMutator
<1>3. /\ IsHeap(heap) /\ Identified(heap) /\ roots \in Seq(Refs) /\ RootsInto(roots, DOMAIN heap)
  BY <1>2 DEF SeenInv, Linked
<1>4. Range(roots') \cup {native'} \subseteq Live \cup {Null}
  <2>1. Range(SubSeq(roots, 1, Len(roots) - 1)) \subseteq Range(roots)
    BY <1>1, <1>3 DEF Range
  <2> QED BY <1>1, <1>2, <2>1, LiveFacts
<1>5. /\ SeenInv' /\ Graph!Acts(Visible, RootIds', NativeId')
      /\ RootIds' = IdList(heap, roots') /\ NativeId' = IdAt(heap, native')
  BY <1>1, <1>4, RootStepActs
<1>6. RootIds' = SubSeq(RootIds, 1, Len(RootIds) - 1) /\ NativeId' = NativeId
      /\ Len(RootIds) = Len(roots)
  BY <1>1, <1>2, <1>3, <1>5, IdListFacts DEF RootIds, NativeId
<1>7. RootIds # <<>>
  BY <1>1, <1>3, <1>6
<1>8. Graph!PopRoot
  BY <1>5, <1>6, <1>7 DEF Graph!PopRoot, RootIds, NativeId, IdList
<1> QED BY <1>5, <1>8 DEF Graph!Next

LEMMA AssignRootSeen ==
  ASSUME IInv, SeenInv, IInv', NEW r \in DOMAIN roots, AssignRoot(r)
  PROVE  SeenInv' /\ Graph!Next /\ Graph!AssignRoot(r)
<1>1. /\ InMutator /\ heap' = heap /\ roots' = [roots EXCEPT ![r] = native]
      /\ native' = native /\ UNCHANGED collector /\ request' = request
  BY DEF AssignRoot
<1>2. Seen.heap = heap /\ Seen.roots = roots
  BY <1>1, SeenFacts DEF InMutator
<1>3. /\ IsHeap(heap) /\ Identified(heap) /\ roots \in Seq(Refs) /\ RootsInto(roots, DOMAIN heap)
      /\ native \in DOMAIN heap \cup {Null}
  BY <1>2 DEF SeenInv, Linked
<1>4. Range(roots') \cup {native'} \subseteq Live \cup {Null}
  <2>1. Range([roots EXCEPT ![r] = native]) \subseteq Range(roots) \cup {native}
    BY <1>3 DEF Range
  <2> QED BY <1>1, <1>2, <2>1, LiveFacts
<1>5. /\ SeenInv' /\ Graph!Acts(Visible, RootIds', NativeId')
      /\ RootIds' = IdList(heap, roots') /\ NativeId' = IdAt(heap, native')
  BY <1>1, <1>4, RootStepActs
<1>6. RootIds' = [RootIds EXCEPT ![r] = NativeId] /\ NativeId' = NativeId /\ r \in DOMAIN RootIds
  BY <1>1, <1>2, <1>3, <1>5, IdListFacts DEF RootIds, NativeId, IdList
<1>7. Graph!AssignRoot(r)
  BY <1>5, <1>6 DEF Graph!AssignRoot, RootIds, NativeId, IdList
<1> QED BY <1>5, <1>6, <1>7 DEF Graph!Next, RootIds, IdList

LEMMA GetRootSeen ==
  ASSUME IInv, SeenInv, IInv', NEW r \in DOMAIN roots, GetRoot(r)
  PROVE  SeenInv' /\ Graph!Next
<1>1. /\ InMutator /\ heap' = heap /\ roots' = roots /\ native' = roots[r]
      /\ UNCHANGED collector /\ request' = request
  BY DEF GetRoot
<1>2. Seen.heap = heap /\ Seen.roots = roots
  BY <1>1, SeenFacts DEF InMutator
<1>3. Range(roots') \cup {native'} \subseteq Live \cup {Null}
  <2>1. roots[r] \in Range(roots)
    BY DEF Range
  <2> QED BY <1>1, <1>2, <2>1, LiveFacts
<1>4. /\ SeenInv' /\ Graph!Acts(Visible, RootIds', NativeId')
      /\ RootIds' = IdList(heap, roots') /\ NativeId' = IdAt(heap, native')
  BY <1>1, <1>3, RootStepActs
<1>5. RootIds' = RootIds /\ r \in DOMAIN RootIds /\ NativeId' = RootIds[r]
  BY <1>1, <1>2, <1>4 DEF RootIds, IdList
<1>6. Graph!GetRoot(r)
  BY <1>4, <1>5 DEF Graph!GetRoot, RootIds, IdList
<1> QED BY <1>4, <1>5, <1>6 DEF Graph!Next, RootIds, IdList


\* A slot of a rooted array is a slot of its node.
LEMMA SlotSeen ==
  ASSUME SeenInv, InMutator, NEW r \in DOMAIN roots, NEW i \in 1 .. MaxLength, HasSlot(r, i)
  PROVE  /\ roots[r] \in Live /\ r \in DOMAIN RootIds /\ RootIds[r] = heap[roots[r]].id
         /\ RootIds[r] \in DOMAIN Visible /\ Visible[RootIds[r]] = Node(heap, roots[r])
         /\ Graph!HasSlot(r, i)
         /\ heap[roots[r]].slots[i] \in Live \cup {Null}
<1> DEFINE a == roots[r]
<1>1. Seen.heap = heap /\ Seen.roots = roots /\ request = {}
  BY SeenFacts DEF InMutator
<1>2. IsHeap(heap) /\ Identified(heap) /\ Live \in SUBSET DOMAIN heap
  BY <1>1, LiveFacts DEF SeenInv
<1>3. a # Null /\ i \in DOMAIN heap[a].slots
  BY DEF HasSlot
<1>4. a \in Live
  <2>1. a \in Range(roots)
    BY DEF Range
  <2> QED BY <1>1, <1>3, <2>1, LiveFacts
<1>5. heap[a].slots[i] \in Live \cup {Null}
  BY <1>1, <1>3, <1>4, LiveFacts DEF RefersInto
<1>6. r \in DOMAIN RootIds /\ RootIds[r] = heap[a].id /\ RootIds[r] # 0
  BY <1>1, <1>2, <1>4, IdFacts DEF RootIds, IdList
<1>7. RootIds[r] \in DOMAIN Visible /\ Visible[RootIds[r]] = Node(heap, a)
  BY <1>1, <1>2, <1>4, <1>6, VisibleIsGraph, GraphFacts
<1>8. i \in DOMAIN Node(heap, a).slots
  BY <1>3 DEF Node
<1>9. Graph!HasSlot(r, i)
  BY <1>1, <1>6, <1>7, <1>8 DEF Graph!HasSlot, Graph!Nothing, RootIds, IdList
<1> QED BY <1>4, <1>5, <1>6, <1>7, <1>9, HeapAssumption

LEMMA LoadSeen ==
  ASSUME IInv, SeenInv, IInv', NEW r \in DOMAIN roots, NEW i \in 1 .. MaxLength, Load(r, i)
  PROVE  SeenInv' /\ Graph!Next
<1>1. /\ InMutator /\ HasSlot(r, i) /\ heap' = heap /\ roots' = roots
      /\ native' = heap[roots[r]].slots[i] /\ UNCHANGED collector /\ request' = request
  BY DEF Load
<1>2. Seen.heap = heap /\ Seen.roots = roots
  BY <1>1, SeenFacts DEF InMutator
<1>3. /\ heap[roots[r]].slots[i] \in Live \cup {Null} /\ r \in DOMAIN RootIds
      /\ Visible[RootIds[r]] = Node(heap, roots[r]) /\ Graph!HasSlot(r, i) /\ i \in 1 .. MaxLength
  BY <1>1, SlotSeen
<1>4. Range(roots') \cup {native'} \subseteq Live \cup {Null}
  BY <1>1, <1>2, <1>3, LiveFacts
<1>5. /\ SeenInv' /\ Graph!Acts(Visible, RootIds', NativeId')
      /\ RootIds' = IdList(heap, roots') /\ NativeId' = IdAt(heap, native')
  BY <1>1, <1>4, RootStepActs
<1>6. RootIds' = RootIds /\ NativeId' = Visible[RootIds[r]].slots[i]
  BY <1>1, <1>2, <1>3, <1>5 DEF RootIds, Node, HasSlot
<1>7. Graph!Load(r, i)
  BY <1>3, <1>5, <1>6 DEF Graph!Load, RootIds, IdList
<1> QED BY <1>3, <1>5, <1>7 DEF Graph!Next, RootIds, IdList

\* A slot of a rooted array is written, and perhaps a flag of its header.
LEMMA SlotWrittenSeen ==
  ASSUME IInv, SeenInv, IInv', NEW r \in DOMAIN roots, NEW i \in 1 .. MaxLength,
         InMutator, HasSlot(r, i), UNCHANGED <<roots, native, request, collector>>,
         DOMAIN heap' = DOMAIN heap, \A b \in DOMAIN heap \ {roots[r]} : heap'[b] = heap[b],
         heap'[roots[r]].slots = [heap[roots[r]].slots EXCEPT ![i] = native],
         heap'[roots[r]].id = heap[roots[r]].id,
         HeaderKind(heap'[roots[r]].word) = HeaderKind(heap[roots[r]].word)
  PROVE  SeenInv' /\ Graph!Next /\ Graph!Store(r, i)
<1> DEFINE a == roots[r]
           f == [heap[a].slots EXCEPT ![i] = native]
           G == [Visible EXCEPT ![RootIds[r]].slots[i] = NativeId]
<1>1. /\ InMutator /\ HasSlot(r, i) /\ roots' = roots /\ native' = native
      /\ UNCHANGED collector /\ request' = request
  OBVIOUS
<1>2. /\ Seen.heap = heap /\ Seen.roots = roots
      /\ phase' = "mutator" /\ request = {} /\ request' = {}
  BY <1>1, SeenFacts DEF InMutator, collector
<1>3. /\ IsHeap(heap) /\ Identified(heap) /\ Live \in SUBSET DOMAIN heap
      /\ \A b \in Live : RefersInto(heap[b], Live)
      /\ Range(roots) \cup {native} \subseteq Live \cup {Null}
      /\ roots \in Seq(Refs) /\ RootsInto(roots, DOMAIN heap)
  BY <1>2, LiveFacts DEF SeenInv, Linked
<1>4. /\ a \in Live /\ r \in DOMAIN RootIds /\ RootIds[r] = heap[a].id
      /\ RootIds[r] \in DOMAIN Visible /\ Visible[RootIds[r]] = Node(heap, a)
      /\ Graph!HasSlot(r, i) /\ i \in 1 .. MaxLength
  BY <1>1, SlotSeen
<1>5. i \in DOMAIN heap[a].slots
  BY <1>1 DEF HasSlot
<1>7. DOMAIN heap' = DOMAIN heap /\ \A b \in DOMAIN heap \ {a} : heap'[b] = heap[b]
  OBVIOUS
<1>9. heap'[a].slots = f /\ HeaderKind(heap'[a].word) = HeaderKind(heap[a].word) /\ heap'[a].id = heap[a].id
  OBVIOUS
<1>10. \A b \in DOMAIN heap : heap'[b].id = heap[b].id
  BY <1>7, <1>9
<1>11. Identified(heap')
  BY <1>3, <1>7, <1>10 DEF Identified
<1>12. SeenInv'
  BY <1>2, <1>11, SeenInMutator
<1>13. \A b \in Live : RefersInto(heap'[b], Live)
  <2>1. RefersInto(heap'[a], Live)
    BY <1>3, <1>4, <1>9 DEF RefersInto
  <2> QED BY <1>3, <1>7, <2>1
<1>14. \A ref : IdAt(heap', ref) = IdAt(heap, ref)
  BY <1>7, <1>10 DEF IdAt
<1>15. Visible = GraphOf(heap, Live)
  BY <1>2, VisibleIsGraph
<1>16. G = GraphOf(heap', Live)
  <2>1. G = [id \in DOMAIN G |-> G[id]] /\ DOMAIN G = DOMAIN Visible
    OBVIOUS
  <2>2. DOMAIN G = IdsOf(heap', Live)
    <3>1. IdsOf(heap', Live) = IdsOf(heap, Live)
      BY <1>3, <1>10 DEF IdsOf
    <3> QED BY <1>3, <1>15, <2>1, <3>1, GraphFacts
  <2>3. ASSUME NEW b \in Live PROVE G[heap'[b].id] = Node(heap', b)
    <3>1. heap'[b].id = heap[b].id /\ heap[b].id \in DOMAIN Visible
          /\ Visible[heap[b].id] = Node(heap, b)
      BY <1>3, <1>10, <1>15, GraphFacts
    <3>2. CASE b = a
      <4>1. G[RootIds[r]] = [Node(heap, a) EXCEPT !.slots[i] = NativeId]
        BY <1>4
      <4>2. Node(heap', a).slots = [j \in DOMAIN f |-> IdAt(heap, f[j])]
            /\ Node(heap', a).kind = Node(heap, a).kind
        BY <1>9, <1>14 DEF Node
      <4>3. [j \in DOMAIN f |-> IdAt(heap, f[j])] = [Node(heap, a).slots EXCEPT ![i] = NativeId]
        BY <1>2, <1>5 DEF Node, NativeId
      <4>4. [Node(heap, a) EXCEPT !.slots[i] = NativeId] = Node(heap', a)
        BY <4>2, <4>3 DEF Node
      <4> QED BY <1>4, <3>1, <3>2, <4>1, <4>4
    <3>3. CASE b # a
      <4>1. heap[b].id # heap[a].id
        BY <1>3, <1>4, <3>3 DEF Identified
      <4>2. G[heap[b].id] = Visible[heap[b].id]
        BY <1>4, <3>1, <4>1
      <4>3. Node(heap', b) = Node(heap, b)
        BY <1>3, <1>7, <1>14, <3>3 DEF Node
      <4> QED BY <3>1, <4>2, <4>3
    <3> QED BY <3>2, <3>3
  <2>4. Live \in SUBSET DOMAIN heap'
    BY <1>3, <1>7
  <2> HIDE DEF G
  <2> QED BY <1>11, <2>1, <2>2, <2>3, <2>4, GraphEqual
<1> HIDE DEF G
<1>17. Graph!Becomes(G, RootIds', NativeId')
  <2>1. Live \in SUBSET DOMAIN heap'
    BY <1>3, <1>7
  <2>2. Range(roots') \cup {native'} \subseteq Live \cup {Null}
    BY <1>1, <1>3
  <2>3. Graph!Becomes(GraphOf(heap', Live), RootIds', NativeId')
    BY <1>2, <1>12, <1>13, <2>1, <2>2, Becoming
  <2> QED BY <1>16, <2>3
<1>18. RootIds' = RootIds /\ NativeId' = NativeId
  <2>1. Seen'.heap = heap' /\ Seen'.roots = roots
    BY <1>1, <1>2 DEF Seen
  <2> QED BY <1>1, <1>2, <1>14, <2>1 DEF RootIds, NativeId, IdList
<1>19. Graph!Store(r, i)
  <2>1. Graph!Acts(G, RootIds, NativeId)
    BY <1>2, <1>17, <1>18 DEF Graph!Acts
  <2> QED BY <1>4, <2>1 DEF Graph!Store, G, RootIds, NativeId, IdList
<1> QED BY <1>4, <1>12, <1>19 DEF Graph!Next, RootIds, IdList


LEMMA StoreSeen ==
  ASSUME IInv, SeenInv, IInv', NEW r \in DOMAIN roots, NEW i \in 1 .. MaxLength, Store(r, i)
  PROVE  SeenInv' /\ Graph!Next /\ Graph!Store(r, i)
<1> DEFINE a == roots[r]
           f == [heap[a].slots EXCEPT ![i] = native]
<1>1. /\ InMutator /\ HasSlot(r, i) /\ UNCHANGED <<roots, native, request, collector>>
      /\ heap' = [heap EXCEPT ![a].slots[i] = native]
  BY DEF Store
<1>2. /\ IsHeap(heap) /\ a \in DOMAIN heap /\ native \in Refs
  <2>1. Seen.heap = heap /\ Seen.roots = roots
    BY <1>1, SeenFacts DEF InMutator
  <2>2. a \in Live /\ Live \in SUBSET DOMAIN heap
    BY <1>1, <2>1, SlotSeen, LiveFacts
  <2> QED BY <2>1, <2>2 DEF SeenInv, IsHeap, Refs
<1>3. heap' = [heap EXCEPT ![a] = [heap[a] EXCEPT !.slots = f]]
  BY <1>1, <1>2
<1>4. DOMAIN heap' = DOMAIN heap /\ heap'[a] = [heap[a] EXCEPT !.slots = f]
      /\ \A b \in DOMAIN heap \ {a} : heap'[b] = heap[b]
  BY <1>2, <1>3
<1>5. f \in [DOMAIN heap[a].slots -> Refs]
  BY <1>2, ArrayFacts DEF IsHeap
<1>6. heap'[a].slots = f /\ heap'[a].word = heap[a].word /\ heap'[a].id = heap[a].id
  BY <1>2, <1>4, <1>5, SlotsReplaced DEF IsHeap
<1> QED BY <1>1, <1>4, <1>6, SlotWrittenSeen

\* No array is longer than the longest.
LEMMA MaxLengthFacts == MaxLength \in Nat /\ \A n \in RefLengths : n \in 0 .. MaxLength
<1> DEFINE S == RefLengths \cup {0}
           T == {LenMod - n : n \in S}
<1>1. LenMod \in Nat /\ S \in SUBSET Nat /\ \A n \in S : n <= LenMod
  BY LayoutAssumption, HeapAssumption DEF Length
<1>2. T \in SUBSET Nat /\ T # {}
  BY <1>1
<1>3. PICK m \in T : \A y \in T : m <= y
  BY <1>2, MinFacts
<1>4. PICK n \in S : m = LenMod - n
  BY <1>3
<1>5. \A k \in S : n >= k
  <2> SUFFICES ASSUME NEW k \in S PROVE n >= k
    OBVIOUS
  <2>1. LenMod - k \in T
    OBVIOUS
  <2>2. m <= LenMod - k
    BY <1>3, <2>1
  <2> QED BY <1>1, <1>4, <2>2
<1> HIDE DEF S, T
<1>6. \E x \in S : \A y \in S : x >= y
  BY <1>5
<1>7. MaxLength \in S /\ \A y \in S : MaxLength >= y
  BY <1>6 DEF MaxLength, Max, S
<1> QED BY <1>1, <1>7 DEF S

\* While there is room for an array there is an identity for it.
LEMMA FreshIdFacts ==
  ASSUME IsHeap(heap), Identified(heap), NEW a \in Address \ DOMAIN heap
  PROVE  FreshId \in Address /\ \A b \in DOMAIN heap : heap[b].id # FreshId
<1> DEFINE free == Address \ {heap[b].id : b \in DOMAIN heap}
<1>1. HeapSize \in Nat /\ IsFiniteSet(Address) /\ Cardinality(Address) = HeapSize
  BY HeapAssumption, FS_Interval DEF Address
<1>2. DOMAIN heap \in SUBSET (Address \ {a})
  BY DEF IsHeap
<1>3. IsFiniteSet(Address \ {a}) /\ Cardinality(Address \ {a}) = HeapSize - 1
  BY <1>1, FS_RemoveElement
<1>4. IsFiniteSet(DOMAIN heap) /\ Cardinality(DOMAIN heap) <= HeapSize - 1
  BY <1>2, <1>3, FS_Subset
<1>5. Cardinality(DOMAIN heap) \in Nat
  BY <1>4, FS_CardinalityType
<1>6. free # {}
  <2> SUFFICES ASSUME free = {} PROVE FALSE
    OBVIOUS
  <2> DEFINE at == [id \in Address |-> CHOOSE b \in DOMAIN heap : heap[b].id = id]
  <2>1. ASSUME NEW id \in Address PROVE at[id] \in DOMAIN heap /\ heap[at[id]].id = id
    <3>1. \E b \in DOMAIN heap : heap[b].id = id
      OBVIOUS
    <3> QED BY <3>1
  <2>2. at \in [Address -> DOMAIN heap]
    BY <2>1
  <2> HIDE DEF at
  <2>3. \E x, y \in Address : x # y /\ at[x] = at[y]
    <3>1. Cardinality(DOMAIN heap) < Cardinality(Address)
      BY <1>1, <1>4, <1>5
    <3> QED BY <1>1, <1>4, <2>2, <3>1, FS_PigeonHole
  <2> QED BY <2>1, <2>3
<1>7. free \in SUBSET Nat
  BY AddressFacts
<1>8. FreshId \in free
  BY <1>6, <1>7, MinFacts DEF FreshId
<1> QED BY <1>8

\* What an allocation makes, and where.
PlacedFor(r, a) ==
    /\ r.kind \in Kinds /\ r.length \in Length
    /\ native' = a
    /\ \E slots \in FreshSlots(r.kind, r.length) : heap' = Place(r, a, slots)

LEMMA AllocateFacts ==
  ASSUME IInv, Allocate
  PROVE  \E r \in request, a \in Address \ DOMAIN heap : PlacedFor(r, a)
<1>1. PICK r \in request :
        /\ Holes(Granules(AllocationSize(r.kind, r.length))) # {}
        /\ native' = Min(Holes(Granules(AllocationSize(r.kind, r.length))))
        /\ \E slots \in FreshSlots(r.kind, r.length) :
              heap' = Place(r, Min(Holes(Granules(AllocationSize(r.kind, r.length)))), slots)
  BY DEF Allocate
<1>2. r.kind \in Kinds /\ r.length \in Length
  BY DEF IInv, TypeInv, IsRequest
<1>3. Granules(AllocationSize(r.kind, r.length)) \in Nat \ {0}
  BY <1>2, SomeGranules, LayoutAssumption DEF Length
<1>4. native' \in Address \ DOMAIN heap
  BY <1>1, <1>3, HoleFacts DEF IInv
<1> QED BY <1>1, <1>2, <1>4 DEF PlacedFor

\* The arrays in memory, whether the program can see them or not.
Identities == IdsOf(heap, DOMAIN heap)

\* The program gets an array that was not in memory before.
GotNewArray ==
    /\ \E kind \in Kinds, n \in 0 .. MaxLength : Graph!Allocate(kind, n)
    /\ NativeId' \notin Identities
    /\ Identities' = Identities \cup {NativeId'}

LEMMA PlacedSeen ==
  ASSUME IInv, SeenInv, IInv', phase = "mutator", phase' = "mutator",
         request' = {}, roots' = roots,
         NEW r \in request, NEW a \in Address \ DOMAIN heap, PlacedFor(r, a)
  PROVE  SeenInv' /\ Graph!Next /\ GotNewArray
<1>1. /\ phase = "mutator" /\ phase' = "mutator" /\ request # {} /\ request' = {} /\ roots' = roots
  OBVIOUS
<1>1a. PICK slots \in FreshSlots(r.kind, r.length) : heap' = Place(r, a, slots)
  BY DEF PlacedFor
<1>2. /\ r.kind \in Kinds /\ r.length \in Length
      /\ slots = IF r.kind = REF THEN [i \in 1 .. r.length |-> Null] ELSE <<>>
      /\ native' = a
      /\ heap' = [x \in DOMAIN heap \cup {a} |->
                     IF x = a THEN [word |-> InitializedWord(r.kind, r.length),
                                    slots |-> slots, id |-> FreshId]
                              ELSE heap[x]]
  BY <1>1a DEF PlacedFor, Place, FreshSlots, ZeroedSlots
<1>3. /\ DOMAIN heap' = DOMAIN heap \cup {a} /\ \A x \in DOMAIN heap : heap'[x] = heap[x]
      /\ heap'[a].word = InitializedWord(r.kind, r.length)
      /\ heap'[a].slots = slots /\ heap'[a].id = FreshId
  BY <1>2
<1>4. /\ Seen.heap = heap /\ Seen.roots = roots /\ Seen'.heap = heap' /\ Seen'.roots = roots
  BY <1>1 DEF Seen
<1>5. /\ IsHeap(heap) /\ Identified(heap) /\ Live \in SUBSET DOMAIN heap
      /\ \A b \in Live : RefersInto(heap[b], Live)
      /\ Range(roots) \cup {native} \subseteq Live \cup {Null}
      /\ roots \in Seq(Refs) /\ RootsInto(roots, DOMAIN heap)
      /\ r.kind = REF => r.length \in RefLengths
  BY <1>4, LiveFacts DEF SeenInv, Linked
<1>6. FreshId \in Address /\ \A b \in DOMAIN heap : heap[b].id # FreshId
  BY <1>5, FreshIdFacts
<1>7. Identified(heap')
  BY <1>3, <1>5, <1>6 DEF Identified
<1>8. SeenInv'
  BY <1>1, <1>7, SeenInMutator
<1>9. IsHeap(heap')
  BY <1>4, <1>8 DEF SeenInv
<1> DEFINE n   == IF r.kind = REF THEN r.length ELSE 0
           new == [kind |-> r.kind, slots |-> [i \in 1 .. n |-> 0]]
           G   == [x \in DOMAIN Visible \cup {FreshId} |-> IF x = FreshId THEN new ELSE Visible[x]]
<1>10. slots = [i \in 1 .. n |-> 0]
  <2>1. CASE r.kind = REF
    BY <1>2, <2>1 DEF Null
  <2>2. CASE r.kind # REF
    <3>1. 1 .. n = {}
      BY <2>2
    <3>2. slots = <<>> /\ DOMAIN slots = {}
      BY <1>2, <2>2
    <3> QED BY <3>1, <3>2
  <2> QED BY <2>1, <2>2
<1>11. Node(heap', a) = new
  <2>1. HeaderKind(heap'[a].word) = r.kind
    BY <1>2, <1>3, InitializedFields, LayoutAssumption DEF Length
  <2>2. IdAt(heap', Null) = 0
    BY <1>7, <1>9, IdFacts
  <2>3. [i \in DOMAIN slots |-> IdAt(heap', slots[i])] = [i \in 1 .. n |-> 0]
    BY <1>10, <2>2 DEF Null
  <2> QED BY <1>3, <2>1, <2>3 DEF Node
<1>12. \A ref \in DOMAIN heap \cup {Null} : IdAt(heap', ref) = IdAt(heap, ref)
  BY <1>2, <1>3, <1>7, <1>9, IdFacts, <1>5 DEF IdAt
<1>13. ASSUME NEW b \in Live
       PROVE  Node(heap', b) = Node(heap, b) /\ RefersInto(heap'[b], Live \cup {a})
  <2>1. b \in DOMAIN heap /\ heap'[b] = heap[b] /\ RefersInto(heap[b], Live)
    BY <1>3, <1>5
  <2>2. \A i \in DOMAIN heap[b].slots : heap[b].slots[i] \in DOMAIN heap \cup {Null}
    BY <1>5, <2>1 DEF RefersInto
  <2>3. [i \in DOMAIN heap[b].slots |-> IdAt(heap', heap[b].slots[i])]
            = [i \in DOMAIN heap[b].slots |-> IdAt(heap, heap[b].slots[i])]
    BY <1>12, <2>2
  <2> QED BY <2>1, <2>3 DEF Node, RefersInto
<1>14. RefersInto(heap'[a], Live \cup {a})
  BY <1>3, <1>10 DEF RefersInto, Null
<1>15. Visible = GraphOf(heap, Live)
  BY <1>4, VisibleIsGraph
<1>16. G = GraphOf(heap', Live \cup {a})
  <2>1. G = [id \in DOMAIN G |-> G[id]] /\ DOMAIN G = DOMAIN Visible \cup {FreshId}
    OBVIOUS
  <2>2. DOMAIN Visible = IdsOf(heap, Live)
    BY <1>5, <1>15, GraphFacts
  <2>3. IdsOf(heap', Live \cup {a}) = IdsOf(heap, Live) \cup {FreshId}
    <3>1. IdsOf(heap', Live) = IdsOf(heap, Live)
      BY <1>3, <1>5 DEF IdsOf
    <3>2. IdsOf(heap', Live \cup {a}) = IdsOf(heap', Live) \cup {heap'[a].id}
      BY DEF IdsOf
    <3> QED BY <1>3, <3>1, <3>2
  <2>4. ASSUME NEW b \in Live \cup {a} PROVE G[heap'[b].id] = Node(heap', b)
    <3>1. CASE b = a
      BY <1>3, <1>11, <2>1, <3>1
    <3>2. CASE b \in Live
      <4>1. heap[b].id \in DOMAIN Visible /\ Visible[heap[b].id] = Node(heap, b)
            /\ heap'[b].id = heap[b].id /\ heap[b].id # FreshId
        BY <1>3, <1>5, <1>6, <1>15, <2>2, <3>2, GraphFacts
      <4> QED BY <1>13, <3>2, <4>1
    <3> QED BY <3>1, <3>2
  <2>5. Live \cup {a} \in SUBSET DOMAIN heap'
    BY <1>3, <1>5
  <2>6. DOMAIN G = IdsOf(heap', Live \cup {a})
    BY <2>1, <2>2, <2>3
  <2>7. PICK S \in SUBSET DOMAIN heap' : S = Live \cup {a}
    BY <2>5
  <2> HIDE DEF G
  <2> QED BY <1>7, <2>1, <2>4, <2>6, <2>7, GraphEqual
<1>17. RootIds' = RootIds /\ NativeId' = FreshId
  <2>1. \A k \in DOMAIN roots : IdAt(heap', roots[k]) = IdAt(heap, roots[k])
    BY <1>5, <1>12 DEF RootsInto
  <2>2. RootIds' = RootIds
    BY <1>1, <1>4, <2>1 DEF RootIds, IdList
  <2>3. IdAt(heap', a) = FreshId
    BY <1>3 DEF IdAt
  <2> QED BY <1>2, <1>4, <2>2, <2>3 DEF NativeId
<1>18. Graph!Becomes(G, RootIds, FreshId)
  <2>1. Live \cup {a} \in SUBSET DOMAIN heap'
    BY <1>3, <1>5
  <2>2. Range(roots') \cup {native'} \subseteq (Live \cup {a}) \cup {Null}
    BY <1>1, <1>2, <1>5
  <2>3. Graph!Becomes(GraphOf(heap', Live \cup {a}), RootIds', NativeId')
    BY <1>1, <1>8, <1>13, <1>14, <2>1, <2>2, Becoming
  <2> QED BY <1>16, <1>17, <2>3
<1>19. n \in 0 .. MaxLength
  BY <1>5, MaxLengthFacts
<1>20. FreshId \in 1 .. HeapSize /\ FreshId \notin DOMAIN Visible
  <2>1. DOMAIN Visible = IdsOf(heap, Live)
    BY <1>5, <1>15, GraphFacts
  <2> QED BY <1>5, <1>6, <2>1 DEF IdsOf, Address
<1>21. Graph!Allocate(r.kind, n)
  BY <1>1, <1>17, <1>18, <1>20
     DEF Graph!Allocate, Graph!Ids, Graph!Nothing, RootIds, NativeId, IdList
<1> HIDE DEF n
<1>22. Graph!Next
  BY <1>2, <1>19, <1>21 DEF Graph!Next
<1>23. NativeId' \notin Identities /\ Identities' = Identities \cup {NativeId'}
  <2>1. IdsOf(heap', DOMAIN heap) = IdsOf(heap, DOMAIN heap)
    BY <1>3 DEF IdsOf
  <2>2. IdsOf(heap', DOMAIN heap') = IdsOf(heap', DOMAIN heap) \cup {heap'[a].id}
    BY <1>3 DEF IdsOf
  <2>3. FreshId \notin IdsOf(heap, DOMAIN heap)
    BY <1>6 DEF IdsOf
  <2> QED BY <1>3, <1>17, <2>1, <2>2, <2>3 DEF Identities
<1>24. GotNewArray
  BY <1>2, <1>19, <1>21, <1>23 DEF GotNewArray
<1> QED BY <1>8, <1>22, <1>24

LEMMA AllocateSeen ==
  ASSUME IInv, SeenInv, IInv', Allocate
  PROVE  SeenInv' /\ Graph!Next /\ GotNewArray
<1>1. /\ phase = "mutator" /\ phase' = "mutator" /\ request' = {} /\ roots' = roots
  BY DEF Allocate, collector
<1>2. PICK r \in request, a \in Address \ DOMAIN heap : PlacedFor(r, a)
  BY AllocateFacts
<1> QED BY <1>1, <1>2, PlacedSeen

LEMMA NothingPlacedSeen ==
  ASSUME SeenInv, phase = "mutator", request # {}, request' = {}, UNCHANGED <<heap, roots, native, phase>>
  PROVE  SeenInv' /\ Graph!Next /\ Graph!Fail
<1>1. /\ phase = "mutator" /\ phase' = "mutator" /\ request # {} /\ request' = {}
      /\ heap' = heap /\ roots' = roots /\ native' = native
  OBVIOUS
<1>2. Seen' = Seen
  BY <1>1 DEF Seen
<1>3. SeenInv'
  BY <1>1, <1>2 DEF SeenInv
<1>4. Visible' = Visible
  BY <1>1, <1>2 DEF Visible
<1>5. Graph!Fail
  BY <1>1, <1>2, <1>4 DEF Graph!Fail
<1> QED BY <1>3, <1>5 DEF Graph!Next

-----------------------------------------------------------------------------
(* The collector on the graph.                                             *)

\* While the program is stopped, what it sees is what it saw.
LEMMA StoppedSeen ==
  ASSUME SeenInv, Seen'.heap = Seen.heap, Seen'.roots = Seen.roots, native' = native,
         request' = request \/ \E r \in request : request' = {[r EXCEPT !.collected = TRUE]},
         \A r \in request : IsRequest(r)
  PROVE  SeenInv' /\ UNCHANGED Graph!vars
<1>1. (request' # {}) = (request # {})
  OBVIOUS
<1>2. \A r \in request' : r.kind = REF => r.length \in RefLengths
  <2>1. CASE request' = request
    BY <2>1 DEF SeenInv
  <2>2. CASE \E r \in request : request' = {[r EXCEPT !.collected = TRUE]}
    <3>1. PICK r \in request : request' = {[r EXCEPT !.collected = TRUE]}
      BY <2>2
    <3>2. PICK k \in Kinds, n \in Length, c \in BOOLEAN :
              r = [kind |-> k, length |-> n, collected |-> c]
      BY DEF IsRequest
    <3>3. [r EXCEPT !.collected = TRUE].kind = r.kind
          /\ [r EXCEPT !.collected = TRUE].length = r.length
      BY <3>2
    <3> QED BY <3>1, <3>3 DEF SeenInv
  <2> QED BY <2>1, <2>2
<1>3. SeenInv'
  BY <1>2 DEF SeenInv
<1>4. Visible' = Visible
  BY DEF Visible
<1> QED BY <1>1, <1>3, <1>4 DEF Graph!vars

LEMMA StepWhileStopped ==
  ASSUME SeenInv, phase # "mutator", phase' # "mutator",
         native' = native, request' = request, stopped' = stopped,
         \A r \in request : IsRequest(r)
  PROVE  SeenInv' /\ UNCHANGED Graph!vars
<1>1. Seen' = Seen
  BY DEF Seen
<1> QED BY <1>1, StoppedSeen

LEMMA StartCollectionSeen ==
  ASSUME IInv, SeenInv, StartCollection
  PROVE  SeenInv' /\ UNCHANGED Graph!vars
<1>1. /\ phase = "mutator" /\ phase' = "mark" /\ native' = native
      /\ stopped' = [heap |-> heap, roots |-> roots]
      /\ \E r \in request : request' = {[r EXCEPT !.collected = TRUE]}
  BY DEF StartCollection
<1>2. Seen' = Seen
  BY <1>1 DEF Seen
<1> QED BY <1>1, <1>2, StoppedSeen DEF IInv, TypeInv

\* When the program resumes, it sees what it saw if some arrays among which are
\* all it could reach are somewhere, with the same identities, kinds and
\* references, and nothing else is.
LEMMA ResumedSeen ==
  ASSUME SeenInv, IInv', phase # "mutator", phase' = "mutator",
         native = Null, native' = Null, request' = request,
         NEW S \in SUBSET DOMAIN stopped.heap, RootsInto(stopped.roots, S),
         \A a \in S : RefersInto(stopped.heap[a], S),
         NEW at, \A y \in DOMAIN heap' : \E a \in S : y = at[a],
         \A a \in S : /\ at[a] \in DOMAIN heap' /\ heap'[at[a]].id = stopped.heap[a].id
                      /\ Node(heap', at[a]) = Node(stopped.heap, a),
         IdList(heap', roots') = IdList(stopped.heap, stopped.roots)
  PROVE  SeenInv' /\ UNCHANGED Graph!vars
<1> DEFINE from == Range(stopped.roots) \cup {Null}
<1>1. Seen = stopped /\ Seen'.heap = heap' /\ Seen'.roots = roots'
  BY DEF Seen
<1>2. /\ IsHeap(stopped.heap) /\ Identified(stopped.heap)
      /\ stopped.roots \in Seq(Refs) /\ RootsInto(stopped.roots, DOMAIN stopped.heap)
  BY <1>1 DEF SeenInv, Linked
<1>3. from \subseteq S \cup {Null}
  BY DEF RootsInto, Range
<1>4. /\ IsHeap(heap') /\ Linked(heap', roots') /\ roots' \in Seq(Refs)
  BY DEF IInv, TypeInv, MutatorInv
<1>5. Identified(heap')
  <2>1. ASSUME NEW y \in DOMAIN heap' PROVE heap'[y].id \in Address
    <3>1. PICK a \in S : y = at[a]
      OBVIOUS
    <3> QED BY <1>2, <3>1 DEF Identified
  <2>2. ASSUME NEW y \in DOMAIN heap', NEW z \in DOMAIN heap', heap'[y].id = heap'[z].id
        PROVE  y = z
    <3>1. PICK a \in S : y = at[a]
      OBVIOUS
    <3>2. PICK b \in S : z = at[b]
      OBVIOUS
    <3>3. stopped.heap[a].id = stopped.heap[b].id
      BY <2>2, <3>1, <3>2
    <3>4. a = b
      BY <1>2, <3>3 DEF Identified
    <3> QED BY <3>1, <3>2, <3>4
  <2> QED BY <2>1, <2>2 DEF Identified
<1>6. SeenInv'
  BY <1>5, SeenInMutator DEF SeenInv
<1>7. GraphOf(stopped.heap, S) = GraphOf(heap', DOMAIN heap')
  <2> DEFINE g == GraphOf(stopped.heap, S)
  <2>1. IdsOf(stopped.heap, S) = IdsOf(heap', DOMAIN heap')
    <3>1. ASSUME NEW y \in DOMAIN heap' PROVE heap'[y].id \in IdsOf(stopped.heap, S)
      <4>1. PICK a \in S : y = at[a]
        OBVIOUS
      <4> QED BY <4>1 DEF IdsOf
    <3>2. ASSUME NEW a \in S PROVE stopped.heap[a].id \in IdsOf(heap', DOMAIN heap')
      BY DEF IdsOf
    <3> QED BY <3>1, <3>2 DEF IdsOf
  <2>2. DOMAIN g = IdsOf(heap', DOMAIN heap') /\ g = [id \in DOMAIN g |-> g[id]]
    BY <2>1 DEF GraphOf
  <2>3. ASSUME NEW y \in DOMAIN heap' PROVE g[heap'[y].id] = Node(heap', y)
    <3>1. PICK a \in S : y = at[a]
      OBVIOUS
    <3>2. g[stopped.heap[a].id] = Node(stopped.heap, a)
      BY <1>2, GraphFacts
    <3> QED BY <3>1, <3>2
  <2> HIDE DEF g
  <2>4. g = GraphOf(heap', DOMAIN heap')
    BY <1>5, <2>2, <2>3, GraphEqual
  <2> QED BY <2>4 DEF g
<1> DEFINE g == GraphOf(stopped.heap, S)
<1>8. RootIds' = RootIds /\ NativeId' = NativeId
  <2>1. RootIds' = RootIds
    BY <1>1 DEF RootIds
  <2>2. NativeId' = NativeId
    BY <1>1, <1>2, <1>4, <1>5, IdFacts DEF NativeId
  <2> QED BY <2>1, <2>2
<1>9. Visible = Restrict(g, Graph!Reachable(g, Range(RootIds) \cup {NativeId}))
  <2>1. Visible = GraphOf(stopped.heap, Reachable(stopped.heap, from))
    BY <1>1, VisibleIsGraph DEF Live
  <2>2. Range(RootIds) = IdsAt(stopped.heap, Range(stopped.roots)) /\ NativeId = IdAt(stopped.heap, Null)
    BY <1>1, <1>2, IdListFacts DEF RootIds, NativeId
  <2>3. Range(RootIds) \cup {NativeId} = IdsAt(stopped.heap, from)
    BY <2>2 DEF IdsAt
  <2>4. Restrict(g, Graph!Reachable(g, IdsAt(stopped.heap, from)))
            = GraphOf(stopped.heap, Reachable(stopped.heap, from))
    BY <1>2, <1>3, GraphRestricted
  <2> QED BY <2>1, <2>3, <2>4
<1>10. Visible' = Restrict(g, Graph!Reachable(g, Range(RootIds) \cup {NativeId}))
  <2>1. \A a \in DOMAIN heap' : RefersInto(heap'[a], DOMAIN heap')
    BY <1>4 DEF Linked
  <2>2. Range(roots') \cup {native'} \subseteq DOMAIN heap' \cup {Null}
    BY <1>4 DEF Linked, RootsInto, Range
  <2>3. Graph!Becomes(GraphOf(heap', DOMAIN heap'), RootIds', NativeId')
    BY <1>6, <2>1, <2>2, Becoming
  <2>4. PICK ids : ids = RootIds
    OBVIOUS
  <2>5. Graph!Becomes(g, RootIds, NativeId)
    BY <1>7, <1>8, <2>3
  <2> QED BY <2>5, SameOperators DEF Graph!Becomes
<1>11. Visible' = Visible
  BY <1>9, <1>10
<1> QED BY <1>6, <1>8, <1>11 DEF Graph!vars, RootIds, NativeId, IdList

\* A sweep leaves the arrays that can be reached where they are.
LEMMA SweepSeen ==
  ASSUME IInv, SeenInv, IInv', Sweep
  PROVE  SeenInv' /\ UNCHANGED Graph!vars
<1>1. /\ phase = "mark" /\ grey = {} /\ heap' = Restrict(heap, marked)
      /\ roots' = roots /\ native' = native /\ request' = request
      /\ Compacting => phase' = "compact" /\ stopped' = stopped
      /\ ~Compacting => phase' = "mutator"
  BY DEF Sweep, Compacts, CompactionPrevented
<1>2. MarkInv /\ IsHeap(heap) /\ stopped.heap = heap /\ stopped.roots = roots
  BY <1>1 DEF IInv, TypeInv, MarkInv
<1>3. marked = Reachable(heap, Range(roots)) /\ marked \in SUBSET DOMAIN heap
  BY <1>1, MarkedAll, ReachableFacts
<1>4. DOMAIN heap' = marked /\ \A a \in marked : heap'[a] = heap[a]
  BY <1>1, <1>2, <1>3, RestrictedHeap
<1>6. RootsInto(roots, marked) /\ \A a \in marked : RefersInto(heap[a], marked)
  BY <1>1, <1>2 DEF MarkInv
<1>7. CASE Compacting
  BY <1>1, <1>7, StepWhileStopped DEF IInv, TypeInv
<1>8. CASE ~Compacting
  <2>1. Null \notin DOMAIN heap
    BY <1>2, AddressFacts DEF IsHeap
  <2>2. \A ref \in marked \cup {Null} : IdAt(heap', ref) = IdAt(heap, ref)
    BY <1>3, <1>4, <2>1 DEF IdAt
  <2>3. ASSUME NEW a \in marked PROVE Node(heap', a) = Node(heap, a)
    <3>1. \A i \in DOMAIN heap[a].slots :
              IdAt(heap', heap[a].slots[i]) = IdAt(heap, heap[a].slots[i])
      BY <1>6, <2>2 DEF RefersInto
    <3> QED BY <1>4, <3>1 DEF Node
  <2>4. IdList(heap', roots') = IdList(stopped.heap, stopped.roots)
    BY <1>1, <1>2, <1>6, <2>2 DEF IdList, RootsInto
  <2> DEFINE at == [a \in marked |-> a]
  <2>5. \A a \in marked : at[a] = a
    OBVIOUS
  <2> HIDE DEF at
  <2>6. \A y \in DOMAIN heap' : \E a \in marked : y = at[a]
    BY <1>4, <2>5
  <2>7. \A a \in marked : /\ at[a] \in DOMAIN heap' /\ heap'[at[a]].id = stopped.heap[a].id
                          /\ Node(heap', at[a]) = Node(stopped.heap, a)
    BY <1>2, <1>4, <2>3, <2>5
  <2>8. /\ marked \in SUBSET DOMAIN stopped.heap /\ RootsInto(stopped.roots, marked)
        /\ \A a \in marked : RefersInto(stopped.heap[a], marked)
    BY <1>2, <1>3, <1>6
  <2>9. native = Null
    BY <1>1 DEF IInv, RequestInv
  <2> QED BY <1>1, <1>8, <2>4, <2>6, <2>7, <2>8, <2>9, ResumedSeen
<1> QED BY <1>7, <1>8

\* After a compaction an array has the identity, the kind and the references it
\* had, at the address it was moved to.
LEMMA FinishCompactionSeen ==
  ASSUME IInv, SeenInv, IInv', FinishCompaction
  PROVE  SeenInv' /\ UNCHANGED Graph!vars
<1>1. /\ phase = "fixup" /\ unfixed = {} /\ phase' = "mutator" /\ heap' = heap
      /\ roots' = FixedRoots /\ native' = native /\ request' = request
  BY DEF FinishCompaction
<1>2. /\ stopped.roots = roots /\ IsHeap(stopped.heap) /\ IsHeap(heap)
      /\ RootsInto(roots, DOMAIN forward)
  <2>1. IsHeap(heap) /\ SurvivorsInv /\ unmoved = {}
    BY <1>1 DEF IInv, TypeInv, FixupInv
  <2>2. Survivors = DOMAIN forward
    BY <2>1 DEF Survivors
  <2> QED BY <2>1, <2>2 DEF SurvivorsInv
<1>3. /\ DOMAIN heap = Range(forward) /\ DOMAIN heap = Reachable(heap, Range(FixedRoots))
      /\ DOMAIN forward = Reachable(stopped.heap, Range(roots))
      /\ DOMAIN forward \subseteq DOMAIN stopped.heap
  BY <1>1, ForwardFacts, ReachableMoved
<1>4. ASSUME NEW a \in DOMAIN forward
      PROVE  /\ forward[a] \in DOMAIN heap
             /\ heap[forward[a]].id = stopped.heap[a].id
             /\ heap[forward[a]].word = stopped.heap[a].word
             /\ heap[forward[a]].slots = [i \in DOMAIN stopped.heap[a].slots |->
                                              Forwarded(stopped.heap[a].slots[i])]
  <2>1. heap[forward[a]] = FixedUp(stopped.heap[a]) /\ forward[a] \in Range(forward)
    BY <1>1, ReachableMoved DEF Range
  <2>2. FixedUp(stopped.heap[a]).word = stopped.heap[a].word
    <3>1. IsArray(stopped.heap[a])
      BY <1>1, ForwardFacts
    <3> QED BY <3>1 DEF FixedUp, IsArray
  <2> QED BY <1>1, <1>3, <2>1, <2>2, FixedUpFacts
<1>5. \A ref \in DOMAIN forward \cup {Null} : IdAt(heap, Forwarded(ref)) = IdAt(stopped.heap, ref)
  <2>1. Null \notin DOMAIN heap /\ Null \notin DOMAIN stopped.heap
    BY <1>2, AddressFacts DEF IsHeap
  <2>2. \A a \in DOMAIN forward : Forwarded(a) = forward[a]
    BY <1>1, ForwardFacts
  <2>3. \A a \in DOMAIN forward : IdAt(heap, forward[a]) = IdAt(stopped.heap, a)
    BY <1>3, <1>4 DEF IdAt
  <2>4. IdAt(heap, Forwarded(Null)) = IdAt(stopped.heap, Null)
    BY <2>1 DEF IdAt, Forwarded
  <2> QED BY <2>2, <2>3, <2>4
<1>6. ASSUME NEW a \in DOMAIN forward
      PROVE  Node(heap, forward[a]) = Node(stopped.heap, a)
  <2> DEFINE old == stopped.heap[a].slots
             new == heap[forward[a]].slots
  <2>1. RefersInto(stopped.heap[a], DOMAIN forward)
    BY <1>1, ForwardFacts
  <2>2. DOMAIN new = DOMAIN old /\ \A i \in DOMAIN old : new[i] = Forwarded(old[i])
    BY <1>4
  <2>3. \A i \in DOMAIN old : IdAt(heap, new[i]) = IdAt(stopped.heap, old[i])
    BY <1>5, <2>1, <2>2 DEF RefersInto
  <2> QED BY <1>4, <2>2, <2>3 DEF Node
<1>7. IdList(heap', roots') = IdList(stopped.heap, stopped.roots)
  <2>1. DOMAIN FixedRoots = DOMAIN roots
        /\ \A r \in DOMAIN roots : IdAt(heap, FixedRoots[r]) = IdAt(stopped.heap, roots[r])
    BY <1>2, <1>5 DEF RootsInto, FixedRoots
  <2> QED BY <1>1, <1>2, <2>1 DEF IdList
<1>8. \A y \in DOMAIN heap' : \E a \in DOMAIN forward : y = forward[a]
  BY <1>1, <1>3 DEF Range
<1>9. \A a \in DOMAIN forward :
          /\ forward[a] \in DOMAIN heap' /\ heap'[forward[a]].id = stopped.heap[a].id
          /\ Node(heap', forward[a]) = Node(stopped.heap, a)
  BY <1>1, <1>4, <1>6
<1>10. /\ DOMAIN forward \in SUBSET DOMAIN stopped.heap /\ RootsInto(stopped.roots, DOMAIN forward)
       /\ \A a \in DOMAIN forward : RefersInto(stopped.heap[a], DOMAIN forward)
  BY <1>1, <1>2, <1>3, ForwardFacts
<1>11. native = Null
  BY <1>1 DEF IInv, RequestInv
<1> QED BY <1>1, <1>7, <1>8, <1>9, <1>10, <1>11, ResumedSeen

-----------------------------------------------------------------------------
(* The refinement.                                                         *)

LEMMA InitiallySeen == Init => SeenInv /\ Graph!Init
<1> SUFFICES ASSUME Init PROVE SeenInv /\ Graph!Init
  OBVIOUS
<1>1. /\ Seen.heap = <<>> /\ Seen.roots = <<>> /\ native = Null /\ request = {}
      /\ IInv /\ phase = "mutator"
  BY Initially DEF Init, Seen
<1>2. heap = <<>> /\ DOMAIN heap = {}
  BY DEF Init
<1>3. SeenInv
  BY <1>1, <1>2 DEF SeenInv, IInv, TypeInv, MutatorInv, Identified, Init
<1>4. Live = {}
  BY <1>1, <1>3, LiveFacts, <1>2
<1>5. Visible = <<>>
  <2>1. DOMAIN Visible = {} /\ Visible = [id \in DOMAIN Visible |-> Visible[id]]
    BY <1>4, VisibleIsGraph DEF GraphOf, IdsOf
  <2> QED BY <2>1
<1>6. RootIds = <<>> /\ NativeId = 0
  BY <1>1, <1>2, <1>3, IdFacts DEF RootIds, NativeId, IdList, Null, IdAt
<1> QED BY <1>1, <1>3, <1>5, <1>6 DEF Graph!Init, Graph!Nothing, RootIds, NativeId, IdList

LEMMA ProgramSeen ==
  ASSUME IInv, SeenInv, IInv', Program
  PROVE  SeenInv' /\ Graph!Next
<1>1. REF # BIN
  BY DEF REF, BIN
<1>2. ASSUME NEW length \in RefLengths, Request(REF, length) PROVE SeenInv' /\ Graph!Next
  BY <1>2, RequestSeen
<1>3. ASSUME NEW length \in BinLengths, Request(BIN, length) PROVE SeenInv' /\ Graph!Next
  BY <1>1, <1>3, RequestSeen
<1>4. ASSUME NEW ref \in {Null, native}, PushRoot(ref) PROVE SeenInv' /\ Graph!Next
  BY <1>4, PushRootSeen
<1>5. ASSUME PopRoot PROVE SeenInv' /\ Graph!Next
  BY <1>5, PopRootSeen
<1>6. ASSUME NEW r \in DOMAIN roots, AssignRoot(r) \/ GetRoot(r) PROVE SeenInv' /\ Graph!Next
  BY <1>6, AssignRootSeen, GetRootSeen
<1>7. ASSUME NEW r \in DOMAIN roots, NEW i \in UsedSlots, Store(r, i) \/ Load(r, i)
      PROVE  SeenInv' /\ Graph!Next
  <2>1. i \in 1 .. MaxLength
    BY HeapAssumption
  <2> QED BY <1>7, <2>1, StoreSeen, LoadSeen
<1> HIDE DEF SeenInv
<1> QED BY <1>2, <1>3, <1>4, <1>5, <1>6, <1>7 DEF Program

LEMMA CollectSeen ==
  ASSUME IInv, SeenInv, IInv', Collect
  PROVE  SeenInv' /\ UNCHANGED Graph!vars
<1>1. CASE StartCollection
  BY <1>1, StartCollectionSeen
<1>2. CASE Mark \/ Slide \/ StartFixup \/ FixSlots
  <2>1. /\ phase # "mutator" /\ phase' # "mutator"
        /\ native' = native /\ request' = request /\ stopped' = stopped
    BY <1>2 DEF Mark, Slide, StartFixup, FixSlots, mutator
  <2> QED BY <2>1, StepWhileStopped DEF IInv, TypeInv
<1>3. CASE Sweep
  BY <1>3, SweepSeen
<1>4. CASE FinishCompaction
  BY <1>4, FinishCompactionSeen
<1> QED BY <1>1, <1>2, <1>3, <1>4 DEF Collect

LEMMA NextSeen ==
  IInv /\ SeenInv /\ IInv' /\ [Next]_vars => SeenInv' /\ [Graph!Next]_(Graph!vars)
<1> SUFFICES ASSUME IInv, SeenInv, IInv', [Next]_vars
             PROVE  SeenInv' /\ (Graph!Next \/ UNCHANGED Graph!vars)
  OBVIOUS
<1>1. CASE Program
  BY <1>1, ProgramSeen
<1>2. CASE Allocate
  BY <1>2, AllocateSeen
<1>3. CASE AllocationFails
  BY <1>3, NothingPlacedSeen DEF AllocationFails, collector
<1>4. CASE Collect
  BY <1>4, CollectSeen
<1>5. CASE UNCHANGED vars
  <2>1. Seen' = Seen /\ native' = native /\ request' = request
    BY <1>5 DEF vars, Seen
  <2> QED BY <2>1, StoppedSeen DEF IInv, TypeInv
<1> QED BY <1>1, <1>2, <1>3, <1>4, <1>5 DEF Next

\* The program cannot tell that there is a collector: what it does to a heap
\* that is swept and compacted it does to a graph in which nothing moves and
\* nothing it can reach is ever taken from it.
THEOREM Refinement == Spec => CollectorIsInvisible
<1>1. Init => IInv /\ SeenInv /\ Graph!Init
  BY Initially, InitiallySeen
<1>2. IInv /\ SeenInv /\ IInv' /\ [Next]_vars => SeenInv' /\ [Graph!Next]_(Graph!vars)
  BY NextSeen
<1> QED BY <1>1, <1>2, Invariance, PTL DEF CollectorIsInvisible, Graph!Spec, Spec
=============================================================================
