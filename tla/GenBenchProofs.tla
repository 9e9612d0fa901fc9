---------------------------- MODULE GenBenchProofs ----------------------------
(***************************************************************************)
(* Theorems about the two benchmarks beside the generational heap, within  *)
(* ScavengeAssumption: a scavenge shows gc_bench no more of itself than    *)
(* a global collection does, so the table is that of BenchProofs.          *)
(***************************************************************************)
EXTENDS GenBench, BenchProofs, ScavengeProofs

-----------------------------------------------------------------------------
(* malloc_bench.                                                           *)

LEMMA StoreChildBarrieredKeepsBlocks ==
  ASSUME BlocksInv, StoreChildBarriered PROVE BlocksInv'
<1>1. /\ bench = "gc" /\ UNCHANGED <<cells, blocks, run>> /\ i' = i + 1
      /\ run \in Nat /\ i \in Nat
  BY DEF StoreChildBarriered, BlocksInv
<1> QED BY <1>1, GcKeepsBlocks

LEMMA GenBenchKeepsBlocks == BlocksInv /\ [GenBenchNext]_<<all, generational>> => BlocksInv'
<1> SUFFICES ASSUME BlocksInv, [GenBenchNext]_<<all, generational>> PROVE BlocksInv'
  OBVIOUS
<1>1. CASE GenGcBench
  BY <1>1, GcStepsKeepBlocks, StoreChildBarrieredKeepsBlocks DEF GenGcBench
<1>2. CASE UNCHANGED all
  BY <1>2, QuietKeepsBlocks DEF all, bvars
<1> QED BY <1>1, <1>2, MallocKeepsBlocks DEF GenBenchNext, Done

\* malloc_bench frees each child that it replaces, once and no other, beside the
\* generational heap, too.
THEOREM MallocFreesBesideGenerational == GenBenchSpec => []LiveBlocksAreInTable
BY BlocksInitially, GenBenchKeepsBlocks, BlocksAreInTable, PTL DEF GenBenchSpec, GenBenchInit

-----------------------------------------------------------------------------
(* What gc_bench sees of memory.                                           *)

LEMMA LiveInGenMemory == GenInv /\ SeenInv => InMemory
<1> SUFFICES ASSUME GenInv, SeenInv PROVE InMemory
  OBVIOUS
<1>1. CASE phase \in {"mutator", "mark"}
  BY <1>1, LiveInMemory DEF GenInv
<1>2. CASE phase \in {"scavenge", "backout"}
  <2>1. StoppedInv /\ CopyInv /\ Seen.heap = Before
    BY <1>2 DEF GenInv, Seen, Before
  <2>2. /\ DOMAIN heap = DOMAIN Before \cup Range(forward)
        /\ \A a \in DOMAIN Before \ remembered :
             IF a \in DOMAIN forward THEN heap[a] = [Before[a] EXCEPT !.word = FORWARDED]
                                     ELSE SameButAge(heap[a], Before[a])
        /\ \A a \in remembered : heap[a].id = Before[a].id
        /\ \A a \in DOMAIN forward : heap[forward[a]].id = Before[a].id
        /\ DOMAIN forward \subseteq DOMAIN Before
    BY <2>1 DEF CopyInv, Copies, SameButSlots
  <2>3. ASSUME NEW a \in DOMAIN Before PROVE heap[a].id = Before[a].id
    <3>1. IsArray(Before[a])
      BY <2>1 DEF StoppedInv, IsHeap
    <3>2. [Before[a] EXCEPT !.word = FORWARDED].id = Before[a].id
      BY <3>1 DEF IsArray
    <3> QED BY <2>2, <3>2 DEF SameButAge
  <2>4. Live \subseteq DOMAIN Before
    BY <2>1, LiveFacts
  <2>5. Identities \subseteq IdsOf(Before, DOMAIN Before)
    <3> SUFFICES ASSUME NEW x \in DOMAIN heap PROVE \E a \in DOMAIN Before : heap[x].id = Before[a].id
      BY DEF Identities, IdsOf
    <3> QED BY <2>2, <2>3 DEF Range
  <2>6. IdsOf(Before, Live) \subseteq Identities
    <3> SUFFICES ASSUME NEW a \in Live PROVE \E x \in DOMAIN heap : heap[x].id = Before[a].id
      BY DEF Identities, IdsOf
    <3> QED BY <2>2, <2>3, <2>4
  <2> QED BY <2>1, <2>5, <2>6 DEF InMemory
<1> QED BY <1>1, <1>2 DEF GenInv

-----------------------------------------------------------------------------
(* The table.                                                              *)

LEMMA GenGraphIsSeen == GenInv /\ SeenInv => GraphInv
BY LiveInGenMemory, GraphSeen

LEMMA GenGraphIsSeenAfter == GenInv' /\ SeenInv' => GraphInv'
<1>1. (GenInv /\ SeenInv => GraphInv)'
  BY GenGraphIsSeen, PTL
<1> QED BY <1>1

LEMMA GenGcStepTable ==
  ASSUME GenInv, SeenInv, BlocksInv, TableInv, UNCHANGED generational,
         EnterGc \/ AllocateRoot \/ AssignTheRoot \/ AllocateChild \/ ReturnFromGc
  PROVE  GenInv' /\ SeenInv' /\ TableInv' /\ TableStep
<1>1. GraphInv
  BY GenGraphIsSeen
<1>2. IInv
  BY <1>1, GcStepIsProgram DEF GenInv
<1>3. GenInv'
  <2>1. GenProgram
    BY <1>1, GcStepIsProgram DEF GenProgram
  <2> QED BY <2>1, GenProgramKeeps
<1> QED BY <1>2, <1>3, GcStepTable

LEMMA StoreBarrieredTable ==
  ASSUME GenInv, SeenInv, BlocksInv, TableInv, StoreChildBarriered
  PROVE  GenInv' /\ SeenInv' /\ TableInv' /\ TableStep
<1>1. /\ bench = "gc" /\ pc = "child" /\ StoreBarriered(1, index(i) + 1) /\ InMutator
      /\ i' = i + 1 /\ pc' = "loop" /\ UNCHANGED <<bench, made>>
  BY DEF StoreChildBarriered, StoreBarriered
<1>2. GraphInv
  BY GenGraphIsSeen
<1>3. 1 \in DOMAIN roots /\ index(i) + 1 \in 1 .. MaxLength
  BY <1>1, <1>2, RootIsThere, SizeFacts DEF BlocksInv
<1>4. GenInv'
  BY <1>1, <1>3, StoreBarrieredKeeps
<1>5. SeenInv' /\ Graph!Store(1, index(i) + 1)
  BY <1>1, <1>3, <1>4, StoreBarrieredSeen
<1>6. GraphInv'
  BY <1>4, <1>5, GenGraphIsSeenAfter
<1>7. Identities' = Identities
  <2>1. /\ DOMAIN heap' = DOMAIN heap
        /\ \A x \in DOMAIN heap \ {roots[1]} : heap'[x] = heap[x]
        /\ heap'[roots[1]].id = heap[roots[1]].id
    BY <1>1, <1>3, StoreBarrieredFacts
  <2>2. \A x \in DOMAIN heap : heap'[x].id = heap[x].id
    BY <2>1
  <2> QED BY <2>1, <2>2 DEF Identities, IdsOf
<1> QED BY <1>1, <1>2, <1>4, <1>5, <1>6, <1>7, StoreTable

LEMMA GenInsideTable ==
  ASSUME GenInv, SeenInv, TableInv, GenInside, NoteMade
  PROVE  GenInv' /\ SeenInv' /\ TableInv' /\ TableStep
<1>1. GraphInv
  BY GenGraphIsSeen
<1>2. GenInv'
  BY GenNextKeeps DEF GenNext
<1>3. CASE GenAllocate
  <2>1. SeenInv' /\ GotNewArray
    BY <1>2, <1>3, GenAllocateSeen
  <2>2. GraphInv'
    BY <1>2, <2>1, GenGraphIsSeenAfter
  <2> QED BY <1>1, <1>2, <2>1, <2>2, GotNewTable, NotedBesides
<1>4. CASE GenAllocationFails
  <2>1. phase = "mutator" /\ request # {} /\ heap' = heap
    BY <1>4 DEF GenAllocationFails
  <2>2. SeenInv' /\ Graph!Fail
    BY <1>4, GenAllocationFailsSeen
  <2>3. GraphInv'
    BY <1>2, <2>2, GenGraphIsSeenAfter
  <2>4. NativeId = 0
    <3>1. native = Null
      BY <2>1 DEF GenInv, IInv, RequestInv
    <3> QED BY <3>1, IdFacts DEF SeenInv, NativeId
  <2>5. Identities' = Identities
    BY <2>1 DEF Identities, IdsOf
  <2> QED BY <1>1, <1>2, <2>2, <2>3, <2>4, <2>5, FailedTable, NotedBesides
<1>5. CASE GenCollect
  <2>1. SeenInv' /\ UNCHANGED Graph!vars
    BY <1>2, <1>5, GenCollectSeen
  <2>2. GraphInv'
    BY <1>2, <2>1, GenGraphIsSeenAfter
  <2> QED BY <1>1, <1>2, <2>1, <2>2, UnseenTable, NotedBesides
<1> QED BY <1>3, <1>4, <1>5 DEF GenInside

LEMMA GenTableInitially == GenBenchInit => GenInv /\ SeenInv /\ TableInv /\ Table!Begin
BY GenInitially, TableInitially DEF GenBenchInit

LEMMA GenBenchKeepsTable ==
  GenInv /\ SeenInv /\ BlocksInv /\ TableInv /\ [GenBenchNext]_<<all, generational>>
    => GenInv' /\ SeenInv' /\ TableInv' /\ [Table!Next]_<<SeenTable, i>>
<1> SUFFICES ASSUME GenInv, SeenInv, BlocksInv, TableInv, [GenBenchNext]_<<all, generational>>
             PROVE  GenInv' /\ SeenInv' /\ TableInv' /\ TableStep
  BY DEF TableStep
<1>1. CASE /\ EnterGc \/ AllocateRoot \/ AssignTheRoot \/ AllocateChild \/ ReturnFromGc
           /\ UNCHANGED generational
  BY <1>1, GenGcStepTable
<1>2. CASE StoreChildBarriered
  BY <1>2, StoreBarrieredTable
<1>3. CASE GenInside /\ NoteMade
  BY <1>3, GenInsideTable
<1>4. ASSUME UNCHANGED <<vars, generational>> PROVE GenInv' /\ SeenInv'
  <2>1. [GenNext]_everything
    BY <1>4 DEF everything
  <2>2. GenInv'
    BY <2>1, GenNextKeeps
  <2> QED BY <2>1, <2>2, GenNextSeen
<1>5. CASE MallocBench /\ UNCHANGED generational
  <2>1. UNCHANGED vars
    BY <1>5 DEF MallocBench, EnterMalloc, IterateMalloc, DereferenceNull, ReturnFromMalloc
  <2>2. GenInv' /\ SeenInv'
    BY <1>4, <1>5, <2>1
  <2> QED BY <1>5, <2>2, MallocTableStep
<1>6. CASE UNCHANGED <<all, generational>>
  <2>1. UNCHANGED all /\ UNCHANGED <<vars, generational>>
    BY <1>6 DEF all
  <2> QED BY <1>4, <2>1, NoStepTable
<1>7. \/ /\ EnterGc \/ AllocateRoot \/ AssignTheRoot \/ AllocateChild \/ ReturnFromGc
         /\ UNCHANGED generational
      \/ StoreChildBarriered
      \/ GenInside /\ NoteMade
      \/ MallocBench /\ UNCHANGED generational
      \/ UNCHANGED <<all, generational>>
  BY DEF GenBenchNext, GenGcBench, Done
<1> QED BY <1>1, <1>2, <1>3, <1>5, <1>6, <1>7

\* The children that gc_bench stores through the barrier are those that
\* malloc_bench stores, whether scavenges copy, tenure or are given up.
THEOREM GenerationalFillsTheSameTable == GenBenchSpec => SameTable
BY GenTableInitially, BlocksInitially, GenBenchKeepsTable, GenBenchKeepsBlocks, PTL
   DEF GenBenchSpec, GenBenchInit, SameTable, Table!Spec
=============================================================================
