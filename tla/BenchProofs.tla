----------------------------- MODULE BenchProofs -----------------------------
(***************************************************************************)
(* Theorems about the two benchmarks, for any number of runs, iterations   *)
(* and slots, children of any size and heaps of any size.                  *)
(*                                                                         *)
(* malloc_bench: its invariant says what the table and the allocator's     *)
(* blocks have in common, and that the blocks of a run are numbered by the *)
(* steps it has made.                                                      *)
(*                                                                         *)
(* gc_bench: it is a program of the GcHeap, and what it sees of it is a    *)
(* graph (ManagedGraph) in which nothing moves or is freed.  Its table is  *)
(* the node that its one StackRoot holds.                                  *)
(*                                                                         *)
(* How much memory it needs follows from what its heap looks like: tables  *)
(* refer to children, which refer to nothing, so what a collection keeps   *)
(* is at most a table and the children in it.                              *)
(***************************************************************************)
EXTENDS Bench, GcHeapProofs

-----------------------------------------------------------------------------
(* The constants.                                                          *)

LEMMA SizeFacts ==
  /\ ROOT_SIZE \in Nat \ {0} /\ ROOT_SIZE \in 0 .. MaxLength
  /\ \A n \in Nat : index(n) \in Slots /\ index(n) + 1 \in 1 .. MaxLength
  /\ \A n \in Nat : childSize(n) \in BinLengths
<1>1. ROOT_SIZE \in Nat \ {0} /\ ROOT_SIZE \in 0 .. MaxLength /\ MaxLength \in Nat
  BY BenchAssumption, HeapAssumption, LayoutAssumption, MaxLengthFacts DEF Length
<1>2. ASSUME NEW n \in Nat PROVE index(n) \in Slots
  <2>1. PICK m \in Nat : m = n * SLOT_STRIDE
    BY BenchAssumption
  <2>2. m % ROOT_SIZE \in 0 .. ROOT_SIZE - 1
    BY <1>1
  <2> QED BY <2>1, <2>2 DEF index, Slots
<1>3. ASSUME NEW n \in Nat PROVE childSize(n) \in BinLengths
  <2>1. n % MAX_CHILD_SIZE \in 0 .. MAX_CHILD_SIZE - 1
    BY BenchAssumption
  <2> QED BY <2>1, BenchAssumption DEF childSize
<1>4. \A k \in Slots : k + 1 \in 1 .. MaxLength
  BY <1>1 DEF Slots
<1> QED BY <1>1, <1>2, <1>3, <1>4

-----------------------------------------------------------------------------
(* malloc_bench.                                                           *)

NoCells == [k \in Slots |-> NoBlock]

IsBlock(b) == \E r \in Nat, n \in Nat : b = <<r, n>>

BlocksOf(r) == {b \in blocks : b[1] = r}

\* What LiveBlocksAreInTable says, of the table of the run.
InTable ==
    /\ BlocksOf(run) = Range(cells) \ {NoBlock}
    /\ \A k, l \in Slots : k # l /\ cells[k] = cells[l] => cells[k] = NoBlock

\* A run has no more blocks than there are entries.
TablesFull ==
    \A r \in 0 .. run : IsFiniteSet(BlocksOf(r)) /\ Cardinality(BlocksOf(r)) <= ROOT_SIZE

\* The blocks of a run are named by the steps it has made.
Numbered == \A b \in blocks : IsBlock(b) /\ b[1] <= run /\ (b[1] = run => b[2] < i)

BlocksInv ==
    /\ run \in Nat /\ i \in Nat
    /\ cells = [k \in Slots |-> cells[k]]
    /\ bench = "gc" => blocks = {}
    /\ bench = "gc" \/ pc = "enter" => cells = NoCells
    /\ ~Ended => InTable /\ TablesFull /\ Numbered

LEMMA BlockFacts ==
  /\ ~IsBlock(NoBlock)
  /\ \A r, n \in Nat : /\ IsBlock(<<r, n>>) /\ <<r, n>> # NoBlock
                       /\ <<r, n>>[1] = r /\ <<r, n>>[2] = n
<1>1. \A r, n \in Nat : <<r, n>> # <<>>
  OBVIOUS
<1> QED BY <1>1 DEF IsBlock, NoBlock

\* An empty table, and no block of the run.
LEMMA EmptyTable ==
  ASSUME cells = NoCells, BlocksOf(run) = {}
  PROVE  InTable
BY DEF InTable, NoCells, Range

LEMMA BlocksInitially == BenchInit => BlocksInv
<1> SUFFICES ASSUME BenchInit PROVE BlocksInv
  OBVIOUS
<1>1. /\ run = 0 /\ i = 0 /\ cells = NoCells /\ blocks = {}
      /\ bench = "gc" /\ pc = "enter"
  BY DEF BenchInit, NoCells
<1>2. \A r : BlocksOf(r) = {}
  BY <1>1 DEF BlocksOf
<1>3. InTable
  BY <1>1, <1>2, EmptyTable
<1>4. TablesFull
  BY <1>1, <1>2, SizeFacts, FS_EmptySet DEF TablesFull
<1>5. Numbered
  BY <1>1 DEF Numbered
<1>6. cells = [k \in Slots |-> cells[k]]
  BY <1>1 DEF NoCells
<1> QED BY <1>1, <1>3, <1>4, <1>5, <1>6 DEF BlocksInv

\* gc_bench leaves malloc's blocks alone.
LEMMA GcKeepsBlocks ==
  ASSUME BlocksInv, bench = "gc", UNCHANGED <<cells, blocks>>, i' \in Nat, run' \in Nat
  PROVE  BlocksInv'
<1>1. blocks' = {} /\ cells' = NoCells /\ cells' = [k \in Slots |-> cells'[k]]
  BY DEF BlocksInv
<1>2. \A r : BlocksOf(r)' = {}
  BY <1>1 DEF BlocksOf
<1>3. InTable'
  BY <1>1, <1>2 DEF InTable, NoCells, Range
<1>4. TablesFull'
  BY <1>1, <1>2, SizeFacts, FS_EmptySet DEF TablesFull
<1>5. Numbered'
  BY <1>1 DEF Numbered
<1>6. NoCells' = NoCells
  BY DEF NoCells
<1> QED BY <1>1, <1>3, <1>4, <1>5, <1>6 DEF BlocksInv

LEMMA QuietKeepsBlocks ==
  ASSUME BlocksInv, UNCHANGED <<bench, run, i, cells, blocks>>, pc' = pc
  PROVE  BlocksInv'
BY DEF BlocksInv, InTable, TablesFull, Numbered, BlocksOf, Ended

LEMMA EnterMallocKeepsBlocks == ASSUME BlocksInv, EnterMalloc PROVE BlocksInv'
<1>1. /\ UNCHANGED <<bench, run, i, blocks>> /\ cells' = NoCells /\ pc = "enter" /\ pc' # "enter"
      /\ bench = "malloc"
  BY DEF EnterMalloc, NoCells
<1>2. cells' = cells
  BY <1>1 DEF BlocksInv
<1> QED BY <1>1, <1>2 DEF BlocksInv, InTable, TablesFull, Numbered, BlocksOf, Ended

LEMMA CrashKeepsBlocks == ASSUME BlocksInv, DereferenceNull PROVE BlocksInv'
<1>1. bench' = "crashed" /\ bench = "malloc" /\ UNCHANGED <<run, pc, i, cells>>
  BY DEF DereferenceNull
<1>2. NoCells' = NoCells
  BY DEF NoCells
<1> QED BY <1>1, <1>2 DEF BlocksInv, Ended

LEMMA ReturnKeepsBlocks == ASSUME BlocksInv, ReturnFromMalloc PROVE BlocksInv'
<1>1. /\ bench = "malloc" /\ cells' = NoCells /\ blocks' = blocks /\ i' = 0 /\ pc' = "enter"
      /\ run' = run + 1 \/ (run' = 0 /\ bench' = "done")
  BY DEF ReturnFromMalloc, Returned, NoCells
<1>2. run \in Nat /\ TablesFull /\ Numbered
  BY <1>1 DEF BlocksInv, Ended
<1>3. run' \in Nat /\ i' \in Nat
  BY <1>1, <1>2
<1>4. NoCells' = NoCells /\ NoCells = [k \in Slots |-> NoCells[k]] /\ bench' # "gc"
  BY <1>1 DEF NoCells, ReturnFromMalloc, Returned
<1>5. ASSUME run' = run + 1 PROVE InTable' /\ TablesFull' /\ Numbered'
  <2>1. \A r : BlocksOf(r)' = BlocksOf(r)
    BY <1>1 DEF BlocksOf
  <2>2. \A b \in blocks : b[1] \in Nat /\ b[2] \in Nat /\ b[1] <= run
    BY <1>2, BlockFacts DEF Numbered, IsBlock
  <2>3. BlocksOf(run + 1) = {}
    BY <1>2, <2>2 DEF BlocksOf
  <2>4. InTable'
    BY <1>1, <1>5, <2>1, <2>3 DEF InTable, NoCells, Range
  <2>5. TablesFull'
    <3> SUFFICES ASSUME NEW r \in 0 .. run + 1
                 PROVE  IsFiniteSet(BlocksOf(r)) /\ Cardinality(BlocksOf(r)) <= ROOT_SIZE
      BY <1>5, <2>1 DEF TablesFull
    <3>1. CASE r = run + 1
      <4>1. BlocksOf(r) = {}
        BY <2>3, <3>1
      <4>2. IsFiniteSet({}) /\ Cardinality({}) = 0
        BY FS_EmptySet
      <4> QED BY <4>1, <4>2, SizeFacts
    <3>2. CASE r \in 0 .. run
      BY <1>2, <3>2 DEF TablesFull
    <3> QED BY <1>2, <3>1, <3>2
  <2>6. Numbered'
    BY <1>1, <1>2, <1>5, <2>2 DEF Numbered
  <2> QED BY <2>4, <2>5, <2>6
<1> QED BY <1>1, <1>3, <1>4, <1>5 DEF BlocksInv, Ended

LEMMA IterateKeepsBlocks == ASSUME BlocksInv, IterateMalloc PROVE BlocksInv'
<1>1. PICK child \in Malloc :
        /\ cells' = [cells EXCEPT ![index(i)] = child]
        /\ blocks' = (blocks \cup ({child} \ {NoBlock})) \ {cells[index(i)]}
  BY DEF IterateMalloc
<1>2. /\ bench = "malloc" /\ pc = "loop" /\ i' = i + 1 /\ UNCHANGED <<bench, run, pc>>
  BY DEF IterateMalloc
<1>3. /\ run \in Nat /\ i \in Nat /\ cells = [k \in Slots |-> cells[k]]
      /\ InTable /\ TablesFull /\ Numbered
  BY <1>2 DEF BlocksInv, Ended
<1> DEFINE at  == index(i)
           old == cells[at]
<1>4. at \in Slots
  BY <1>3, SizeFacts
<1>5. child = NoBlock \/ child = <<run, i>>
  BY DEF Malloc
<1>6. NoBlock \notin blocks /\ <<run, i>> \notin blocks
  BY <1>3, BlockFacts DEF Numbered
<1>7. old = NoBlock \/ old \in BlocksOf(run)
  BY <1>3, <1>4 DEF InTable, Range
<1>8. /\ DOMAIN cells = Slots /\ DOMAIN cells' = Slots
      /\ cells' = [k \in Slots |-> cells'[k]]
      /\ \A k \in Slots : cells'[k] = IF k = at THEN child ELSE cells[k]
  BY <1>1, <1>3, <1>4
<1>9. blocks' = (blocks \cup ({child} \ {NoBlock})) \ {old}
  BY <1>1
<1> HIDE DEF at, old
<1>10. Range(cells') \ {NoBlock} = ((Range(cells) \ {NoBlock}) \ {old}) \cup ({child} \ {NoBlock})
  <2>1. \A k \in Slots : k # at /\ cells[k] # NoBlock => cells[k] # old
    BY <1>3, <1>4 DEF InTable, at, old
  <2>2. \A b : b \in Range(cells') <=> b = child \/ \E k \in Slots \ {at} : b = cells[k]
    BY <1>4, <1>8 DEF Range
  <2>3. \A b : b \in Range(cells) <=> b = old \/ \E k \in Slots \ {at} : b = cells[k]
    BY <1>4, <1>8 DEF Range, old
  <2> QED BY <2>1, <2>2, <2>3
<1>11. child # old \/ child = NoBlock
  BY <1>5, <1>6, <1>7 DEF BlocksOf
<1>12. \A b \in blocks' : b \in blocks \/ (b = child /\ child = <<run, i>>)
  BY <1>5, <1>9
<1>13. /\ BlocksOf(run)' = (BlocksOf(run) \ {old}) \cup ({child} \ {NoBlock})
       /\ \A r \in Nat \ {run} : BlocksOf(r)' = BlocksOf(r)
  <2>1. child # NoBlock => child[1] = run
    BY <1>3, <1>5, BlockFacts
  <2>2. \A b \in blocks : b = old => b[1] = run
    BY <1>6, <1>7 DEF BlocksOf
  <2> QED BY <1>2, <1>9, <1>11, <2>1, <2>2 DEF BlocksOf
<1>14. InTable'
  <2>1. BlocksOf(run)' = Range(cells') \ {NoBlock}
    BY <1>3, <1>10, <1>13 DEF InTable
  <2>2. ASSUME NEW k \in Slots, NEW l \in Slots, k # l, cells'[k] = cells'[l]
        PROVE  cells'[k] = NoBlock
    <3>1. \A m \in Slots : cells[m] # <<run, i>>
      <4> SUFFICES ASSUME NEW m \in Slots, cells[m] = <<run, i>> PROVE FALSE
        OBVIOUS
      <4>1. cells[m] \in Range(cells)
        BY <1>8 DEF Range
      <4> QED BY <1>3, <1>6, <4>1, BlockFacts DEF InTable, BlocksOf
    <3>2. CASE k = at
      BY <1>5, <1>8, <2>2, <3>1, <3>2
    <3>3. CASE l = at
      BY <1>5, <1>8, <2>2, <3>1, <3>3
    <3>4. CASE k # at /\ l # at
      BY <1>3, <1>8, <2>2, <3>4 DEF InTable
    <3> QED BY <3>2, <3>3, <3>4
  <2> QED BY <1>2, <2>1, <2>2 DEF InTable
<1>15. TablesFull'
  <2>1. IsFiniteSet(Slots) /\ Cardinality(Slots) = ROOT_SIZE
    BY SizeFacts, FS_Interval DEF Slots
  <2>2. IsFiniteSet(Range(cells')) /\ Cardinality(Range(cells')) <= ROOT_SIZE
    <3>1. /\ IsFiniteSet(Range(cells'))
          /\ Cardinality(Range(cells')) <= Cardinality(Slots)
      <4>1. PICK S : S = Slots
        OBVIOUS
      <4>2. PICK table : table = cells'
        OBVIOUS
      <4>3. DOMAIN table = S /\ IsFiniteSet(S)
        BY <1>8, <2>1, <4>1, <4>2
      <4>4. Range(table) = {table[k] : k \in S}
        BY <4>3 DEF Range
      <4>5. table \in Surjection(S, Range(table))
        BY <1>8, <4>1, <4>2, <4>4 DEF Surjection
      <4> QED BY <4>1, <4>2, <4>3, <4>5, FS_Surjection
    <3> QED BY <2>1, <3>1
  <2>3. BlocksOf(run)' \subseteq Range(cells')
    BY <1>2, <1>14 DEF InTable
  <2>4. IsFiniteSet(BlocksOf(run)') /\ Cardinality(BlocksOf(run)') <= ROOT_SIZE
    <3>1. /\ IsFiniteSet(BlocksOf(run)')
          /\ Cardinality(BlocksOf(run)') <= Cardinality(Range(cells'))
      <4>1. PICK B, C : B = BlocksOf(run)' /\ C = Range(cells')
        OBVIOUS
      <4>2. B \in SUBSET C /\ IsFiniteSet(C)
        BY <2>2, <2>3, <4>1
      <4> QED BY <4>1, <4>2, FS_Subset
    <3>2. Cardinality(BlocksOf(run)') \in Nat /\ Cardinality(Range(cells')) \in Nat
      BY <2>2, <3>1, FS_CardinalityType
    <3> QED BY <2>2, <3>1, <3>2, SizeFacts
  <2>5. ASSUME NEW r \in 0 .. run
        PROVE  IsFiniteSet(BlocksOf(r)') /\ Cardinality(BlocksOf(r)') <= ROOT_SIZE
    <3>1. CASE r = run
      <4>1. BlocksOf(r)' = BlocksOf(run)'
        BY <1>2, <3>1 DEF BlocksOf
      <4> QED BY <2>4, <4>1
    <3>2. CASE r # run
      <4>1. r \in Nat \ {run}
        BY <3>2
      <4>2. BlocksOf(r)' = BlocksOf(r)
        BY <1>13, <4>1
      <4> QED BY <1>3, <4>2 DEF TablesFull
    <3> QED BY <3>1, <3>2
  <2> QED BY <1>2, <2>5 DEF TablesFull
<1>16. Numbered'
  <2> SUFFICES ASSUME NEW b \in blocks'
               PROVE  IsBlock(b) /\ b[1] <= run /\ (b[1] = run => b[2] < i + 1)
    BY <1>2 DEF Numbered
  <2>1. CASE b \in blocks
    <3>1. IsBlock(b) /\ b[1] <= run /\ (b[1] = run => b[2] < i)
      BY <1>3, <2>1 DEF Numbered
    <3>2. b[2] \in Nat
      BY <3>1, BlockFacts DEF IsBlock
    <3> QED BY <1>3, <3>1, <3>2
  <2>2. CASE b = <<run, i>>
    BY <1>3, <2>2, BlockFacts
  <2> QED BY <1>12, <2>1, <2>2
<1>17. i' \in Nat
  BY <1>2, <1>3
<1> QED BY <1>2, <1>3, <1>8, <1>14, <1>15, <1>16, <1>17 DEF BlocksInv

LEMMA MallocKeepsBlocks == ASSUME BlocksInv, MallocBench PROVE BlocksInv'
BY EnterMallocKeepsBlocks, IterateKeepsBlocks, CrashKeepsBlocks, ReturnKeepsBlocks DEF MallocBench

LEMMA ReturnedCounts ==
  ASSUME run \in Nat, Returned PROVE i' \in Nat /\ run' \in Nat
BY DEF Returned

\* The steps that gc_bench makes on either heap.
LEMMA GcStepsKeepBlocks ==
  ASSUME BlocksInv
  PROVE  /\ EnterGc \/ AllocateRoot \/ AssignTheRoot \/ AllocateChild => BlocksInv'
         /\ StoreChild \/ ReturnFromGc => BlocksInv'
         /\ NoteMade => BlocksInv'
<1>1. run \in Nat /\ i \in Nat
  BY DEF BlocksInv
<1>2. CASE EnterGc \/ AllocateRoot \/ AssignTheRoot \/ AllocateChild
  <2>1. bench = "gc" /\ UNCHANGED <<cells, blocks, i, run>>
    BY <1>2 DEF EnterGc, AllocateRoot, AssignTheRoot, AllocateChild, Goto
  <2> QED BY <1>1, <2>1, GcKeepsBlocks
<1>3. CASE StoreChild
  <2>1. bench = "gc" /\ UNCHANGED <<cells, blocks, run>> /\ i' = i + 1
    BY <1>3 DEF StoreChild
  <2> QED BY <1>1, <2>1, GcKeepsBlocks
<1>4. CASE ReturnFromGc
  <2>1. bench = "gc" /\ UNCHANGED <<cells, blocks>> /\ Returned
    BY <1>4 DEF ReturnFromGc
  <2> QED BY <1>1, <2>1, ReturnedCounts, GcKeepsBlocks
<1>5. CASE NoteMade
  BY <1>5, QuietKeepsBlocks DEF NoteMade
<1> QED BY <1>2, <1>3, <1>4, <1>5

LEMMA BenchKeepsBlocks == BlocksInv /\ [BenchNext]_all => BlocksInv'
<1> SUFFICES ASSUME BlocksInv, [BenchNext]_all PROVE BlocksInv'
  OBVIOUS
<1>1. CASE GcBench
  BY <1>1, GcStepsKeepBlocks DEF GcBench, InsideAllocate
<1>2. CASE UNCHANGED all
  BY <1>2, QuietKeepsBlocks DEF all, bvars
<1> QED BY <1>1, <1>2, MallocKeepsBlocks DEF BenchNext, Done

LEMMA BlocksAreInTable == BlocksInv => LiveBlocksAreInTable
<1> SUFFICES ASSUME BlocksInv, bench = "malloc"
             PROVE  /\ BlocksOf(run) = Range(cells) \ {NoBlock}
                    /\ \A k, l \in Slots : k # l /\ cells[k] = cells[l] => cells[k] = NoBlock
                    /\ \A r \in 0 .. run : Cardinality(BlocksOf(r)) <= ROOT_SIZE
  BY DEF LiveBlocksAreInTable, BlocksOf
<1> QED BY DEF BlocksInv, Ended, InTable, TablesFull

\* malloc_bench frees each child that it replaces, once and no other; what its
\* runs leak is at most a table full each.
THEOREM MallocFreesWhatItReplaces == BenchSpec => []LiveBlocksAreInTable
BY BlocksInitially, BenchKeepsBlocks, BlocksAreInTable, PTL DEF BenchSpec

-----------------------------------------------------------------------------
(* What gc_bench sees of memory.                                           *)

\* What the program can see is in memory, also while it is stopped, and what
\* is in memory was there when it was stopped.
InMemory ==
    /\ IdsOf(Seen.heap, Live) \subseteq Identities
    /\ Identities \subseteq IdsOf(Seen.heap, DOMAIN Seen.heap)

LEMMA LiveInMemory == IInv /\ SeenInv => InMemory
<1> SUFFICES ASSUME IInv, SeenInv PROVE InMemory
  OBVIOUS
<1>1. Live \subseteq DOMAIN Seen.heap
  BY LiveFacts
<1>2. CASE phase \in {"mutator", "mark"}
  <2>1. Seen.heap = heap
    BY <1>2 DEF Seen, IInv, MarkInv
  <2> QED BY <1>1, <2>1 DEF InMemory, Identities, IdsOf
<1>3. CASE phase \in {"compact", "fixup"}
  <2>1. /\ SurvivorsInv /\ Seen = stopped /\ native = Null
    BY <1>3 DEF IInv, RequestInv, CompactInv, FixupInv, Seen
  <2>2. Live = Survivors
    <3>1. Null \notin DOMAIN stopped.heap
      BY <2>1, AddressFacts DEF SurvivorsInv, IsHeap
    <3>2. Live = Reachable(stopped.heap, Range(roots) \cup {Null})
      BY <2>1 DEF Live, SurvivorsInv
    <3>3. Reachable(stopped.heap, Range(roots) \cup {Null}) = Reachable(stopped.heap, Range(roots))
      <4>1. (Range(roots) \cup {Null}) \cap DOMAIN stopped.heap = Range(roots) \cap DOMAIN stopped.heap
        BY <3>1
      <4> QED BY <4>1 DEF Reachable
    <3> QED BY <2>1, <3>2, <3>3 DEF SurvivorsInv
  <2>3. /\ \A a \in DOMAIN forward : heap[forward[a]].id = stopped.heap[a].id
        /\ \A a \in unmoved : heap[a].id = stopped.heap[a].id
        /\ DOMAIN heap = Range(forward) \cup unmoved
    <3>1. CASE phase = "compact"
      BY <1>3, <3>1 DEF IInv, CompactInv, SurvivorsInv
    <3>2. CASE phase = "fixup"
      <4>1. /\ SurvivorsInv /\ unmoved = {}
            /\ \A a \in DOMAIN forward :
                 heap[forward[a]] = IF forward[a] \in unfixed THEN stopped.heap[a]
                                                              ELSE FixedUp(stopped.heap[a])
        BY <3>2 DEF IInv, FixupInv
      <4>2. ASSUME NEW a \in DOMAIN forward PROVE heap[forward[a]].id = stopped.heap[a].id
        <5>1. a \in DOMAIN stopped.heap
          BY <1>1, <2>1, <2>2 DEF Survivors
        <5>2. IsArray(stopped.heap[a])
          BY <4>1, <5>1 DEF SurvivorsInv, IsHeap
        <5>3. FixedUp(stopped.heap[a]).id = stopped.heap[a].id
          BY <5>2 DEF IsArray, FixedUp
        <5> QED BY <4>1, <5>3
      <4> QED BY <4>1, <4>2 DEF SurvivorsInv
    <3> QED BY <1>3, <3>1, <3>2
  <2>4. Survivors \subseteq DOMAIN stopped.heap
    BY <1>1, <2>1, <2>2
  <2> QED BY <2>1, <2>2, <2>3, <2>4 DEF InMemory, Identities, IdsOf, Survivors, Range
<1> QED BY <1>2, <1>3 DEF IInv, TypeInv

IsNode(node) ==
    node = [kind |-> node.kind, slots |-> [k \in DOMAIN node.slots |-> node.slots[k]]]

\* The graph is closed, and null is not in it, nor in memory.
GraphInv ==
    /\ DOMAIN RootIds = DOMAIN Seen.roots
    /\ Visible = [id \in DOMAIN Visible |-> Visible[id]]
    /\ \A id \in DOMAIN Visible : IsNode(Visible[id])
    /\ RootIds \in Seq(DOMAIN Visible \cup {0})
    /\ NativeId \in DOMAIN Visible \cup {0}
    /\ \A id \in DOMAIN Visible : \A k \in DOMAIN Visible[id].slots :
          Visible[id].slots[k] \in DOMAIN Visible \cup {0}
    /\ DOMAIN Visible \subseteq Identities
    /\ 0 \notin Identities

LEMMA GraphSeen == SeenInv /\ InMemory => GraphInv
<1> SUFFICES ASSUME SeenInv, InMemory PROVE GraphInv
  OBVIOUS
<1>1. /\ IsHeap(Seen.heap) /\ Identified(Seen.heap) /\ Seen.roots \in Seq(Refs)
      /\ native \in DOMAIN Seen.heap \cup {Null} /\ RootsInto(Seen.roots, DOMAIN Seen.heap)
  BY DEF SeenInv, Linked
<1>2. /\ Live \in SUBSET DOMAIN Seen.heap
      /\ \A a \in Live : RefersInto(Seen.heap[a], Live)
      /\ Range(Seen.roots) \cup {native} \subseteq Live \cup {Null}
  BY LiveFacts
<1>3. Visible = GraphOf(Seen.heap, Live)
  BY VisibleIsGraph
<1>4. DOMAIN Visible = IdsOf(Seen.heap, Live)
      /\ \A a \in Live : Visible[Seen.heap[a].id] = Node(Seen.heap, a)
  BY <1>1, <1>2, <1>3, GraphFacts
<1>5. \A ref \in Live \cup {Null} : IdAt(Seen.heap, ref) \in DOMAIN Visible \cup {0}
  BY <1>1, <1>2, <1>4, IdFacts
<1>6. RootIds = [r \in 1 .. Len(Seen.roots) |-> IdAt(Seen.heap, Seen.roots[r])]
  BY <1>1 DEF RootIds, IdList
<1>7. \A r \in 1 .. Len(Seen.roots) : IdAt(Seen.heap, Seen.roots[r]) \in DOMAIN Visible \cup {0}
  BY <1>1, <1>2, <1>5 DEF Range
<1>8. RootIds \in Seq(DOMAIN Visible \cup {0}) /\ DOMAIN RootIds = DOMAIN Seen.roots
  BY <1>1, <1>6, <1>7
<1>9. NativeId \in DOMAIN Visible \cup {0}
  BY <1>2, <1>5 DEF NativeId
<1>10. ASSUME NEW id \in DOMAIN Visible, NEW k \in DOMAIN Visible[id].slots
       PROVE  Visible[id].slots[k] \in DOMAIN Visible \cup {0}
  <2>1. PICK a \in Live : id = Seen.heap[a].id
    BY <1>4 DEF IdsOf
  <2>2. RefersInto(Seen.heap[a], DOMAIN Seen.heap)
    BY <1>2, <2>1 DEF RefersInto
  <2>3. Range(Node(Seen.heap, a).slots) \subseteq IdsOf(Seen.heap, Live) \cup {0}
    BY <1>1, <1>2, <2>1, <2>2, NodeInto
  <2> QED BY <1>4, <2>1, <2>3 DEF Range
<1>11. 0 \notin IdsOf(Seen.heap, DOMAIN Seen.heap)
  BY <1>1, GraphFacts
<1>12. \A a \in Live : IsNode(Node(Seen.heap, a))
  BY DEF Node, IsNode
<1>13. Visible = [id \in DOMAIN Visible |-> Visible[id]] /\ \A id \in DOMAIN Visible : IsNode(Visible[id])
  BY <1>3, <1>4, <1>12 DEF GraphOf, IdsOf
<1> QED BY <1>4, <1>8, <1>9, <1>10, <1>11, <1>13 DEF GraphInv, InMemory

-----------------------------------------------------------------------------
(* The table of gc_bench, as a node of the graph.                          *)

\* The step that made an array; ITERATIONS if it is null.
MadeBy(steps, id) == IF id \in DOMAIN steps THEN steps[id] ELSE ITERATIONS

\* An entry of the table, from the graph, the StackRoots and the history.
Entry(graph, ids, steps, k) ==
    IF ids # <<>> /\ ids[1] # 0 /\ k + 1 \in DOMAIN graph[ids[1]].slots
    THEN MadeBy(steps, graph[ids[1]].slots[k + 1]) ELSE ITERATIONS

GcTable     == [k \in Slots |-> Entry(Visible, RootIds, made, k)]
MallocTable == [k \in Slots |-> IF cells[k] = NoBlock THEN ITERATIONS ELSE cells[k][2]]

LEMMA TableSeen == SeenInv => SeenTable = IF bench = "gc" THEN GcTable ELSE MallocTable
<1> SUFFICES ASSUME SeenInv PROVE SeenTable = IF bench = "gc" THEN GcTable ELSE MallocTable
  OBVIOUS
<1>1. CASE bench # "gc"
  BY <1>1 DEF SeenTable, MallocTable
<1>2. CASE bench = "gc"
  <2>1. /\ IsHeap(Seen.heap) /\ Identified(Seen.heap) /\ Seen.roots \in Seq(Refs)
        /\ RootsInto(Seen.roots, DOMAIN Seen.heap)
    BY DEF SeenInv, Linked
  <2>2. /\ Live \in SUBSET DOMAIN Seen.heap
        /\ Range(Seen.roots) \subseteq Live \cup {Null}
    BY LiveFacts
  <2>3. \A a \in Live : Visible[Seen.heap[a].id] = Node(Seen.heap, a)
    BY <2>1, <2>2, VisibleIsGraph, GraphFacts
  <2>4. RootIds = [r \in 1 .. Len(Seen.roots) |-> IdAt(Seen.heap, Seen.roots[r])]
    BY <2>1 DEF RootIds, IdList
  <2>5. CASE Seen.roots = <<>>
    <3>1. RootIds = <<>>
      BY <2>4, <2>5
    <3>2. SeenRoot = <<>> /\ DOMAIN SeenRoot = {}
      BY <2>5 DEF SeenRoot
    <3> QED BY <1>2, <3>1, <3>2 DEF SeenTable, GcTable, Entry
  <2>6. CASE Seen.roots # <<>>
    <3> DEFINE a == Seen.roots[1]
    <3>1. 1 \in 1 .. Len(Seen.roots) /\ a \in Live \cup {Null} /\ a \in DOMAIN Seen.heap \cup {Null}
      BY <2>1, <2>2, <2>6 DEF Range
    <3>2. RootIds # <<>> /\ RootIds[1] = IdAt(Seen.heap, a)
      BY <2>4, <3>1
    <3>3. Null \notin DOMAIN Seen.heap
      BY <2>1, AddressFacts DEF IsHeap
    <3>4. CASE a = Null
      <4>1. RootIds[1] = 0
        BY <2>1, <3>2, <3>4, IdFacts
      <4>2. SeenRoot = <<>> /\ DOMAIN SeenRoot = {}
        BY <3>3, <3>4 DEF SeenRoot
      <4> QED BY <1>2, <4>1, <4>2 DEF SeenTable, GcTable, Entry
    <3>5. CASE a # Null
      <4>1. a \in Live /\ a \in DOMAIN Seen.heap
        BY <3>1, <3>5
      <4>2. RootIds[1] = Seen.heap[a].id /\ RootIds[1] # 0
        BY <2>1, <3>2, <4>1, IdFacts
      <4>3. SeenRoot = Seen.heap[a].slots
        BY <2>6, <4>1 DEF SeenRoot
      <4>4. /\ DOMAIN Visible[RootIds[1]].slots = DOMAIN SeenRoot
            /\ \A k \in DOMAIN SeenRoot :
                  Visible[RootIds[1]].slots[k] = IdAt(Seen.heap, SeenRoot[k])
        <5>1. Visible[RootIds[1]] = Node(Seen.heap, a)
          BY <2>3, <4>1, <4>2
        <5>2. Node(Seen.heap, a).slots = [k \in DOMAIN Seen.heap[a].slots |->
                                              IdAt(Seen.heap, Seen.heap[a].slots[k])]
          BY DEF Node
        <5> QED BY <4>3, <5>1, <5>2
      <4>5. ASSUME NEW k \in Slots
            PROVE  Entry(Visible, RootIds, made, k) =
                       IF k + 1 \in DOMAIN SeenRoot THEN StepOf(SeenRoot[k + 1]) ELSE ITERATIONS
        BY <3>2, <4>2, <4>4 DEF Entry, MadeBy, StepOf
      <4> QED BY <1>2, <4>5 DEF SeenTable, GcTable
    <3> QED BY <3>4, <3>5
  <2> QED BY <2>5, <2>6
<1> QED BY <1>1, <1>2

\* Both modules mean the same by the entries.
LEMMA SameSlots ==
  /\ Table!Slots = Slots /\ \A n : Table!index(n) = index(n)
  /\ Table!Empty = [k \in Slots |-> ITERATIONS] /\ Table!None = ITERATIONS
BY DEF Table!Slots, Slots, Table!index, index, Table!Empty, Table!None

\* The table before there is a root.
LEMMA NoTable == RootIds = <<>> \/ RootIds[1] = 0 => GcTable = Table!Empty
BY SameSlots DEF GcTable, Entry

\* The program's step and what it makes of the graph.
LEMMA Became ==
  ASSUME NEW G, NEW ids, NEW id, Graph!Becomes(G, ids, id)
  PROVE  /\ RootIds' = ids /\ NativeId' = id
         /\ \A x \in DOMAIN G : x # 0 /\ x \in Range(ids) \cup {id} =>
               x \in DOMAIN Visible' /\ Visible'[x] = G[x]
<1>1. RootIds' = ids /\ NativeId' = id
  BY DEF Graph!Becomes, RootIds, NativeId, IdList
<1>2. Visible' = Restrict(G, Graph!Reachable(G, Range(ids) \cup {id}))
  BY SameOperators DEF Graph!Becomes
<1>3. ASSUME NEW x \in DOMAIN G, x # 0, x \in Range(ids) \cup {id}
      PROVE  x \in Graph!Reachable(G, Range(ids) \cup {id})
  BY <1>3 DEF Graph!Reachable, Graph!Nothing
<1>4. \A x \in Graph!Reachable(G, Range(ids) \cup {id}) : x \in DOMAIN G
  BY DEF Graph!Reachable
<1> QED BY <1>1, <1>2, <1>3, <1>4 DEF Restrict

LEMMA Acted ==
  ASSUME NEW G, NEW ids, NEW id, Graph!Acts(G, ids, id)
  PROVE  Graph!Becomes(G, ids, id) /\ request = {} /\ request' = {}
BY DEF Graph!Acts

\* gc_bench between two of its steps: what the root is, what the native
\* variable holds, and the history of both.
TableInv ==
    bench = "gc" =>
        /\ DOMAIN made = Identities
        /\ pc \in {"enter", "root", "rooting", "child", "loop"}
        /\ pc = "enter" => RootIds = <<>>
        /\ pc \in {"root", "rooting"} => RootIds = <<0>>
        /\ pc \in {"enter", "root", "rooting"} => i = 0
        /\ pc \in {"child", "loop"} => Len(RootIds) = 1
        /\ pc = "child" => i < ITERATIONS
        /\ pc = "rooting" /\ request = {} /\ NativeId # 0 =>
              \A k \in DOMAIN Visible[NativeId].slots : Visible[NativeId].slots[k] = 0
        /\ pc = "child" /\ request = {} /\ NativeId # 0 => made[NativeId] = i

\* A step of the table, or none.
TableStep == Table!Next \/ UNCHANGED <<SeenTable, i>>

\* The table is as it was when the root is, and the history of what it holds.
LEMMA TableKept ==
  ASSUME GraphInv, GraphInv', RootIds' = RootIds,
         RootIds # <<>> /\ RootIds[1] # 0 => Visible'[RootIds[1]] = Visible[RootIds[1]],
         DOMAIN made = Identities, DOMAIN made' = Identities',
         \A id \in DOMAIN Visible : id \in Identities' /\ made'[id] = made[id]
  PROVE  GcTable' = GcTable
<1>1. ASSUME NEW k \in Slots
      PROVE  Entry(Visible', RootIds', made', k) = Entry(Visible, RootIds, made, k)
  <2>1. CASE ~(RootIds # <<>> /\ RootIds[1] # 0)
    BY <2>1 DEF Entry
  <2>2. CASE RootIds # <<>> /\ RootIds[1] # 0
    <3>1. RootIds[1] \in DOMAIN Visible
      BY <2>2 DEF GraphInv
    <3>2. CASE k + 1 \in DOMAIN Visible[RootIds[1]].slots
      <4>1. Visible[RootIds[1]].slots[k + 1] \in DOMAIN Visible \cup {0}
        BY <3>1, <3>2 DEF GraphInv
      <4>2. 0 \notin DOMAIN made /\ 0 \notin DOMAIN made' /\ DOMAIN Visible \subseteq DOMAIN made
        BY DEF GraphInv
      <4> QED BY <2>2, <3>2, <4>1, <4>2 DEF Entry, MadeBy
    <3>3. CASE k + 1 \notin DOMAIN Visible[RootIds[1]].slots
      BY <2>2, <3>3 DEF Entry
    <3> QED BY <3>2, <3>3
  <2> QED BY <2>1, <2>2
<1> QED BY <1>1 DEF GcTable

LEMMA After ==
  /\ SeenInv' => SeenTable' = IF bench' = "gc" THEN GcTable' ELSE MallocTable'
  /\ RootIds' = <<>> \/ RootIds'[1] = 0 => GcTable' = Table!Empty
<1>1. (SeenInv => SeenTable = IF bench = "gc" THEN GcTable ELSE MallocTable)'
  BY TableSeen, PTL
<1>2. (RootIds = <<>> \/ RootIds[1] = 0 => GcTable = Table!Empty)'
  BY NoTable, PTL
<1>3. Table!Empty' = Table!Empty
  BY DEF Table!Empty, Table!Slots, Table!None
<1> QED BY <1>1, <1>2, <1>3

LEMMA Begun ==
  ASSUME TableInv, SeenInv, SeenInv', bench = "gc", bench' = "gc", i' = i,
         GcTable' = GcTable
  PROVE  TableStep
BY TableSeen, After DEF TableStep

\* A call, or the end of one without an array.
LEMMA HeldTable ==
  ASSUME GraphInv, GraphInv', DOMAIN made = Identities, Identities' = Identities, made' = made,
         Graph!Becomes(Visible, RootIds, NativeId')
  PROVE  RootIds' = RootIds /\ GcTable' = GcTable
<1>1. /\ RootIds' = RootIds
      /\ \A x \in DOMAIN Visible : x # 0 /\ x \in Range(RootIds) => Visible'[x] = Visible[x]
  BY Became
<1>2. RootIds # <<>> /\ RootIds[1] # 0 => RootIds[1] \in DOMAIN Visible /\ RootIds[1] \in Range(RootIds)
  BY DEF GraphInv, Range
<1>3. \A id \in DOMAIN Visible : id \in Identities' /\ made'[id] = made[id]
  BY DEF GraphInv
<1> QED BY <1>1, <1>2, <1>3, TableKept

LEMMA EnterGcTable ==
  ASSUME TableInv, SeenInv, SeenInv', EnterGc, Graph!PushRoot(0), Identities' = Identities
  PROVE  TableInv' /\ TableStep
<1>1. /\ bench = "gc" /\ pc = "enter" /\ pc' = "root" /\ UNCHANGED <<bench, i, made>>
  BY DEF EnterGc, Goto
<1>2. RootIds = <<>> /\ i = 0 /\ DOMAIN made = Identities
  BY <1>1 DEF TableInv
<1>3. Graph!Acts(Visible, Append(RootIds, 0), NativeId)
  BY DEF Graph!PushRoot, RootIds, NativeId, IdList
<1>4. RootIds' = Append(RootIds, 0)
  BY <1>3, Acted, Became
<1>5. RootIds' = <<0>>
  BY <1>2, <1>4
<1>6. TableInv'
  BY <1>1, <1>2, <1>5 DEF TableInv
<1>7. GcTable' = GcTable
  <2>1. GcTable = Table!Empty
    BY <1>2, NoTable
  <2>2. RootIds'[1] = 0
    BY <1>5
  <2> QED BY <2>1, <2>2, After
<1> QED BY <1>1, <1>6, <1>7, Begun

\* A call: the native variable is null until it returns.
LEMMA CallTable ==
  ASSUME TableInv, SeenInv, SeenInv', GraphInv, GraphInv', Identities' = Identities,
         Graph!Call, AllocateRoot \/ AllocateChild
  PROVE  TableInv' /\ TableStep
<1>1. /\ bench = "gc" /\ UNCHANGED <<bench, i, made>>
      /\ (pc = "root" /\ pc' = "rooting") \/ (pc = "loop" /\ pc' = "child" /\ i < ITERATIONS)
  BY DEF AllocateRoot, AllocateChild, Goto
<1>2. Graph!Becomes(Visible, RootIds, 0) /\ request' # {}
  BY DEF Graph!Call, Graph!Nothing, RootIds, IdList
<1>3. NativeId' = 0
  BY <1>2, Became
<1>4. DOMAIN made = Identities
  BY <1>1 DEF TableInv
<1>5. RootIds' = RootIds /\ GcTable' = GcTable
  BY <1>1, <1>2, <1>3, <1>4, HeldTable
<1>6. TableInv'
  BY <1>1, <1>2, <1>5 DEF TableInv
<1> QED BY <1>1, <1>5, <1>6, Begun

LEMMA AssignTheRootTable ==
  ASSUME TableInv, SeenInv, SeenInv', GraphInv, GraphInv', Identities' = Identities,
         AssignTheRoot, Graph!AssignRoot(1)
  PROVE  TableInv' /\ TableStep
<1>1. /\ bench = "gc" /\ pc = "rooting" /\ pc' = "loop" /\ UNCHANGED <<bench, i, made>>
  BY DEF AssignTheRoot, Goto
<1>2. RootIds = <<0>> /\ i = 0 /\ DOMAIN made = Identities
  BY <1>1 DEF TableInv
<1>3. Graph!Acts(Visible, [RootIds EXCEPT ![1] = NativeId], NativeId)
  BY DEF Graph!AssignRoot, RootIds, NativeId, IdList
<1>4. RootIds' = [RootIds EXCEPT ![1] = NativeId] /\ request = {}
      /\ (NativeId \in DOMAIN Visible /\ NativeId # 0 => Visible'[NativeId] = Visible[NativeId])
  BY <1>3, Acted, Became
<1>5. Len(RootIds') = 1 /\ RootIds' # <<>> /\ RootIds'[1] = NativeId
  BY <1>2, <1>4
<1>6. TableInv'
  BY <1>1, <1>2, <1>5 DEF TableInv
<1>7. GcTable = Table!Empty
  BY <1>2, NoTable
<1>8. GcTable' = Table!Empty
  <2>1. CASE NativeId = 0
    BY <1>5, <2>1, After
  <2>2. CASE NativeId # 0
    <3>1. Visible'[NativeId] = Visible[NativeId]
      BY <1>4, <2>2 DEF GraphInv
    <3>2. \A k \in DOMAIN Visible[NativeId].slots : Visible[NativeId].slots[k] = 0
      BY <1>1, <1>4, <2>2 DEF TableInv
    <3>3. 0 \notin DOMAIN made'
      BY <1>1, <1>2 DEF GraphInv
    <3>4. ASSUME NEW k \in Slots PROVE Entry(Visible', RootIds', made', k) = ITERATIONS
      BY <1>5, <3>1, <3>2, <3>3 DEF Entry, MadeBy
    <3> QED BY <3>4, SameSlots DEF GcTable
  <2> QED BY <2>1, <2>2
<1> QED BY <1>1, <1>6, <1>7, <1>8, Begun

LEMMA ReturnFromGcTable ==
  ASSUME TableInv, BlocksInv, SeenInv, SeenInv', Identities' = Identities, ReturnFromGc, Graph!PopRoot
  PROVE  TableInv' /\ TableStep
<1>1. /\ bench = "gc" /\ pc = "loop" /\ Returned /\ UNCHANGED <<cells, made>>
  BY DEF ReturnFromGc
<1>2. /\ pc' = "enter" /\ i' = 0 /\ bench' \in {"gc", "malloc"}
  BY <1>1 DEF Returned
<1>3. Len(RootIds) = 1 /\ DOMAIN made = Identities
  BY <1>1 DEF TableInv
<1>4. Graph!Acts(Visible, SubSeq(RootIds, 1, Len(RootIds) - 1), NativeId)
  BY DEF Graph!PopRoot, RootIds, NativeId, IdList
<1>5. RootIds' = SubSeq(RootIds, 1, Len(RootIds) - 1)
  BY <1>4, Acted, Became
<1>6. RootIds' = <<>>
  BY <1>3, <1>5
<1>7. TableInv'
  BY <1>1, <1>2, <1>3, <1>6 DEF TableInv
<1>8. SeenTable' = Table!Empty
  <2>1. CASE bench' = "gc"
    BY <1>6, <2>1, After
  <2>2. CASE bench' # "gc"
    <3>1. \A k \in Slots : cells'[k] = NoBlock
      BY <1>1 DEF BlocksInv, NoCells
    <3>2. MallocTable' = [k \in Slots |-> ITERATIONS]
      BY <3>1 DEF MallocTable
    <3> QED BY <2>2, <3>2, After, SameSlots
  <2> QED BY <2>1, <2>2
<1>9. Table!Next
  BY <1>2, <1>8 DEF Table!Next, Table!Again
<1> QED BY <1>7, <1>9 DEF TableStep

\* The child is stored: the entry becomes the step that made it, or ITERATIONS.
LEMMA StoreTable ==
  ASSUME TableInv, BlocksInv, SeenInv, SeenInv', GraphInv, GraphInv', Identities' = Identities,
         bench = "gc", pc = "child", i' = i + 1, pc' = "loop", UNCHANGED <<bench, made>>,
         Graph!Store(1, index(i) + 1)
  PROVE  TableInv' /\ TableStep
<1> DEFINE root == RootIds[1]
           at   == index(i) + 1
           G    == [Visible EXCEPT ![root].slots[at] = NativeId]
<1>1. Len(RootIds) = 1 /\ DOMAIN made = Identities /\ i < ITERATIONS /\ i \in Nat
      /\ (request = {} /\ NativeId # 0 => made[NativeId] = i)
  BY DEF TableInv, BlocksInv
<1>2. /\ root # 0 /\ at \in DOMAIN Visible[root].slots
      /\ Graph!Acts(G, RootIds, NativeId)
  BY DEF Graph!Store, Graph!HasSlot, Graph!Nothing, RootIds, NativeId, IdList
<1>3. root \in DOMAIN Visible /\ root \in Range(RootIds) /\ RootIds # <<>>
  BY <1>1, <1>2 DEF GraphInv, Range
<1>4. RootIds' = RootIds /\ NativeId' = NativeId /\ request = {}
      /\ Visible'[root] = G[root]
  <2>1. root \in DOMAIN G
    BY <1>3
  <2> HIDE DEF G, root
  <2> QED BY <1>2, <1>3, <2>1, Acted, Became
<1>5. TableInv'
  BY <1>1, <1>4 DEF TableInv
<1>6. /\ DOMAIN Visible'[root].slots = DOMAIN Visible[root].slots
      /\ \A k \in DOMAIN Visible[root].slots :
           Visible'[root].slots[k] = IF k = at THEN NativeId ELSE Visible[root].slots[k]
  <2>1. PICK node, slots : node = Visible[root] /\ slots = node.slots
    OBVIOUS
  <2>2. IsNode(node)
    BY <1>3, <2>1 DEF GraphInv
  <2>3. node = [kind |-> node.kind, slots |-> slots] /\ slots = [k \in DOMAIN slots |-> slots[k]]
    BY <2>1, <2>2 DEF IsNode
  <2>4. G[root] = [node EXCEPT !.slots = [slots EXCEPT ![at] = NativeId]]
    BY <1>3, <2>1
  <2>5. Visible'[root].slots = [slots EXCEPT ![at] = NativeId]
    BY <1>4, <2>3, <2>4
  <2> QED BY <1>2, <2>1, <2>3, <2>5
<1>7. index(i) \in Slots /\ Slots \in SUBSET Nat
  BY <1>1, SizeFacts DEF Slots
<1>8. MadeBy(made, NativeId) \in {i, ITERATIONS}
  BY <1>1, <1>4 DEF GraphInv, MadeBy
<1>9. ASSUME NEW k \in Slots
      PROVE  Entry(Visible', RootIds', made', k) =
                 IF k = index(i) THEN MadeBy(made, NativeId) ELSE Entry(Visible, RootIds, made, k)
  <2>1. k + 1 = at <=> k = index(i)
    <3>1. PICK n \in Nat : n = index(i)
      BY <1>7
    <3>2. k \in Nat /\ at = n + 1
      BY <1>7, <3>1
    <3> HIDE DEF at
    <3> QED BY <3>1, <3>2
  <2> HIDE DEF at
  <2>2. CASE k = index(i)
    BY <1>2, <1>3, <1>4, <1>6, <2>1, <2>2 DEF Entry
  <2>3. CASE k # index(i)
    BY <1>2, <1>3, <1>4, <1>6, <2>1, <2>3 DEF Entry
  <2> QED BY <2>2, <2>3
<1>10. GcTable' = [GcTable EXCEPT ![index(i)] = MadeBy(made, NativeId)]
  BY <1>7, <1>9 DEF GcTable
<1>11. SeenTable' = [SeenTable EXCEPT ![index(i)] = MadeBy(made, NativeId)]
  BY <1>10, TableSeen, After
<1>12. Table!Put
  BY <1>1, <1>8, <1>11, SameSlots DEF Table!Put
<1> QED BY <1>5, <1>12 DEF TableStep, Table!Next

\* The steps inside of an allocation note what they make.
LEMMA Noted ==
  ASSUME NoteMade
  PROVE  /\ UNCHANGED <<bench, run, pc, i, cells, blocks>>
         /\ DOMAIN made' = Identities'
         /\ \A id \in Identities' : made'[id] = IF id \in Identities THEN made[id] ELSE i
<1>1. made' = [id \in Identities' |-> IF id \in Identities THEN made[id] ELSE i]
  BY DEF NoteMade, Identities, IdsOf
<1> QED BY <1>1 DEF NoteMade

\* The new array is not in the table yet: it is null until it is stored, and its
\* slots are.
LEMMA GotNewTable ==
  ASSUME TableInv, SeenInv, SeenInv', GraphInv, GraphInv', bench = "gc", NoteMade, GotNewArray
  PROVE  TableInv' /\ TableStep
<1>1. /\ UNCHANGED <<bench, pc, i>> /\ DOMAIN made' = Identities'
      /\ \A id \in Identities' : made'[id] = IF id \in Identities THEN made[id] ELSE i
  BY Noted
<1>2. PICK kind \in Kinds, n \in 0 .. MaxLength : Graph!Allocate(kind, n)
  BY DEF GotNewArray
<1> DEFINE new == NativeId'
           array == [kind |-> kind, slots |-> [k \in 1 .. n |-> 0]]
           G == [x \in DOMAIN Visible \cup {new} |-> IF x = new THEN array ELSE Visible[x]]
<1>3. /\ request # {} /\ new \in Graph!Ids /\ new \notin DOMAIN Visible
      /\ Graph!Becomes(G, RootIds, new)
  BY <1>2 DEF Graph!Allocate, Graph!Nothing, RootIds, NativeId, IdList
<1>4. new # 0 /\ new \notin Identities /\ Identities' = Identities \cup {new}
  BY <1>3 DEF Graph!Ids, GotNewArray
<1>5. /\ RootIds' = RootIds
      /\ \A x \in DOMAIN G : x # 0 /\ x \in Range(RootIds) \cup {new} => Visible'[x] = G[x]
  <2> HIDE DEF G, new
  <2>1. /\ RootIds' = RootIds /\ NativeId' = new
        /\ \A x \in DOMAIN G : x # 0 /\ x \in Range(RootIds) \cup {new} =>
              x \in DOMAIN Visible' /\ Visible'[x] = G[x]
    BY <1>3, Became
  <2> QED BY <2>1
<1>6. Visible'[new] = array
  BY <1>4, <1>5
<1>7. RootIds # <<>> /\ RootIds[1] # 0 => Visible'[RootIds[1]] = Visible[RootIds[1]]
  <2> SUFFICES ASSUME RootIds # <<>>, RootIds[1] # 0
               PROVE  Visible'[RootIds[1]] = Visible[RootIds[1]]
    OBVIOUS
  <2>1. RootIds[1] \in DOMAIN Visible /\ RootIds[1] \in Range(RootIds)
    BY DEF GraphInv, Range
  <2> QED BY <1>3, <1>5, <2>1
<1>8. \A id \in DOMAIN Visible : id \in Identities' /\ made'[id] = made[id]
  BY <1>1, <1>4 DEF GraphInv
<1>9. DOMAIN made = Identities
  BY DEF TableInv
<1>10. GcTable' = GcTable
  BY <1>1, <1>5, <1>7, <1>8, <1>9, TableKept
<1>11. \A k \in DOMAIN Visible'[new].slots : Visible'[new].slots[k] = 0
  BY <1>6
<1>12. made'[new] = i'
  BY <1>1, <1>4
<1>13. TableInv'
  BY <1>1, <1>5, <1>11, <1>12 DEF TableInv
<1> QED BY <1>1, <1>10, <1>13, Begun

\* The collector's steps, which the program does not see.
LEMMA UnseenTable ==
  ASSUME TableInv, SeenInv, SeenInv', GraphInv, GraphInv', bench = "gc", NoteMade,
         UNCHANGED Graph!vars
  PROVE  TableInv' /\ TableStep
<1>1. /\ UNCHANGED <<bench, pc, i>> /\ DOMAIN made' = Identities'
      /\ \A id \in Identities' : made'[id] = IF id \in Identities THEN made[id] ELSE i
  BY Noted
<1>2. Visible' = Visible /\ RootIds' = RootIds /\ NativeId' = NativeId /\ (request' = {} <=> request = {})
  BY DEF Graph!vars, RootIds, NativeId, IdList
<1>3. \A id \in DOMAIN Visible : id \in Identities' /\ made'[id] = made[id]
  BY <1>1, <1>2 DEF GraphInv
<1>4. DOMAIN made = Identities
  BY DEF TableInv
<1>5. GcTable' = GcTable
  BY <1>1, <1>2, <1>3, <1>4, TableKept
<1>6. NativeId # 0 => NativeId \in DOMAIN Visible
  BY DEF GraphInv
<1>7. TableInv'
  BY <1>1, <1>2, <1>3, <1>6 DEF TableInv
<1> QED BY <1>1, <1>5, <1>7, Begun

\* The call returns without an array.
LEMMA FailedTable ==
  ASSUME TableInv, SeenInv, SeenInv', GraphInv, GraphInv', bench = "gc", NoteMade,
         Graph!Fail, NativeId = 0, Identities' = Identities
  PROVE  TableInv' /\ TableStep
<1>1. /\ UNCHANGED <<bench, pc, i>> /\ DOMAIN made' = Identities'
      /\ \A id \in Identities' : made'[id] = IF id \in Identities THEN made[id] ELSE i
  BY Noted
<1>2. Visible' = Visible /\ RootIds' = RootIds /\ NativeId' = NativeId
  BY DEF Graph!Fail, RootIds, NativeId, IdList
<1>3. \A id \in DOMAIN Visible : id \in Identities' /\ made'[id] = made[id]
  BY <1>1 DEF GraphInv
<1>4. DOMAIN made = Identities
  BY DEF TableInv
<1>5. GcTable' = GcTable
  BY <1>1, <1>2, <1>3, <1>4, TableKept
<1>6. TableInv'
  BY <1>1, <1>2 DEF TableInv
<1> QED BY <1>1, <1>5, <1>6, Begun

\* The steps of malloc_bench, and those of nobody.
LEMMA MallocTableStep ==
  ASSUME BlocksInv, SeenInv, SeenInv', MallocBench
  PROVE  TableInv' /\ TableStep
<1>1. bench = "malloc" /\ bench' # "gc"
  BY DEF MallocBench, EnterMalloc, IterateMalloc, DereferenceNull, ReturnFromMalloc, Returned
<1>2. TableInv'
  BY <1>1 DEF TableInv
<1>3. SeenTable = MallocTable /\ SeenTable' = MallocTable'
  BY <1>1, TableSeen, After
<1>4. CASE EnterMalloc
  <2>1. cells' = cells /\ i' = i
    BY <1>4 DEF EnterMalloc, BlocksInv, NoCells
  <2> QED BY <1>2, <1>3, <2>1 DEF TableStep, MallocTable
<1>5. CASE IterateMalloc
  <2>1. PICK child \in Malloc : cells' = [cells EXCEPT ![index(i)] = child]
    BY <1>5 DEF IterateMalloc
  <2>2. i < ITERATIONS /\ i' = i + 1 /\ i \in Nat /\ cells = [k \in Slots |-> cells[k]]
    BY <1>5 DEF IterateMalloc, BlocksInv
  <2>3. index(i) \in Slots
    BY <2>2, SizeFacts
  <2>4. PICK step \in {i, ITERATIONS} : step = IF child = NoBlock THEN ITERATIONS ELSE child[2]
    BY <2>1 DEF Malloc
  <2>5. \A k \in Slots : cells'[k] = IF k = index(i) THEN child ELSE cells[k]
    BY <2>1, <2>2
  <2>6. MallocTable' = [MallocTable EXCEPT ![index(i)] = step]
    BY <2>3, <2>4, <2>5 DEF MallocTable
  <2>7. Table!Put
    BY <1>3, <2>2, <2>4, <2>6, SameSlots DEF Table!Put
  <2> QED BY <1>2, <2>7 DEF TableStep, Table!Next
<1>6. CASE ReturnFromMalloc
  <2>1. (\A k \in Slots : cells'[k] = NoBlock) /\ i' = 0
    BY <1>6 DEF ReturnFromMalloc, Returned
  <2>2. MallocTable' = Table!Empty
    BY <2>1, SameSlots DEF MallocTable
  <2>3. Table!Next
    BY <1>3, <2>1, <2>2 DEF Table!Next, Table!Again
  <2> QED BY <1>2, <2>3 DEF TableStep
<1>7. CASE DereferenceNull
  <2>1. cells' = cells /\ i' = i
    BY <1>7 DEF DereferenceNull
  <2> QED BY <1>2, <1>3, <2>1 DEF TableStep, MallocTable
<1> QED BY <1>4, <1>5, <1>6, <1>7 DEF MallocBench

LEMMA NoStepTable ==
  ASSUME TableInv, UNCHANGED all
  PROVE  TableInv' /\ TableStep
<1>1. UNCHANGED <<bench, pc, i, cells, made>> /\ UNCHANGED <<heap, roots, native, request, phase, stopped>>
  BY DEF all, bvars, vars, mutator, collector
<1>2. Seen' = Seen
  BY <1>1 DEF Seen
<1>3. Visible' = Visible /\ RootIds' = RootIds /\ NativeId' = NativeId /\ Identities' = Identities
  BY <1>1, <1>2 DEF Visible, RootIds, NativeId, IdList, Identities, IdsOf
<1>4. SeenRoot' = SeenRoot
  BY <1>2 DEF SeenRoot
<1>5. \A ref : StepOf(ref)' = StepOf(ref)
  BY <1>1, <1>2 DEF StepOf
<1>6. SeenTable' = SeenTable
  BY <1>1, <1>4, <1>2 DEF SeenTable, StepOf
<1> QED BY <1>1, <1>3, <1>6 DEF TableInv, TableStep

LEMMA GraphIsSeen == IInv /\ SeenInv => GraphInv
BY LiveInMemory, GraphSeen

LEMMA GraphIsSeenAfter == IInv' /\ SeenInv' => GraphInv'
<1>1. (IInv /\ SeenInv => GraphInv)'
  BY GraphIsSeen, PTL
<1> QED BY <1>1

\* gc_bench has its StackRoot when it uses it.
LEMMA RootIsThere ==
  ASSUME TableInv, SeenInv, GraphInv, InMutator, bench = "gc", pc \in {"rooting", "child"}
  PROVE  1 \in DOMAIN roots
<1>1. Len(RootIds) = 1
  BY DEF TableInv
<1>2. RootIds \in Seq(DOMAIN Visible \cup {0}) /\ DOMAIN RootIds = DOMAIN Seen.roots
  BY DEF GraphInv
<1>3. Seen.roots = roots
  BY SeenFacts DEF InMutator
<1> QED BY <1>1, <1>2, <1>3

\* What gc_bench does between two allocations is what a program of the heap does.
LEMMA GcStepIsProgram ==
  ASSUME TableInv, BlocksInv, SeenInv, GraphInv,
         EnterGc \/ AllocateRoot \/ AssignTheRoot \/ AllocateChild \/ ReturnFromGc
  PROVE  /\ bench = "gc" /\ Identities' = Identities /\ phase = "mutator" /\ phase' = "mutator"
         /\ EnterGc => PushRoot(Null)
         /\ AllocateRoot => Request(REF, ROOT_SIZE) /\ ROOT_SIZE \in RefLengths
         /\ AssignTheRoot => 1 \in DOMAIN roots /\ AssignRoot(1)
         /\ AllocateChild => Request(BIN, childSize(i)) /\ childSize(i) \in BinLengths
         /\ ReturnFromGc => PopRoot
<1>1. /\ EnterGc => PushRoot(Null) /\ bench = "gc"
      /\ AllocateRoot => Request(REF, ROOT_SIZE) /\ ROOT_SIZE \in RefLengths /\ bench = "gc"
      /\ AssignTheRoot => AssignRoot(1) /\ bench = "gc" /\ pc = "rooting"
      /\ ReturnFromGc => PopRoot /\ bench = "gc"
  BY BenchAssumption DEF EnterGc, AllocateRoot, AssignTheRoot, ReturnFromGc
<1>2. AllocateChild => Request(BIN, childSize(i)) /\ childSize(i) \in BinLengths /\ bench = "gc"
  <2>1. i \in Nat
    BY DEF BlocksInv
  <2> QED BY <2>1, SizeFacts DEF AllocateChild
<1>3. AssignTheRoot => 1 \in DOMAIN roots
  BY <1>1, RootIsThere DEF AssignRoot
<1>4. heap' = heap /\ phase = "mutator" /\ phase' = "mutator"
  BY <1>1, <1>2 DEF PushRoot, Request, AssignRoot, PopRoot, InMutator, collector
<1>5. Identities' = Identities
  BY <1>4 DEF Identities, IdsOf
<1> QED BY <1>1, <1>2, <1>3, <1>4, <1>5

LEMMA GcStepTable ==
  ASSUME IInv, SeenInv, BlocksInv, TableInv,
         EnterGc \/ AllocateRoot \/ AssignTheRoot \/ AllocateChild \/ ReturnFromGc
  PROVE  IInv' /\ SeenInv' /\ TableInv' /\ TableStep
<1>1. GraphInv
  BY GraphIsSeen
<1>2. IInv'
  <2>1. Program
    BY <1>1, GcStepIsProgram DEF Program
  <2> QED BY <2>1, ProgramKeeps
<1>3. Identities' = Identities
  BY <1>1, GcStepIsProgram
<1>4. REF # BIN
  BY DEF REF, BIN
<1>5. CASE EnterGc
  <2>1. PushRoot(Null)
    BY <1>5 DEF EnterGc
  <2>2. SeenInv' /\ Graph!PushRoot(IdAt(Seen.heap, Null))
    BY <1>2, <2>1, PushRootSeen
  <2>3. IdAt(Seen.heap, Null) = 0
    BY IdFacts DEF SeenInv
  <2> QED BY <1>2, <1>3, <1>5, <2>2, <2>3, EnterGcTable
<1>6. CASE AllocateRoot \/ AllocateChild
  <2>1. SeenInv' /\ Graph!Call
    BY <1>1, <1>2, <1>4, <1>6, GcStepIsProgram, RequestSeen
  <2>2. GraphInv'
    BY <1>2, <2>1, GraphIsSeenAfter
  <2> QED BY <1>1, <1>2, <1>3, <1>6, <2>1, <2>2, CallTable
<1>7. CASE AssignTheRoot
  <2>1. SeenInv' /\ Graph!AssignRoot(1)
    BY <1>1, <1>2, <1>7, GcStepIsProgram, AssignRootSeen
  <2>2. GraphInv'
    BY <1>2, <2>1, GraphIsSeenAfter
  <2> QED BY <1>1, <1>2, <1>3, <1>7, <2>1, <2>2, AssignTheRootTable
<1>8. CASE ReturnFromGc
  <2>1. SeenInv' /\ Graph!PopRoot
    BY <1>1, <1>2, <1>8, GcStepIsProgram, PopRootSeen
  <2> QED BY <1>2, <1>3, <1>8, <2>1, ReturnFromGcTable
<1> QED BY <1>5, <1>6, <1>7, <1>8

LEMMA StoreChildTable ==
  ASSUME IInv, SeenInv, BlocksInv, TableInv, StoreChild
  PROVE  IInv' /\ SeenInv' /\ TableInv' /\ TableStep
<1>1. /\ bench = "gc" /\ pc = "child" /\ Store(1, index(i) + 1) /\ InMutator
      /\ i' = i + 1 /\ pc' = "loop" /\ UNCHANGED <<bench, made>>
  BY DEF StoreChild, Store
<1>2. GraphInv
  BY GraphIsSeen
<1>3. 1 \in DOMAIN roots /\ index(i) + 1 \in 1 .. MaxLength
  BY <1>1, <1>2, RootIsThere, SizeFacts DEF BlocksInv
<1>4. IInv'
  BY <1>1, <1>3, StoreKeeps
<1>5. SeenInv' /\ Graph!Store(1, index(i) + 1)
  BY <1>1, <1>3, <1>4, StoreSeen
<1>6. GraphInv'
  BY <1>4, <1>5, GraphIsSeenAfter
<1>7. Identities' = Identities
  <2>1. heap' = [heap EXCEPT ![roots[1]].slots[index(i) + 1] = native]
    BY <1>1 DEF Store
  <2>2. DOMAIN heap' = DOMAIN heap /\ \A a \in DOMAIN heap : heap'[a].id = heap[a].id
    <3>1. IsHeap(heap)
      BY DEF IInv, TypeInv
    <3>2. \A a \in DOMAIN heap : IsArray(heap[a])
      BY <3>1 DEF IsHeap
    <3>3. heap' = [heap EXCEPT ![roots[1]] =
                       [heap[roots[1]] EXCEPT !.slots = [heap[roots[1]].slots EXCEPT ![index(i) + 1] = native]]]
      BY <2>1
    <3>4. \A x, s : IsArray(x) => [x EXCEPT !.slots = s].id = x.id
      BY DEF IsArray
    <3> QED BY <3>1, <3>2, <3>3, <3>4 DEF IsHeap
  <2> QED BY <2>2 DEF Identities, IdsOf
<1> QED BY <1>1, <1>2, <1>4, <1>5, <1>6, <1>7, StoreTable

\* The steps inside of an allocation, when gc_bench does not run: there are none
\* then, but nothing about the table depends on it.
LEMMA NotedBesides ==
  ASSUME SeenInv, SeenInv', bench # "gc", NoteMade
  PROVE  TableInv' /\ TableStep
<1>1. UNCHANGED <<bench, i, cells>>
  BY DEF NoteMade
<1>2. SeenTable' = SeenTable
  BY <1>1, TableSeen, After DEF MallocTable
<1> QED BY <1>1, <1>2 DEF TableInv, TableStep

LEMMA InsideTable ==
  ASSUME IInv, SeenInv, TableInv, InsideAllocate
  PROVE  IInv' /\ SeenInv' /\ TableInv' /\ TableStep
<1>1. GraphInv /\ NoteMade
  BY GraphIsSeen DEF InsideAllocate
<1>2. IInv'
  BY NextKeeps DEF InsideAllocate, Next
<1>3. CASE Allocate
  <2>1. SeenInv' /\ GotNewArray
    BY <1>2, <1>3, AllocateSeen
  <2>2. GraphInv'
    BY <1>2, <2>1, GraphIsSeenAfter
  <2> QED BY <1>1, <1>2, <2>1, <2>2, GotNewTable, NotedBesides
<1>4. CASE AllocationFails
  <2>1. /\ phase = "mutator" /\ request # {} /\ request' = {}
        /\ UNCHANGED <<heap, roots, native, phase>>
    BY <1>4 DEF AllocationFails, collector
  <2>2. SeenInv' /\ Graph!Fail
    BY <2>1, NothingPlacedSeen
  <2>3. GraphInv'
    BY <1>2, <2>2, GraphIsSeenAfter
  <2>4. NativeId = 0
    <3>1. native = Null
      BY <2>1 DEF IInv, RequestInv
    <3> QED BY <3>1, IdFacts DEF SeenInv, NativeId
  <2>5. Identities' = Identities
    BY <2>1 DEF Identities, IdsOf
  <2> QED BY <1>1, <1>2, <2>2, <2>3, <2>4, <2>5, FailedTable, NotedBesides
<1>5. CASE Collect
  <2>1. SeenInv' /\ UNCHANGED Graph!vars
    BY <1>2, <1>5, CollectSeen
  <2>2. GraphInv'
    BY <1>2, <2>1, GraphIsSeenAfter
  <2> QED BY <1>1, <1>2, <2>1, <2>2, UnseenTable, NotedBesides
<1> QED BY <1>3, <1>4, <1>5 DEF InsideAllocate

LEMMA TableInitially == BenchInit => IInv /\ SeenInv /\ TableInv /\ Table!Begin
<1> SUFFICES ASSUME BenchInit PROVE IInv /\ SeenInv /\ TableInv /\ Table!Begin
  OBVIOUS
<1>1. /\ IInv /\ SeenInv /\ Graph!Init
      /\ bench = "gc" /\ pc = "enter" /\ i = 0 /\ made = <<>> /\ heap = <<>>
  BY Initially, InitiallySeen DEF BenchInit, Init
<1>2. RootIds = <<>>
  BY <1>1 DEF Graph!Init, RootIds, IdList
<1>3. DOMAIN made = Identities
  BY <1>1 DEF Identities, IdsOf
<1>4. TableInv
  BY <1>1, <1>2, <1>3 DEF TableInv
<1>5. SeenTable = Table!Empty
  BY <1>1, <1>2, TableSeen, NoTable
<1> QED BY <1>1, <1>4, <1>5 DEF Table!Begin

LEMMA BenchKeepsTable ==
  IInv /\ SeenInv /\ BlocksInv /\ TableInv /\ [BenchNext]_all
    => IInv' /\ SeenInv' /\ TableInv' /\ [Table!Next]_<<SeenTable, i>>
<1> SUFFICES ASSUME IInv, SeenInv, BlocksInv, TableInv, [BenchNext]_all
             PROVE  IInv' /\ SeenInv' /\ TableInv' /\ TableStep
  BY DEF TableStep
<1>1. CASE EnterGc \/ AllocateRoot \/ AssignTheRoot \/ AllocateChild \/ ReturnFromGc
  BY <1>1, GcStepTable
<1>2. CASE StoreChild
  BY <1>2, StoreChildTable
<1>3. CASE InsideAllocate
  BY <1>3, InsideTable
<1>4. ASSUME UNCHANGED vars PROVE IInv' /\ SeenInv'
  <2>1. [Next]_vars
    BY <1>4
  <2>2. IInv'
    BY <2>1, NextKeeps
  <2> QED BY <2>1, <2>2, NextSeen
<1>5. CASE MallocBench
  <2>1. UNCHANGED vars
    BY <1>5 DEF MallocBench, EnterMalloc, IterateMalloc, DereferenceNull, ReturnFromMalloc
  <2> QED BY <1>4, <1>5, <2>1, MallocTableStep
<1>6. CASE UNCHANGED all
  BY <1>6, <1>4, NoStepTable DEF all
<1>7. \/ EnterGc \/ AllocateRoot \/ AssignTheRoot \/ AllocateChild \/ ReturnFromGc
      \/ StoreChild \/ InsideAllocate \/ MallocBench \/ UNCHANGED all
  BY DEF BenchNext, GcBench, Done
<1> QED BY <1>1, <1>2, <1>3, <1>5, <1>6, <1>7

\* The table of gc_bench and that of malloc_bench hold the same children at each
\* step, whatever the collector frees and moves in between.
THEOREM BothBenchmarksFillOneTable == BenchSpec => SameTable
BY TableInitially, BlocksInitially, BenchKeepsTable, BenchKeepsBlocks, PTL
   DEF BenchSpec, SameTable, Table!Spec

-----------------------------------------------------------------------------
(* How much memory gc_bench needs.                                         *)

TableSize    == Granules(AllocationSize(REF, ROOT_SIZE))
ChildLengths == 0 .. MAX_CHILD_SIZE - 1

\* No child is bigger than that.
ChildrenWithin(size) == \A n \in ChildLengths : Granules(AllocationSize(BIN, n)) <= size

\* A table and the children in it leave room for one more child: in a build
\* that compacts, in what is left of the heap; else in one of the holes
\* before, between and behind them.
EnoughMemory ==
    \E size \in Nat :
        /\ ChildrenWithin(size)
        /\ \/ Compacting /\ TableSize + ROOT_SIZE * size + size <= HeapSize
           \/ TableSize + ROOT_SIZE * size + (ROOT_SIZE + 2) * (size - 1) < HeapSize

RootWord   == InitializedWord(REF, ROOT_SIZE)
ChildWords == {InitializedWord(BIN, n) : n \in ChildLengths}

IsChild(memory, a) == a \in DOMAIN memory /\ memory[a].word \in ChildWords

\* Tables refer to children, which refer to nothing.
Flat(memory) ==
    \A a \in DOMAIN memory :
        /\ memory[a].word \in ChildWords \cup {RootWord}
        /\ \A k \in DOMAIN memory[a].slots :
              memory[a].slots[k] = Null \/ IsChild(memory, memory[a].slots[k])

SpaceInv ==
    /\ Flat(Seen.heap)
    /\ request # {} => pc \in {"rooting", "child"}
    /\ pc = "rooting" => \A r \in request : r.kind = REF /\ r.length = ROOT_SIZE
    /\ pc = "child" => \A r \in request : r.kind = BIN /\ r.length \in ChildLengths
    /\ pc \in {"rooting", "child"} => bench = "gc" /\ (InMutator => native # Null)
    /\ pc = "child" /\ InMutator => IsChild(heap, native)

-----------------------------------------------------------------------------
(* Counting.                                                               *)

LEMMA SpaceSizes ==
  /\ TableSize \in Nat \ {0} /\ ROOT_SIZE \in Nat \ {0}
  /\ \A n \in ChildLengths : Granules(AllocationSize(BIN, n)) \in Nat \ {0}
  /\ ChildLengths # {}
<1>1. ROOT_SIZE \in Nat \ {0} /\ REF \in Kinds /\ BIN \in Kinds
  BY SizeFacts DEF Kinds
<1>2. ChildLengths \subseteq Nat /\ ChildLengths # {}
  <2>1. MAX_CHILD_SIZE \in Nat \ {0}
    BY BenchAssumption
  <2>2. 0 \in ChildLengths
    BY <2>1 DEF ChildLengths
  <2> QED BY <2>1, <2>2 DEF ChildLengths
<1> QED BY <1>1, <1>2, SomeGranules DEF TableSize

\* A table and some children, each with the granules before it in which a
\* request of size c would run into it, cover no more than so many granules.
LEMMA Covered ==
  ASSUME NEW h \in Nat, NEW c \in Nat \ {0}, NEW n \in Nat, NEW size \in Nat, NEW table \in Nat,
         NEW p \in Nat, NEW f \in [1 .. n -> Nat],
         \A a \in 1 .. h : \/ p - c < a /\ a < p + table
                           \/ \E k \in 1 .. n : f[k] - c < a /\ a < f[k] + size
  PROVE  h <= (table + c - 1) + n * (size + c - 1)
<1> DEFINE w == size + c - 1
           K == (1 .. n) \X (1 .. w)
           g == [x \in K |-> f[x[1]] - c + x[2]]
           A == p - c + 1 .. p + table - 1
           B == {g[x] : x \in K}
<1>1. w \in Nat
  OBVIOUS
<1>2. IsFiniteSet(1 .. n) /\ Cardinality(1 .. n) = n
  BY FS_Interval
<1>3. IsFiniteSet(1 .. w) /\ Cardinality(1 .. w) = w
  <2>1. 1 \in Int /\ w \in Int
    BY <1>1
  <2> HIDE DEF w
  <2> QED BY <1>1, <2>1, FS_Interval
<1>4. IsFiniteSet(K) /\ Cardinality(K) = n * w
  <2>1. PICK S, T : S = 1 .. n /\ T = 1 .. w
    OBVIOUS
  <2>2. IsFiniteSet(S \X T) /\ Cardinality(S \X T) = Cardinality(S) * Cardinality(T)
    BY <1>2, <1>3, <2>1, FS_Product
  <2> HIDE DEF w
  <2> QED BY <1>2, <1>3, <2>1, <2>2
<1>5. IsFiniteSet(B) /\ Cardinality(B) <= Cardinality(K)
  <2>1. g \in Surjection(K, B)
    BY DEF Surjection
  <2> HIDE DEF g, K, B
  <2> QED BY <1>4, <2>1, FS_Surjection
<1>6. IsFiniteSet(A) /\ Cardinality(A) = table + c - 1
  <2>1. PICK l, u \in Int : l = p - c + 1 /\ u = p + table - 1
    OBVIOUS
  <2>2. IsFiniteSet(l .. u) /\ Cardinality(l .. u) = IF l > u THEN 0 ELSE u - l + 1
    BY <2>1, FS_Interval
  <2>3. (IF l > u THEN 0 ELSE u - l + 1) = table + c - 1
    BY <2>1
  <2> QED BY <2>1, <2>2, <2>3
<1>7. 1 .. h \subseteq A \cup B
  <2> SUFFICES ASSUME NEW a \in 1 .. h, a \notin A PROVE a \in B
    OBVIOUS
  <2>1. PICK k \in 1 .. n : f[k] - c < a /\ a < f[k] + size
    <3>1. ~(p - c < a /\ a < p + table)
      OBVIOUS
    <3> QED BY <3>1
  <2>2. f[k] \in Nat
    OBVIOUS
  <2>3. PICK j \in 1 .. w : j = a - f[k] + c
    <3>1. PICK y \in Nat : y = f[k]
      BY <2>2
    <3>2. y - c < a /\ a < y + size
      BY <2>1, <3>1
    <3>3. a - y + c \in 1 .. w
      BY <3>1, <3>2
    <3> QED BY <3>1, <3>3
  <2>4. <<k, j>> \in K /\ g[<<k, j>>] = f[k] - c + j
    BY <2>3
  <2>5. g[<<k, j>>] = a
    BY <2>2, <2>3, <2>4
  <2> HIDE DEF K, g
  <2> QED BY <2>4, <2>5
<1>8. IsFiniteSet(1 .. h) /\ Cardinality(1 .. h) = h
  BY FS_Interval
<1> HIDE DEF A, B, K
<1>9. /\ IsFiniteSet(A \cup B) /\ Cardinality(1 .. h) <= Cardinality(A \cup B)
      /\ Cardinality(A \cup B) = Cardinality(A) + Cardinality(B) - Cardinality(A \cap B)
      /\ Cardinality(A \cap B) \in Nat
  <2>1. /\ IsFiniteSet(A \cup B)
        /\ Cardinality(A \cup B) = Cardinality(A) + Cardinality(B) - Cardinality(A \cap B)
    BY <1>5, <1>6, FS_Union
  <2>2. Cardinality(1 .. h) <= Cardinality(A \cup B)
    BY <1>7, <2>1, FS_Subset
  <2>3. Cardinality(A \cap B) \in Nat
    BY <1>6, FS_Intersection, FS_CardinalityType
  <2> QED BY <2>1, <2>2, <2>3
<1>10. n * w \in Nat
  BY <1>1
<1>11. Cardinality(B) \in Nat
  BY <1>5, FS_CardinalityType
<1>12. PICK cb, cab \in Nat : cb = Cardinality(B) /\ cab = Cardinality(A \cap B)
  BY <1>9, <1>11
<1>13. PICK m \in Nat : m = n * w
  BY <1>10
<1>14. h <= (table + c - 1) + m
  BY <1>4, <1>5, <1>6, <1>8, <1>9, <1>12, <1>13
<1> QED BY <1>13, <1>14

LEMMA WordSizes ==
  ASSUME NEW x, IsArray(x), NEW size \in Nat, ChildrenWithin(size)
  PROVE  /\ x.word = RootWord => SizeOf(x) = TableSize /\ x.slots \in [1 .. ROOT_SIZE -> Refs]
         /\ x.word \in ChildWords => SizeOf(x) <= size /\ DOMAIN x.slots = {}
<1>1. /\ x.slots \in [IF HeaderKind(x.word) = REF THEN 1 .. HeaderLength(x.word) ELSE {} -> Refs]
      /\ SizeOf(x) = Granules(SizeOfWord(x.word))
  BY ArrayFacts DEF SizeOf, ObjectSizeWithHeader
<1>2. /\ ROOT_SIZE \in Nat /\ Narrow(ROOT_SIZE) = ROOT_SIZE
      /\ REF \in Kinds /\ BIN \in Kinds /\ REF # BIN
  <2>1. ROOT_SIZE \in 0 .. LenMod - 1 /\ LenMod \in Nat
    BY BenchAssumption, HeapAssumption, LayoutAssumption DEF Length
  <2> QED BY <2>1, ModSmall DEF Narrow, Kinds, REF, BIN
<1>3. ASSUME x.word = RootWord
      PROVE  SizeOf(x) = TableSize /\ x.slots \in [1 .. ROOT_SIZE -> Refs]
  <2>1. /\ HeaderKind(x.word) = REF /\ HeaderLength(x.word) = ROOT_SIZE
        /\ SizeOfWord(x.word) = AllocationSize(REF, ROOT_SIZE)
    BY <1>2, <1>3, InitializedFields DEF RootWord
  <2> QED BY <1>1, <2>1 DEF TableSize
<1>4. ASSUME x.word \in ChildWords
      PROVE  SizeOf(x) <= size /\ DOMAIN x.slots = {}
  <2>1. PICK n \in ChildLengths : x.word = InitializedWord(BIN, n)
    BY <1>4 DEF ChildWords
  <2>2. n \in Nat
    BY DEF ChildLengths
  <2>3. HeaderKind(x.word) = BIN /\ SizeOfWord(x.word) = AllocationSize(BIN, n)
    BY <1>2, <2>1, <2>2, InitializedFields
  <2> QED BY <1>1, <1>2, <2>3 DEF ChildrenWithin
<1> QED BY <1>3, <1>4

\* What a table reaches is itself and the children in it.
LEMMA TableAndChildren ==
  ASSUME NEW memory, IsHeap(memory), Flat(memory), NEW p \in Nat,
         DOMAIN memory = Reachable(memory, {p}),
         NEW size \in Nat, ChildrenWithin(size)
  PROVE  \E f \in [1 .. ROOT_SIZE -> Nat] : \A x \in DOMAIN memory :
            \/ x = p /\ SizeOf(memory[x]) <= TableSize
            \/ SizeOf(memory[x]) <= size /\ \E k \in 1 .. ROOT_SIZE : x = f[k]
<1>1. \A S \in SUBSET DOMAIN memory :
         {p} \cap DOMAIN memory \subseteq S /\ Closed(memory, S) => DOMAIN memory \subseteq S
  BY ReachableFacts
<1>2. \A a \in DOMAIN memory : IsArray(memory[a]) /\ a \in Nat
  BY AddressFacts DEF IsHeap
<1>3. ROOT_SIZE \in Nat \ {0} /\ TableSize \in Nat
  BY SpaceSizes
<1>4. \A a \in DOMAIN memory : DOMAIN memory[a].slots = {} => Edges(memory, a) = {}
  BY DEF Edges, Range
<1>5. CASE p \notin DOMAIN memory
  <2>1. Closed(memory, {})
    BY DEF Closed
  <2>2. DOMAIN memory = {}
    BY <1>1, <1>5, <2>1
  <2>3. [k \in 1 .. ROOT_SIZE |-> 0] \in [1 .. ROOT_SIZE -> Nat]
    OBVIOUS
  <2> QED BY <2>2, <2>3
<1>6. CASE p \in DOMAIN memory /\ memory[p].word \in ChildWords
  <2>1. SizeOf(memory[p]) <= size /\ DOMAIN memory[p].slots = {}
    BY <1>2, <1>6, WordSizes
  <2>2. Closed(memory, {p})
    BY <1>4, <1>6, <2>1 DEF Closed
  <2>3. DOMAIN memory \subseteq {p}
    BY <1>1, <1>6, <2>2
  <2>4. PICK f \in [1 .. ROOT_SIZE -> Nat] : f = [k \in 1 .. ROOT_SIZE |-> p]
    OBVIOUS
  <2>5. 1 \in 1 .. ROOT_SIZE /\ f[1] = p
    BY <1>3, <2>4
  <2> QED BY <2>1, <2>3, <2>5
<1>7. CASE p \in DOMAIN memory /\ memory[p].word = RootWord
  <2>1. SizeOf(memory[p]) = TableSize /\ memory[p].slots \in [1 .. ROOT_SIZE -> Refs]
    BY <1>2, <1>7, WordSizes
  <2>2. PICK f \in [1 .. ROOT_SIZE -> Nat] : f = memory[p].slots
    BY <2>1, AddressFacts
  <2> DEFINE S == {p} \cup {x \in DOMAIN memory : x \in Range(f) \ {Null}}
  <2>3. \A x \in Range(f) \ {Null} : IsChild(memory, x)
    BY <1>7, <2>1, <2>2 DEF Flat, Range
  <2>4. \A x \in S \ {p} : /\ SizeOf(memory[x]) <= size /\ DOMAIN memory[x].slots = {}
                           /\ \E k \in 1 .. ROOT_SIZE : x = f[k]
    <3> SUFFICES ASSUME NEW x \in S \ {p}
                 PROVE  /\ SizeOf(memory[x]) <= size /\ DOMAIN memory[x].slots = {}
                        /\ \E k \in 1 .. ROOT_SIZE : x = f[k]
      OBVIOUS
    <3>1. x \in DOMAIN memory /\ memory[x].word \in ChildWords /\ x \in Range(f)
      BY <2>3 DEF IsChild
    <3>2. IsArray(memory[x])
      BY <1>2, <3>1
    <3>3. \E k \in 1 .. ROOT_SIZE : x = f[k]
      BY <3>1 DEF Range
    <3> QED BY <3>1, <3>2, <3>3, WordSizes
  <2>5. Closed(memory, S)
    <3> SUFFICES ASSUME NEW a \in S PROVE Edges(memory, a) \cap DOMAIN memory \subseteq S
      BY DEF Closed
    <3>1. CASE a = p
      BY <2>2, <3>1 DEF Edges
    <3>2. CASE a # p
      BY <1>4, <2>4, <3>2
    <3> QED BY <3>1, <3>2
  <2>6. S \in SUBSET DOMAIN memory
    BY <1>7
  <2> HIDE DEF S
  <2>7. DOMAIN memory \subseteq S
    <3>1. p \in S
      BY DEF S
    <3> QED BY <1>1, <2>5, <2>6, <3>1
  <2>8. \A x \in DOMAIN memory : x = p \/ x \in S \ {p}
    BY <2>7
  <2>9. SizeOf(memory[p]) <= TableSize
    BY <1>3, <2>1
  <2> QED BY <2>4, <2>8, <2>9
<1> QED BY <1>5, <1>6, <1>7 DEF Flat

\* With room for a table and its children there is room for one more child...
LEMMA RoomForChild ==
  ASSUME EnoughMemory, TypeInv, Flat(heap), NEW p \in Nat, Collected(heap, roots), Range(roots) = {p},
         NEW n \in ChildLengths
  PROVE  Holes(Granules(AllocationSize(BIN, n))) # {}
<1>1. PICK size \in Nat :
        /\ ChildrenWithin(size)
        /\ \/ Compacting /\ TableSize + ROOT_SIZE * size + size <= HeapSize
           \/ TableSize + ROOT_SIZE * size + (ROOT_SIZE + 2) * (size - 1) < HeapSize
  BY DEF EnoughMemory
<1>2. PICK c \in Nat \ {0} : c = Granules(AllocationSize(BIN, n))
  BY SpaceSizes
<1>3. c <= size
  BY <1>1, <1>2 DEF ChildrenWithin
<1>4. IsHeap(heap) /\ DOMAIN heap = Reachable(heap, {p})
  BY DEF TypeInv, Collected
<1>5. PICK f \in [1 .. ROOT_SIZE -> Nat] : \A x \in DOMAIN heap :
         \/ x = p /\ SizeOf(heap[x]) <= TableSize
         \/ SizeOf(heap[x]) <= size /\ \E k \in 1 .. ROOT_SIZE : x = f[k]
  BY <1>1, <1>4, TableAndChildren
<1>6. \A x \in DOMAIN heap : /\ x \in Nat /\ SizeOf(heap[x]) \in Nat
                             /\ \A g : g \in Extent(heap, x) <=> g \in Nat /\ x <= g /\ g < x + SizeOf(heap[x])
  BY <1>4, ExtentFacts
<1>7. PICK N \in Nat \ {0}, T \in Nat \ {0}, H \in Nat : N = ROOT_SIZE /\ T = TableSize /\ H = HeapSize
  BY SpaceSizes, AddressFacts
<1>8. ASSUME NEW x \in DOMAIN heap, NEW a \in Nat, NEW d \in Nat \ {0},
             x - d < a, a < x + SizeOf(heap[x])
      PROVE  \/ p - d < a /\ a < p + T
             \/ \E k \in 1 .. N : f[k] - d < a /\ a < f[k] + size
  <2>1. x \in Nat /\ SizeOf(heap[x]) \in Nat
    BY <1>6
  <2>2. CASE x = p /\ SizeOf(heap[x]) <= TableSize
    BY <1>7, <1>8, <2>1, <2>2
  <2>3. ASSUME NEW k \in 1 .. N, SizeOf(heap[x]) <= size, x = f[k]
        PROVE  f[k] - d < a /\ a < f[k] + size
    BY <1>8, <2>1, <2>3
  <2> QED BY <1>5, <1>7, <2>2, <2>3
<1>9. N * size \in Nat /\ size <= N * size
  <2>1. PICK m \in Nat : m = N - 1
    OBVIOUS
  <2>2. m * size \in Nat /\ N * size = m * size + size
    BY <2>1
  <2> QED BY <2>2
<1>10. CASE Compacting /\ T + N * size + size <= H
  <2>1. PICK top \in 1 .. H + 1 : InUseUpTo(heap, top)
    BY <1>7, <1>10 DEF Collected
  <2>2. ASSUME NEW a \in 1 .. top - 1
        PROVE  \/ p - 1 < a /\ a < p + T
               \/ \E k \in 1 .. N : f[k] - 1 < a /\ a < f[k] + size
    <3>1. PICK x \in DOMAIN heap : a \in Extent(heap, x)
      BY <2>1 DEF InUseUpTo
    <3>2. x - 1 < a /\ a < x + SizeOf(heap[x]) /\ a \in Nat
      BY <1>6, <3>1
    <3> QED BY <1>8, <3>2
  <2>3. PICK h \in Nat : h = top - 1
    OBVIOUS
  <2>4. h <= (T + 1 - 1) + N * (size + 1 - 1)
    <3>1. PICK d \in Nat \ {0} : d = 1
      OBVIOUS
    <3>2. \A a \in 1 .. h : \/ p - d < a /\ a < p + T
                            \/ \E k \in 1 .. N : f[k] - d < a /\ a < f[k] + size
      BY <2>2, <2>3, <3>1
    <3>3. h <= (T + d - 1) + N * (size + d - 1)
      BY <1>7, <3>2, Covered
    <3> QED BY <3>1, <3>3
  <2>5. h <= T + N * size
    <3>1. size + 1 - 1 = size /\ T + 1 - 1 = T
      OBVIOUS
    <3> QED BY <2>4, <3>1
  <2>6. top + c <= H + 1
    <3>1. PICK m \in Nat : m = N * size
      BY <1>9
    <3> QED BY <1>3, <1>10, <2>3, <2>5, <3>1
  <2>7. Span(top, c) \cap InUse(heap) = {}
    <3> SUFFICES ASSUME NEW g \in Span(top, c), g \in InUse(heap) PROVE FALSE
      OBVIOUS
    <3>1. PICK x \in DOMAIN heap : g \in Extent(heap, x)
      BY InUseFacts
    <3>2. x + SizeOf(heap[x]) <= top
      BY <2>1 DEF InUseUpTo
    <3> QED BY <1>6, <3>1, <3>2 DEF Span
  <2>8. top \in Holes(c)
    <3>1. top \in 1 .. HeapSize + 1 - c
      BY <1>7, <2>6
    <3> QED BY <2>7, <3>1 DEF Holes
  <2> QED BY <1>2, <2>8
<1>11. CASE T + N * size + (N + 2) * (size - 1) < H
  <2> SUFFICES ASSUME Holes(c) = {} PROVE FALSE
    BY <1>2
  <2>1. PICK s \in Nat, d \in Nat : s = size - 1 /\ d = c - 1
    BY <1>3
  <2>2. N * s \in Nat /\ (N + 2) * s = N * s + 2 * s
    BY <2>1
  <2>3. N * d \in Nat /\ N * d <= N * s
    <3>1. PICK e \in Nat : s = d + e
      <4>1. s - d \in Nat /\ s = d + (s - d)
        BY <1>3, <2>1
      <4> QED BY <4>1
    <3>2. N * s = N * d + N * e /\ N * e \in Nat /\ N * d \in Nat
      BY <3>1
    <3> QED BY <3>2
  <2>4. PICK h \in Nat : h + d = H
    <3>1. PICK ms, ns \in Nat : ms = N * size /\ ns = N * s
      BY <1>9, <2>2
    <3>2. H - d \in Nat
      BY <1>3, <1>9, <1>11, <2>1, <2>2, <3>1
    <3> QED BY <3>2
  <2>5. ASSUME NEW a \in 1 .. h
        PROVE  \/ p - c < a /\ a < p + T
               \/ \E k \in 1 .. N : f[k] - c < a /\ a < f[k] + size
    <3>1. a \in 1 .. HeapSize + 1 - c
      BY <1>7, <2>1, <2>4
    <3>2. PICK g \in Span(a, c) : g \in InUse(heap)
      BY <3>1 DEF Holes
    <3>3. PICK x \in DOMAIN heap : g \in Extent(heap, x)
      BY <3>2, InUseFacts
    <3>4. x - c < a /\ a < x + SizeOf(heap[x]) /\ a \in Nat
      BY <1>6, <3>3 DEF Span
    <3> QED BY <1>8, <3>4
  <2>6. h <= (T + c - 1) + N * (size + c - 1)
    <3> HIDE DEF TableSize
    <3> QED BY <1>7, <2>5, Covered
  <2>7. size + c - 1 = size + d /\ N * (size + d) = N * size + N * d
    BY <2>1
  <2>8. PICK ms, ns, nd \in Nat : ms = N * size /\ ns = N * s /\ nd = N * d
    BY <1>9, <2>2, <2>3
  <2>9. h <= (T + d) + (ms + nd)
    BY <2>1, <2>6, <2>7, <2>8
  <2>10. T + ms + (ns + 2 * s) < H
    BY <1>11, <2>1, <2>2, <2>8
  <2>11. nd <= ns /\ d <= s
    BY <1>3, <2>1, <2>3, <2>8
  <2> QED BY <2>4, <2>9, <2>10, <2>11
<1> QED BY <1>1, <1>7, <1>10, <1>11

\* ...and for the table itself, when nothing else is reachable.
LEMMA RoomForTable ==
  ASSUME EnoughMemory, DOMAIN heap = {}
  PROVE  Holes(TableSize) # {}
<1>1. PICK size \in Nat :
        /\ ChildrenWithin(size)
        /\ \/ Compacting /\ TableSize + ROOT_SIZE * size + size <= HeapSize
           \/ TableSize + ROOT_SIZE * size + (ROOT_SIZE + 2) * (size - 1) < HeapSize
  BY DEF EnoughMemory
<1>2. PICK N \in Nat \ {0}, T \in Nat \ {0}, H \in Nat : N = ROOT_SIZE /\ T = TableSize /\ H = HeapSize
  BY SpaceSizes, AddressFacts
<1>3. size \in Nat \ {0}
  BY <1>1, SpaceSizes DEF ChildrenWithin
<1>4. PICK ms, ns \in Nat : ms = N * size /\ ns = (N + 2) * (size - 1)
  <2>1. size - 1 \in Nat /\ N + 2 \in Nat
    BY <1>3
  <2> QED BY <2>1
<1>5. T <= H
  BY <1>1, <1>2, <1>4
<1>6. InUse(heap) = {}
  BY DEF InUse
<1>7. 1 \in Holes(T)
  BY <1>2, <1>5, <1>6 DEF Holes
<1> QED BY <1>2, <1>7

-----------------------------------------------------------------------------
(* The invariant.                                                          *)

\* A step that allocates nothing, and after which nothing is being allocated.
LEMMA SpaceKept ==
  ASSUME SpaceInv, Seen'.heap = Seen.heap, request' = {}, pc' \notin {"rooting", "child"}
  PROVE  SpaceInv'
BY DEF SpaceInv

\* Nothing that a collection leaves has become anything else.
LEMMA CollectKeepsFlat ==
  ASSUME IInv, Flat(Seen.heap), Collect
  PROVE  Flat(Seen'.heap)
<1>1. CASE StartCollection
  <2>1. Seen'.heap = heap /\ Seen.heap = heap
    BY <1>1 DEF StartCollection, Seen
  <2> QED BY <2>1
<1>2. CASE Mark \/ Slide \/ StartFixup \/ FixSlots \/ (Sweep /\ Compacting)
  <2>1. phase # "mutator" /\ phase' # "mutator" /\ stopped' = stopped
    BY <1>2 DEF Mark, Slide, StartFixup, FixSlots, Sweep, Compacts, CompactionPrevented
  <2> QED BY <2>1 DEF Seen
<1>3. CASE Sweep /\ ~Compacting
  <2>1. /\ phase = "mark" /\ grey = {} /\ phase' = "mutator" /\ heap' = Restrict(heap, marked)
    BY <1>3 DEF Sweep, Compacts, CompactionPrevented
  <2>2. /\ Seen'.heap = heap' /\ Seen.heap = heap
    BY <2>1 DEF Seen, IInv, MarkInv
  <2>3. marked \in SUBSET DOMAIN heap /\ \A a \in marked : RefersInto(heap[a], marked)
    BY <2>1, ReachableFacts DEF IInv, MarkInv
  <2>4. DOMAIN heap' = marked /\ \A a \in marked : heap'[a] = heap[a]
    BY <2>1, <2>3, RestrictedHeap DEF IInv, TypeInv
  <2> QED BY <2>2, <2>3, <2>4 DEF Flat, IsChild, RefersInto
<1>4. CASE FinishCompaction
  <2>1. /\ phase = "fixup" /\ unfixed = {} /\ phase' = "mutator" /\ heap' = heap
    BY <1>4 DEF FinishCompaction
  <2>2. FixupInv /\ SurvivorsInv
    BY <2>1 DEF IInv, FixupInv
  <2>3. Seen'.heap = heap /\ Seen.heap = stopped.heap
    BY <2>1 DEF Seen
  <2>4. /\ Survivors = DOMAIN forward /\ DOMAIN heap = Range(forward)
        /\ DOMAIN forward \subseteq DOMAIN stopped.heap
        /\ \A a \in DOMAIN forward : heap[forward[a]] = FixedUp(stopped.heap[a])
    BY <2>1, <2>2, ReachableFacts DEF FixupInv, SurvivorsInv, Survivors
  <2>5. \A a \in DOMAIN forward : /\ RefersInto(stopped.heap[a], DOMAIN forward)
                                  /\ IsArray(stopped.heap[a])
    BY <2>2, <2>4 DEF SurvivorsInv, IsHeap
  <2>6. ASSUME NEW a \in DOMAIN forward
        PROVE  /\ heap[forward[a]].word = stopped.heap[a].word
               /\ heap[forward[a]].slots = [k \in DOMAIN stopped.heap[a].slots |->
                                               Forwarded(stopped.heap[a].slots[k])]
    <3>1. PICK x : x = stopped.heap[a]
      OBVIOUS
    <3>2. x = [word |-> x.word, slots |-> x.slots, id |-> x.id]
      <4>1. IsArray(x)
        BY <2>5, <3>1
      <4> QED BY <4>1 DEF IsArray
    <3>3. FixedUp(x).word = x.word /\ FixedUp(x).slots = [k \in DOMAIN x.slots |-> Forwarded(x.slots[k])]
      BY <3>2 DEF FixedUp
    <3> QED BY <2>4, <3>1, <3>3
  <2>7. ASSUME NEW a \in DOMAIN forward, NEW k \in DOMAIN stopped.heap[a].slots
        PROVE  LET s == Forwarded(stopped.heap[a].slots[k]) IN s = Null \/ IsChild(heap, s)
    <3>1. PICK s : s = stopped.heap[a].slots[k]
      OBVIOUS
    <3>2. s \in DOMAIN forward \cup {Null} /\ (s = Null \/ IsChild(stopped.heap, s))
      BY <2>3, <2>4, <2>5, <3>1 DEF RefersInto, Flat
    <3>3. CASE s = Null
      BY <3>1, <3>3 DEF Forwarded
    <3>4. CASE s # Null
      <4>1. forward[s] \in DOMAIN heap /\ heap[forward[s]].word = stopped.heap[s].word
        BY <2>4, <2>6, <3>2, <3>4 DEF Range
      <4> QED BY <3>1, <3>2, <3>4, <4>1 DEF IsChild, Forwarded
    <3> QED BY <3>3, <3>4
  <2>8. ASSUME NEW b \in DOMAIN heap
        PROVE  /\ heap[b].word \in ChildWords \cup {RootWord}
               /\ \A k \in DOMAIN heap[b].slots :
                     heap[b].slots[k] = Null \/ IsChild(heap, heap[b].slots[k])
    <3>1. PICK a \in DOMAIN forward : b = forward[a]
      BY <2>4 DEF Range
    <3>2. stopped.heap[a].word \in ChildWords \cup {RootWord}
      BY <2>3, <2>4 DEF Flat
    <3>3. PICK s : s = stopped.heap[a].slots
      OBVIOUS
    <3>4. heap[b].slots = [k \in DOMAIN s |-> Forwarded(s[k])]
      BY <2>6, <3>1, <3>3
    <3>5. \A k \in DOMAIN s : Forwarded(s[k]) = Null \/ IsChild(heap, Forwarded(s[k]))
      BY <2>7, <3>3
    <3> QED BY <2>6, <3>1, <3>2, <3>4, <3>5
  <2> QED BY <2>3, <2>8 DEF Flat
<1> QED BY <1>1, <1>2, <1>3, <1>4 DEF Collect

LEMMA CollectKeepsSpace ==
  ASSUME IInv, SpaceInv, Collect, NoteMade
  PROVE  SpaceInv'
<1>1. Flat(Seen'.heap)
  BY CollectKeepsFlat DEF SpaceInv
<1>2. UNCHANGED <<bench, pc>>
  BY DEF NoteMade
<1>3. request # {} /\ \A r \in request' : \E s \in request : r.kind = s.kind /\ r.length = s.length
  <2>1. CASE StartCollection
    <3>1. PICK r \in request : request' = {[r EXCEPT !.collected = TRUE]}
      BY <2>1 DEF StartCollection
    <3>2. PICK k, n, c : r = [kind |-> k, length |-> n, collected |-> c]
      BY DEF IInv, TypeInv, IsRequest
    <3>3. [r EXCEPT !.collected = TRUE].kind = r.kind /\ [r EXCEPT !.collected = TRUE].length = r.length
      BY <3>2
    <3> QED BY <3>1, <3>3
  <2>2. CASE ~StartCollection
    <3>1. phase # "mutator" /\ request' = request
      BY <2>2 DEF Collect, Mark, Sweep, Slide, StartFixup, FixSlots, FinishCompaction, mutator
    <3> QED BY <3>1 DEF IInv, RequestInv
  <2> QED BY <2>1, <2>2
<1>4. request' # {}
  BY <1>3 DEF Collect, StartCollection, Mark, Sweep, Slide, StartFixup, FixSlots, FinishCompaction, mutator
<1> QED BY <1>1, <1>2, <1>3, <1>4 DEF SpaceInv, InMutator

LEMMA AllocateKeepsSpace ==
  ASSUME IInv, SpaceInv, Allocate, NoteMade
  PROVE  SpaceInv'
<1>1. /\ phase = "mutator" /\ phase' = "mutator" /\ request # {} /\ request' = {}
      /\ UNCHANGED <<bench, pc>>
  BY DEF Allocate, collector, NoteMade
<1>2. PICK r \in request, a \in Address \ DOMAIN heap : PlacedFor(r, a)
  BY AllocateFacts
<1>3. PICK slots \in FreshSlots(r.kind, r.length) : heap' = Place(r, a, slots) /\ native' = a
  BY <1>2 DEF PlacedFor
<1>4. /\ DOMAIN heap' = DOMAIN heap \cup {a} /\ \A x \in DOMAIN heap : heap'[x] = heap[x]
      /\ heap'[a].word = InitializedWord(r.kind, r.length) /\ heap'[a].slots = slots
  BY <1>3 DEF Place
<1>5. /\ bench = "gc" /\ pc \in {"rooting", "child"} /\ Flat(heap)
      /\ pc = "rooting" => heap'[a].word = RootWord
      /\ pc = "child" => heap'[a].word \in ChildWords
  <2>1. bench = "gc" /\ pc \in {"rooting", "child"} /\ Flat(heap)
    BY <1>1, SeenFacts DEF SpaceInv
  <2>2. pc = "rooting" => r.kind = REF /\ r.length = ROOT_SIZE
    BY DEF SpaceInv
  <2>3. pc = "child" => r.kind = BIN /\ r.length \in ChildLengths
    BY DEF SpaceInv
  <2> QED BY <1>4, <2>1, <2>2, <2>3 DEF RootWord, ChildWords
<1>6. \A k \in DOMAIN slots : slots[k] = Null
  <2>1. CASE r.kind = REF
    <3>1. slots = [k \in 1 .. r.length |-> Null]
      BY <2>1 DEF FreshSlots, ZeroedSlots
    <3> QED BY <3>1
  <2>2. CASE r.kind # REF
    <3>1. slots = <<>> /\ DOMAIN slots = {}
      BY <2>2 DEF FreshSlots
    <3> QED BY <3>1
  <2> QED BY <2>1, <2>2
<1>7. Flat(heap')
  <2>1. \A x : IsChild(heap, x) => IsChild(heap', x)
    BY <1>4 DEF IsChild
  <2> QED BY <1>4, <1>5, <1>6, <2>1 DEF Flat
<1>8. Seen'.heap = heap'
  BY <1>1 DEF Seen
<1>9. native' # Null /\ (pc = "child" => IsChild(heap', native'))
  BY <1>3, <1>4, <1>5, AddressFacts DEF IsChild
<1> QED BY <1>1, <1>5, <1>7, <1>8, <1>9 DEF SpaceInv

LEMMA StoreKeepsSpace ==
  ASSUME IInv, SpaceInv, StoreChild, 1 \in DOMAIN roots
  PROVE  SpaceInv'
<1> DEFINE a == roots[1]
           k == index(i) + 1
<1>1. /\ InMutator /\ HasSlot(1, k) /\ pc = "child" /\ pc' = "loop"
      /\ heap' = Stored(heap, a, k, native) /\ request' = {} /\ phase' = "mutator"
  BY DEF StoreChild, Store, InMutator, Stored, collector
<1>2. Flat(heap) /\ IsChild(heap, native) /\ Seen'.heap = heap'
  BY <1>1, SeenFacts DEF SpaceInv, InMutator, Seen
<1>3. a \in DOMAIN heap /\ k \in DOMAIN heap[a].slots
  BY <1>1, SlotFacts
<1>4. IsMemory(heap) /\ IsArray(heap[a]) /\ native \in Refs
  BY <1>3 DEF IInv, TypeInv, IsHeap, IsMemory
<1>5. /\ DOMAIN heap' = DOMAIN heap /\ \A x \in DOMAIN heap \ {a} : heap'[x] = heap[x]
      /\ heap'[a].word = heap[a].word
      /\ heap'[a].slots = [heap[a].slots EXCEPT ![k] = native]
  BY <1>1, <1>3, <1>4, SlotStored
<1> HIDE DEF a, k
<1>6. \A x : IsChild(heap, x) => IsChild(heap', x)
  BY <1>5 DEF IsChild
<1>7. DOMAIN heap'[a].slots = DOMAIN heap[a].slots
      /\ \A j \in DOMAIN heap[a].slots : heap'[a].slots[j] = IF j = k THEN native ELSE heap[a].slots[j]
  BY <1>3, <1>5
<1>8. Flat(heap')
  BY <1>2, <1>3, <1>5, <1>6, <1>7 DEF Flat
<1> QED BY <1>1, <1>2, <1>8 DEF SpaceInv

\* With enough memory, no allocation of gc_bench fails.
LEMMA NeverFails ==
  ASSUME EnoughMemory, IInv, SeenInv, TableInv, GraphInv, SpaceInv, AllocationFails
  PROVE  FALSE
<1>1. PICK r \in request : r.collected /\ Holes(Granules(AllocationSize(r.kind, r.length))) = {}
  BY DEF AllocationFails
<1>2. phase = "mutator" /\ Seen.heap = heap /\ Seen.roots = roots
  BY SeenFacts DEF AllocationFails
<1>3. /\ Collected(heap, roots) /\ TypeInv /\ Flat(heap) /\ IsHeap(heap)
      /\ roots \in Seq(Refs) /\ RootsInto(roots, DOMAIN heap) /\ Identified(heap)
  BY <1>1, <1>2 DEF IInv, MutatorInv, TypeInv, SpaceInv, SeenInv, Linked
<1>4. bench = "gc" /\ pc \in {"rooting", "child"}
  BY <1>1 DEF SpaceInv
<1>5. DOMAIN roots = {1}
  <2>1. Len(RootIds) = 1 /\ DOMAIN RootIds = DOMAIN roots /\ RootIds \in Seq(DOMAIN Visible \cup {0})
    BY <1>2, <1>4 DEF TableInv, GraphInv
  <2> QED BY <2>1
<1>6. PICK p \in Refs : p = roots[1] /\ p \in DOMAIN heap \cup {Null} /\ Range(roots) = {p}
  <2>1. roots[1] \in Refs /\ roots[1] \in DOMAIN heap \cup {Null}
    BY <1>3, <1>5 DEF RootsInto
  <2>2. Range(roots) = {roots[1]}
    BY <1>5 DEF Range
  <2> QED BY <2>1, <2>2
<1>7. p \in Nat
  BY AddressFacts
<1>8. CASE pc = "child"
  <2>1. r.kind = BIN /\ r.length \in ChildLengths
    BY <1>8 DEF SpaceInv
  <2> QED BY <1>1, <1>3, <1>6, <1>7, <2>1, RoomForChild
<1>9. CASE pc = "rooting"
  <2>1. r.kind = REF /\ r.length = ROOT_SIZE
    BY <1>9 DEF SpaceInv
  <2>2. IdAt(heap, p) = 0
    <3>1. RootIds = <<0>>
      BY <1>4, <1>9 DEF TableInv
    <3>2. RootIds[1] = IdAt(heap, roots[1])
      BY <1>2, <1>5 DEF RootIds, IdList
    <3> QED BY <1>6, <3>1, <3>2
  <2>3. p \notin DOMAIN heap
    BY <1>3, <1>6, <2>2, IdFacts
  <2>4. DOMAIN heap = {}
    <3>1. Closed(heap, {})
      BY DEF Closed
    <3>2. {p} \cap DOMAIN heap \subseteq {} /\ {} \in SUBSET DOMAIN heap
      BY <2>3
    <3>3. DOMAIN heap = Reachable(heap, {p})
      BY <1>3, <1>6 DEF Collected
    <3> QED BY <3>1, <3>2, <3>3, ReachableFacts
  <2> QED BY <1>1, <2>1, <2>4, RoomForTable DEF TableSize
<1> QED BY <1>4, <1>8, <1>9

LEMMA SpaceInitially == BenchInit => SpaceInv
<1> SUFFICES ASSUME BenchInit PROVE SpaceInv
  OBVIOUS
<1>1. heap = <<>> /\ DOMAIN heap = {} /\ request = {} /\ phase = "mutator" /\ pc = "enter"
  BY DEF BenchInit, Init
<1> QED BY <1>1, SeenFacts DEF SpaceInv, Flat

LEMMA GcStepKeepsSpace ==
  ASSUME SpaceInv, BlocksInv,
         EnterGc \/ AllocateRoot \/ AssignTheRoot \/ AllocateChild \/ ReturnFromGc
  PROVE  SpaceInv'
<1>1. CASE EnterGc \/ AssignTheRoot \/ ReturnFromGc
  <2>1. /\ InMutator /\ heap' = heap /\ request' = request /\ UNCHANGED collector
        /\ pc' \in {"root", "loop", "enter"}
    BY <1>1 DEF EnterGc, AssignTheRoot, ReturnFromGc, PushRoot, AssignRoot, PopRoot, Goto, Returned
  <2>2. Seen'.heap = Seen.heap /\ request' = {}
    BY <2>1 DEF Seen, InMutator, collector
  <2> QED BY <2>1, <2>2, SpaceKept
<1>2. CASE AllocateRoot \/ AllocateChild
  <2>1. /\ phase = "mutator" /\ heap' = heap /\ UNCHANGED collector /\ UNCHANGED bench /\ bench = "gc"
        /\ \/ pc' = "rooting" /\ request' = {[kind |-> REF, length |-> ROOT_SIZE, collected |-> FALSE]}
           \/ pc' = "child" /\ request' = {[kind |-> BIN, length |-> childSize(i), collected |-> FALSE]}
    BY <1>2 DEF AllocateRoot, AllocateChild, Request, Goto, InMutator
  <2>2. Seen'.heap = Seen.heap
    BY <2>1 DEF Seen, collector
  <2>3. childSize(i) \in ChildLengths
    <3>1. i \in Nat /\ MAX_CHILD_SIZE \in Nat \ {0}
      BY BenchAssumption DEF BlocksInv
    <3> QED BY <3>1 DEF childSize, ChildLengths
  <2>4. ~InMutator'
    BY <2>1 DEF InMutator
  <2>5. /\ pc' = "rooting" => \A r \in request' : r.kind = REF /\ r.length = ROOT_SIZE
        /\ pc' = "child" => \A r \in request' : r.kind = BIN /\ r.length \in ChildLengths
    BY <2>1, <2>3
  <2>6. Flat(Seen.heap)' /\ pc' \in {"rooting", "child"} /\ bench' = "gc"
    BY <2>1, <2>2 DEF SpaceInv
  <2> QED BY <2>4, <2>5, <2>6 DEF SpaceInv
<1> QED BY <1>1, <1>2

LEMMA BenchKeepsSpace ==
  ASSUME EnoughMemory
  PROVE  IInv /\ SeenInv /\ BlocksInv /\ TableInv /\ SpaceInv /\ [BenchNext]_all => SpaceInv'
<1> SUFFICES ASSUME IInv, SeenInv, BlocksInv, TableInv, SpaceInv, [BenchNext]_all PROVE SpaceInv'
  OBVIOUS
<1>1. GraphInv
  BY GraphIsSeen
<1>2. CASE EnterGc \/ AllocateRoot \/ AssignTheRoot \/ AllocateChild \/ ReturnFromGc
  BY <1>2, GcStepKeepsSpace
<1>3. CASE StoreChild
  <2>1. bench = "gc" /\ pc = "child" /\ InMutator
    BY <1>3 DEF StoreChild, Store
  <2> QED BY <1>1, <1>3, <2>1, RootIsThere, StoreKeepsSpace
<1>4. CASE InsideAllocate
  BY <1>1, <1>4, NeverFails, AllocateKeepsSpace, CollectKeepsSpace DEF InsideAllocate
<1>5. CASE MallocBench
  <2>1. bench = "malloc" /\ UNCHANGED vars /\ pc' \notin {"rooting", "child"}
    BY <1>5 DEF MallocBench, EnterMalloc, IterateMalloc, DereferenceNull, ReturnFromMalloc, Returned
  <2>2. Seen'.heap = Seen.heap /\ request' = request
    BY <2>1 DEF Seen, vars
  <2>3. request = {}
    BY <2>1 DEF SpaceInv
  <2> QED BY <2>1, <2>2, <2>3, SpaceKept
<1>6. CASE UNCHANGED all
  BY <1>6 DEF SpaceInv, all, vars, bvars, Seen, InMutator
<1> QED BY <1>2, <1>3, <1>4, <1>5, <1>6 DEF BenchNext, GcBench, Done

\* With enough memory, no allocation of gc_bench returns nullptr, and the root that
\* it dereferences without a check is never null.
THEOREM EnoughMemoryIsEnough == EnoughMemory => (BenchSpec => []NeverOutOfMemory)
<1> SUFFICES ASSUME EnoughMemory PROVE BenchSpec => []NeverOutOfMemory
  OBVIOUS
<1>1. SpaceInv => NeverOutOfMemory
  BY DEF SpaceInv, NeverOutOfMemory
<1>2. IInv /\ SeenInv /\ BlocksInv /\ TableInv /\ SpaceInv /\ [BenchNext]_all
        => IInv' /\ SeenInv' /\ BlocksInv' /\ TableInv' /\ SpaceInv'
  BY BenchKeepsTable, BenchKeepsBlocks, BenchKeepsSpace
<1> QED BY <1>1, <1>2, TableInitially, BlocksInitially, SpaceInitially, PTL DEF BenchSpec

\* As main.cpp has its constants, and StartupManagerImpl.hpp the heap, it does
\* not run out of memory, with compaction and without.
THEOREM TheDefaultHeapIsEnough ==
  ASSUME LenMod = 4294967296, SizeMod = 18446744073709551616,
         ROOT_SIZE = 100, MAX_CHILD_SIZE = 1000, HeapSize = (8 * 1024 * 1024) \div ALIGNMENT
  PROVE  BenchSpec => []NeverOutOfMemory
<1>1. \A n \in 0 .. 1000 : Narrow(n) = n
  BY SMT DEF Narrow
<1>2. TableSize = 51
  <2>1. RefArraySize(100) = 816
    BY SMT DEF RefArraySize, Align, HEADER_SIZE, SLOT_SIZE, ALIGNMENT
  <2>2. AllocationSize(REF, ROOT_SIZE) = 816
    BY <1>1, <2>1, SMT DEF AllocationSize
  <2> QED BY <2>2, SMT DEF TableSize, Granules, ALIGNMENT
<1>3. ChildrenWithin(63)
  <2>1. ASSUME NEW n \in 0 .. 999 PROVE Granules(AllocationSize(BIN, n)) <= 63
    <3>1. BinArraySize(n) \in 0 .. 1008
      <4>1. PICK m \in 0 .. 1022 : m = n + 23
        BY SMT
      <4>2. m % SizeMod = m
        BY SMT
      <4>3. BinArraySize(n) = m - (m % 16)
        BY <4>1, <4>2, SMT DEF BinArraySize, Align, HEADER_SIZE, ALIGNMENT
      <4> QED BY <4>3, SMT
    <3>2. AllocationSize(BIN, n) = BinArraySize(n)
      BY <1>1, SMT DEF AllocationSize, REF, BIN
    <3> QED BY <3>1, <3>2, SMT DEF Granules, ALIGNMENT
  <2> QED BY <2>1, SMT DEF ChildrenWithin, ChildLengths
<1>4. HeapSize = 524288
  BY SMT DEF ALIGNMENT
<1>5. EnoughMemory
  <2>1. TableSize + ROOT_SIZE * 63 + (ROOT_SIZE + 2) * (63 - 1) < HeapSize
    BY <1>2, <1>4, SMT
  <2> QED BY <1>3, <2>1, SMT DEF EnoughMemory
<1> QED BY <1>5, EnoughMemoryIsEnough, SMT
=============================================================================
