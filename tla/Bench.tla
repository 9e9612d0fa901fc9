-------------------------------- MODULE Bench --------------------------------
(***************************************************************************)
(* main.cpp: gc_bench, RUNS times, and then malloc_bench, RUNS times.      *)
(*                                                                         *)
(* gc_bench is a program of the GcHeap: it roots a RefArray and stores a   *)
(* new BinArray into one of its slots at each iteration.  malloc_bench     *)
(* does the same with a calloc'ed table and malloc'ed children, and frees  *)
(* the child that it replaces.                                             *)
(***************************************************************************)
EXTENDS GcHeap

CONSTANTS RUNS, MAX_CHILD_SIZE, ROOT_SIZE, ITERATIONS, SLOT_STRIDE

ASSUME BenchAssumption ==
    /\ RUNS \in Nat \ {0} /\ ITERATIONS \in Nat /\ SLOT_STRIDE \in Nat
    /\ ROOT_SIZE \in RefLengths \ {0}
    /\ MAX_CHILD_SIZE \in Nat \ {0} /\ 0 .. MAX_CHILD_SIZE - 1 \subseteq BinLengths
    /\ MaxRoots >= 1

VARIABLES
    bench,    \* the function that runs: "gc" or "malloc"; "done" when main() has
              \* returned, "crashed" when it never will
    run,      \* how many times it has returned
    pc,       \* where it is
    i,        \* its loop variable
    cells,    \* malloc_bench's root: entry -> block, or NoBlock
    blocks,   \* the children that malloc has handed out and free not taken back
    made      \* History: id of an array in the heap -> the step that made it

bvars == <<bench, run, pc, i, cells, blocks, made>>
all   == <<vars, bvars>>

Slots   == 0 .. ROOT_SIZE - 1
NoBlock == <<>>

index(n) == (n * SLOT_STRIDE) % ROOT_SIZE

\* Mutant: the size of a child grows with the loop variable.
childSizeUnbounded(n) == n

childSize(n) == n % MAX_CHILD_SIZE

BenchInit ==
    /\ Init
    /\ bench = "gc" /\ run = 0 /\ pc = "enter" /\ i = 0
    /\ cells = [k \in Slots |-> NoBlock]
    /\ blocks = {}
    /\ made = <<>>

Goto(label) == pc' = label /\ UNCHANGED <<bench, run, i, cells, blocks, made>>

\* Mutant: the loop in run() does not count.
ReturnedUncounted == UNCHANGED <<bench, run>> /\ i' = 0 /\ pc' = "enter"

\* run(): the benchmark has returned; run it again, or go on in main().
Returned ==
    /\ IF run + 1 < RUNS
       THEN run' = run + 1 /\ UNCHANGED bench
       ELSE run' = 0 /\ bench' = IF bench = "gc" THEN "malloc" ELSE "done"
    /\ i' = 0
    /\ pc' = "enter"

-----------------------------------------------------------------------------
(* gc_bench                                                                *)

\* OMR::GC::StackRoot<Splash::RefArray> root(cx);
EnterGc ==
    /\ bench = "gc" /\ pc = "enter"
    /\ PushRoot(Null)
    /\ Goto("root")

\* root = Splash::allocateRefArray(cx, ROOT_SIZE);
AllocateRoot ==
    /\ bench = "gc" /\ pc = "root"
    /\ Request(REF, ROOT_SIZE)
    /\ Goto("rooting")

AssignTheRoot ==
    /\ bench = "gc" /\ pc = "rooting"
    /\ AssignRoot(1)
    /\ Goto("loop")

\* child = Splash::allocateBinArray(cx, childSize(i));
AllocateChild ==
    /\ bench = "gc" /\ pc = "loop" /\ i < ITERATIONS
    /\ Request(BIN, childSize(i))
    /\ Goto("child")

\* Mutant: the slot is computed from the loop variable after its increment.
StoreChildLate ==
    /\ bench = "gc" /\ pc = "child"
    /\ Store(1, index(i + 1) + 1)
    /\ i' = i + 1
    /\ pc' = "loop"
    /\ UNCHANGED <<bench, run, cells, blocks, made>>

\* root->data[index(i)] = child;  the root is dereferenced only now.  Nothing
\* checks that it was allocated: without it the program is stuck here.
StoreChild ==
    /\ bench = "gc" /\ pc = "child"
    /\ Store(1, index(i) + 1)
    /\ i' = i + 1
    /\ pc' = "loop"
    /\ UNCHANGED <<bench, run, cells, blocks, made>>

\* The StackRoot leaves its scope.
ReturnFromGc ==
    /\ bench = "gc" /\ pc = "loop" /\ i = ITERATIONS
    /\ PopRoot
    /\ Returned
    /\ UNCHANGED <<cells, blocks, made>>

\* History: an array that is new in the heap was made by this step.
NoteMade ==
    /\ made' = [id \in {heap'[a].id : a \in DOMAIN heap'} |->
                   IF id \in {heap[a].id : a \in DOMAIN heap} THEN made[id] ELSE i]
    /\ UNCHANGED <<bench, run, pc, i, cells, blocks>>

\* The calls that allocate, and the collections inside of them.
InsideAllocate == (Allocate \/ AllocationFails \/ Collect) /\ NoteMade

-----------------------------------------------------------------------------
(* malloc_bench                                                            *)

\* void** root = calloc(ROOT_SIZE, sizeof(void*));  which is not checked: from
\* "null" on, root is the null pointer.
EnterMalloc ==
    /\ bench = "malloc" /\ pc = "enter"
    /\ cells' = [k \in Slots |-> NoBlock]
    /\ pc' \in {"loop", "null"}
    /\ UNCHANGED <<vars, bench, run, i, blocks, made>>

\* A new child; or NULL, when there is no memory or childSize(i) is 0.
Malloc == {NoBlock, <<run, i>>}

\* Mutant: the old child is not freed when the new one is NULL.
IterateMallocKeeping ==
    /\ bench = "malloc" /\ pc = "loop" /\ i < ITERATIONS
    /\ \E child \in Malloc :
         /\ cells' = [cells EXCEPT ![index(i)] = child]
         /\ blocks' = IF child = NoBlock THEN blocks
                      ELSE (blocks \cup {child}) \ {cells[index(i)]}
    /\ i' = i + 1
    /\ UNCHANGED <<vars, bench, run, pc, made>>

\* The child is allocated before the one it replaces is freed.
IterateMalloc ==
    /\ bench = "malloc" /\ pc = "loop" /\ i < ITERATIONS
    /\ \E child \in Malloc :
         /\ cells' = [cells EXCEPT ![index(i)] = child]
         /\ blocks' = (blocks \cup ({child} \ {NoBlock})) \ {cells[index(i)]}
    /\ i' = i + 1
    /\ UNCHANGED <<vars, bench, run, pc, made>>

\* if (root[idx]) of a table that there is not.  What malloc has returned for
\* the first child makes no difference any more.
DereferenceNull ==
    /\ bench = "malloc" /\ pc = "null" /\ i < ITERATIONS
    /\ bench' = "crashed"
    /\ UNCHANGED <<vars, run, pc, i, cells, blocks, made>>

\* The table and the children in it are not freed.
ReturnFromMalloc ==
    /\ bench = "malloc" /\ pc \in {"loop", "null"} /\ i = ITERATIONS
    /\ cells' = [k \in Slots |-> NoBlock]
    /\ Returned
    /\ UNCHANGED <<vars, blocks, made>>

GcBench ==
    \/ EnterGc \/ AllocateRoot \/ AssignTheRoot \/ AllocateChild
    \/ StoreChild \/ ReturnFromGc \/ InsideAllocate

MallocBench == EnterMalloc \/ IterateMalloc \/ DereferenceNull \/ ReturnFromMalloc

Ended == bench \in {"done", "crashed"}

Done == Ended /\ UNCHANGED all

BenchNext == GcBench \/ MallocBench \/ Done

BenchSpec == BenchInit /\ [][BenchNext]_all /\ WF_all(GcBench \/ MallocBench)

-----------------------------------------------------------------------------
(* Properties                                                              *)

\* No allocation of gc_bench returns nullptr, so that the root it dereferences
\* is never null: children that have been replaced are collected in time, and
\* the holes they leave in a heap that is not compacted can be used again.
NeverOutOfMemory == pc \in {"child", "rooting"} /\ InMutator => native # Null

\* malloc_bench frees every child it replaces once, and none that it still
\* uses: the live blocks of the current run are those in the table, each in
\* one entry.  What earlier runs left behind, a table full each, is leaked.
LiveBlocksAreInTable ==
    bench = "malloc" =>
        /\ {b \in blocks : b[1] = run} = Range(cells) \ {NoBlock}
        /\ \A k, l \in Slots : k # l /\ cells[k] = cells[l] => cells[k] = NoBlock
        /\ \A r \in 0 .. run : Cardinality({b \in blocks : b[1] = r}) <= ROOT_SIZE

\* The root table as the running benchmark sees it.
SeenRoot == IF Seen.roots = <<>> \/ Seen.roots[1] \notin DOMAIN Seen.heap THEN <<>>
            ELSE Seen.heap[Seen.roots[1]].slots

\* The step that made the child in an entry; ITERATIONS if there is no child.
StepOf(ref) ==
    LET id == IdAt(Seen.heap, ref)
    IN  IF id \in DOMAIN made THEN made[id] ELSE ITERATIONS

SeenTable ==
    [k \in Slots |->
        IF bench = "gc"
        THEN IF k + 1 \in DOMAIN SeenRoot THEN StepOf(SeenRoot[k + 1]) ELSE ITERATIONS
        ELSE IF cells[k] = NoBlock THEN ITERATIONS ELSE cells[k][2]]

Table == INSTANCE RootTable WITH table <- SeenTable

\* Both benchmarks do the same work, so that their times can be compared: at
\* every step the table holds the latest child stored into each of its slots,
\* although the collector frees and moves arrays at any allocation.
SameTable == Table!Spec

\* The program ends: main() returns, or malloc_bench dereferences the table that
\* calloc did not give it.  No allocation of gc_bench leaves it waiting, and no
\* loop of either goes on for ever.
BenchEnds == <>Ended
=============================================================================
