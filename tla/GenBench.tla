------------------------------ MODULE GenBench ------------------------------
(***************************************************************************)
(* main.cpp as the tutorial leaves it: gc_bench on the generational heap,  *)
(* storing the children into the root through the barrier.                 *)
(***************************************************************************)
EXTENDS Bench, Scavenge

GenBenchInit == BenchInit /\ GenInit

\* Mutant: root->data[index(i)] = child, as before the scavenger was enabled.
StoreChildRaw ==
    /\ bench = "gc" /\ pc = "child"
    /\ StoreUnbarriered(1, index(i) + 1)
    /\ i' = i + 1
    /\ pc' = "loop"
    /\ UNCHANGED <<bench, run, cells, blocks, made>>

\* Splash::store(cx, *root, index(i), child);
StoreChildBarriered ==
    /\ bench = "gc" /\ pc = "child"
    /\ StoreBarriered(1, index(i) + 1)
    /\ i' = i + 1
    /\ pc' = "loop"
    /\ UNCHANGED <<bench, run, cells, blocks, made>>

GenGcBench ==
    \/ /\ EnterGc \/ AllocateRoot \/ AssignTheRoot \/ AllocateChild \/ ReturnFromGc
       /\ UNCHANGED generational
    \/ StoreChildBarriered
    \/ GenInside /\ NoteMade

GenBenchNext ==
    \/ GenGcBench
    \/ MallocBench /\ UNCHANGED generational
    \/ Done /\ UNCHANGED generational

\* One thread, which goes on until main() returns.
GenBenchSpec ==
    /\ GenBenchInit /\ [][GenBenchNext]_<<all, generational>>
    /\ WF_<<all, generational>>(GenGcBench \/ (MallocBench /\ UNCHANGED generational))
=============================================================================
