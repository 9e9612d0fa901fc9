# TLA+ specifications of the GC arrays tutorial

This directory specifies, model-checks and proves properties of the program in
the repository: *Splash* arrays on a garbage-collected heap, made with the
Eclipse OMR garbage collector (`omr/`, an empty submodule in this tree), the
*glue* that binds a language to OMR, and a benchmark.

**Which code is modelled.** The sources under `include/` and `main.cpp` are the
starting point of a tutorial: the parts the reader is to write are marked
`SPLASH TODO`, and as committed they do nothing (`getObjectSizeInBytesWithHeader`
returns 0, the scanner is a do-nothing `NopScanner`, `gc_bench` is empty). Their
C++ text is in `worksheet.md`. What is modelled is the finished program: the code
under `include/`, `glue/` and `main.cpp` with the listings of `worksheet.md` in
the places they are written for. `PROJECT.json` maps every definition to the
lines it stands for, in whichever of these files they are. (The mutant
`NopStart` is the unfinished scanner, and loses every edge.)

OMR is external: the collector, the thread library and the base class of the
verbose manager are modelled from how this repository's code uses them and from
`api-reference.md`; the map marks them `external`.

## 1. Inventory

| Component | Code | State | Operations | Hard behaviour | Correct when |
|---|---|---|---|---|---|
| Array layout, header | `include/Splash/Arrays.hpp`, `ObjectModelDelegate.hpp` (both), worksheet 1-2 | one header word: GC byte, kind, 32-bit length | construct, `size`, `getObjectSizeInBytesWithHeader`, forwarded size, flags | request (`size_t`) narrower than it looks (`uint32_t`); header overwritten while forwarded, flags that change in the copy | the size read back is always the size reserved |
| Array scanner | `include/Splash/ArrayScanner.hpp`, `OMRClient/GC/ObjectScanner.hpp`, worksheet 3 | `target_`, `current_` | `start`, `resume` with a byte budget, `edge()` of the visitor | scan cut into calls; program and visitors store in between | each reference shown once, none lost, bytes add up, scan ends |
| Allocators, barriers | `include/Splash/Allocators.hpp`, `Barriers.hpp`, worksheet 4-6 | heap, StackRoots, remembered set | allocate (may collect), store | any allocation frees and moves arrays; stale native references; a store that is not remembered | the program cannot see the collector; the remembered set is complete |
| Benchmark | `main.cpp`, worksheet 5 | root table, loop counters, malloc'ed blocks | `gc_bench`, `malloc_bench`, `run`, `main` | fragmentation; roots that are null and not checked, of `gc_bench` (allocation) and of `malloc_bench` (`calloc`); frees in the right place | `gc_bench` never out of memory, both do the same work, the program ends |
| Thread binding | `glue/src/LanguageVMGlue.c` | per thread: attach, language thread, VM thread with a count | bind, unbind, nested | each of six calls may fail, with undoing | all resources or none; failed calls change nothing |
| Verbose log manager | `glue/src/VerboseManagerImpl.cpp/.hpp` | remembered file name, its memory | newInstance, configure, reconfigure in a forked child, tearDown | fork, names derived from names, reused pids, failing allocations | one log per process, no lost or dangling name |
| Object model delegate | `include/OMRClient/GC/ObjectModelDelegate.hpp`, `glue/**/ObjectModel*` | none (reads header words) | sizes, flags, forwarding | see array layout | see array layout |
| Collector language interface | `glue/src/CollectorLanguageInterfaceImpl.cpp` | its own memory in the forge | made at startup, killed at shutdown; reverse a forwarded object; empty hooks | backing out a scavenge; startup that fails | the original is intact after back-out; freed once |
| Global collector delegate | `glue/**/GlobalCollectorDelegate.*` | none | empty hooks around the phases of a global collection | | phases follow each other directly |
| Startup manager, configuration | `glue/**/StartupManagerImpl.*`, `ConfigurationDelegate.hpp`, `OmrConfig.cmake` | `_useSegregatedGC`, `_gcPolicy`, what has been made | handle options, make the interface, the configuration, the verbose manager | build flags against options in any order; failure halfway | the collector is the one asked for, or the VM does not come up; nothing is left behind |
| Concurrent marking delegate | `glue/**/ConcurrentMarkingDelegate.*` | the mode of tracing (kept by OMR) | next mode, collect the roots of a mode, hooks of a cycle | threads read the mode and switch it in a race; results that are never set | each unit of roots collected once, every payment ends |
| Thread-local heap | `glue/include/LanguageThreadLocalHeap.hpp` | per thread: base, allocation pointer and top of one chunk or, with `OMR_GC_NON_ZERO_TLH`, of two | accessors; allocate, refresh, flush (OMR) | one accessor for each field, each with its own conditional compilation; no lock | memory has one owner; zeroed memory is zero |
| Environment delegate | `glue/include/EnvironmentDelegate.hpp` | its environment | initialize; VM access is only declared here | part of making a VM thread | |
| Object iteration | `glue/include/ObjectIterator.hpp`, `ContractslotScanner.hpp`, `ObjectScannerState.hpp` | scan pointer | next slot, restore; contract a slot | restored state; a slot that is contracted twice | same slots as the scanner; what refers into the range follows the move |
| Profiling | `glue/src/Profiling.c` | per VM thread: a counter | check whether to sample | unsigned counter; sampling switched on and off in between | samples are spaced, and not missed |
| Segregated sizes, statistics, traces | rest of `glue/` | none | | | |
| Build and documentation | `CMakeLists.txt`, `README.md`, `api-reference.md` | none | | | |

How they interact. The program calls an *allocator*; OMR's allocation may stop
the program and run a collection before it returns. The collector finds roots by
walking the linked list of `StackRoot`s, finds the edges of each array through the
*scanner*, which calls the collector's *visitor* back for each slot, and finds the
next array when it walks the heap from the *size* in the header. A visitor may
write to the slot it is shown (compaction and scavenging do). The *binding* of a
thread comes before all of it, and the *verbose manager* is called by OMR at
startup, after a fork and at shutdown. The *startup manager* is asked by OMR for each
part of the VM, in order; threads bind only to a VM that is up, and while they run they are
sampled and, with concurrent marking, collect roots.

`PROJECT.json` lists under "hazards" what in this code is hard to test, at the
lines where it can go wrong.

## 2. Modules

```
ArrayLayout ─┬─ ArrayLayoutProofs
             ├─ HeaderWord ─┬─ MCHeaderWord
             │              └─ HeaderProofs       (extends DestroyedSlot, ArrayLayoutProofs)
             └─ GcHeap ──────┬─ MCGcHeap          (implements ManagedGraph)
                             ├─ GcHeapProofs      (extends ArrayLayoutProofs)
                             ├─ Scavenge ─┬─ MCScavenge   (implements ManagedGraph)
                             │            └─ ScavengeProofs   (extends GcHeapProofs)
                             └─ Bench ────┬─ MCBench      (implements RootTable)
                                          └─ BenchProofs  (extends GcHeapProofs)
                Bench + Scavenge ── GenBench ─┬─ MCGenBench  (implements RootTable)
                                              └─ GenBenchProofs (extends BenchProofs, ScavengeProofs)
ArrayScanner ─┬─ MCArrayScanner                   (implements SlotEnumeration)
              └─ ArrayScannerProofs
DestroyedSlot ─┬─ MCDestroyedSlot
               └─ HeaderProofs
VMThreads ─┬─ ThreadBinding ─┐                    (implements ThreadBindings)
           ├─ Profiling ─────┤
           └─ ConcurrentRoots┤
Startup ─────────────────────┴─ Runtime ─┬─ MCRuntime
                                         └─ RuntimeProofs
VMThreads ─── ThreadLocalHeap ─┬─ MCThreadLocalHeap
                               └─ RuntimeProofs
VerboseLog ─┬─ MCVerboseLog
            └─ RuntimeProofs
ArrayLayout ─── SlotIterator ─── MCHeaderWord
SlotContraction ─── MCScavenge
SizeClasses ─── MCRuntime
```

* **ArrayLayout** has the pure functions: `Align` (C++'s bit trick as arithmetic in
  `size_t`; `MCHeaderWord` has TLC compare it with the bit operation), array sizes,
  header encoding and the two conversions from `size_t` to `uint32_t`. Integers
  have their width as the moduli `LenMod` and `SizeMod`.
* **HeaderWord** follows one header word through allocation, flag updates, a
  scavenge that forwards and copies the object, and a back-out
  (`scavenger_reverseForwardedObject`). `ReportedSize` is what
  the object model answers at each moment (`TotalFootprint` for an array that is no longer forwarded). To copy and forward is OMR's,
  the sizes it asks for are this code's. `SizeOfWord` answers 0 for a kind that is
  neither, as the switch of `size` does where `assert` is compiled out; no header is ever of such a kind.
* **ArrayScanner** has one action per iteration of the loop of `resumeRefArray`, with
  its three exits and two ways of advancing in the order of the code, so that a
  visitor acts between iterations and the program between calls. Budgets are
  any of `Budgets`; a visitor answers true or false and may store. `assert`s
  of the code are the state `"assert"`. **SlotEnumeration** is what is promised to
  the collector, with no calls or budgets in it.
* **GcHeap** composes the layout with a program and a collector. Memory is an address
  space in granules of 16 bytes; an array is found at the address of its header and its
  extent is *read from its header*. The program allocates, pushes and pops
  `StackRoot`s, stores and loads through them, in any order. A collection is a chain of
  small steps inside an allocation: walk the roots, scan one array at a time, sweep,
  slide one array at a time (overwriting what is there), fix up one array at a
  time, fix up the roots. It compacts where the build does and the delegate does not prevent it (`CompactionPrevented`). **ManagedGraph** is the same program on a graph of
  identities with no addresses and no collector: a call that allocates empties the native reference
  when it begins and yields a new array or nothing when it ends, and between the two nothing that the
  program can see changes (`calling`).
* **Scavenge** is the heap of the last task of the worksheet. Addresses are two halves of new space and old space.
  The barrier of `Splash::store` puts an old array that gets a reference to a new one on the remembered
  set and sets a flag in its header. A scavenge treats one slot at a time, in any order: it copies the
  referent to the other half or, as its age has it (any choice), to old space, and leaves a forwarding
  pointer in the original. The collector's byte of the copy, where OMR keeps its age, is any of `Ages`, whatever the byte of the original was; an old array gets its remembered flag when the scavenge ends. Where a copy finds no room the scavenge is backed out one array at a time, headers
  restored by `scavenger_reverseForwardedObject`, which takes the whole word from the copy: the kind and the length are the original's, the collector's byte is the copy's, and so the array stays
  that much older. The program's other actions, and the global collection that
  follows a useless scavenge (or replaces it, where a hook of the delegates asks for that: `Percolates` and `TimeForGlobalKickoff`, which are constantly false here), are those of `GcHeap`; both implement the same `ManagedGraph`.
* **Bench** composes `GcHeap` with `main.cpp`: its actions are conjunctions of `GcHeap`'s
  program actions with the benchmark's control, so that the collector runs inside
  its allocations. `malloc` and `calloc` may return NULL; where `calloc` does, `malloc_bench` goes on with a null root and the program crashes at its first use
  (`DereferenceNull`), or returns if there are no iterations. **GenBench** is the same control on `Scavenge`, with the barriered store, as the
  worksheet leaves it. **RootTable** is what both benchmarks compute.
* **DestroyedSlot** is a back-out where `OMR_INTERP_COMPRESSED_OBJECT_HEADER` is on: a header shares a word with a slot,
  which the forwarding pointer destroys. Objects are numbers, each with a header and the slot beside it;
  copying and scanning go as far as they get, the first pass (`scavenger_reverseForwardedObject`) takes header and slot from each copy,
  and the second (`scavenger_fixupDestroyedSlot`) sends a reference to a copy back to its original.
  It is a module of its own as `Scavenge` is the heap of the Splash build, whose arrays keep the length, and no slot, beside the kind.
* **ThreadLocalHeap** has the accessors of the glue, under both settings of `OMR_GC_NON_ZERO_TLH` (off in this build), and
  what OMR does with the fields they choose: cut an object from a chunk, take another chunk and give the rest of the old one back,
  flush all chunks and free objects in a collection. `used` are the cells that may not be zero; only a chunk
  of the zeroed heap is cleared when it is taken. Where there is one heap for both kinds of allocation it is the zeroed one.
* **SlotIterator** has the operations of `GC_ObjectIterator` on an iterator as operators. It has no behaviour of its own and
  no caller in the repository; TLC evaluates, in `MCHeaderWord` and for every length, that it shows all slots of a RefArray and nothing outside
  of an array, and what `restore` does to a new iterator.
* **ThreadBinding** has one action per call made by the bind and unbind functions;
  **ThreadBindings** is nested binding that either happens or does not.
* **Startup** is how OMR brings a VM up with the startup manager: initialize the object models, handle the options one by one,
  make the collector language interface (allocate it, initialize it, kill it where that fails), the configuration and the verbose manager. `initialize` of the interface always succeeds in this glue; `InterfaceMayFail` lets a language's
  own fail, for which `newInstance` has the path. What the delegates answer is an operator each (`RegionExtended`,
  `SegregatedSizeClasses` = {} for a null pointer, ...), so that a glue which answers otherwise is a change in one place. An allocation may fail at each
  place; then, as when the program ends, what was made is shut down in the reverse order, and `forge` is the memory that the glue has to give back. An option
  is a sequence of parts, so that `strncmp` compares a prefix.
* **Profiling** is `ex_omr_checkSampleStack` with its counter; `rest`, `overdue` and `early` are history. OMR switches sampling at any moment.
* **ConcurrentRoots** is the delegate's part of concurrent marking: threads that pay a tax read the mode, ask `getNextTracingMode`, and one of them
  switches (OMR does this atomically) and collects the unit of roots it switched to. The two results of `collectRoots`, which it does not set, are a nondeterministic choice.
* **Runtime** composes these four. As `main.cpp` makes a `System` before a `Context` and C++ destroys them in reverse, threads bind and unbind inside of a VM that is up.
  A first binding makes the VM thread with its profile, bound threads are sampled and pay the tax.
* **SlotContraction** and **SizeClasses** are operators and constants without behaviour of their own or a caller in the repository. TLC evaluates what they promise:
  that `doSlot` makes a reference follow the object it refers to for all small ranges, and when a second call changes nothing (`ContractionFollowsTheMove`, `ContractionTwice`
  in `MCScavenge`); that the size classes grow from the smallest to the largest and that no two adjacent ones are unaligned (`SizeClassesAreSound` in `MCRuntime`).
* **VerboseLog** has a set of processes that fork, exit and get pids of dead ones. A name
  is a sequence of parts (`"."`, `"/"`, `"%p"`, pids, words), so that inserting a pid before a
  dot is what it is in the code. That OMR configures a VM before it forks, and reconfigures in the child, is an assumption about OMR (a conjunct of `LogNext`, not of `Configure`).

Definitions commented "Mutant" are variants with a plausible bug. They are not part of any
specification; `PROJECT.json` pairs each with the property that detects it.

## 3. Runs

| Run | Instance | What it shows |
|---|---|---|
| `header_word` | 4-bit lengths, 8-bit sizes; 12 requests from 0 to wider than the length field; flags from none to all; forwarding words that decode to each kind and length | the reported size is always the reserved one; copies are complete; footprints are aligned and tight |
| `header_padding` | the same | *violation*: see Findings |
| `scanner` | arrays up to 3 slots over 2 references and null; budgets 0, below, at, above and far above a slot | each slot once and in order; nothing stable is lost; bytes add up; a paused scan has work left; implements `SlotEnumeration`; every scan completes |
| `gc_heap` | 4 granules, 2 roots, references of 2 slots (2 granules) and empty BinArrays (1 granule), compaction | the heap is walkable between any two moves; no dangling reference; a collection keeps exactly what the StackRoots reached when the program stopped; null only when full; implements `ManagedGraph`; allocations return |
| `bench` | 2 runs of 12 iterations, 4 slots, stride 3, children of 0..10 bytes (1 and 2 granules), 12 granules, no compaction | the collector keeps the benchmark from running out; `malloc_bench` frees right; same work; the program ends: `main` returns, or `calloc` has failed and the null table is dereferenced |
| `scavenge` | halves of 3 granules and 2 of old space, RefArrays of 2 slots (2 granules), empty BinArrays (1 granule), 1 root | the remembered set is complete, agrees with the flags, and holds nothing freed; a scavenge keeps exactly the old arrays and what they and the StackRoots reached; a back-out leaves no trace but the collector's byte of new arrays that had been copied: roots, and kind, length and references of every array are as they were, and so are the remembered flags of old ones; implements `ManagedGraph` |
| `gen_bench` | 2 runs of 5 iterations, 2 slots, children of 1 granule, halves of 3 granules and 5 of old space | `gc_bench` with the barrier computes the same table and the program ends (as in `bench`), so that no allocation of it fails, although the dead root of the first run, once tenured, keeps its children alive |
| `destroyed_slot` | 3 originals, any references between them, to null, to an old object, and words that are no reference | headers and the slots beside them are restored |
| `thread_local_heap` | 2 threads, 4 cells, chunks of up to 3, objects of 1 and 2, both builds | every cell has one owner and none is lost; a RefArray starts null |
| `runtime` | 2 threads, 2 nested bindings; builds with concurrent marking, and with a scavenger and a segregated heap; a language interface that may not initialize; 6 lists of options; backoff 3 and decrement 2; on each thread either the calls of this glue that can fail, or those of a language's own hooks | bindings leak nothing, release nothing early, are built in order and implement `ThreadBindings`; the collector is the one asked for; nothing is left behind by a VM that is down; samples are spaced; each unit of roots is collected once; all calls return and the VM comes up or goes down |
| `verbose_log` | 3 pids, forks of forks, reused pids, 5 names, 2 configurations | each process has its own log; names are freed in step |
| `verbose_pid` | the same | *violation*: see Findings |

Why the bounds are enough.

* *header_word*: the length field wraps at 16 and the requests include 15, 16, 17 and 31;
  alignment has period 2 slots or 16 bytes, and the requests cover both residues and
  byte arrays on both sides of 8. The theorems lift all of these bounds.
* *scanner*: with 3 slots a scan can be paused before, between and after slots that are null,
  stored to and cleared. The safety properties are proved for all lengths and budgets.
* *gc_heap*: 4 granules hold two RefArrays that refer to each other (cycles, self references),
  or one between BinArrays; a hole below a RefArray of 2 granules moved down by 1 makes the source
  and the target overlap. Two roots are enough for aliasing and for one root to be popped while the
  other keeps an array. A larger heap repeats these situations. The program stores to and loads from the second slot only (`UsedSlots`, here and in
  `scavenge`); the theorems are for any heap, any lengths, any roots and any set of slots.
* *scavenge*: two arrays fit into a half, and old space has room for the larger one or for two small ones: a scavenge can copy one array and tenure another, find
  the one already copied through a second slot, tenure an array that refers to one which is not (and so must be remembered),
  fail after the first copy, and fail although the free memory would do in one piece. `Ages` is {32}: a new array has a byte of 0, so that every copy's differs from its original's, and 32 is the value of the remembered flag, the one
  that confuses most where an age is taken for it. The theorems are for any set of bytes.
* *gen_bench*: the root is tenured in some scavenge or never, before or after any of its children; 5 iterations store at least twice into each slot.
* *destroyed_slot*: with three originals a slot can refer to its own object, to one reversed earlier and to one reversed
  later, in chains and cycles. The theorem is for any number.
* *thread_local_heap*: four chunks (two threads, zeroed and not) fit into the cells only if they are small, and larger ones leave no room for others:
  a refresh meets an empty chunk, one with a remainder too small for the object, and a pool with holes. The theorems are for any heap and any number of threads.
* *bench*: `ROOT_SIZE` 4 and stride 3 are coprime as 100 and 3 are; 12 iterations visit each slot
  three times, each time with a child of another size. The table takes 3 granules and the children
  of a run 14, of a heap of 12: several collections happen in each run. The real program is
  deterministic; the model is too, but for where collections happen and which mallocs and callocs fail.
* *runtime*: threads share nothing but the mode of tracing; two suffice for one to be overtaken between reading and switching the mode, and there is one unit of roots.
  The options have each policy alone, both in one list, one that is known to OMR only in some builds, a policy with something appended, and
  an unknown option after a known one; the builds are the two ends of what they can tell apart. Decrement 2 does not divide backoff 3, so that the counter would go
  below 0. The theorems are for any threads, depth, builds, options, backoff and decrement.
* *verbose_log*: three pids give siblings, grandchildren and a pid that is reused while relatives
  of its former owner live. That no configured name contains a pid is in `LogAssumption`: the code cannot tell a pid it put
  into a name from digits that were there. The theorems are for any names, pids and number of forks.

Deadlock is checked in all runs but the `verbose` ones, where every process may exit, `destroyed_slot`, where a back-out ends, and `runtime`, where the VM ends. `bench` ends in an
explicit stuttering `Done`, after `main` has returned or after the null table of `malloc_bench` has been dereferenced. A dereference of a null root in `gc_bench` has no step, and would be found as a deadlock and by `BenchEnds`.

## 4. Fairness

* *ArrayScanner*: weak fairness of the loop (a call runs to its return) and of `Start` (the collector scans
  what it set out to), strong fairness of `Resume` with a budget other than 0: `ObjectScanner.hpp`
  documents `resume` as what a collector calls until a scan is complete. Strong, because a pause by the
  visitor disables it during the call it causes. A budget of 0 does nothing and is not assumed away:
  it may be passed any number of times. Nothing is assumed of visitors or of the program.
* *GcHeap*: weak fairness of the steps inside an allocation: a thread in a call goes on. The program itself
  need not go on.
* *Bench*, *GenBench*: one thread, weak fairness of its next step. `BenchEnds` counts the crash of `malloc_bench` as an end: the code does nothing to prevent it. It does not count being stuck in `gc_bench`.
* *Runtime*: weak fairness of startup and of shutdown (one thread of OMR goes through each), and per thread of the steps inside a call, be it binding, unbinding or
  paying the tax: the code waits nowhere, and what a thread in a call does next nobody disables. Programs need not bind, unbind, allocate or end.
* *HeaderWord*, *VerboseLog*, *DestroyedSlot*, *ThreadLocalHeap*, and *ThreadBinding*, *Startup*, *Profiling* and *ConcurrentRoots* by themselves: none, and no liveness. *Scavenge* states that of *GcHeap*; its liveness is checked in `gen_bench`.

## 5. Proofs

Checked by TLAPS for every value of the constants within the named assumptions.

* **HeaderProofs**, first of `HeaderWord`, from `LayoutAssumption` (a `size_t` holds the size of the longest array,
  true of 2^32 and 2^64) and `HeaderAssumption`. The size is a function of kind and length only,
  so the inductive invariant says which word *carries* them: the word itself, or, while it is a forwarding
  pointer, both the preserved word and the copy's (`Invariance`). The arithmetic is in lemmas: decoding inverts
  encoding, the GC byte changes neither kind nor length, `Align` rounds up within its bounds and does not wrap. From these
  follow `WalkStepIsRight` (for any request, narrowed or not), `CopyIsComplete`, `FootprintIsRight`, `TypeCorrect`.
* **ArrayScannerProofs**, from `ScannerAssumption`. None of the safety properties is inductive alone. The invariant
  ties `visited` to `current` (slots are visited in order and are all behind it), says that each
  *stable* slot behind `current` has been visited, that a BinArray never pauses, that bytes charged in earlier calls
  and in this one make up `current`, and that a paused scan stands at a slot (`Invariance`). From it
  `AssertsHold`, `VisitsSlotsOnce`, `LosesNoEdge`, `AccountsForAllBytes`, `PausesProperly`, `TypeCorrect`, and
  `Refinement`: the scanner implements `SlotEnumeration` (initial states and each step by cases; calls and pauses stutter).
* Then, in the same module, of `DestroyedSlot`, from `DestroyedSlotAssumption` (there are N originals). That the slots are restored says nothing of the passes before
  the end: the invariant says which word carries a slot in the meantime (`Carried`), up to a copy standing for its original, that each
  original has a copy, a reversed copy or none (`CopiesMatch`), that slots refer only to copies that were made, and that the second pass
  begins when nothing is forwarded (`FixedUp`), which is what makes it recognise copies. `SlotsInvariance`, `BackOutRestoresSlots`.
* **RuntimeProofs**, from `ProfilingAssumption` (a decrement from 1 up to the backoff), `StartupAssumption` and `BindingAssumption`, has the
  theorems of the components of `Runtime` and of their composition.
  Of `ThreadBinding`: the invariant says for every place of the code what is held there
  (`BindingInvariance`); `ResourcesTyped`, `NothingLeaks`, `OrderOfResources`, and `BindingsRefined`: the glue implements `ThreadBindings`.
  `BindingAssumption` is what the undoing in the code needs: the results of `OMR_Thread_LastFree` and
  `OMR_Glue_FreeLanguageThread` are not looked at while undoing, and `OMR_Glue_FreeLanguageThread` returns
  `OMR_ERROR_NONE` unconditionally in this glue.
  Of `ConcurrentRoots`: `UnitsCollectedOnce` does not say what the threads may have read when a cycle begins; the invariant adds that, and that
  the unit is with the one thread that switched to it, or done (`UnitsAreCollectedOnce`).
  Of `Profiling`: the counter and the distance from the last sample add up to at least the backoff (`SamplesAreSpaced`).
  Of `Startup`: at each stage the flags tell the options handled so far, and what is in the forge is what has been made (`CollectorAsAsked`). `InterfaceMayFail` is either value.
  `Composition` shows that every behaviour of the VM is one of each component,
  so that their theorems hold in it (`BindingsInVM`, `ComponentsInVM`). `LeavesNothing` is of the composition alone: it needs the invariants of startup and of the
  bindings, and that no thread is bound or in a call while the VM is not up.
* Then, in the same module, of `ThreadLocalHeap`, which has the same threads, from `ThreadLocalHeapAssumption` (an object fits into the largest chunk). `RefArraysStartNull` says nothing of memory that
  no object has been cut from yet: the invariant adds that what is left of a zeroed chunk is clear, which in turn needs that nobody
  writes to it, `OneOwner`. `OneOwner` needs the pointers of each chunk in order (`TlhTypeOK`). `TlhInvariance`, `TlhTypeCorrect`, `MemoryHasOneOwner`,
  `FreshReferencesAreNull`, by cases over the actions and, for two chunks, over whose they are.
* Then, in the same module, of `VerboseLog`, of a VM's process and those forked from it, from `LogAssumption`. `OwnLog` does not say how a log got its name. The invariant does: the pids in the name of a process stand before
  its first dot, in the order in which processes were forked, so that the last of them tells whose log it is, or there is none and the name has a place for one; and the block
  of the remembered name is among those allocated, with at most one left over per further `configure` (`LogInvariance`). `LogsAreApart`, `NamesAreKept`.
  `SelectInSeq` and the like find a first dot; that there is one is a fact about the least of a set of positions (`LeastFacts`).
* **GcHeapProofs**, from `LayoutAssumption` and `HeapAssumption`. No property of the heap is inductive, as each is suspended in the middle of a
  collection. The invariant (`IInv`) follows a collection through its phases:
  while it marks, what is marked is reachable, and what a marked array refers to is marked or the array is still grey;
  after the sweep the heap is what was reachable; while it compacts, the survivors already moved lie without gaps from the bottom, those not yet moved above
  them, so that a move overwrites nothing but the array it moves, and all references still lead to where the survivors *were*; while it fixes up, the slots of an array
  are the old ones or the new ones, as the array is still to be fixed up or not. All of it is relative to `stopped`, the heap and the roots when the program was stopped.
  `Invariance` gives `TheHeapIsWalkable`, `NoReferenceDangles`, `CollectionsAreExact` and `FailureMeansFull`.
  What can be reached is the smallest set that is closed under references (`Reachable`), so that marking is proved right without induction: the marked arrays are closed when
  nothing is grey, and each of them is in every closed set.
  `Refinement`: the heap implements `ManagedGraph`. Memory as the program sees it is a graph of identities; the steps of the collector do not change what the program sees, as `Seen` is
  `stopped` then; the step that resumes it maps each array to the place it was moved to, which keeps identities, kinds, contents and what is reachable; and each step of the
  program is the same step on the graph. The invariant needed beside `IInv` is that identities are distinct (`SeenInv`).
* **ScavengeProofs**, from the assumptions of `GcHeapProofs` and `ScavengeAssumption` (two halves, no compaction, `Ages` a set of bytes that is not empty). The invariant (`GenInv`) is relative to `stopped` as well.
  Between scavenges it is `IInv` of the heap, every array within one space, and the remembered set complete, so that the global collection is proved by the lemmas of `GcHeapProofs`.
  In a scavenge, `CopyInv` says where everything is: an array that is neither copied nor remembered is as it was, one that has been copied has a forwarding pointer for a header and is whole in its
  copy, up to the collector's byte (`SameButSlots`), which is in the other half or in old space where nothing was; `ScavengeInv` says what is left: every slot of a copy, of a remembered array or of the StackRoots
  is pending and holds what it held at first, or is not and refers to no array of the half that is evacuated; whatever has been copied had to survive. When nothing is pending the copied arrays are closed under
  references, and are hence all that had to survive. In a back-out, which interrupts this anywhere, a slot holds what it held or the copy of it (`BackOutInv`), and
  the originals that are no longer forwarded are whole, up to the same byte. A byte that differs changes neither kind nor length, and so neither the extent of an array nor where the next one begins: these are the lemmas about `Bare` words, which are words without that byte.
  `GenInvariance`, `SpacesApart`, `RememberedSetIsComplete`, `ScavengesAreExact`, `BackOutsLeaveNoTrace`.
  `ScavengerIsInvisible`: this heap implements `ManagedGraph` too, by the lemmas of `GcHeapProofs` for what the program does, for allocation wherever there is room and for the sweep. A store through the
  barrier is the store of the graph (a flag in a header is not seen). At the end of a scavenge each survivor is found where it has gone (`SurvivorsLeft`), with the identity, the kind and the references it had,
  and `ResumedSeen` asks no more than that, whatever old garbage is left beside what the program can reach; at the end of a back-out everything is where it was, and the program does not see the byte.
* **BenchProofs**, from the assumptions of `GcHeapProofs` and `BenchAssumption`, which says of the `constexpr` constants of `main.cpp` that they are `size_t`s, that the table and the number of runs are not
  empty, and that the program asks for arrays of these lengths.
  Of `malloc_bench`: the blocks of a run are numbered by the steps it has made (`Numbered`), so that a block just allocated is not in the table, the one it replaces is in no other entry, and
  the blocks of earlier runs stay as they are, a table full each (`BlocksInv`). `MallocFreesWhatItReplaces`.
  Of both benchmarks: `BothBenchmarksFillOneTable`: `gc_bench` implements `RootTable`, and so does `malloc_bench` after it, whether the heap is compacted or not. The steps of `gc_bench` are
  steps of the program of `GcHeap`, so that its invariant holds (`GcStepIsProgram`); what they do is taken not from the heap but from the graph that the refinement of `GcHeapProofs` shows it to be, and the step of a collector is none of the graph.
  The table is the node which the one StackRoot holds (`TableSeen`). `TableInv` says at every place of `gc_bench` what the StackRoot and the native variable hold: the new RefArray is empty until it is rooted, and the new
  child was made in this iteration and is in no entry until it is stored. The history variable `made` names the arrays in memory; that what the table holds is among them in the middle of collections, when arrays are in two places or have lost their headers,
  is `InMemory`, from `IInv`.
  Of memory: `EnoughMemoryIsEnough`, for any runs, iterations, slots and stride, under `EnoughMemory`: some `size` bounds every child, and with a compacting build the heap has room for a table, `ROOT_SIZE` children and one more; without compaction it
  also has room for `size - 1` granules in each of `ROOT_SIZE + 2` gaps. `SpaceInv` says that `gc_bench` builds nothing but tables, whose slots hold children or null, and children, which refer to nothing. So what the one StackRoot reaches, which is what a
  collection keeps (`CollectionIsExact`), is a table and at most `ROOT_SIZE` children. An allocation returns null only when no place fits the request after a collection (`FailsOnlyWhenFull`); then every granule is in one of
  these arrays or so close before one that the request would run into it, and `Covered` counts that there are more granules than that. When compaction has moved them together there is one gap, behind them. The table itself is allocated while no StackRoot exists, so that the collection leaves nothing (`RoomForTable`).
  `TheDefaultHeapIsEnough`: with the constants of `main.cpp` (a table of 51 granules, 100 children of at most 63) the bound is below 12 700 granules, and the 8 MB that `StartupManagerImpl.hpp` asks for are 524 288.
* **GenBenchProofs**, from the assumptions of `BenchProofs` and `ScavengeAssumption`: the same of the benchmarks beside the generational heap (`MallocFreesBesideGenerational`, `GenerationalFillsTheSameTable`), from the
  lemmas of `BenchProofs` about a table in a graph, the refinement of `ScavengeProofs`, and `InMemory` in the middle of scavenges (`LiveInGenMemory`).
Only model-checked: all liveness (out of reach of the prover, like ENABLED). `NeverOutOfMemory` is false of a heap that is too small, and `EnoughMemory` is sufficient but not necessary: that the run `bench` gets by with 12 granules without compaction, where
`EnoughMemory` asks for 18, is TLC's result, as the theorem counts as if every hole were as unfavourable as can be.
What the pure functions of `SlotIterator`, `SlotContraction` and `SizeClasses` compute is compared with a reference definition by TLC.

## 6. Findings

* `SizeExcludesPadding` (run `header_padding`): the comment on `getObjectSizeInBytesWithHeader` in
  `ObjectModelDelegate.hpp` says that padding is not included; the implementation given for it includes it. The collector
  relies on the padded size (`SizeIsReserved` would fail otherwise), so it is the comment that is wrong.
* `PidBeforeExtension` (run `verbose_pid`): `reconfigureVerboseGC` looks for the *first* dot of the path. The log of a child
  of a process that logs to `./x.log` goes to `_<pid>./x.log`. Logs are still one to a process (`OwnLog`).

## 7. Not modelled

Statistics, traces, build and documentation. In the environment delegate, VM access (`acquireVMAccess` and the others): the functions are declared here with a description of what they are to do,
and defined in OMR, so there is no code to translate; the other hooks are empty. In the concurrent marking delegate, the safepoint callback, the signal handler, `canForceConcurrentKickoff` and the deprecated functions, which return
constants or what OMR makes. In the collector language interface, the hooks that are empty. In `Profiling.c` the sampler, which is under `#if 0`, and the entry for the method dictionary, made of constants. Size classes are a table that nothing uses: with `getSegregatedSizeClasses` as it is, a VM with a segregated heap does not come
up in the model, as the comment on it says that a segregated heap requires them. What `MM_Configuration` and its subclasses do inside is OMR's. In the modelled components: the timing
arithmetic of `run`, argument and error output, heap sizing in bytes, and
free-list shapes of OMR (memory is first-fit; thread-local heaps are a module of their own, and `GcHeap` allocates from the heap directly), parallel collection threads, and what a program does after it has dereferenced a null pointer. In `GcHeap`, a native reference kept across an allocation: the program of the model
gives it up when it asks for memory, as the worksheet demands, and so the models do not show what a stale one would do. In `ThreadBinding`, reading a VM thread after it has been freed. In `ConcurrentRoots`, what OMR does with
the results of `collectRoots` that are not set. In `VerboseLog`, a second `configure` in a forked child, and the base class's own copy of the name of its log. In `Scavenge`, the ages that decide about tenuring (any
decision is allowed), and compaction together with scavenging.

## 8. Plan

Done, in the order of importance: layout and header with proofs, scanner with proofs, heap and collector against the
managed graph, benchmark, scavenger and store barrier against the same graph, the benchmark on it, backing out with compressed headers with proofs, thread-local heap with proofs, thread binding with proofs, verbose log, the slot iterator,
slot contraction, size classes, and the life of the VM from startup to shutdown with threads, sampling and concurrent root collection, with proofs.

The heap, the scavenger with its store barrier and backing out, the benchmarks on both heaps and the verbose log are proved as well, with all of their safety properties and with their refinements, and the memory that `gc_bench` needs is bounded.

What is left to prove, on the heap that the scavenger shares with the global collector, is the memory that `gc_bench` needs there: what is tenured dead keeps memory until the next global collection, so the count of `EnoughMemory` does not carry over.
TLC checks it in `gen_bench`, where `gc_bench` could not return otherwise.

## 9. Running it

`tlc -config MCGcHeap.cfg MCGcHeap` checks a run (each configuration names the module it belongs to, but `HeaderWordPadding.cfg` goes with
`MCHeaderWord` and `VerboseLogPid.cfg` with `MCVerboseLog`); `tlapm ArrayScannerProofs.tla` checks the proofs of a module.
