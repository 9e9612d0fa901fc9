------------------------------- MODULE GcHeap -------------------------------
(***************************************************************************)
(* The garbage-collected heap that Splash arrays live in.                  *)
(*                                                                         *)
(* The program allocates arrays, keeps references to them in StackRoots    *)
(* and in array slots, and holds at most one reference in a native         *)
(* variable.  Every allocation may stop the program and collect: mark what *)
(* the StackRoots reach, sweep the rest and, in a build with compaction,   *)
(* slide the survivors together and fix up every reference to them.  The   *)
(* collector itself is the OMR library: it is modelled from what the       *)
(* repository's code gives it (headers, sizes, scanner, roots) and from    *)
(* what that code relies on.                                               *)
(*                                                                         *)
(* Memory is counted in granules of ALIGNMENT bytes, addressed from 1; 0   *)
(* is nullptr.  An array is found at the address of its header word.       *)
(***************************************************************************)
EXTENDS ArrayLayout, Sequences, Functions, FiniteSetsExt

CONSTANTS
    HeapSize,      \* in granules
    MaxRoots,      \* bound: StackRoots alive at a time
    RefLengths,    \* lengths of the RefArrays the program allocates
    BinLengths,    \* lengths of the BinArrays the program allocates
    UsedSlots,     \* bound: the slots of RefArrays it stores to and loads from
    Compacting     \* OMR_GC_MODRON_COMPACTION, and -Xcompactgc in the options

MaxLength == Max(RefLengths \cup {0})

ASSUME HeapAssumption ==
    /\ HeapSize \in Nat
    /\ MaxRoots \in Nat
    /\ RefLengths \subseteq Length
    /\ BinLengths \subseteq Length
    /\ UsedSlots \subseteq 1 .. MaxLength
    /\ Compacting \in BOOLEAN

VARIABLES
    heap,      \* address -> [word, slots, id] of every array not yet swept
    roots,     \* the linked list of StackRoots, the youngest last
    native,    \* the reference in the native variable
    request,   \* the allocation in progress: {} or {[kind, length, collected]}
    phase,     \* "mutator", or what the collector is doing
    marked,    \* arrays marked, and of these
    grey,      \*   the ones still to be scanned
    unmoved,   \* arrays compaction has still to slide,
    forward,   \*   where those it has moved are now, and
    unfixed,   \*   moved arrays whose slots are still to be fixed up
    stopped    \* History: heap and roots when the program was last stopped

mutator   == <<heap, roots, native, request>>
collector == <<phase, marked, grey, unmoved, forward, unfixed, stopped>>
vars      == <<heap, roots, native, request, phase, marked, grey,
               unmoved, forward, unfixed, stopped>>

Null    == 0
Address == 1 .. HeapSize
NoStop  == [heap |-> <<>>, roots |-> <<>>]

Init ==
    /\ heap = <<>> /\ roots = <<>> /\ native = Null /\ request = {}
    /\ phase = "mutator"
    /\ marked = {} /\ grey = {}
    /\ unmoved = {} /\ forward = <<>> /\ unfixed = {}
    /\ stopped = NoStop

-----------------------------------------------------------------------------
(* The object model, as the collector sees memory.                         *)

Granules(bytes)   == bytes \div ALIGNMENT
SizeOf(array)     == Granules(ObjectSizeWithHeader(array.word))
Span(a, size)     == a .. a + size - 1
Extent(memory, a) == Span(a, SizeOf(memory[a]))
InUse(memory)     == UNION {Extent(memory, a) : a \in DOMAIN memory}

\* Where an array of this size can be put.
Holes(size) == {a \in 1 .. HeapSize + 1 - size : Span(a, size) \cap InUse(heap) = {}}

\* Mutants: the scanner stops short of the last slot; it shows none.
ShownButLast(array) == {i \in DOMAIN array.slots : array.slots[i] # Null /\ i + 1 \in DOMAIN array.slots}
ShownNothing(array) == {}

\* The slots of an array that the ArrayScanner shows a visitor.
Shown(array) == {i \in DOMAIN array.slots : array.slots[i] # Null}

Referents(memory, a) == {memory[a].slots[i] : i \in Shown(memory[a])}

\* The references that the array at an address holds.
Edges(memory, a) == Range(memory[a].slots) \ {Null}

Closed(memory, S) == \A a \in S : Edges(memory, a) \cap DOMAIN memory \subseteq S

\* The arrays in every closed set that holds these: the smallest such set.
Reachable(memory, from) ==
    {a \in DOMAIN memory :
        \A S \in SUBSET DOMAIN memory :
            from \cap DOMAIN memory \subseteq S /\ Closed(memory, S) => a \in S}

-----------------------------------------------------------------------------
(* Allocation.                                                             *)

InMutator == phase = "mutator" /\ request = {}

\* A call of allocateRefArray or allocateBinArray.  It may collect, so a
\* reference held in a native variable does not survive it.
Request(kind, length) ==
    /\ InMutator
    /\ request' = {[kind |-> kind, length |-> length, collected |-> FALSE]}
    /\ native' = Null
    /\ UNCHANGED <<heap, roots, collector>>

\* The slots an array is born with.  allocateRefArray takes zeroed memory;
\* memory that is not zeroed holds what earlier arrays left there.
ZeroedSlots(length)  == {[i \in 1 .. length |-> Null]}

\* Mutant: references are allocated from memory that is not zeroed.
FreshSlotsNonZero(kind, length) ==
    IF kind = REF THEN [1 .. length -> Address \cup {Null}] ELSE {<<>>}

FreshSlots(kind, length) == IF kind = REF THEN ZeroedSlots(length) ELSE {<<>>}

\* History: a name for a new array, to follow it when it moves.
FreshId == Min(Address \ {heap[a].id : a \in DOMAIN heap})

\* The primitive initializer writes the header into the reserved memory.
Place(r, a, slots) ==
    LET array == [word |-> InitializedWord(r.kind, r.length),
                  slots |-> slots, id |-> FreshId]
    IN  [x \in DOMAIN heap \cup {a} |-> IF x = a THEN array ELSE heap[x]]

\* The allocation succeeds: OMR finds memory (the lowest hole that is big
\* enough), it is initialized, and the caller gets the address.
Allocate ==
    /\ phase = "mutator"
    /\ \E r \in request :
         LET holes == Holes(Granules(AllocationSize(r.kind, r.length))) IN
           /\ holes # {}
           /\ native' = Min(holes)
           /\ \E slots \in FreshSlots(r.kind, r.length) :
                 heap' = Place(r, Min(holes), slots)
    /\ request' = {}
    /\ UNCHANGED <<roots, collector>>

\* Mutant: the allocation gives up without collecting.
AllocationFailsAtOnce ==
    /\ phase = "mutator"
    /\ \E r \in request :
         Holes(Granules(AllocationSize(r.kind, r.length))) = {}
    /\ request' = {}
    /\ UNCHANGED <<heap, roots, native, collector>>

\* The allocation fails after a collection: the caller gets nullptr.
AllocationFails ==
    /\ phase = "mutator"
    /\ \E r \in request :
         /\ r.collected
         /\ Holes(Granules(AllocationSize(r.kind, r.length))) = {}
    /\ request' = {}
    /\ UNCHANGED <<heap, roots, native, collector>>

-----------------------------------------------------------------------------
(* The program.                                                            *)

\* StackRoot(cx, ref = nullptr): pushed at construction, popped at destruction.
PushRoot(ref) ==
    /\ InMutator /\ Len(roots) < MaxRoots
    /\ roots' = Append(roots, ref)
    /\ UNCHANGED <<heap, native, request, collector>>

PopRoot ==
    /\ InMutator /\ roots # <<>>
    /\ roots' = SubSeq(roots, 1, Len(roots) - 1)
    /\ UNCHANGED <<heap, native, request, collector>>

\* root = native; native = root.get().
AssignRoot(r) ==
    /\ InMutator
    /\ roots' = [roots EXCEPT ![r] = native]
    /\ UNCHANGED <<heap, native, request, collector>>

GetRoot(r) ==
    /\ InMutator
    /\ native' = roots[r]
    /\ UNCHANGED <<heap, roots, request, collector>>

HasSlot(r, i) == roots[r] # Null /\ i \in DOMAIN heap[roots[r]].slots

\* root->data[i] = native; native = root->data[i].
Store(r, i) ==
    /\ InMutator /\ HasSlot(r, i)
    /\ heap' = [heap EXCEPT ![roots[r]].slots[i] = native]
    /\ UNCHANGED <<roots, native, request, collector>>

Load(r, i) ==
    /\ InMutator /\ HasSlot(r, i)
    /\ native' = heap[roots[r]].slots[i]
    /\ UNCHANGED <<heap, roots, request, collector>>

-----------------------------------------------------------------------------
(* A stop-the-world global collection.                                     *)

\* The StackRoots are walked and their referents marked.
RootSet == Range(roots) \ {Null}

\* Mutant: it is forgotten that this allocation has collected already.
StartCollectionAgain ==
    /\ phase = "mutator"
    /\ request # {}
    /\ phase' = "mark"
    /\ marked' = RootSet /\ grey' = RootSet
    /\ stopped' = [heap |-> heap, roots |-> roots]
    /\ UNCHANGED <<heap, roots, native, request, unmoved, forward, unfixed>>

StartCollection ==
    /\ phase = "mutator"
    /\ \E r \in request : ~r.collected /\ request' = {[r EXCEPT !.collected = TRUE]}
    /\ phase' = "mark"
    /\ marked' = RootSet /\ grey' = RootSet
    /\ stopped' = [heap |-> heap, roots |-> roots]
    /\ UNCHANGED <<heap, roots, native, unmoved, forward, unfixed>>

\* A marked array is scanned: its children are marked, to be scanned in turn.
\* (The arrays are taken in address order; the order makes no difference.)
Mark ==
    /\ phase = "mark" /\ grey # {}
    /\ LET a == Min(grey) IN
       /\ grey' = (grey \ {a}) \cup (Referents(heap, a) \ marked)
       /\ marked' = marked \cup Referents(heap, a)
    /\ UNCHANGED <<mutator, phase, unmoved, forward, unfixed, stopped>>

\* The delegate is asked before each compaction.
CompactionPrevented == FALSE

Compacts == Compacting /\ ~CompactionPrevented

\* What is not marked is free memory; marks are taken off the survivors.
Sweep ==
    /\ phase = "mark" /\ grey = {}
    /\ heap' = Restrict(heap, marked)
    /\ marked' = {} /\ UNCHANGED grey
    /\ IF Compacts
       THEN phase' = "compact" /\ unmoved' = marked /\ forward' = <<>> /\ UNCHANGED stopped
       ELSE phase' = "mutator" /\ stopped' = NoStop /\ UNCHANGED <<unmoved, forward>>
    /\ UNCHANGED <<roots, native, request, unfixed>>

\* Compaction slides the arrays down in the order of their addresses: the
\* next one goes where the ones already moved end.
Bottom == IF forward = <<>> THEN 1
          ELSE LET last == Max(Range(forward)) IN last + SizeOf(heap[last])

NextToMove == Min(unmoved)

\* Memory is overwritten where the array is moved to.
Move(a, to) ==
    LET target == Span(to, SizeOf(heap[a]))
        kept   == {x \in DOMAIN heap \ {a} : Extent(heap, x) \cap target = {}}
    IN  [x \in kept \cup {to} |-> IF x = to THEN heap[a] ELSE heap[x]]

Slide ==
    /\ phase = "compact" /\ unmoved # {}
    /\ LET a == NextToMove IN
         /\ heap' = Move(a, Bottom)
         /\ unmoved' = unmoved \ {a}
         /\ forward' = [x \in DOMAIN forward \cup {a} |->
                            IF x = a THEN Bottom ELSE forward[x]]
    /\ UNCHANGED <<roots, native, request, phase, marked, grey, unfixed, stopped>>

StartFixup ==
    /\ phase = "compact" /\ unmoved = {}
    /\ phase' = "fixup"
    /\ unfixed' = DOMAIN heap
    /\ UNCHANGED <<mutator, marked, grey, unmoved, forward, stopped>>

Forwarded(a) == IF a = Null THEN Null ELSE forward[a]

\* The fixup visitor writes the new address through each slot handle.
FixSlots ==
    /\ phase = "fixup" /\ unfixed # {}
    /\ LET a == Min(unfixed) IN
       /\ heap' = [heap EXCEPT ![a].slots =
                       [i \in DOMAIN @ |-> IF i \in Shown(heap[a]) THEN Forwarded(@[i]) ELSE @[i]]]
       /\ unfixed' = unfixed \ {a}
    /\ UNCHANGED <<roots, native, request, phase, marked, grey, unmoved, forward, stopped>>

FixedRoots == [r \in DOMAIN roots |-> Forwarded(roots[r])]

\* The references in the StackRoots are fixed up, and the program resumes.
FinishCompaction ==
    /\ phase = "fixup" /\ unfixed = {}
    /\ roots' = FixedRoots
    /\ phase' = "mutator"
    /\ forward' = <<>>
    /\ stopped' = NoStop
    /\ UNCHANGED <<heap, native, request, marked, grey, unmoved, unfixed>>

Collect ==
    \/ StartCollection
    \/ Mark
    \/ Sweep
    \/ Slide
    \/ StartFixup
    \/ FixSlots
    \/ FinishCompaction

Program ==
    \/ \E length \in RefLengths : Request(REF, length)
    \/ \E length \in BinLengths : Request(BIN, length)
    \/ \E ref \in {Null, native} : PushRoot(ref)
    \/ PopRoot
    \/ \E r \in DOMAIN roots : AssignRoot(r) \/ GetRoot(r)
    \/ \E r \in DOMAIN roots, i \in UsedSlots : Store(r, i) \/ Load(r, i)

Next == Program \/ Allocate \/ AllocationFails \/ Collect

Spec == Init /\ [][Next]_vars

\* A call that allocates runs, with the collection it may trigger, to its end.
FairSpec == Spec /\ WF_vars(Allocate \/ AllocationFails \/ Collect)

-----------------------------------------------------------------------------
(* Properties                                                              *)

\* The heap can be walked by sizes read from headers, no two arrays overlap,
\* and each has the slots that its header says, even between two moves of a
\* compaction.
HeapWalkable ==
    /\ InUse(heap) \subseteq Address
    /\ \A a \in DOMAIN heap :
         DOMAIN heap[a].slots = IF HeaderKind(heap[a].word) = REF
                                THEN 1 .. HeaderLength(heap[a].word) ELSE {}
    /\ \A a, b \in DOMAIN heap : a # b => Extent(heap, a) \cap Extent(heap, b) = {}

\* While the program runs, every reference it can get at, and every slot of
\* every array still in memory, is null or leads to the header of an array.
NoDanglingReference ==
    phase = "mutator" =>
        (Range(roots) \cup {native} \cup UNION {Range(heap[a].slots) : a \in DOMAIN heap})
            \subseteq DOMAIN heap \cup {Null}

IdsOf(memory, addresses) == {memory[a].id : a \in addresses}

\* A collection leaves exactly what the StackRoots reached when the program was
\* stopped: nothing of that is lost, no garbage survives, and after a
\* compaction the free memory is one piece.
CollectionIsExact ==
    [][ phase # "mutator" /\ phase' = "mutator" =>
          /\ IdsOf(heap', DOMAIN heap')
                = IdsOf(stopped.heap, Reachable(stopped.heap, Range(stopped.roots)))
          /\ DOMAIN heap' = Reachable(heap', Range(roots'))
          /\ Compacting => InUse(heap') = 1 .. Cardinality(InUse(heap')) ]_vars

\* An allocation returns nullptr only if, in a compacting build, the arrays
\* that are reachable leave less memory than it asks for.
FailsOnlyWhenFull ==
    [][ request # {} /\ request' = {} /\ native' = Null =>
          \A r \in request :
            Compacting => Cardinality(InUse(Restrict(heap, Reachable(heap, Range(roots)))))
                              + Granules(AllocationSize(r.kind, r.length)) > HeapSize ]_vars

\* The heap as the program sees it: while it is stopped, it sees what was
\* there when it was stopped.
Seen == IF phase = "mutator" THEN [heap |-> heap, roots |-> roots] ELSE stopped

IdAt(memory, a) == IF a \in DOMAIN memory THEN memory[a].id ELSE Null

Visible ==
    LET memory == Seen.heap
        live   == Reachable(memory, Range(Seen.roots) \cup {native})
        At(id) == CHOOSE a \in live : memory[a].id = id
    IN  [id \in {memory[a].id : a \in live} |->
            LET array == memory[At(id)]
            IN  [kind  |-> HeaderKind(array.word),
                 slots |-> [i \in DOMAIN array.slots |-> IdAt(memory, array.slots[i])]]]

Graph == INSTANCE ManagedGraph WITH
    ArrayKinds <- Kinds,
    MaxObjects <- HeapSize,
    MaxLength  <- MaxLength,
    arrays     <- Visible,
    roots      <- [r \in DOMAIN Seen.roots |-> IdAt(Seen.heap, Seen.roots[r])],
    native     <- IdAt(Seen.heap, native),
    calling    <- (request # {})

\* The program cannot tell that there is a collector: what it reads through
\* its references is what it last stored, whatever was freed or moved.
CollectorIsInvisible == Graph!Spec

\* Every call to allocate returns.
AllocationReturns == request # {} ~> request = {}
=============================================================================
