------------------------------ MODULE Scavenge ------------------------------
(***************************************************************************)
(* The heap of Splash arrays under the generational collector, which the   *)
(* last task of the tutorial turns on.                                     *)
(*                                                                         *)
(* New arrays are put in one half of new space.  When it is full the       *)
(* scavenger copies the survivors to the other half or tenures them in old *)
(* space, starting from the StackRoots and from the remembered set, the    *)
(* old arrays that refer to new ones.  The store barrier keeps that set.   *)
(* A scavenge that runs out of memory is backed out: the headers of the    *)
(* originals are restored from the copies.  If room is still wanting, the  *)
(* whole heap is marked and swept.                                         *)
(*                                                                         *)
(* The collector's byte of a header holds, in the same bits, the age of a  *)
(* new array and the remembered flag of an old one.                        *)
(*                                                                         *)
(* The program's other actions and the global collection are GcHeap's.     *)
(***************************************************************************)
EXTENDS GcHeap

CONSTANTS
    Half,   \* granules in each half of new space; the rest is old space
    Ages    \* what OMR may write in the collector's byte of a copy

ASSUME ScavengeAssumption ==
    /\ Half \in Nat /\ 2 * Half <= HeapSize /\ ~Compacting
    /\ Ages \subseteq 0 .. 255 /\ Ages # {}

VARIABLES
    fresh,        \* the half that arrays are allocated in: 0 or 1
    remembered,   \* the remembered set: a list of old arrays
    pending,      \* slots the scavenge has still to deal with
    scavenged     \* has the allocation in progress scavenged already?

generational == <<fresh, remembered, pending, scavenged>>
everything   == <<vars, generational>>

HalfSpace(k) == Span(1 + k * Half, Half)
NewSpace     == HalfSpace(0) \cup HalfSpace(1)
OldSpace     == Address \ NewSpace
Evacuate     == HalfSpace(fresh)
Survivor     == HalfSpace(1 - fresh)

\* A remembered array, which is old, has a flag in the collector's byte of its
\* header.
REMEMBERED == 32
IsRemembered(memory, a) == GCByte(memory[a].word) = REMEMBERED

GenInit ==
    /\ Init
    /\ fresh = 0 /\ remembered = {} /\ pending = {} /\ scavenged = FALSE

\* Where a space has room for an array of this size.
Room(space, size) ==
    {a \in space : Span(a, size) \subseteq space \ InUse(Restrict(heap, DOMAIN heap \cap space))}

RequestSize(r) == Granules(AllocationSize(r.kind, r.length))

-----------------------------------------------------------------------------
(* Allocation and the store barrier.                                       *)

\* In new space; in old space only when collecting has not made room there.
GenAllocate ==
    /\ phase = "mutator"
    /\ \E r \in request :
         LET room == IF Room(Evacuate, RequestSize(r)) # {} \/ ~r.collected
                     THEN Room(Evacuate, RequestSize(r))
                     ELSE Room(OldSpace, RequestSize(r))
         IN  /\ room # {}
             /\ native' = Min(room)
             /\ \E slots \in FreshSlots(r.kind, r.length) : heap' = Place(r, Min(room), slots)
    /\ request' = {} /\ scavenged' = FALSE
    /\ UNCHANGED <<roots, collector, fresh, remembered, pending>>

GenAllocationFails ==
    /\ phase = "mutator"
    /\ \E r \in request :
         r.collected /\ \A space \in {Evacuate, OldSpace} : Room(space, RequestSize(r)) = {}
    /\ request' = {} /\ scavenged' = FALSE
    /\ UNCHANGED <<heap, roots, native, collector, fresh, remembered, pending>>

\* Mutant: an edge from new to old space is remembered.
MustRememberBackwards(a, value) == a \in NewSpace /\ value \in OldSpace /\ ~IsRemembered(heap, a)

\* Does storing this reference in the array make an edge from old to new
\* space, from an array that is not remembered yet?
MustRemember(a, value) == a \in OldSpace /\ value \in NewSpace /\ ~IsRemembered(heap, a)

\* Mutant: root->data[i] = native, without the barrier.
StoreUnbarriered(r, i) == Store(r, i) /\ UNCHANGED generational

\* Splash::store(cx, *root, i, native)
StoreBarriered(r, i) ==
    /\ InMutator /\ HasSlot(r, i)
    /\ LET a      == roots[r]
           stored == [heap EXCEPT ![a].slots[i] = native]
       IN  IF MustRemember(a, native)
           THEN /\ heap' = [stored EXCEPT ![a].word = WithGCByte(@, REMEMBERED)]
                /\ remembered' = remembered \cup {a}
           ELSE heap' = stored /\ UNCHANGED remembered
    /\ UNCHANGED <<roots, native, request, collector, fresh, pending, scavenged>>

-----------------------------------------------------------------------------
(* A scavenge.  A slot is <<0, r>> for StackRoot r, or <<address, index>>. *)

SlotsOf(memory, a) == {a} \X Shown(memory[a])
RootSlots          == {0} \X DOMAIN roots

\* The hooks of the language: no scavenge is given up beforehand for a global
\* collection, and arrays refer to nothing but through their slots.
Percolates           == FALSE
TimeForGlobalKickoff == FALSE
IndirectReferents    == {}

GlobalInstead == Percolates \/ TimeForGlobalKickoff

ScavengeRoots == RootSlots \cup IndirectReferents
                     \cup UNION {SlotsOf(heap, a) : a \in remembered}

StartScavenge ==
    /\ phase = "mutator" /\ ~scavenged /\ ~GlobalInstead
    /\ \E r \in request : Room(Evacuate, RequestSize(r)) = {}
    /\ phase' = "scavenge" /\ scavenged' = TRUE
    /\ pending' = ScavengeRoots
    /\ stopped' = [heap |-> heap, roots |-> roots]
    /\ UNCHANGED <<mutator, marked, grey, unmoved, forward, unfixed, fresh, remembered>>

Referent(slot) == IF slot[1] = 0 THEN roots[slot[2]] ELSE heap[slot[1]].slots[slot[2]]

\* The slot is made to refer to the copy.
Redirect(slot, memory, copy) ==
    IF slot[1] = 0
    THEN roots' = [roots EXCEPT ![slot[2]] = copy] /\ heap' = memory
    ELSE heap' = [memory EXCEPT ![slot[1]].slots[slot[2]] = copy] /\ UNCHANGED roots

Unscavenged(slot) == Referent(slot) \in Evacuate \ DOMAIN forward

\* The slot refers to no array in the half being evacuated, or to one that has
\* been copied.
ScavengeSlot(slot) ==
    /\ phase = "scavenge" /\ ~Unscavenged(slot)
    /\ LET a == Referent(slot) IN
         IF a \in DOMAIN forward THEN Redirect(slot, heap, forward[a])
                                 ELSE UNCHANGED <<heap, roots>>
    /\ pending' = pending \ {slot}
    /\ UNCHANGED <<native, request, collector, fresh, remembered, scavenged>>

\* The word that a forwarding pointer leaves in the original.
FORWARDED == 4

\* Mutant: every array is taken for a BinArray.
CopySizeOfBin(a) == Granules(BinArraySize(HeaderLength(heap[a].word)))

\* calculateObjectDetailsForCopy: as much memory as the size of the original.
CopySize(a) == Granules(ForwardedObjectSize(heap[a].word))

\* The array is copied, to the other half or, if its age lets it, to old
\* space; a forwarding pointer replaces its header.  The copy's slots are next.
\* The copy's flags are OMR's choice: nothing reads them before the scavenge
\* ends, so that what OMR changes in them later is chosen here too.
CopyArray(slot) ==
    /\ phase = "scavenge" /\ Unscavenged(slot)
    /\ LET a == Referent(slot) IN
       \E space \in {Survivor, OldSpace}, flags \in Ages :
         LET room == Room(space, CopySize(a))
             to   == Min(room)
             copy == [x \in DOMAIN heap \cup {to} |->
                         IF x = to THEN [heap[a] EXCEPT !.word = WithGCByte(@, flags)]
                         ELSE IF x = a THEN [heap[a] EXCEPT !.word = FORWARDED] ELSE heap[x]]
         IN  /\ room # {}
             /\ Redirect(slot, copy, to)
             /\ forward' = [x \in DOMAIN forward \cup {a} |-> IF x = a THEN to ELSE forward[x]]
             /\ pending' = (pending \ {slot}) \cup SlotsOf(copy, to)
    /\ UNCHANGED <<native, request, phase, marked, grey, unmoved, unfixed, stopped,
                   fresh, remembered, scavenged>>

\* The old arrays that may refer to new ones: those that did, and the tenured.
MayRefer == remembered \cup (Range(forward) \cap OldSpace)

\* The half is empty now, and the other one is allocated in.  The remembered
\* set becomes the old arrays scanned that refer to a survivor; the survivors
\* keep their age.
FinishScavenge ==
    LET now == {a \in MayRefer : Referents(heap, a) \cap Survivor # {}} IN
    /\ phase = "scavenge" /\ pending = {}
    /\ heap' = [a \in DOMAIN heap \ Evacuate |->
                   IF a \in OldSpace
                   THEN [heap[a] EXCEPT !.word = WithGCByte(@, IF a \in now THEN REMEMBERED ELSE 0)]
                   ELSE heap[a]]
    /\ remembered' = now
    /\ fresh' = 1 - fresh
    /\ forward' = <<>>
    /\ phase' = "mutator" /\ stopped' = NoStop
    /\ UNCHANGED <<roots, native, request, marked, grey, unmoved, unfixed, pending, scavenged>>

-----------------------------------------------------------------------------
(* Backing out.                                                            *)

\* There is no memory for a copy: the free memory is in pieces held by others.
StartBackOut(slot) ==
    /\ phase = "scavenge" /\ Unscavenged(slot)
    /\ phase' = "backout" /\ pending' = {}
    /\ UNCHANGED <<mutator, marked, grey, unmoved, forward, unfixed, stopped,
                   fresh, remembered, scavenged>>

\* Slots of roots and of remembered arrays that refer to the copy refer to the
\* original again; the copy is gone.
Reversed(a, word) ==
    LET copy    == forward[a]
        Back(x) == IF x = copy THEN a ELSE x
    IN  /\ roots' = [r \in DOMAIN roots |-> Back(roots[r])]
        /\ heap' = [x \in DOMAIN heap \ {copy} |->
                IF x = a THEN [heap[a] EXCEPT !.word = word]
                ELSE IF x \in remembered
                THEN [heap[x] EXCEPT !.slots = [i \in DOMAIN @ |-> Back(@[i])]]
                ELSE heap[x]]

\* Mutant: the forwarding pointer is left in the original.
HeaderLeftForwarded(a) == heap[a].word

\* scavenger_reverseForwardedObject: the header comes from the copy.
HeaderFromCopy(a) == heap[forward[a]].word

ReverseForwarded ==
    /\ phase = "backout" /\ forward # <<>>
    /\ LET a == Min(DOMAIN forward) IN
         /\ Reversed(a, HeaderFromCopy(a))
         /\ forward' = Restrict(forward, DOMAIN forward \ {a})
    /\ UNCHANGED <<native, request, phase, marked, grey, unmoved, unfixed, stopped,
                   generational>>

FinishBackOut ==
    /\ phase = "backout" /\ forward = <<>>
    /\ phase' = "mutator" /\ stopped' = NoStop
    /\ UNCHANGED <<mutator, marked, grey, unmoved, forward, unfixed, generational>>

-----------------------------------------------------------------------------
(* The global collection that follows a scavenge that made no room, or that *)
(* a hook asks for in its place.                                           *)

StartGlobal ==
    /\ scavenged \/ GlobalInstead
    /\ \E r \in request : Room(Evacuate, RequestSize(r)) = {}
    /\ StartCollection
    /\ UNCHANGED generational

MarkGlobal == Mark /\ UNCHANGED generational

\* Dead arrays are taken off the remembered set.
SweepGlobal ==
    /\ Sweep
    /\ remembered' = remembered \cap marked
    /\ UNCHANGED <<fresh, pending, scavenged>>

GenCollect ==
    \/ StartScavenge
    \/ \E slot \in pending : ScavengeSlot(slot) \/ CopyArray(slot) \/ StartBackOut(slot)
    \/ FinishScavenge
    \/ ReverseForwarded
    \/ FinishBackOut
    \/ StartGlobal
    \/ MarkGlobal
    \/ SweepGlobal

GenProgram ==
    \/ \E length \in RefLengths : Request(REF, length) /\ UNCHANGED generational
    \/ \E length \in BinLengths : Request(BIN, length) /\ UNCHANGED generational
    \/ \E ref \in {Null, native} : PushRoot(ref) /\ UNCHANGED generational
    \/ PopRoot /\ UNCHANGED generational
    \/ \E r \in DOMAIN roots : AssignRoot(r) /\ UNCHANGED generational
    \/ \E r \in DOMAIN roots : GetRoot(r) /\ UNCHANGED generational
    \/ \E r \in DOMAIN roots, i \in UsedSlots : Load(r, i) /\ UNCHANGED generational
    \/ \E r \in DOMAIN roots, i \in UsedSlots : StoreBarriered(r, i)

GenInside == GenAllocate \/ GenAllocationFails \/ GenCollect

GenNext == GenProgram \/ GenInside

\* A call that allocates runs, with the collections it triggers, to its end.
GenSpec == GenInit /\ [][GenNext]_everything /\ WF_everything(GenInside)

-----------------------------------------------------------------------------
(* Properties                                                              *)

\* Arrays lie within one space.  What a collection keeps for itself is empty
\* while the program runs.
GenTypeOK ==
    /\ fresh \in {0, 1} /\ scavenged \in BOOLEAN
    /\ phase \in {"mutator", "mark", "scavenge", "backout"}
    /\ phase = "mutator" => /\ forward = <<>> /\ pending = {} /\ grey = {}
                            /\ \A a \in DOMAIN heap : \E space \in {Evacuate, OldSpace} :
                                   Extent(heap, a) \subseteq space

\* While the program runs, every old array that refers to a new one is on the
\* remembered set, dead ones too; the list and the flags in the headers agree,
\* and nothing on the list has been freed.  Tenuring, backing a scavenge out
\* and sweeping the whole heap keep it so.
RememberedSetComplete ==
    phase = "mutator" =>
        /\ \A a \in DOMAIN heap \cap OldSpace :
              Edges(heap, a) \cap NewSpace # {} => a \in remembered
        /\ remembered = {a \in DOMAIN heap \cap OldSpace : IsRemembered(heap, a)}

\* A scavenge that is not backed out leaves exactly the arrays that were old
\* when it started and what they and the StackRoots reached then: no new array
\* is lost that an old one keeps alive, and no garbage is copied.
ScavengeIsExact ==
    [][ phase = "scavenge" /\ phase' = "mutator" =>
          LET before == stopped.heap
              old    == DOMAIN before \cap OldSpace
          IN  IdsOf(heap', DOMAIN heap')
                = IdsOf(before, old \cup Reachable(before, Range(stopped.roots) \cup old)) ]_everything

\* Memory, but for the ages of the new arrays.
Ageless(memory) ==
    [a \in DOMAIN memory |->
        IF a \in OldSpace THEN memory[a] ELSE [memory[a] EXCEPT !.word = WithGCByte(@, 0)]]

\* A scavenge that is backed out leaves no trace but in the ages of arrays that
\* it had copied, which come from the copies: the same arrays, of the same kind
\* and length, refer to each other and are referred to by the roots as at the
\* moment it started, and the remembered flags of old arrays are as they were.
BackOutLeavesNoTrace ==
    [][ phase = "backout" /\ phase' = "mutator" =>
          Ageless(heap') = Ageless(stopped.heap) /\ roots' = stopped.roots ]_everything
=============================================================================
