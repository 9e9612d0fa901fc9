--------------------------- MODULE ThreadLocalHeap ---------------------------
(***************************************************************************)
(* MM_LanguageThreadLocalHeap: where a thread allocates without a lock.    *)
(*                                                                         *)
(* A thread-local heap (TLH) is a chunk of memory that one thread cuts     *)
(* objects from.  Where OMR_GC_NON_ZERO_TLH is defined each thread has     *)
(* two, of which one was cleared when it was taken from the pool.  The     *)
(* glue holds the fields of both and tells the collector, with one         *)
(* accessor for each field, which to use: the accessors have to agree.     *)
(***************************************************************************)
EXTENDS Naturals, FiniteSets, VMThreads

CONSTANTS
    N,             \* the heap is the cells 1 .. N
    ChunkSize,     \* the largest chunk
    Sizes          \* of objects

ASSUME ThreadLocalHeapAssumption ==
    /\ N \in Nat /\ ChunkSize \in Nat
    /\ Sizes \subseteq 1 .. ChunkSize

Cell  == 1 .. N
NULL  == 0
Kinds == {"RefArray", "BinArray"}

VARIABLES
    nonZeroTlh,  \* is OMR_GC_NON_ZERO_TLH defined in this build?
    field,       \* thread -> name of a field -> its value
    pool,        \* cells that are nobody's
    used,        \* cells that may not be zero
    objects      \* what has been allocated and not been freed

tlhVars == <<nonZeroTlh, field, pool, used, objects>>

Fields == {"heapBase", "heapAlloc", "heapTop",
           "nonZeroHeapBase", "nonZeroHeapAlloc", "nonZeroHeapTop"}

-----------------------------------------------------------------------------
(* The accessors, each with its own conditional compilation.               *)

\* getLanguageThreadLocalHeapStruct; of that structure, the base.
HeapBase(zeroTLH) ==
    IF nonZeroTlh /\ ~zeroTLH THEN "nonZeroHeapBase" ELSE "heapBase"

HeapAlloc(zeroTLH) ==
    IF nonZeroTlh /\ ~zeroTLH THEN "nonZeroHeapAlloc" ELSE "heapAlloc"

\* Mutant: the conditional was forgotten.
HeapTopAlways(zeroTLH) == "heapTop"

HeapTop(zeroTLH) ==
    IF nonZeroTlh /\ ~zeroTLH THEN "nonZeroHeapTop" ELSE "heapTop"

-----------------------------------------------------------------------------
(* What the collector does with the fields.                                *)

Base(t, z)  == field[t][HeapBase(z)]
Alloc(t, z) == field[t][HeapAlloc(z)]
Top(t, z)   == field[t][HeapTop(z)]

\* The part of a chunk that no object has been cut from.
Remainder(t, z) == {c \in Cell : Alloc(t, z) <= c /\ c < Top(t, z)}

Extent(o) == o.first .. o.first + o.size - 1

\* Mutant: both allocators ask for memory that is not zeroed.
ZeroedNever(kind) == FALSE

\* allocateRefArray asks for zeroed memory, allocateBinArray does not.
Zeroed(kind) == kind = "RefArray"

\* new MM_LanguageThreadLocalHeap
TlhInit ==
    /\ nonZeroTlh \in BOOLEAN
    /\ field = [t \in Thread |-> [f \in Fields |-> NULL]]
    /\ pool = Cell
    /\ used = {}
    /\ objects = {}

\* An object is cut from a chunk.  dirt: the cells of it that were not zero.
Allocate(t, kind, size) ==
    LET z     == Zeroed(kind)
        cells == Alloc(t, z) .. Alloc(t, z) + size - 1 IN
    /\ Alloc(t, z) # NULL
    /\ Alloc(t, z) + size <= Top(t, z)
    /\ field' = [field EXCEPT ![t][HeapAlloc(z)] = @ + size]
    /\ objects' = objects \cup {[first |-> Alloc(t, z), size |-> size,
                                 kind |-> kind, dirt |-> cells \cap used]}
    /\ used' = used \cup cells   \* the program may write to all of it
    /\ UNCHANGED <<nonZeroTlh, pool>>

\* The fields of a thread when a chunk replaces the one it has.
WithChunk(t, z, first, top) ==
    [field[t] EXCEPT ![HeapBase(z)] = first, ![HeapAlloc(z)] = first, ![HeapTop(z)] = top]

\* The chunk is too small for an object.  What is left of it goes to the pool,
\* and another comes from there; only zeroed heaps are cleared.
Refresh(t, kind, size) ==
    LET z == Zeroed(kind) IN
    /\ Alloc(t, z) + size > Top(t, z)
    /\ \E first \in pool, length \in size .. ChunkSize :
         LET chunk == first .. first + length - 1 IN
         /\ chunk \subseteq pool
         /\ field' = [field EXCEPT ![t] = WithChunk(t, z, first, first + length)]
         /\ pool' = (pool \ chunk) \cup Remainder(t, z)
         /\ used' = IF HeapBase(z) = "heapBase" THEN used \ chunk ELSE used
    /\ UNCHANGED <<nonZeroTlh, objects>>

\* A collection takes all chunks back and frees some of the objects.
Collect ==
    /\ \E live \in SUBSET objects :
         /\ objects' = live
         /\ pool' = pool \cup (UNION {Remainder(t, z) : t \in Thread, z \in BOOLEAN})
                         \cup (UNION {Extent(o) : o \in objects \ live})
    /\ field' = [t \in Thread |-> [f \in Fields |-> NULL]]
    /\ UNCHANGED <<nonZeroTlh, used>>

TlhNext ==
    \/ \E t \in Thread, kind \in Kinds, size \in Sizes :
         Allocate(t, kind, size) \/ Refresh(t, kind, size)
    \/ Collect

TlhSpec == TlhInit /\ [][TlhNext]_tlhVars

-----------------------------------------------------------------------------
(* Properties                                                              *)

\* Every field is an address or NULL, what is left of a chunk lies above its
\* base and in the heap, and objects lie in the heap.
TlhTypeOK ==
    /\ nonZeroTlh \in BOOLEAN
    /\ field \in [Thread -> [Fields -> 0 .. N + 1]]
    /\ pool \subseteq Cell /\ used \subseteq Cell
    /\ \A o \in objects :
         /\ o.kind \in Kinds
         /\ o.first \in Cell /\ o.size \in Sizes /\ o.first + o.size <= N + 1
    /\ \A t \in Thread, z \in BOOLEAN :
         /\ Base(t, z) <= Alloc(t, z) /\ Alloc(t, z) <= Top(t, z)
         /\ Base(t, z) = NULL => Top(t, z) = NULL

\* A thread has one chunk if both kinds of allocation share it.
Chunk(t, z) == <<t, HeapBase(z)>>

\* Threads allocate without a lock, each from two chunks, and yet every cell
\* has one owner: an object, one thread's chunk, or the pool.  None is lost,
\* whatever is abandoned by refreshing and by collecting.
OneOwner ==
    /\ \A o, p \in objects : o # p => Extent(o) \cap Extent(p) = {}
    /\ \A o \in objects : Extent(o) \cap pool = {}
    /\ \A t \in Thread, z \in BOOLEAN :
         /\ Remainder(t, z) \cap pool = {}
         /\ \A o \in objects : Extent(o) \cap Remainder(t, z) = {}
         /\ \A u \in Thread, w \in BOOLEAN :
              Chunk(t, z) # Chunk(u, w) => Remainder(t, z) \cap Remainder(u, w) = {}
    /\ \A c \in Cell \ pool :
         \/ \E o \in objects : c \in Extent(o)
         \/ \E t \in Thread, z \in BOOLEAN : c \in Remainder(t, z)

\* "This ensures that the references will be zeroed, and the new array is safe
\* to walk": no cell of a RefArray holds what an array since freed left there.
RefArraysStartNull == \A o \in objects : o.kind = "RefArray" => o.dirt = {}
=============================================================================
