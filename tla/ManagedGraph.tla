---------------------------- MODULE ManagedGraph ----------------------------
(***************************************************************************)
(* The managed heap as the program sees it: arrays with identities, held   *)
(* by a stack of StackRoots and by one reference in a native variable.     *)
(* There are no addresses here, nothing moves, and memory is never reused: *)
(* a collector is correct when the program cannot tell it is there.        *)
(* Only what the program can still reach is part of the state.             *)
(***************************************************************************)
EXTENDS Naturals, Sequences, Functions

CONSTANTS
    ArrayKinds,   \* the kinds of array
    MaxObjects,   \* how many arrays can be reachable at a time
    MaxLength     \* the length of the longest array

VARIABLES
    arrays,   \* identity -> [kind, slots], the slots holding identities
    roots,    \* the StackRoots, the youngest last
    native,   \* the reference in the native variable
    calling   \* is the program in a call that allocates?

vars == <<arrays, roots, native, calling>>

Nothing == 0
Ids     == 1 .. MaxObjects

Closed(graph, S) == \A x \in S : Range(graph[x].slots) \subseteq S \cup {Nothing}

\* The arrays reachable from a set of identities: those in every closed set
\* that holds these.
Reachable(graph, from) ==
    {x \in DOMAIN graph :
        \A S \in SUBSET DOMAIN graph :
            from \subseteq S \cup {Nothing} /\ Closed(graph, S) => x \in S}

\* The state after a step: what cannot be reached any more is gone.
Becomes(graph, newRoots, newNative) ==
    /\ roots' = newRoots
    /\ native' = newNative
    /\ arrays' = Restrict(graph, Reachable(graph, Range(newRoots) \cup {newNative}))

\* A step of the program between two calls.
Acts(graph, newRoots, newNative) ==
    ~calling /\ UNCHANGED calling /\ Becomes(graph, newRoots, newNative)

Init == arrays = <<>> /\ roots = <<>> /\ native = Nothing /\ calling = FALSE

\* A call that allocates invalidates the native reference.
Call ==
    /\ ~calling /\ calling' = TRUE
    /\ Becomes(arrays, roots, Nothing)

\* It returns a new array, whose slots, if it has any, are empty...
Allocate(kind, nslots) ==
    /\ calling /\ calling' = FALSE
    /\ native' \in Ids /\ native' \notin DOMAIN arrays
    /\ LET new == [kind |-> kind, slots |-> [i \in 1 .. nslots |-> Nothing]]
       IN  Becomes([x \in DOMAIN arrays \cup {native'} |->
                        IF x = native' THEN new ELSE arrays[x]], roots, native')

\* ...or nothing.
Fail == calling /\ calling' = FALSE /\ UNCHANGED <<arrays, roots, native>>

PushRoot(ref) == Acts(arrays, Append(roots, ref), native)
PopRoot       == roots # <<>> /\ Acts(arrays, SubSeq(roots, 1, Len(roots) - 1), native)
AssignRoot(r) == Acts(arrays, [roots EXCEPT ![r] = native], native)
GetRoot(r)    == Acts(arrays, roots, roots[r])

HasSlot(r, i) == ~calling /\ roots[r] # Nothing /\ i \in DOMAIN arrays[roots[r]].slots

Store(r, i) ==
    /\ HasSlot(r, i)
    /\ Acts([arrays EXCEPT ![roots[r]].slots[i] = native], roots, native)

Load(r, i) ==
    /\ HasSlot(r, i)
    /\ Acts(arrays, roots, arrays[roots[r]].slots[i])

Next ==
    \/ Call
    \/ \E kind \in ArrayKinds, n \in 0 .. MaxLength : Allocate(kind, n)
    \/ Fail
    \/ \E ref \in {Nothing, native} : PushRoot(ref)
    \/ PopRoot
    \/ \E r \in DOMAIN roots : AssignRoot(r) \/ GetRoot(r)
    \/ \E r \in DOMAIN roots, i \in 1 .. MaxLength : Store(r, i) \/ Load(r, i)

Spec == Init /\ [][Next]_vars
=============================================================================
