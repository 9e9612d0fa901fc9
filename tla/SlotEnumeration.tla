-------------------------- MODULE SlotEnumeration --------------------------
(***************************************************************************)
(* What an object scanner promises the collector.  A scan hands the        *)
(* reference slots of one array to the visitor, first to last, passing     *)
(* over the empty ones, and is complete once no slot is left.  How the     *)
(* work is cut into calls, by budgets or by visitors that ask for a pause, *)
(* is not visible here.                                                    *)
(***************************************************************************)
EXTENDS Naturals, Sequences

CONSTANTS Ref, Null, MaxLength

VARIABLES
    slots,    \* the reference slots of the array (none in a byte array)
    next,     \* the first slot that is not dealt with
    visited,  \* the slots handed to the visitor, in order
    complete  \* has the scanner reported the object complete?

vars == <<slots, next, visited, complete>>

Value  == Ref \cup {Null}
Arrays == UNION {[1 .. n -> Value] : n \in 0 .. MaxLength}

Begin ==
    /\ slots \in Arrays
    /\ next = 1
    /\ visited = <<>>
    /\ complete = FALSE

\* An empty slot is passed over.
PassEmpty ==
    /\ ~complete
    /\ next <= Len(slots)
    /\ slots[next] = Null
    /\ next' = next + 1
    /\ UNCHANGED <<slots, visited, complete>>

\* The slot is handed to the visitor, who may store another reference in it.
PassEdge ==
    /\ ~complete
    /\ next <= Len(slots)
    /\ slots[next] # Null
    /\ \E v \in Value : slots' = [slots EXCEPT ![next] = v]
    /\ next' = next + 1
    /\ visited' = Append(visited, next)
    /\ UNCHANGED complete

Finish ==
    /\ ~complete
    /\ next = Len(slots) + 1
    /\ complete' = TRUE
    /\ UNCHANGED <<slots, next, visited>>

\* The program stores to the array.
Store ==
    /\ \E i \in 1 .. Len(slots), v \in Value : slots' = [slots EXCEPT ![i] = v]
    /\ UNCHANGED <<next, visited, complete>>

\* The scanner is pointed at another array.
BeginNext ==
    /\ complete
    /\ slots' \in Arrays
    /\ next' = 1
    /\ visited' = <<>>
    /\ complete' = FALSE

Next == PassEmpty \/ PassEdge \/ Finish \/ Store \/ BeginNext

Spec == Begin /\ [][Next]_vars
=============================================================================
