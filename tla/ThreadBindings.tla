--------------------------- MODULE ThreadBindings ---------------------------
(***************************************************************************)
(* What binding a thread to the VM promises its callers: bindings nest, a  *)
(* call that fails changes nothing, and a thread has its resources (it is  *)
(* attached to the thread library, it has a VM thread and a language       *)
(* thread) as long as it is bound.                                         *)
(***************************************************************************)
EXTENDS Naturals

CONSTANT Thread

VARIABLES
    bindings,   \* thread -> how often it is bound
    resources   \* thread -> those it has when no call is in progress

AllResources == {"os", "vm", "language"}

Unbound ==
    /\ bindings = [t \in Thread |-> 0]
    /\ resources = [t \in Thread |-> {}]

\* A binding is taken or given up; what the thread holds follows.
Change(t, n) ==
    /\ bindings' = [bindings EXCEPT ![t] = n]
    /\ resources' = [resources EXCEPT ![t] = IF n = 0 THEN {} ELSE AllResources]

Bind(t)   == Change(t, bindings[t] + 1)
Unbind(t) == bindings[t] > 0 /\ Change(t, bindings[t] - 1)

Next == \E t \in Thread : Bind(t) \/ Unbind(t)

Spec == Unbound /\ [][Next]_<<bindings, resources>>
=============================================================================
