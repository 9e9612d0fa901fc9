---------------------------- MODULE ThreadBinding ----------------------------
(***************************************************************************)
(* LanguageVMGlue.c: OMR_Glue_BindCurrentThread and                        *)
(* OMR_Glue_UnbindCurrentThread, called by any number of threads.          *)
(*                                                                         *)
(* A first binding attaches the thread to the thread library, allocates a  *)
(* language thread, makes a VM thread and links the two; if a step fails,  *)
(* the ones before it are undone.  Further bindings only count.  The last  *)
(* unbinding releases everything again.  One action is one call made by    *)
(* these functions; those of different threads interleave.                 *)
(***************************************************************************)
EXTENDS Integers, VMThreads

CONSTANTS
    MaxBindings,   \* bound: how deep bindings are nested
    Failing        \* for each thread, the sets of calls that may fail on it

Calls == {"attach", "alloc", "init", "link", "lastFree", "free"}

(***************************************************************************)
(* The language's own hooks return OMR_ERROR_NONE in this glue.  Hooks that *)
(* allocate or link may be made to fail; what undoing relies on is that    *)
(* freeing a language thread does not fail, nor freeing a VM thread when   *)
(* linking it can.                                                         *)
(***************************************************************************)
ASSUME BindingAssumption ==
    /\ MaxBindings \in Nat
    /\ \A calls \in Failing :
         /\ calls \subseteq Calls
         /\ "free" \notin calls
         /\ ~({"link", "lastFree"} \subseteq calls)

VARIABLES
    failing,   \* the calls that may fail on a thread
    pc,        \* what a thread's call does next; "idle" between calls
    os,        \* omrthread: how often the thread is attached by this glue
    language,  \* language threads allocated for the thread and not freed
    vm,        \* _attachCount of its OMR_VMThread; 0: it has none
    bound      \* bindings its callers hold

vars == <<failing, pc, os, language, vm, bound>>

Init ==
    /\ failing \in [Thread -> Failing]
    /\ pc = [t \in Thread |-> "idle"]
    /\ os = [t \in Thread |-> 0]
    /\ language = [t \in Thread |-> 0]
    /\ vm = [t \in Thread |-> 0]
    /\ bound = [t \in Thread |-> 0]

\* Did the call succeed?
Result(t, call) == IF call \in failing[t] THEN BOOLEAN ELSE {TRUE}

Goto(t, label) == pc' = [pc EXCEPT ![t] = label]

-----------------------------------------------------------------------------
(* OMR_Glue_BindCurrentThread                                              *)

\* Already attached: omr_vmthread_reattach.
BindAgain(t) ==
    /\ pc[t] = "idle" /\ vm[t] > 0 /\ vm[t] < MaxBindings
    /\ vm' = [vm EXCEPT ![t] = @ + 1]
    /\ bound' = [bound EXCEPT ![t] = @ + 1]
    /\ UNCHANGED <<failing, pc, os, language>>

\* omrthread_attach_ex
Attach(t) ==
    /\ pc[t] = "idle" /\ vm[t] = 0 /\ MaxBindings > 0
    /\ \E ok \in Result(t, "attach") :
         /\ os' = [os EXCEPT ![t] = IF ok THEN @ + 1 ELSE @]
         /\ Goto(t, IF ok THEN "alloc" ELSE "idle")
    /\ UNCHANGED <<failing, language, vm, bound>>

AllocLanguageThread(t) ==
    /\ pc[t] = "alloc"
    /\ \E ok \in Result(t, "alloc") :
         /\ language' = [language EXCEPT ![t] = IF ok THEN @ + 1 ELSE @]
         /\ Goto(t, IF ok THEN "init" ELSE "detach")
    /\ UNCHANGED <<failing, os, vm, bound>>

\* OMR_Thread_FirstInit; if it fails, OMR_Glue_FreeLanguageThread.
FirstInit(t) ==
    /\ pc[t] = "init"
    /\ \E ok \in Result(t, "init") :
         /\ vm' = [vm EXCEPT ![t] = IF ok THEN 1 ELSE 0]
         /\ language' = [language EXCEPT ![t] = IF ok THEN @ ELSE @ - 1]
         /\ Goto(t, IF ok THEN "link" ELSE "detach")
    /\ UNCHANGED <<failing, os, bound>>

LinkLanguageThread(t) ==
    /\ pc[t] = "link"
    /\ \E ok \in Result(t, "link") :
         /\ bound' = [bound EXCEPT ![t] = IF ok THEN @ + 1 ELSE @]
         /\ Goto(t, IF ok THEN "idle" ELSE "undo")
    /\ UNCHANGED <<failing, os, language, vm>>

\* OMR_Thread_LastFree, whose result is not looked at.
UndoInit(t) ==
    /\ pc[t] = "undo"
    /\ \E ok \in Result(t, "lastFree") :
         vm' = [vm EXCEPT ![t] = IF ok THEN 0 ELSE @]
    /\ Goto(t, "undoAlloc")
    /\ UNCHANGED <<failing, os, language, bound>>

\* Mutant: the cleanup is entered again at its beginning.
UndoAllocAgain(t) ==
    /\ pc[t] = "undoAlloc"
    /\ language' = [language EXCEPT ![t] = 0]
    /\ Goto(t, "undo")
    /\ UNCHANGED <<failing, os, vm, bound>>

UndoAlloc(t) ==
    /\ pc[t] = "undoAlloc"
    /\ language' = [language EXCEPT ![t] = @ - 1]
    /\ Goto(t, "detach")
    /\ UNCHANGED <<failing, os, vm, bound>>

\* Mutant: the thread is left attached.
CleanupForgotten(t) ==
    /\ pc[t] = "detach"
    /\ Goto(t, "idle")
    /\ UNCHANGED <<failing, os, language, vm, bound>>

\* done: rc is not OMR_ERROR_NONE.
Cleanup(t) ==
    /\ pc[t] = "detach"
    /\ os' = [os EXCEPT ![t] = @ - 1]
    /\ Goto(t, "idle")
    /\ UNCHANGED <<failing, language, vm, bound>>

-----------------------------------------------------------------------------
(* OMR_Glue_UnbindCurrentThread.  A caller passes the VM thread it was     *)
(* given; passing NULL changes nothing.                                    *)

\* omr_vmthread_redetach
UnbindOne(t) ==
    /\ pc[t] = "idle" /\ bound[t] > 0 /\ vm[t] # 1
    /\ vm' = [vm EXCEPT ![t] = @ - 1]
    /\ bound' = [bound EXCEPT ![t] = @ - 1]
    /\ UNCHANGED <<failing, pc, os, language>>

\* Mutant: bindings beyond the first are not counted.
UnbindLastAnyway(t) ==
    /\ pc[t] = "idle" /\ bound[t] > 0 /\ vm[t] > 0
    /\ \E ok \in Result(t, "lastFree") :
         /\ vm' = [vm EXCEPT ![t] = IF ok THEN 0 ELSE @]
         /\ Goto(t, IF ok THEN "free" ELSE "idle")
    /\ UNCHANGED <<failing, os, language, bound>>

\* Mutant: the result of OMR_Thread_LastFree is not looked at.
UnbindLastUnchecked(t) ==
    /\ pc[t] = "idle" /\ bound[t] > 0 /\ vm[t] = 1
    /\ \E ok \in Result(t, "lastFree") : vm' = [vm EXCEPT ![t] = IF ok THEN 0 ELSE @]
    /\ Goto(t, "free")
    /\ UNCHANGED <<failing, os, language, bound>>

\* OMR_Thread_LastFree.  If it fails the thread stays as it is.
UnbindLast(t) ==
    /\ pc[t] = "idle" /\ bound[t] > 0 /\ vm[t] = 1
    /\ \E ok \in Result(t, "lastFree") :
         /\ vm' = [vm EXCEPT ![t] = IF ok THEN 0 ELSE @]
         /\ Goto(t, IF ok THEN "free" ELSE "idle")
    /\ UNCHANGED <<failing, os, language, bound>>

\* OMR_Glue_FreeLanguageThread, of the pointer kept from before LastFree.
FreeLanguageThread(t) ==
    /\ pc[t] = "free"
    /\ \E ok \in Result(t, "free") :
         /\ language' = [language EXCEPT ![t] = IF ok THEN @ - 1 ELSE @]
         /\ Goto(t, IF ok THEN "last" ELSE "idle")
    /\ UNCHANGED <<failing, os, vm, bound>>

\* omrthread_detach, of the thread kept from before LastFree.
Detach(t) ==
    /\ pc[t] = "last"
    /\ os' = [os EXCEPT ![t] = @ - 1]
    /\ bound' = [bound EXCEPT ![t] = @ - 1]
    /\ Goto(t, "idle")
    /\ UNCHANGED <<failing, language, vm>>

Inside(t) ==
    \/ AllocLanguageThread(t) \/ FirstInit(t) \/ LinkLanguageThread(t)
    \/ UndoInit(t) \/ UndoAlloc(t) \/ Cleanup(t)
    \/ FreeLanguageThread(t) \/ Detach(t)

Next == \E t \in Thread :
    BindAgain(t) \/ Attach(t) \/ UnbindOne(t) \/ UnbindLast(t) \/ Inside(t)

Spec == Init /\ [][Next]_vars

-----------------------------------------------------------------------------
(* Properties                                                              *)

Labels == {"idle", "alloc", "init", "link", "undo", "undoAlloc", "detach",
           "free", "last"}

\* The ranges of the variables; no resource is given back that is not held.
TypeOK ==
    /\ failing \in [Thread -> Failing]
    /\ pc \in [Thread -> Labels]
    /\ os \in [Thread -> {0, 1}]
    /\ language \in [Thread -> {0, 1}]
    /\ vm \in [Thread -> Nat]
    /\ bound \in [Thread -> Nat]

\* Between calls a thread has all three resources or none, and its VM thread
\* counts the bindings its callers hold: whatever failed, nothing was leaked
\* and nothing that is still in use was released.
Balanced ==
    \A t \in Thread : pc[t] = "idle" =>
        /\ vm[t] = bound[t]
        /\ os[t] = (IF bound[t] > 0 THEN 1 ELSE 0)
        /\ language[t] = os[t]

\* A VM thread exists only while its thread is attached to the thread library
\* and its language thread is allocated, in the middle of every call too: each
\* is built on the ones before it, and taken down before them.
BuiltInOrder ==
    \A t \in Thread : (vm[t] > 0 => language[t] = 1) /\ (language[t] = 1 => os[t] = 1)

\* Seen from outside, the calls take effect when they return.
Held(t) == (IF os[t] > 0 THEN {"os"} ELSE {}) \cup (IF vm[t] > 0 THEN {"vm"} ELSE {})
               \cup (IF language[t] > 0 THEN {"language"} ELSE {})

Bindings == INSTANCE ThreadBindings WITH
    bindings  <- bound,
    resources <- [t \in Thread |->
                    IF pc[t] = "idle" THEN Held(t)
                    ELSE IF bound[t] > 0 THEN {"os", "vm", "language"} ELSE {}]

\* The calls implement nested bindings, and the ones that fail change nothing.
BindingsNest == Bindings!Spec
=============================================================================
