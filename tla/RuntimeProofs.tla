--------------------------- MODULE RuntimeProofs ---------------------------
(***************************************************************************)
(* Theorems about Runtime, about the heaps its threads allocate from and   *)
(* about the logs of its process and of those forked from it, for any      *)
(* threads, builds, options and failures.                                  *)
(*                                                                         *)
(* A step of the VM is a step of each of its four components, or leaves it *)
(* alone: what is proved of a component holds in the VM.                   *)
(*   ThreadBinding: in the middle of a call the three resources are in     *)
(* between; its invariant says, for each place a call can be at, exactly   *)
(* what its thread holds there.                                            *)
(*   ConcurrentRoots: UnitsCollectedOnce does not say which unit a thread  *)
(* in collectRoots is at, nor what the threads may have read when a cycle  *)
(* begins; its invariant says how far the mode has come by who is          *)
(* collecting.                                                             *)
(*   Profiling: the invariant ties the counter to the distance from the    *)
(* last sample.                                                            *)
(*   Startup: the invariant says what the handled options have set and     *)
(* what has been made at each stage.                                       *)
(* What the VM leaves behind takes an invariant of the composition: no     *)
(* thread is bound or in a call when the VM is not up.                     *)
(***************************************************************************)
EXTENDS Runtime, ThreadLocalHeap, VerboseLog, FiniteSetTheorems, SequenceTheorems,
        NaturalsInduction, WellFoundedInduction, TLAPS

-----------------------------------------------------------------------------
(* Thread binding, within BindingAssumption.                               *)

Holds(t, o, l, v, b) == os[t] = o /\ language[t] = l /\ vm[t] = v /\ bound[t] = b

Place(t) ==
    \/ /\ pc[t] = "idle" /\ bound[t] = 0
       /\ Holds(t, 0, 0, 0, 0)
    \/ /\ pc[t] = "idle" /\ bound[t] > 0
       /\ Holds(t, 1, 1, bound[t], bound[t])
    \/ pc[t] = "alloc" /\ Holds(t, 1, 0, 0, 0)
    \/ pc[t] = "init" /\ Holds(t, 1, 1, 0, 0)
    \/ pc[t] = "link" /\ Holds(t, 1, 1, 1, 0)
    \/ pc[t] = "undo" /\ Holds(t, 1, 1, 1, 0) /\ "link" \in failing[t]
    \/ pc[t] = "undoAlloc" /\ Holds(t, 1, 1, 0, 0)
    \/ pc[t] = "detach" /\ Holds(t, 1, 0, 0, 0)
    \/ pc[t] = "free" /\ Holds(t, 1, 1, 0, 1)
    \/ pc[t] = "last" /\ Holds(t, 1, 0, 0, 1)

BindingInv == TypeOK /\ \A t \in Thread : Place(t)

\* A thread starts with nothing.
LEMMA BindingInit == Init => BindingInv
<1> SUFFICES ASSUME Init PROVE BindingInv
    OBVIOUS
<1>1. TypeOK
    BY DEF Init, TypeOK, Labels
<1>2. ASSUME NEW t \in Thread PROVE Place(t)
    BY DEF Init, Place, Holds
<1> QED
    BY <1>1, <1>2 DEF BindingInv

\* Freeing a language thread succeeds; so does freeing a VM thread where
\* linking may fail.
LEMMA UndoingSucceeds ==
    ASSUME TypeOK, NEW t \in Thread
    PROVE  /\ Result(t, "free") = {TRUE}
           /\ "link" \in failing[t] => Result(t, "lastFree") = {TRUE}
<1>1. failing[t] \in Failing
    BY DEF TypeOK
<1> QED
    BY <1>1, BindingAssumption DEF Result

\* What a step of one thread does not concern stays in place.
LEMMA OthersStay ==
    ASSUME BindingInv, NEW t \in Thread, NEW u \in Thread, u # t,
           failing' = failing, pc'[u] = pc[u], os'[u] = os[u],
           language'[u] = language[u], vm'[u] = vm[u], bound'[u] = bound[u]
    PROVE  Place(u)'
BY DEF BindingInv, Place, Holds

\* One case per action: where its thread is afterwards and what it then holds.
\* The other threads are where they were.
LEMMA BindingNext == BindingInv /\ [Next]_vars => BindingInv'
<1> SUFFICES ASSUME BindingInv, [Next]_vars PROVE BindingInv'
    OBVIOUS
<1>1. CASE UNCHANGED vars
    BY <1>1 DEF BindingInv, TypeOK, Place, Holds, vars
<1>2. ASSUME NEW t \in Thread,
             \/ BindAgain(t) \/ Attach(t) \/ UnbindOne(t) \/ UnbindLast(t)
             \/ Inside(t)
      PROVE  BindingInv'
  <2> USE DEF Goto
  <2>0. /\ TypeOK /\ Place(t)
        /\ Result(t, "free") = {TRUE}
        /\ "link" \in failing[t] => Result(t, "lastFree") = {TRUE}
      BY UndoingSucceeds DEF BindingInv
  <2>a. ASSUME TypeOK', Place(t)',
               failing' = failing,
               \A u \in Thread \ {t} :
                   /\ pc'[u] = pc[u] /\ os'[u] = os[u] /\ language'[u] = language[u]
                   /\ vm'[u] = vm[u] /\ bound'[u] = bound[u]
        PROVE  BindingInv'
      BY <2>a, OthersStay DEF BindingInv
  <2>1. CASE BindAgain(t)
      BY <2>0, <2>a, <2>1 DEF BindAgain, TypeOK, Labels, Place, Holds
  <2>2. CASE Attach(t)
      BY <2>0, <2>a, <2>2 DEF Attach, TypeOK, Labels, Place, Holds
  <2>3. CASE UnbindOne(t)
      BY <2>0, <2>a, <2>3 DEF UnbindOne, TypeOK, Labels, Place, Holds
  <2>4. CASE UnbindLast(t)
      BY <2>0, <2>a, <2>4 DEF UnbindLast, TypeOK, Labels, Place, Holds
  <2>5. CASE AllocLanguageThread(t)
      BY <2>0, <2>a, <2>5 DEF AllocLanguageThread, TypeOK, Labels, Place, Holds
  <2>6. CASE FirstInit(t)
      BY <2>0, <2>a, <2>6 DEF FirstInit, TypeOK, Labels, Place, Holds
  <2>7. CASE LinkLanguageThread(t)
    <3>1. PICK ok \in Result(t, "link") :
             /\ bound' = [bound EXCEPT ![t] = IF ok THEN @ + 1 ELSE @]
             /\ Goto(t, IF ok THEN "idle" ELSE "undo")
        BY <2>7, Zenon DEF LinkLanguageThread
    <3>2. ok \/ "link" \in failing[t]
        BY Zenon DEF Result
    <3> QED
        BY <2>0, <2>a, <2>7, <3>1, <3>2 DEF LinkLanguageThread, TypeOK, Labels, Place, Holds
  <2>8. CASE UndoInit(t)
    <3>1. pc[t] = "undo" /\ "link" \in failing[t]
        BY <2>0, <2>8 DEF UndoInit, Place
    <3>2. Result(t, "lastFree") = {TRUE}
        BY <2>0, <3>1
    <3>3. vm' = [vm EXCEPT ![t] = 0]
        BY <2>8, <3>2, Zenon DEF UndoInit
    <3> QED
        BY <2>0, <2>a, <2>8, <3>1, <3>3 DEF UndoInit, TypeOK, Labels, Place, Holds
  <2>9. CASE UndoAlloc(t)
      BY <2>0, <2>a, <2>9 DEF UndoAlloc, TypeOK, Labels, Place, Holds
  <2>10. CASE Cleanup(t)
      BY <2>0, <2>a, <2>10 DEF Cleanup, TypeOK, Labels, Place, Holds
  <2>11. CASE FreeLanguageThread(t)
    <3>1. language' = [language EXCEPT ![t] = @ - 1] /\ Goto(t, "last")
        BY <2>0, <2>11, Zenon DEF FreeLanguageThread
    <3> QED
        BY <2>0, <2>a, <2>11, <3>1
        DEF FreeLanguageThread, TypeOK, Labels, Place, Holds
  <2>12. CASE Detach(t)
      BY <2>0, <2>a, <2>12 DEF Detach, TypeOK, Labels, Place, Holds
  <2> QED
      BY <1>2, <2>1, <2>2, <2>3, <2>4, <2>5, <2>6, <2>7, <2>8, <2>9, <2>10, <2>11, <2>12 DEF Inside
<1> QED
    BY <1>1, <1>2 DEF Next

\* At each place of a call its thread holds what the code got there with.
THEOREM BindingInvariance == Spec => []BindingInv
    BY BindingInit, BindingNext, PTL DEF Spec

\* The ranges of the variables: no resource is given back that is not held.
THEOREM ResourcesTyped == Spec => []TypeOK
<1>1. BindingInv => TypeOK
    BY DEF BindingInv
<1> QED
    BY BindingInvariance, <1>1, PTL

\* Between calls a thread has all its resources or none, and its VM thread
\* counts its bindings.
THEOREM NothingLeaks == Spec => []Balanced
<1>1. BindingInv => Balanced
  <2> SUFFICES ASSUME BindingInv, NEW t \in Thread, pc[t] = "idle"
               PROVE  /\ vm[t] = bound[t]
                      /\ os[t] = (IF bound[t] > 0 THEN 1 ELSE 0)
                      /\ language[t] = os[t]
      BY DEF Balanced
  <2> QED
      BY DEF BindingInv, TypeOK, Place, Holds
<1> QED
    BY BindingInvariance, <1>1, PTL

\* In the middle of every call too, a VM thread stands on a language thread and
\* a language thread on an attached thread.
THEOREM OrderOfResources == Spec => []BuiltInOrder
<1>1. BindingInv => BuiltInOrder
  <2> SUFFICES ASSUME BindingInv, NEW t \in Thread
               PROVE  /\ vm[t] > 0 => language[t] = 1
                      /\ language[t] = 1 => os[t] = 1
      BY DEF BuiltInOrder
  <2> QED
      BY DEF BindingInv, TypeOK, Place, Holds
<1> QED
    BY BindingInvariance, <1>1, PTL

-----------------------------------------------------------------------------
(* The calls implement nested bindings.                                    *)

Seen == [t \in Thread |-> IF pc[t] = "idle" THEN Held(t)
                          ELSE IF bound[t] > 0 THEN {"os", "vm", "language"} ELSE {}]

\* What a thread is seen to hold depends on its bindings alone.
LEMMA SeenIsBound ==
    BindingInv => Seen = [t \in Thread |-> IF bound[t] = 0 THEN {} ELSE {"os", "vm", "language"}]
<1> SUFFICES ASSUME BindingInv, NEW t \in Thread
             PROVE  Seen[t] = IF bound[t] = 0 THEN {} ELSE {"os", "vm", "language"}
    BY DEF Seen
<1>1. CASE pc[t] = "idle" /\ bound[t] = 0
    BY <1>1 DEF BindingInv, TypeOK, Place, Holds, Held, Seen
<1>2. CASE pc[t] = "idle" /\ bound[t] # 0
    BY <1>2 DEF BindingInv, TypeOK, Place, Holds, Held, Seen
<1>3. CASE pc[t] # "idle"
    BY <1>3 DEF BindingInv, TypeOK, Seen
<1> QED
    BY <1>1, <1>2, <1>3

\* A step takes a binding, gives one up, or leaves all bindings alone.
LEMMA StepOfBindings ==
    ASSUME BindingInv, [Next]_vars
    PROVE  \/ bound' = bound
           \/ \E t \in Thread : bound' = [bound EXCEPT ![t] = @ + 1]
           \/ \E t \in Thread : bound[t] > 0 /\ bound' = [bound EXCEPT ![t] = @ - 1]
<1>1. ASSUME NEW t \in Thread, Detach(t) PROVE bound[t] > 0
    BY <1>1 DEF Detach, BindingInv, Place, Holds
<1>2. ASSUME NEW t \in Thread, LinkLanguageThread(t)
      PROVE  bound' = bound \/ bound' = [bound EXCEPT ![t] = @ + 1]
  <2>1. CASE bound' = [bound EXCEPT ![t] = @]
      BY <2>1 DEF BindingInv, TypeOK
  <2>2. CASE bound' # [bound EXCEPT ![t] = @]
      BY <1>2, <2>2, Zenon DEF LinkLanguageThread
  <2> QED
      BY <2>1, <2>2
<1> QED
    BY <1>1, <1>2 DEF Next, vars, Inside, BindAgain, Attach, UnbindOne, UnbindLast,
        AllocLanguageThread, FirstInit, UndoInit, UndoAlloc, Cleanup,
        FreeLanguageThread, Detach

\* Bindings nest, and a call that fails changes nothing: the glue implements
\* the abstract ThreadBindings.
THEOREM BindingsRefined == Spec => BindingsNest
<1>1. Init => Bindings!Unbound
  <2> SUFFICES ASSUME Init PROVE Bindings!Unbound
      OBVIOUS
  <2>1. Seen = [t \in Thread |-> IF bound[t] = 0 THEN {} ELSE {"os", "vm", "language"}]
      BY BindingInit, SeenIsBound
  <2> QED
      BY <2>1 DEF Bindings!Unbound, Init, Seen
<1>p. BindingInv' => (Seen = [t \in Thread |->
                   IF bound[t] = 0 THEN {} ELSE {"os", "vm", "language"}])'
    BY SeenIsBound, PTL
<1>2. BindingInv /\ BindingInv' /\ [Next]_vars => [Bindings!Next]_<<bound, Seen>>
  <2> SUFFICES ASSUME BindingInv, BindingInv', [Next]_vars
               PROVE  Bindings!Next \/ UNCHANGED <<bound, Seen>>
      OBVIOUS
  <2>1. /\ Seen = [t \in Thread |-> IF bound[t] = 0 THEN {} ELSE {"os", "vm", "language"}]
        /\ Seen' = [t \in Thread |-> IF bound'[t] = 0 THEN {} ELSE {"os", "vm", "language"}]
      BY SeenIsBound, <1>p
  <2>2. ASSUME NEW t \in Thread, NEW n \in Nat, bound' = [bound EXCEPT ![t] = n]
        PROVE  Seen' = [Seen EXCEPT ![t] = IF n = 0 THEN {} ELSE {"os", "vm", "language"}]
      BY <2>1, <2>2 DEF BindingInv, TypeOK
  <2>3. CASE bound' = bound
      BY <2>1, <2>3
  <2>4. ASSUME NEW t \in Thread, bound' = [bound EXCEPT ![t] = @ + 1]
        PROVE  Bindings!Bind(t)
    <3>1. bound[t] + 1 \in Nat
        BY DEF BindingInv, TypeOK
    <3>2. Seen' = [Seen EXCEPT ![t] = IF bound[t] + 1 = 0 THEN {}
                                      ELSE {"os", "vm", "language"}]
        BY <2>2, <2>4, <3>1
    <3> QED
        BY <2>4, <3>2
        DEF Bindings!Bind, Bindings!Change, Bindings!AllResources, Seen
  <2>5. ASSUME NEW t \in Thread, bound[t] > 0, bound' = [bound EXCEPT ![t] = @ - 1]
        PROVE  Bindings!Unbind(t)
    <3>1. bound[t] - 1 \in Nat
        BY <2>5 DEF BindingInv, TypeOK
    <3>2. Seen' = [Seen EXCEPT ![t] = IF bound[t] - 1 = 0 THEN {}
                                      ELSE {"os", "vm", "language"}]
        BY <2>2, <2>5, <3>1
    <3> QED
        BY <2>5, <3>2
        DEF Bindings!Unbind, Bindings!Change, Bindings!AllResources, Seen
  <2> QED
      BY StepOfBindings, <2>3, <2>4, <2>5 DEF Bindings!Next
<1> QED
    BY <1>1, <1>2, BindingInvariance, PTL DEF Spec, BindingsNest, Bindings!Spec, Seen

-----------------------------------------------------------------------------
(* Concurrent root collection.                                             *)

\* A unit is with the one thread that switched to it, or done.
InHand ==
    \/ collecting = {} /\ collected[ROOT_TRACING1] = 1
    \/ (\E t \in Thread : collecting = {t}) /\ collected[ROOT_TRACING1] = 0

RootsInv ==
    /\ mode \in Modes
    /\ tax \in [Thread -> {NONE, ROOT_TRACING, ROOT_TRACING1}]
    /\ collecting \subseteq Thread
    /\ collected \in [Units -> {0, 1}]
    /\ \A t \in collecting : tax[t] = ROOT_TRACING1
    /\ mode = OFF => \A t \in Thread : tax[t] = NONE
    /\ mode = ROOT_TRACING => collecting = {} /\ collected[ROOT_TRACING1] = 0
    /\ mode \in {ROOT_TRACING1, TRACE_ONLY} => InHand

\* What the names stand for.
LEMMA ModeNames ==
    /\ Units = {ROOT_TRACING1}
    /\ Modes = {OFF, ROOT_TRACING, ROOT_TRACING1, TRACE_ONLY}
    /\ OFF # ROOT_TRACING /\ OFF # ROOT_TRACING1 /\ OFF # TRACE_ONLY
    /\ ROOT_TRACING # ROOT_TRACING1 /\ ROOT_TRACING # TRACE_ONLY
    /\ ROOT_TRACING1 # TRACE_ONLY
    /\ NONE \notin Modes
BY DEF Units, Modes, OFF, ROOT_TRACING, ROOT_TRACING1, TRACE_ONLY, NONE

\* The delegate's answers.
LEMMA NextModes ==
    /\ NextTracingMode(ROOT_TRACING) = ROOT_TRACING1
    /\ NextTracingMode(ROOT_TRACING1) = TRACE_ONLY
BY DEF NextTracingMode, ROOT_TRACING, ROOT_TRACING1

\* No cycle is under way.
LEMMA RootsInit == ConcurrentInit => RootsInv
BY ModeNames DEF ConcurrentInit, RootsInv, InHand

\* One case per action, and for switching one per mode that was read.
LEMMA RootsNext == RootsInv /\ [ConcurrentNext]_concurrent => RootsInv'
<1> SUFFICES ASSUME RootsInv, [ConcurrentNext]_concurrent PROVE RootsInv'
    OBVIOUS
<1> USE ModeNames
<1>1. CASE UNCHANGED concurrent
    BY <1>1 DEF RootsInv, InHand, concurrent
<1>2. CASE StartCycle
    BY <1>2 DEF RootsInv, InHand, StartCycle
<1>3. ASSUME NEW t \in Thread, StartTax(t) PROVE RootsInv'
    BY <1>3 DEF RootsInv, InHand, StartTax
<1>4. ASSUME NEW t \in Thread, SwitchMode(t) PROVE RootsInv'
  <2>1. tax[t] \in {ROOT_TRACING, ROOT_TRACING1} /\ mode # OFF /\ t \notin collecting
      BY <1>4 DEF RootsInv, SwitchMode
  <2>2. CASE mode = tax[t] /\ mode = ROOT_TRACING
    <3>1. /\ mode' = ROOT_TRACING1
          /\ collecting' = collecting \cup {t}
          /\ tax' = [tax EXCEPT ![t] = ROOT_TRACING1]
          /\ collected' = collected
        BY <1>4, <2>2, NextModes DEF SwitchMode
    <3>2. collecting' = {t} /\ collected'[ROOT_TRACING1] = 0
        BY <2>2, <3>1 DEF RootsInv
    <3> QED
        BY <3>1, <3>2 DEF RootsInv, InHand
  <2>3. CASE mode = tax[t] /\ mode = ROOT_TRACING1
    <3>1. /\ mode' = TRACE_ONLY
          /\ UNCHANGED <<collecting, collected>>
          /\ tax' = [tax EXCEPT ![t] = NONE]
        BY <1>4, <2>3, NextModes DEF SwitchMode
    <3> QED
        BY <2>1, <2>3, <3>1 DEF RootsInv, InHand
  <2>4. CASE mode # tax[t]
    <3>1. /\ UNCHANGED <<mode, collecting, collected>>
          /\ tax' = [tax EXCEPT ![t] = IF mode = TRACE_ONLY THEN NONE ELSE mode]
        BY <1>4, <2>4 DEF SwitchMode
    <3> QED
        BY <2>1, <3>1 DEF RootsInv, InHand
  <2> QED
      BY <2>1, <2>2, <2>3, <2>4
<1>5. ASSUME NEW t \in Thread, CollectRoots(t) PROVE RootsInv'
  <2>1. mode \in {ROOT_TRACING1, TRACE_ONLY} /\ tax[t] = ROOT_TRACING1
      BY <1>5 DEF RootsInv, CollectRoots
  <2>2. collecting = {t} /\ collected[ROOT_TRACING1] = 0
      BY <1>5, <2>1 DEF RootsInv, InHand, CollectRoots
  <2>3. /\ mode' = mode /\ collecting' = {}
        /\ collected' = [collected EXCEPT ![ROOT_TRACING1] = @ + 1]
      BY <1>5, <2>1, <2>2 DEF CollectRoots
  <2>4. PICK paid \in BOOLEAN :
          tax' = [tax EXCEPT ![t] = IF paid \/ mode = TRACE_ONLY THEN NONE ELSE mode]
      BY <1>5, Zenon DEF CollectRoots
  <2>5. \E m \in {NONE, ROOT_TRACING1} : tax' = [tax EXCEPT ![t] = m]
      BY <2>1, <2>4
  <2>6. collected'[ROOT_TRACING1] = 1
      BY <2>2, <2>3 DEF RootsInv
  <2> QED
      BY <2>1, <2>2, <2>3, <2>5, <2>6 DEF RootsInv, InHand
<1>6. CASE EndCycle
    BY <1>6 DEF RootsInv, InHand, EndCycle
<1> QED
    BY <1>1, <1>2, <1>3, <1>4, <1>5, <1>6 DEF ConcurrentNext, PayTax

\* The invariant says more than the property.
LEMMA RootsImplied == RootsInv => UnitsCollectedOnce
<1> SUFFICES ASSUME RootsInv PROVE UnitsCollectedOnce
    OBVIOUS
<1> USE ModeNames
<1>1. mode \in Modes
    BY DEF RootsInv
<1>2. {t \in collecting : tax[t] = ROOT_TRACING1} = collecting
    BY DEF RootsInv
<1>3. collected[ROOT_TRACING1] <= 1
    BY DEF RootsInv
<1>4. mode = OFF => collecting = {}
    BY DEF RootsInv
<1>5. \A t, s \in collecting : t = s
    BY <1>1, <1>4 DEF RootsInv, InHand
<1>6. collecting # {} => collected[ROOT_TRACING1] = 0
    BY <1>1, <1>4 DEF RootsInv, InHand
<1>7. mode = TRACE_ONLY => collected[ROOT_TRACING1] = 1 \/ collecting # {}
    BY DEF RootsInv, InHand
<1> QED
    BY <1>1, <1>2, <1>3, <1>5, <1>6, <1>7 DEF UnitsCollectedOnce

\* For any number of threads that pay their tax at the same time, each unit of
\* root collection is done by one of them, and none is left out.
THEOREM UnitsAreCollectedOnce == ConcurrentSpec => []UnitsCollectedOnce
BY RootsInit, RootsNext, RootsImplied, PTL DEF ConcurrentSpec

-----------------------------------------------------------------------------
(* Profiling                                                               *)

ProfileInv ==
    /\ backoff \in [Thread -> 0 .. BACKOFF_MAX]
    /\ rest \in [Thread -> 0 .. BACKOFF_MAX]
    /\ overdue \in [Thread -> Nat]
    /\ enabled \in BOOLEAN
    /\ early = {}
    /\ \A t \in Thread :
         /\ backoff[t] + rest[t] >= BACKOFF_MAX
         /\ backoff[t] > 0 => overdue[t] + backoff[t] <= BACKOFF_MAX
         /\ backoff[t] = 0 => overdue[t] < BACKOFF_MAX + TIMER_DECR

LEMMA ProfileInit == ProfilingInit => ProfileInv
BY ProfilingAssumption DEF ProfilingInit, ProfileInv

\* A check, with sampling on or off, and with the counter run down or not.
LEMMA ProfileCheck ==
    ASSUME ProfileInv, NEW t \in Thread, CheckSampleStack(t)
    PROVE  ProfileInv'
<1> USE ProfilingAssumption
<1>1. /\ backoff[t] \in Nat /\ backoff[t] <= BACKOFF_MAX
      /\ rest[t] \in Nat /\ rest[t] <= BACKOFF_MAX
      /\ overdue[t] \in Nat
    BY DEF ProfileInv
<1>2. Samples(t) => rest[t] = BACKOFF_MAX
    BY <1>1 DEF ProfileInv, Samples
<1>3. early' = {} /\ enabled' = enabled
    BY <1>2 DEF ProfileInv, CheckSampleStack
<1> DEFINE b == Decreased(HeldBack(t))
           r == IF Samples(t) THEN TIMER_DECR ELSE Later(rest[t])
           o == IF ~enabled THEN 0
                ELSE IF Samples(t) THEN TIMER_DECR ELSE overdue[t] + TIMER_DECR
<1>4. /\ backoff' = [backoff EXCEPT ![t] = b]
      /\ rest' = [rest EXCEPT ![t] = r]
      /\ overdue' = [overdue EXCEPT ![t] = o]
    BY DEF CheckSampleStack
<1>5. /\ b \in 0 .. BACKOFF_MAX /\ r \in 0 .. BACKOFF_MAX /\ o \in Nat
      /\ b + r >= BACKOFF_MAX
    BY <1>1, <1>2 DEF ProfileInv, Decreased, HeldBack, Later, Samples
<1>6. /\ b > 0 => o + b <= BACKOFF_MAX
      /\ b = 0 => o < BACKOFF_MAX + TIMER_DECR
    BY <1>1 DEF ProfileInv, Decreased, HeldBack, Samples
<1> HIDE DEF b, r, o
<1> QED
    BY <1>3, <1>4, <1>5, <1>6 DEF ProfileInv

LEMMA ProfileNext == ProfileInv /\ [ProfilingNext]_profile => ProfileInv'
<1> SUFFICES ASSUME ProfileInv, [ProfilingNext]_profile PROVE ProfileInv'
    OBVIOUS
<1>1. CASE UNCHANGED profile
    BY <1>1 DEF ProfileInv, profile
<1>2. ASSUME NEW t \in Thread, NewProfile(t) PROVE ProfileInv'
    BY <1>2, ProfilingAssumption DEF ProfileInv, NewProfile
<1>3. CASE Switch
    BY <1>3, ProfilingAssumption DEF ProfileInv, Switch
<1> QED
    BY <1>1, <1>2, <1>3, ProfileCheck DEF ProfilingNext

LEMMA ProfileImplied == ProfileInv => SamplesSpaced
BY ProfilingAssumption DEF ProfileInv, SamplesSpaced

\* For any backoff and any decrement, samples of a thread are never closer
\* than the backoff and never later than the check at which it has run down.
THEOREM SamplesAreSpaced == ProfilingSpec => []SamplesSpaced
BY ProfileInit, ProfileNext, ProfileImplied, PTL DEF ProfilingSpec

-----------------------------------------------------------------------------
(* Startup                                                                 *)

Coming == {"models", "options", "configuration", "verbose", "up"}
Stages == Coming \cup {"shutdown", "down"}

SegregatedSoFar == \E i \in 1 .. handled : IsSegregatedPolicy(given[i])
GenconSoFar     == \E i \in 1 .. handled : given[i] = GENCON

\* While the VM comes up, the flags say which of the handled options there were.
OptionsInv ==
    /\ stage \in Stages
    /\ build \in Builds /\ given \in Given
    /\ handled \in 0 .. Len(given)
    /\ stage \in Coming =>
         /\ useSegregatedGC <=> SegregatedSoFar
         /\ GENCON \in extensions <=> GenconSoFar
         /\ useSegregatedGC => SEGREGATED_HEAP \in build
         /\ GENCON \in extensions => SCAVENGER \in build
    /\ stage \in {"configuration", "verbose", "up"} => handled = Len(given)
    /\ stage \in {"verbose", "up"} => gcPolicy = Configuration

\* What is in the forge is known from what has been made, and that from the stage.
PartsInv ==
    /\ parts \in {{}, {"interface"}, {"interface", "configuration"},
                  {"interface", "configuration", "verbose"}}
    /\ forge = parts \ {"configuration"}
    /\ stage \in {"models", "options", "down"} => parts = {}
    /\ stage = "configuration" => parts = {"interface"}
    /\ stage = "verbose" => parts = {"interface", "configuration"}

StartInv == OptionsInv /\ PartsInv

\* No option of OMR's own is a policy for a segregated heap.
LEMMA Policies ==
    /\ ~IsSegregatedPolicy(GENCON)
    /\ ~IsSegregatedPolicy(VERBOSEGCLOG)
    /\ ~IsSegregatedPolicy(COMPACTGC)
    /\ GENCON # VERBOSEGCLOG /\ GENCON # COMPACTGC
BY DEF IsSegregatedPolicy, GENCON, VERBOSEGCLOG, COMPACTGC, OMR_SEGREGATEDHEAP

LEMMA StartInit == StartupInit => StartInv
<1> SUFFICES ASSUME StartupInit PROVE StartInv
    OBVIOUS
<1>1. given \in Seq(Seq(STRING)) /\ Len(given) \in Nat
    BY StartupAssumption DEF StartupInit
<1>2. OptionsInv
    BY <1>1 DEF StartupInit, OptionsInv, Stages, Coming, SegregatedSoFar, GenconSoFar
<1>3. PartsInv
    BY DEF StartupInit, PartsInv
<1> QED
    BY <1>2, <1>3 DEF StartInv

LEMMA OptionsNext ==
    ASSUME OptionsInv, HandleOption
    PROVE  OptionsInv'
<1> DEFINE option == given[handled + 1]
<1>1. /\ given \in Seq(Seq(STRING)) /\ Len(given) \in Nat
      /\ handled \in Nat /\ handled < Len(given) /\ stage = "options"
    BY StartupAssumption DEF OptionsInv, HandleOption
<1>2. /\ UNCHANGED <<build, given, gcPolicy>> /\ handled' = handled + 1
      /\ 1 .. handled' = (1 .. handled) \cup {handled + 1}
    BY <1>1 DEF HandleOption
<1>3. /\ SegregatedSoFar' <=> (SegregatedSoFar \/ IsSegregatedPolicy(option))
      /\ GenconSoFar' <=> (GenconSoFar \/ option = GENCON)
    BY <1>2 DEF SegregatedSoFar, GenconSoFar, IsSegregatedPolicy
<1>a. ASSUME stage' = "options",
             useSegregatedGC' <=> SegregatedSoFar',
             GENCON \in extensions' <=> GenconSoFar',
             useSegregatedGC' => SEGREGATED_HEAP \in build,
             GENCON \in extensions' => SCAVENGER \in build
      PROVE  OptionsInv'
    BY <1>1, <1>2, <1>a DEF OptionsInv, Stages, Coming
<1>b. /\ useSegregatedGC <=> SegregatedSoFar
      /\ GENCON \in extensions <=> GenconSoFar
      /\ useSegregatedGC => SEGREGATED_HEAP \in build
      /\ GENCON \in extensions => SCAVENGER \in build
    BY <1>1 DEF OptionsInv, Coming
<1>4. CASE /\ KnownToOMR(option)
           /\ extensions' = extensions \cup {option}
           /\ UNCHANGED <<useSegregatedGC, stage>>
  <2>1. ~IsSegregatedPolicy(option)
      BY <1>4, Policies DEF KnownToOMR
  <2>2. option = GENCON => SCAVENGER \in build
      BY <1>4, Policies DEF KnownToOMR
  <2> QED
      BY <1>1, <1>3, <1>a, <1>b, <1>4, <2>1, <2>2
<1>5. CASE /\ SEGREGATED_HEAP \in build /\ IsSegregatedPolicy(option)
           /\ useSegregatedGC' = TRUE
           /\ UNCHANGED <<extensions, stage>>
  <2>1. option # GENCON
      BY <1>5, Policies
  <2> QED
      BY <1>1, <1>3, <1>a, <1>b, <1>5, <2>1
<1>6. CASE stage' = "shutdown"
    BY <1>1, <1>2, <1>6 DEF OptionsInv, Stages, Coming
<1> QED
    BY <1>4, <1>5, <1>6, Zenon DEF HandleOption

\* The other steps, in the order they are taken.
LEMMA StartNextOptions ==
    ASSUME StartInv, [StartupNext]_startup
    PROVE  OptionsInv'
<1>0. OptionsInv
    BY DEF StartInv
<1>1. CASE UNCHANGED startup
    BY <1>0, <1>1 DEF OptionsInv, Configuration, startup, SegregatedSoFar, GenconSoFar,
        IsSegregatedPolicy
<1>2. CASE InitializeModels
    BY <1>0, <1>2 DEF OptionsInv, Stages, Coming, Configuration, InitializeModels, GoOn,
        SegregatedSoFar, GenconSoFar, IsSegregatedPolicy
<1>3. CASE CreateInterface
    BY <1>0, <1>3 DEF OptionsInv, Stages, Coming, Configuration, CreateInterface, InterfaceInitialized, GoOn,
        SegregatedSoFar, GenconSoFar, IsSegregatedPolicy
<1>4. CASE CreateConfiguration
    BY <1>0, <1>4 DEF OptionsInv, Stages, Coming, Configuration, CreateConfiguration, GoOn,
        SegregatedSoFar, GenconSoFar, IsSegregatedPolicy
<1>5. CASE CreateVerboseManager
    BY <1>0, <1>5 DEF OptionsInv, Stages, Coming, Configuration, CreateVerboseManager, GoOn,
        SegregatedSoFar, GenconSoFar, IsSegregatedPolicy
<1>6. CASE Leave
    BY <1>0, <1>6 DEF OptionsInv, Stages, Coming, Leave
<1>7. CASE ShutDown
    BY <1>0, <1>7 DEF OptionsInv, Stages, Coming, ShutDown
<1> QED
    BY <1>0, <1>1, <1>2, <1>3, <1>4, <1>5, <1>6, <1>7, OptionsNext DEF StartupNext, StartUp

\* A part is put with the ones it is built on, or the last one is taken away.
LEMMA StartNextParts ==
    ASSUME StartInv, [StartupNext]_startup
    PROVE  PartsInv'
<1>0. PartsInv
    BY DEF StartInv
<1>1. CASE UNCHANGED startup
    BY <1>0, <1>1 DEF PartsInv, startup
<1>2. CASE InitializeModels
    BY <1>0, <1>2 DEF PartsInv, InitializeModels, GoOn
<1>3. CASE HandleOption
    BY <1>0, <1>3, Zenon DEF PartsInv, HandleOption
<1>4. CASE CreateInterface
    BY <1>0, <1>4 DEF PartsInv, CreateInterface, InterfaceInitialized, Kill, GoOn
<1>5. CASE CreateConfiguration
    BY <1>0, <1>5 DEF PartsInv, CreateConfiguration, GoOn
<1>6. CASE CreateVerboseManager
    BY <1>0, <1>6 DEF PartsInv, CreateVerboseManager, GoOn
<1>7. CASE Leave
    BY <1>0, <1>7 DEF PartsInv, Leave
<1>8. CASE ShutDown
    BY <1>0, <1>8 DEF PartsInv, ShutDown, Kill
<1> QED
    BY <1>1, <1>2, <1>3, <1>4, <1>5, <1>6, <1>7, <1>8 DEF StartupNext, StartUp

LEMMA StartNext == StartInv /\ [StartupNext]_startup => StartInv'
BY StartNextOptions, StartNextParts DEF StartInv

LEMMA Started == StartupSpec => []StartInv
BY StartInit, StartNext, PTL DEF StartupSpec

\* When all options have been handled the flags tell which of them there are.
LEMMA StartImplied == StartInv => AskedForCollector
<1> SUFFICES ASSUME StartInv, stage = "up" PROVE AskedForCollector
    BY DEF AskedForCollector
<1>1. given \in Seq(Seq(STRING)) /\ handled = Len(given)
    BY StartupAssumption DEF StartInv, OptionsInv
<1>2. DOMAIN given = 1 .. handled
    BY <1>1
<1>3. (SegregatedAsked <=> SegregatedSoFar) /\ (GenconAsked <=> GenconSoFar)
    BY <1>2 DEF SegregatedAsked, SegregatedSoFar, GenconAsked, GenconSoFar
<1>4. /\ useSegregatedGC <=> SegregatedSoFar
      /\ GENCON \in extensions <=> GenconSoFar
      /\ useSegregatedGC => SEGREGATED_HEAP \in build
      /\ GENCON \in extensions => SCAVENGER \in build
      /\ gcPolicy = Configuration
    BY DEF StartInv, OptionsInv, Coming
<1> QED
    BY <1>3, <1>4, Zenon DEF AskedForCollector, Configuration

\* For any options in any order, a VM that is up has the collector asked for.
THEOREM CollectorAsAsked == StartupSpec => []AskedForCollector
BY Started, StartImplied, PTL

-----------------------------------------------------------------------------
(* The whole VM                                                            *)

LEMMA Components ==
    /\ RuntimeInit => Init /\ StartupInit /\ ProfilingInit /\ ConcurrentInit
    /\ [RuntimeNext]_runtime =>
         /\ [Next]_vars /\ [StartupNext]_startup
         /\ [ProfilingNext]_profile /\ [ConcurrentNext]_concurrent
<1>1. RuntimeInit => Init /\ StartupInit /\ ProfilingInit /\ ConcurrentInit
    BY DEF RuntimeInit
<1>2. ASSUME [RuntimeNext]_runtime PROVE [Next]_vars
    BY <1>2 DEF RuntimeNext, runtime, binding, StartVM, MakeVMThread, BindOrUnbind, Sample,
        SwitchSampling, StartTracing, StartPaying, Pay, EndTracing, LeaveVM, ShutDownVM,
        Next, Inside
<1>3. ASSUME [RuntimeNext]_runtime PROVE [StartupNext]_startup
    BY <1>3 DEF RuntimeNext, runtime, StartVM, MakeVMThread, BindOrUnbind, Sample,
        SwitchSampling, StartTracing, StartPaying, Pay, EndTracing, LeaveVM, ShutDownVM,
        StartupNext
<1>4. ASSUME [RuntimeNext]_runtime PROVE [ProfilingNext]_profile
    BY <1>4 DEF RuntimeNext, runtime, StartVM, MakeVMThread, BindOrUnbind, Sample,
        SwitchSampling, StartTracing, StartPaying, Pay, EndTracing, LeaveVM, ShutDownVM,
        ProfilingNext
<1>5. ASSUME [RuntimeNext]_runtime PROVE [ConcurrentNext]_concurrent
    BY <1>5 DEF RuntimeNext, runtime, StartVM, MakeVMThread, BindOrUnbind, Sample,
        SwitchSampling, StartTracing, StartPaying, Pay, EndTracing, LeaveVM, ShutDownVM,
        ConcurrentNext
<1> QED
    BY <1>1, <1>2, <1>3, <1>4, <1>5

\* A behaviour of the VM is one of each of its components.
THEOREM Composition ==
    RuntimeSpec => Spec /\ StartupSpec /\ ProfilingSpec /\ ConcurrentSpec
BY Components, PTL DEF RuntimeSpec, Spec, StartupSpec, ProfilingSpec, ConcurrentSpec

\* What holds of the thread bindings holds of them in a VM that comes up, fails
\* to, or goes down.
THEOREM BindingsInVM == RuntimeSpec => []Balanced /\ []BuiltInOrder /\ BindingsNest
BY Composition, NothingLeaks, OrderOfResources, BindingsRefined, PTL

\* So does what holds of startup, sampling and root collection.
THEOREM ComponentsInVM ==
    RuntimeSpec => []AskedForCollector /\ []SamplesSpaced /\ []UnitsCollectedOnce
BY Composition, CollectorAsAsked, SamplesAreSpaced, UnitsAreCollectedOnce, PTL

\* The VM does not go down, nor do threads bind before it is up.
ThreadsInside == stage # "up" => \A t \in Thread : pc[t] = "idle" /\ bound[t] = 0

LEMMA InsideInit == RuntimeInit => ThreadsInside
BY DEF RuntimeInit, Init, ThreadsInside

LEMMA InsideNext == ThreadsInside /\ [RuntimeNext]_runtime => ThreadsInside'
<1> SUFFICES ASSUME ThreadsInside, [RuntimeNext]_runtime PROVE ThreadsInside'
    OBVIOUS
<1>1. CASE StartVM
    BY <1>1 DEF ThreadsInside, StartVM, binding, vars, StartUp, InitializeModels, HandleOption,
        CreateInterface, CreateConfiguration, CreateVerboseManager
<1>2. ASSUME NEW t \in Thread, MakeVMThread(t) PROVE ThreadsInside'
    BY <1>2 DEF ThreadsInside, MakeVMThread, FirstInit, startup
<1>3. ASSUME NEW t \in Thread, BindOrUnbind(t) PROVE ThreadsInside'
    BY <1>3 DEF ThreadsInside, BindOrUnbind, Free, startup, AllocLanguageThread,
        LinkLanguageThread, UndoInit, UndoAlloc, Cleanup, FreeLanguageThread, Detach
<1>4. CASE LeaveVM
    BY <1>4 DEF ThreadsInside, LeaveVM, Free, binding, vars
<1>5. CASE ShutDownVM
    BY <1>5 DEF ThreadsInside, ShutDownVM, ShutDown, binding, vars
<1>6. CASE UNCHANGED <<pc, bound, stage>>
    BY <1>6 DEF ThreadsInside
<1> QED
    BY <1>1, <1>2, <1>3, <1>4, <1>5, <1>6 DEF RuntimeNext, runtime, binding, vars, startup,
        Sample, SwitchSampling, StartTracing, StartPaying, Pay, EndTracing

\* Wherever startup fails and however the calls of the threads interleave with
\* it, a VM that is down has freed what it allocated and holds no thread.
THEOREM LeavesNothing == RuntimeSpec => []NothingLeftBehind
<1>1. StartInv /\ BindingInv /\ ThreadsInside => NothingLeftBehind
  <2> SUFFICES ASSUME StartInv, BindingInv, ThreadsInside, stage = "down"
               PROVE  forge = {} /\ parts = {} /\ \A t \in Thread : Held(t) = {}
      BY DEF NothingLeftBehind
  <2>1. forge = {} /\ parts = {}
      BY DEF StartInv, PartsInv
  <2>2. ASSUME NEW t \in Thread PROVE Held(t) = {}
      BY DEF ThreadsInside, BindingInv, Place, Holds, Held
  <2> QED
      BY <2>1, <2>2
<1> QED
    BY <1>1, Composition, Started, BindingInvariance, InsideInit, InsideNext, PTL DEF RuntimeSpec

-----------------------------------------------------------------------------
(* The thread-local heaps, in a heap of any size with chunks of any size:  *)
(* no cell is handed out twice or lost, and references start out null.     *)


\* Memory that is asked for as zeroed comes from a chunk that was cleared, and
\* of which nothing that is left has been written to since.
ZeroedIsClean == \A t \in Thread : Remainder(t, TRUE) \cap used = {}

TlhIInv == TlhTypeOK /\ OneOwner /\ ZeroedIsClean /\ RefArraysStartNull

-----------------------------------------------------------------------------
(* The accessors.                                                          *)

\* They name fields, none of which is two things, and they agree on whether
\* both kinds of allocation share a chunk.
LEMMA Accessors ==
    \A z, w \in BOOLEAN :
        /\ HeapBase(z) \in Fields /\ HeapAlloc(z) \in Fields /\ HeapTop(z) \in Fields
        /\ HeapBase(z) # HeapAlloc(w) /\ HeapBase(z) # HeapTop(w)
        /\ HeapAlloc(z) # HeapTop(w)
        /\ HeapAlloc(z) = HeapAlloc(w) <=> HeapBase(z) = HeapBase(w)
        /\ HeapTop(z) = HeapTop(w) <=> HeapBase(z) = HeapBase(w)
        /\ HeapBase(TRUE) = "heapBase"
        /\ HeapBase(z) = "heapBase" => HeapBase(z) = HeapBase(TRUE)
BY DEF HeapBase, HeapAlloc, HeapTop, Fields

\* Allocations that use the same chunk see the same of it.
LEMMA SameChunk ==
    ASSUME NEW t \in Thread, NEW z \in BOOLEAN, NEW u \in Thread, NEW w \in BOOLEAN,
           Chunk(t, z) = Chunk(u, w)
    PROVE  /\ Base(t, z) = Base(u, w) /\ Alloc(t, z) = Alloc(u, w)
           /\ Top(t, z) = Top(u, w) /\ Remainder(t, z) = Remainder(u, w)
BY Accessors DEF Chunk, Base, Alloc, Top, Remainder

\* What the accessors lead to is an address or NULL.
LEMMA Addresses ==
    ASSUME TlhTypeOK, NEW t \in Thread, NEW z \in BOOLEAN
    PROVE  Base(t, z) \in 0 .. N + 1 /\ Alloc(t, z) \in 0 .. N + 1 /\ Top(t, z) \in 0 .. N + 1
<1>1. /\ HeapBase(z) \in Fields /\ HeapAlloc(z) \in Fields /\ HeapTop(z) \in Fields
  BY Accessors
<1> QED
  BY <1>1 DEF TlhTypeOK, Base, Alloc, Top

-----------------------------------------------------------------------------

LEMMA TlhInitially == TlhInit => TlhIInv
<1> SUFFICES ASSUME TlhInit PROVE TlhIInv
  OBVIOUS
<1>1. \A t \in Thread, z \in BOOLEAN :
        Base(t, z) = NULL /\ Alloc(t, z) = NULL /\ Top(t, z) = NULL
  BY Accessors DEF TlhInit, Base, Alloc, Top
<1>2. \A t \in Thread, z \in BOOLEAN : Remainder(t, z) = {}
  BY <1>1 DEF Remainder, Cell, NULL
<1>3. TlhTypeOK
  BY <1>1, ThreadLocalHeapAssumption DEF TlhInit, TlhTypeOK, Cell, NULL
<1>4. OneOwner
  BY <1>2 DEF TlhInit, OneOwner
<1> QED
  BY <1>2, <1>3, <1>4 DEF TlhInit, TlhIInv, ZeroedIsClean, RefArraysStartNull

LEMMA AllocateKeeps ==
    ASSUME NEW t \in Thread, NEW kind \in Kinds, NEW size \in Sizes
    PROVE  TlhIInv /\ Allocate(t, kind, size) => TlhIInv'
<1> SUFFICES ASSUME TlhIInv, Allocate(t, kind, size) PROVE TlhIInv'
  OBVIOUS
<1> USE ThreadLocalHeapAssumption
<1> DEFINE z     == Zeroed(kind)
           first == Alloc(t, z)
           cells == first .. first + size - 1
           new   == [first |-> first, size |-> size, kind |-> kind,
                     dirt |-> cells \cap used]
<1>0. z \in BOOLEAN
  BY DEF Zeroed
<1>1. /\ nonZeroTlh' = nonZeroTlh /\ pool' = pool
      /\ field' = [field EXCEPT ![t][HeapAlloc(z)] = @ + size]
      /\ objects' = objects \cup {new}
      /\ used' = used \cup cells
      /\ first # NULL /\ first + size <= Top(t, z)
  BY DEF Allocate
<1>2. /\ first \in Cell /\ size \in Nat \ {0} /\ first + size <= N + 1
      /\ Top(t, z) \in 0 .. N + 1
  <2>1. Alloc(t, z) \in 0 .. N + 1 /\ Top(t, z) \in 0 .. N + 1
    BY <1>0, Addresses DEF TlhIInv
  <2>2. size \in Nat \ {0} /\ N \in Nat
    OBVIOUS
  <2> QED
    BY <1>1, <2>1, <2>2 DEF Cell, NULL
<1>3. cells \subseteq Remainder(t, z) /\ cells \subseteq Cell /\ cells # {}
  BY <1>1, <1>2 DEF Remainder, Cell
<1>4. ASSUME NEW u \in Thread, NEW w \in BOOLEAN
      PROVE  /\ Base(u, w)' = Base(u, w) /\ Top(u, w)' = Top(u, w)
             /\ Alloc(u, w)' = IF Chunk(u, w) = Chunk(t, z)
                               THEN first + size ELSE Alloc(u, w)
             /\ Chunk(u, w)' = Chunk(u, w)
  BY <1>0, <1>1, Accessors
     DEF TlhIInv, TlhTypeOK, Base, Alloc, Top, Chunk, HeapBase, HeapAlloc, HeapTop
<1>5. ASSUME NEW u \in Thread, NEW w \in BOOLEAN
      PROVE  Remainder(u, w)' = Remainder(u, w) \ cells
  <2>1. CASE Chunk(u, w) = Chunk(t, z)
    <3>1. Remainder(u, w) = Remainder(t, z)
      BY <1>0, <2>1, SameChunk
    <3>2. Top(u, w) = Top(t, z)
      BY <1>0, <2>1, SameChunk
    <3> QED
      BY <1>2, <1>4, <2>1, <3>1, <3>2 DEF Remainder, Cell
  <2>2. CASE Chunk(u, w) # Chunk(t, z)
    <3>1. Remainder(u, w)' = Remainder(u, w)
      BY <1>4, <2>2 DEF Remainder
    <3>2. Remainder(u, w) \cap cells = {}
      BY <1>0, <1>3, <2>2 DEF TlhIInv, OneOwner
    <3> QED
      BY <3>1, <3>2
  <2> QED
    BY <2>1, <2>2
<1>6. /\ \A o \in objects : Extent(o) \cap cells = {}
      /\ Extent(new) = cells /\ new \notin objects
      /\ cells \cap pool = {}
  BY <1>0, <1>3 DEF TlhIInv, OneOwner, Extent
<1>7. TlhTypeOK'
  <2>1. field' \in [Thread -> [Fields -> 0 .. N + 1]]
    <3>1. first + size \in 0 .. N + 1
      BY <1>2 DEF Cell
    <3>2. HeapAlloc(z) \in Fields
      BY <1>0, Accessors
    <3> QED
      BY <1>1, <3>1, <3>2 DEF TlhIInv, TlhTypeOK, Alloc
  <2>2. \A u \in Thread, w \in BOOLEAN :
          /\ Base(u, w)' <= Alloc(u, w)' /\ Alloc(u, w)' <= Top(u, w)'
          /\ Base(u, w)' = NULL => Top(u, w)' = NULL
    <3> SUFFICES ASSUME NEW u \in Thread, NEW w \in BOOLEAN
                 PROVE  /\ Base(u, w)' <= Alloc(u, w)' /\ Alloc(u, w)' <= Top(u, w)'
                        /\ Base(u, w)' = NULL => Top(u, w)' = NULL
      OBVIOUS
    <3>1. /\ Base(u, w) \in 0 .. N + 1
          /\ Base(u, w) <= Alloc(u, w) /\ Alloc(u, w) <= Top(u, w)
          /\ Base(u, w) = NULL => Top(u, w) = NULL
      BY Accessors DEF TlhIInv, TlhTypeOK, Base
    <3>2. CASE Chunk(u, w) = Chunk(t, z)
      <4>1. Base(u, w) <= first /\ Top(u, w) = Top(t, z)
        BY <1>0, <3>1, <3>2, SameChunk
      <4> QED
        BY <1>1, <1>2, <1>4, <3>1, <3>2, <4>1 DEF Cell
    <3>3. CASE Chunk(u, w) # Chunk(t, z)
      BY <1>4, <3>1, <3>3
    <3> QED
      BY <3>2, <3>3
  <2> QED
    BY <1>1, <1>2, <1>3, <2>1, <2>2 DEF TlhIInv, TlhTypeOK
<1>8. OneOwner'
  <2>1. \A o, p \in objects' : o # p => Extent(o) \cap Extent(p) = {}
    BY <1>1, <1>6 DEF TlhIInv, OneOwner
  <2>2. \A o \in objects' : Extent(o) \cap pool' = {}
    BY <1>1, <1>6 DEF TlhIInv, OneOwner
  <2>3. ASSUME NEW u \in Thread, NEW w \in BOOLEAN
        PROVE  /\ Remainder(u, w)' \cap pool' = {}
               /\ \A o \in objects' : Extent(o) \cap Remainder(u, w)' = {}
               /\ \A v \in Thread, x \in BOOLEAN : Chunk(u, w)' # Chunk(v, x)'
                    => Remainder(u, w)' \cap Remainder(v, x)' = {}
    <3>1. Remainder(u, w) \cap pool = {}
      BY DEF TlhIInv, OneOwner
    <3>2. \A o \in objects : Extent(o) \cap Remainder(u, w) = {}
      BY DEF TlhIInv, OneOwner
    <3>3. Extent(new) \cap Remainder(u, w)' = {}
      BY <1>5, <1>6
    <3>4. \A v \in Thread, x \in BOOLEAN : Chunk(u, w)' # Chunk(v, x)'
            => Remainder(u, w)' \cap Remainder(v, x)' = {}
      BY <1>4, <1>5 DEF TlhIInv, OneOwner
    <3> QED
      BY <1>1, <1>5, <3>1, <3>2, <3>3, <3>4
  <2>4. ASSUME NEW c \in Cell \ pool'
        PROVE  \/ \E o \in objects' : c \in Extent(o)
               \/ \E u \in Thread, w \in BOOLEAN : c \in Remainder(u, w)'
    <3>1. CASE c \in cells
      BY <1>1, <1>6, <3>1
    <3>2. CASE \E o \in objects : c \in Extent(o)
      BY <1>1, <3>2
    <3>3. CASE c \notin cells /\ \E u \in Thread, w \in BOOLEAN : c \in Remainder(u, w)
      BY <1>5, <3>3
    <3> QED
      BY <1>1, <3>1, <3>2, <3>3 DEF TlhIInv, OneOwner
  <2> QED
    BY <2>1, <2>2, <2>3, <2>4 DEF OneOwner, Extent
<1>9. ZeroedIsClean'
  BY <1>1, <1>5 DEF TlhIInv, ZeroedIsClean
<1>10. RefArraysStartNull'
  <2>1. kind = "RefArray" => cells \cap used = {}
    BY <1>3 DEF TlhIInv, ZeroedIsClean, Zeroed
  <2> QED
    BY <1>1, <2>1 DEF TlhIInv, RefArraysStartNull
<1> QED
  BY <1>7, <1>8, <1>9, <1>10 DEF TlhIInv

LEMMA RefreshKeeps ==
    ASSUME NEW t \in Thread, NEW kind \in Kinds, NEW size \in Sizes
    PROVE  TlhIInv /\ Refresh(t, kind, size) => TlhIInv'
<1> SUFFICES ASSUME TlhIInv, Refresh(t, kind, size) PROVE TlhIInv'
  OBVIOUS
<1> USE ThreadLocalHeapAssumption
<1> DEFINE z == Zeroed(kind)
<1>0. z \in BOOLEAN
  BY DEF Zeroed
<1>1. PICK first \in pool, length \in size .. ChunkSize :
        /\ first .. first + length - 1 \subseteq pool
        /\ field' = [field EXCEPT ![t] = WithChunk(t, z, first, first + length)]
        /\ pool' = (pool \ (first .. first + length - 1)) \cup Remainder(t, z)
        /\ used' = IF HeapBase(z) = "heapBase"
                   THEN used \ (first .. first + length - 1) ELSE used
  BY DEF Refresh
<1> DEFINE chunk == first .. first + length - 1
<1>2. nonZeroTlh' = nonZeroTlh /\ objects' = objects
  BY DEF Refresh
<1>3. /\ chunk \subseteq Cell /\ first \in Cell /\ length \in Nat \ {0}
      /\ first + length <= N + 1
  <2>1. chunk \subseteq Cell /\ first \in Cell
    BY <1>1 DEF TlhIInv, TlhTypeOK
  <2>2. length \in Nat \ {0}
    BY <1>1
  <2>3. first + length - 1 \in chunk
    BY <2>1, <2>2 DEF Cell
  <2>4. first + length - 1 <= N
    BY <2>1, <2>3 DEF Cell
  <2> QED
    BY <2>1, <2>2, <2>4 DEF Cell
<1>4. ASSUME NEW u \in Thread, NEW w \in BOOLEAN
      PROVE  /\ Chunk(u, w)' = Chunk(u, w)
             /\ Chunk(u, w) = Chunk(t, z) =>
                  /\ Base(u, w)' = first /\ Alloc(u, w)' = first
                  /\ Top(u, w)' = first + length
             /\ Chunk(u, w) # Chunk(t, z) =>
                  /\ Base(u, w)' = Base(u, w) /\ Alloc(u, w)' = Alloc(u, w)
                  /\ Top(u, w)' = Top(u, w)
  BY <1>0, <1>1, <1>2, Accessors
     DEF TlhIInv, TlhTypeOK, WithChunk, Base, Alloc, Top, Chunk, HeapBase, HeapAlloc, HeapTop
<1>5. ASSUME NEW u \in Thread, NEW w \in BOOLEAN
      PROVE  Remainder(u, w)' = IF Chunk(u, w) = Chunk(t, z) THEN chunk ELSE Remainder(u, w)
  BY <1>3, <1>4 DEF Remainder, Cell
<1>6. Remainder(t, z) \subseteq Cell /\ Remainder(t, z) \cap pool = {}
  BY <1>0 DEF Remainder, TlhIInv, OneOwner
<1>7. TlhTypeOK'
  <2>1. field' \in [Thread -> [Fields -> 0 .. N + 1]]
    <3>1. first \in 0 .. N + 1 /\ first + length \in 0 .. N + 1
      BY <1>3 DEF Cell
    <3>2. WithChunk(t, z, first, first + length) \in [Fields -> 0 .. N + 1]
      BY <1>0, <3>1, Accessors DEF TlhIInv, TlhTypeOK, WithChunk
    <3> QED
      BY <1>1, <3>2 DEF TlhIInv, TlhTypeOK
  <2>2. ASSUME NEW u \in Thread, NEW w \in BOOLEAN
        PROVE  /\ Base(u, w)' <= Alloc(u, w)' /\ Alloc(u, w)' <= Top(u, w)'
               /\ Base(u, w)' = NULL => Top(u, w)' = NULL
    <3>1. CASE Chunk(u, w) = Chunk(t, z)
      BY <1>3, <1>4, <3>1 DEF Cell, NULL
    <3>2. CASE Chunk(u, w) # Chunk(t, z)
      BY <1>4, <3>2 DEF TlhIInv, TlhTypeOK
    <3> QED
      BY <3>1, <3>2
  <2>3. pool' \subseteq Cell /\ used' \subseteq Cell
    BY <1>1, <1>6 DEF TlhIInv, TlhTypeOK
  <2> QED
    BY <1>2, <2>1, <2>2, <2>3 DEF TlhIInv, TlhTypeOK
<1>8. OneOwner'
  <2>1. \A o \in objects : Extent(o) \cap pool' = {}
    BY <1>0, <1>1 DEF TlhIInv, OneOwner
  <2>2. ASSUME NEW u \in Thread, NEW w \in BOOLEAN
        PROVE  /\ Remainder(u, w)' \cap pool' = {}
               /\ \A o \in objects : Extent(o) \cap Remainder(u, w)' = {}
               /\ \A v \in Thread, x \in BOOLEAN : Chunk(u, w)' # Chunk(v, x)'
                    => Remainder(u, w)' \cap Remainder(v, x)' = {}
    <3>1. CASE Chunk(u, w) = Chunk(t, z)
      <4>1. Remainder(u, w)' = chunk
        BY <1>5, <3>1
      <4>2. chunk \cap pool' = {}
        BY <1>1, <1>6
      <4>3. \A o \in objects : Extent(o) \cap chunk = {}
        BY <1>1 DEF TlhIInv, OneOwner
      <4>4. ASSUME NEW v \in Thread, NEW x \in BOOLEAN, Chunk(u, w)' # Chunk(v, x)'
            PROVE  chunk \cap Remainder(v, x)' = {}
        <5>1. Remainder(v, x)' = Remainder(v, x)
          BY <1>4, <1>5, <3>1, <4>4
        <5> QED
          BY <1>1, <5>1 DEF TlhIInv, OneOwner
      <4> QED
        BY <4>1, <4>2, <4>3, <4>4
    <3>2. CASE Chunk(u, w) # Chunk(t, z)
      <4>1. Remainder(u, w)' = Remainder(u, w)
        BY <1>5, <3>2
      <4>2. Remainder(u, w) \cap pool = {} /\ Remainder(u, w) \cap Remainder(t, z) = {}
        BY <1>0, <3>2 DEF TlhIInv, OneOwner
      <4>3. \A o \in objects : Extent(o) \cap Remainder(u, w) = {}
        BY DEF TlhIInv, OneOwner
      <4>4. ASSUME NEW v \in Thread, NEW x \in BOOLEAN, Chunk(u, w)' # Chunk(v, x)'
            PROVE  Remainder(u, w) \cap Remainder(v, x)' = {}
        <5>1. CASE Chunk(v, x) = Chunk(t, z)
          BY <1>1, <1>5, <4>2, <5>1
        <5>2. CASE Chunk(v, x) # Chunk(t, z)
          BY <1>4, <1>5, <4>4, <5>2 DEF TlhIInv, OneOwner
        <5> QED
          BY <5>1, <5>2
      <4> QED
        BY <1>1, <4>1, <4>2, <4>3, <4>4
    <3> QED
      BY <3>1, <3>2
  <2>3. ASSUME NEW c \in Cell \ pool'
        PROVE  \/ \E o \in objects : c \in Extent(o)
               \/ \E u \in Thread, w \in BOOLEAN : c \in Remainder(u, w)'
    <3>1. CASE c \in chunk
      BY <1>0, <1>5, <3>1
    <3>2. CASE \E o \in objects : c \in Extent(o)
      BY <3>2
    <3>3. ASSUME NEW u \in Thread, NEW w \in BOOLEAN, c \in Remainder(u, w)
          PROVE  c \in Remainder(u, w)'
      <4>1. c \notin Remainder(t, z)
        BY <1>1, <2>3
      <4>2. Chunk(u, w) # Chunk(t, z)
        BY <1>0, <3>3, <4>1, SameChunk
      <4> QED
        BY <1>5, <3>3, <4>2
    <3>4. CASE c \notin pool
      BY <3>2, <3>3, <3>4 DEF TlhIInv, OneOwner
    <3> QED
      BY <1>1, <2>3, <3>1, <3>4
  <2> QED
    BY <1>2, <2>1, <2>2, <2>3 DEF TlhIInv, OneOwner, Extent
<1>9. ZeroedIsClean'
  <2> SUFFICES ASSUME NEW u \in Thread PROVE Remainder(u, TRUE)' \cap used' = {}
    BY DEF ZeroedIsClean
  <2>1. CASE Chunk(u, TRUE) = Chunk(t, z)
    <3>1. HeapBase(z) = "heapBase"
      BY <2>1, Accessors DEF Chunk
    <3> QED
      BY <1>1, <1>5, <2>1, <3>1
  <2>2. CASE Chunk(u, TRUE) # Chunk(t, z)
    BY <1>1, <1>5, <2>2 DEF TlhIInv, ZeroedIsClean
  <2> QED
    BY <2>1, <2>2
<1>10. RefArraysStartNull'
  BY <1>2 DEF TlhIInv, RefArraysStartNull
<1> QED
  BY <1>7, <1>8, <1>9, <1>10 DEF TlhIInv

LEMMA CollectKeeps == TlhIInv /\ Collect => TlhIInv'
<1> SUFFICES ASSUME TlhIInv, Collect PROVE TlhIInv'
  OBVIOUS
<1>1. PICK live \in SUBSET objects :
        /\ objects' = live
        /\ pool' = pool \cup (UNION {Remainder(t, z) : t \in Thread, z \in BOOLEAN})
                        \cup (UNION {Extent(o) : o \in objects \ live})
  BY DEF Collect
<1>2. /\ nonZeroTlh' = nonZeroTlh /\ used' = used
      /\ field' = [t \in Thread |-> [f \in Fields |-> NULL]]
  BY DEF Collect
<1>3. \A t \in Thread, z \in BOOLEAN :
        Base(t, z)' = NULL /\ Alloc(t, z)' = NULL /\ Top(t, z)' = NULL
  BY <1>2, Accessors DEF Base, Alloc, Top, HeapBase, HeapAlloc, HeapTop
<1>4. \A t \in Thread, z \in BOOLEAN : Remainder(t, z)' = {}
  BY <1>3 DEF Remainder, Cell, NULL
<1>5. ASSUME NEW o \in objects PROVE Extent(o) \subseteq Cell
  <2>1. o.first \in Cell /\ o.size \in Sizes /\ o.first + o.size <= N + 1
    BY DEF TlhIInv, TlhTypeOK
  <2>2. o.size \in Nat /\ N \in Nat
    <3>1. o.size \in 1 .. ChunkSize
      BY <2>1, ThreadLocalHeapAssumption
    <3> QED
      BY <3>1, ThreadLocalHeapAssumption
  <2> QED
    BY <2>1, <2>2 DEF Extent, Cell
<1>6. ASSUME NEW c
      PROVE  c \in pool' <=> \/ c \in pool
                             \/ \E t \in Thread, z \in BOOLEAN : c \in Remainder(t, z)
                             \/ \E o \in objects \ live : c \in Extent(o)
  <2> DEFINE abandoned == UNION {Remainder(t, z) : t \in Thread, z \in BOOLEAN}
             freed     == UNION {Extent(o) : o \in objects \ live}
  <2>1. pool' = pool \cup abandoned \cup freed
    BY <1>1
  <2>2. c \in abandoned <=> \E t \in Thread, z \in BOOLEAN : c \in Remainder(t, z)
    OBVIOUS
  <2>3. c \in freed <=> \E o \in objects \ live : c \in Extent(o)
    OBVIOUS
  <2> HIDE DEF abandoned, freed
  <2> QED
    BY <2>1, <2>2, <2>3
<1>7. TlhTypeOK'
  <2>1. pool' \subseteq Cell
    <3>1. pool \subseteq Cell
      BY DEF TlhIInv, TlhTypeOK
    <3>2. \A t \in Thread, z \in BOOLEAN : Remainder(t, z) \subseteq Cell
      BY DEF Remainder
    <3> QED
      BY <1>5, <1>6, <3>1, <3>2
  <2>2. field' \in [Thread -> [Fields -> 0 .. N + 1]]
    BY <1>2, ThreadLocalHeapAssumption DEF NULL
  <2> QED
    BY <1>1, <1>2, <1>3, <2>1, <2>2 DEF TlhIInv, TlhTypeOK, NULL
<1>8. OneOwner'
  <2>1. ASSUME NEW o \in live PROVE Extent(o) \cap pool' = {}
    <3>1. Extent(o) \cap pool = {}
      BY DEF TlhIInv, OneOwner
    <3>2. \A t \in Thread, z \in BOOLEAN : Extent(o) \cap Remainder(t, z) = {}
      BY DEF TlhIInv, OneOwner
    <3>3. \A p \in objects \ live : Extent(o) \cap Extent(p) = {}
      BY DEF TlhIInv, OneOwner
    <3> QED
      BY <1>6, <3>1, <3>2, <3>3
  <2>2. ASSUME NEW c \in Cell \ pool' PROVE \E o \in live : c \in Extent(o)
    BY <1>6, <2>2 DEF TlhIInv, OneOwner
  <2> QED
    BY <1>1, <1>4, <2>1, <2>2 DEF TlhIInv, OneOwner, Extent
<1> QED
  BY <1>1, <1>4, <1>7, <1>8 DEF TlhIInv, ZeroedIsClean, RefArraysStartNull

LEMMA TlhStepKeeps == TlhIInv /\ [TlhNext]_tlhVars => TlhIInv'
<1> SUFFICES ASSUME TlhIInv, [TlhNext]_tlhVars PROVE TlhIInv'
  OBVIOUS
<1>1. CASE UNCHANGED tlhVars
  BY <1>1 DEF tlhVars, TlhIInv, TlhTypeOK, OneOwner, ZeroedIsClean, RefArraysStartNull,
     Extent, Remainder, Chunk, Base, Alloc, Top, HeapBase, HeapAlloc, HeapTop
<1> QED
  BY <1>1, AllocateKeeps, RefreshKeeps, CollectKeeps DEF TlhNext

-----------------------------------------------------------------------------

\* The invariant: ownership of memory, and that cleared chunks stay clean.
THEOREM TlhInvariance == TlhSpec => []TlhIInv
BY TlhInitially, TlhStepKeeps, PTL DEF TlhSpec

THEOREM TlhTypeCorrect == TlhSpec => []TlhTypeOK
BY TlhInvariance, PTL DEF TlhIInv

\* Whichever build, and however many threads: the accessors of
\* MM_LanguageThreadLocalHeap never let two of them, or two allocations of
\* one, take the same memory, and none is lost.
THEOREM MemoryHasOneOwner == TlhSpec => []OneOwner
BY TlhInvariance, PTL DEF TlhIInv

\* allocateRefArray returns an array whose slots are null.
THEOREM FreshReferencesAreNull == TlhSpec => []RefArraysStartNull
BY TlhInvariance, PTL DEF TlhIInv

-----------------------------------------------------------------------------
(* The verbose log, within LogAssumption: any names, any number of         *)
(* processes, and forks of forks to any depth.                             *)
(*                                                                         *)
(* OwnLog says nothing about how a log got its name.  The invariant does:  *)
(* the pids in a name stand before its first dot, in the order in which    *)
(* the processes were forked, so the last one tells whose log it is; or    *)
(* there is none, and the name has a place for one.                        *)

Part == Parts \cup Pid
Name == [block : Nat, parts : Seq(Part)]

State == [manager : {"none", "ready", "gone", "crashed"}, filename : Name,
          log : Seq(Part), live : SUBSET (Nat \ {0}), configured : Nat, generation : Nat,
          reconfigured : {"no", "yes", "failed"}, inherited : Name]

\* A name as it is configured; a name that may have been changed after a fork.
Plain(pieces)     == \A k \in DOMAIN pieces : pieces[k] \notin Pid
PidsFirst(pieces) == \A i, j \in DOMAIN pieces : pieces[i] = "." /\ pieces[j] \in Pid => j < i
NoPlace(pieces)   == \A k \in DOMAIN pieces : pieces[k] # "%p"

\* The last pid in a name is p.
Marked(pieces, p) ==
    \E i \in DOMAIN pieces :
        pieces[i] = p /\ \A j \in DOMAIN pieces : j > i => pieces[j] \notin Pid \ {p}

NameInv(s) == Plain(s.filename.parts) \/ (PidsFirst(s.filename.parts) /\ NoPlace(s.filename.parts))

LogInv(s, p) ==
    /\ ~Forked(s) => Plain(s.log)
    /\ Forked(s) /\ s.reconfigured = "yes" /\ s.log \notin Streams \cup {NoLog} =>
          \/ Plain(s.log) /\ ~NoPlace(s.log)
          \/ Marked(s.log, p) /\ NoPlace(s.log)

\* The block of the name is allocated; the names configured before it may be, too.
BlockInv(s) ==
    /\ IsFiniteSet(s.live)
    /\ s.filename.block # NoMemory => s.filename.block \in s.live
    /\ s.filename.block = NoMemory <=> s.filename.parts = <<>>
    /\ s.configured = 0 => s.live = {} /\ s.filename.block = NoMemory
    /\ s.configured > 0 => Cardinality(s.live \ {s.filename.block}) <= s.configured - 1

ProcessInv(s, p) == s \in State /\ NameInv(s) /\ LogInv(s, p) /\ BlockInv(s)

VerboseInv ==
    /\ proc = [p \in Processes |-> proc[p]] /\ Processes \subseteq Pid
    /\ \A p \in Processes : ProcessInv(proc[p], p)
    /\ \A p, q \in Processes : ~Forked(proc[p]) /\ ~Forked(proc[q]) => p = q


-----------------------------------------------------------------------------
(* Names.                                                                  *)

\* A set of numbers has a least one.
LEMMA LeastFacts ==
  ASSUME NEW S \in SUBSET Nat, S # {}
  PROVE  Min(S) \in S /\ \A y \in S : Min(S) <= y
<1> DEFINE LT == {p \in Nat \X Nat : p[1] < p[2]}
<1>1. IsWellFoundedOn(LT, Nat)
  BY NatLessThanWellFounded DEF OpToRel
<1>2. \A x \in Nat, y \in Nat : y < x => <<y, x>> \in LT
  OBVIOUS
<1> HIDE DEF LT
<1>3. PICK x \in S : \A y \in S : ~(<<y, x>> \in LT)
  BY <1>1, WFMin
<1>4. \A y \in S : x =< y
  <2> SUFFICES ASSUME NEW y \in S PROVE x =< y
    OBVIOUS
  <2>1. ~(y < x)
    BY <1>2, <1>3
  <2> QED BY <2>1
<1> QED BY <1>4 DEF Min

LEMMA PidFacts == "." \notin Pid /\ "%p" \notin Pid /\ Pid \subseteq Part
BY LogAssumption DEF Part

\* What insertion at a place of a sequence makes of it.
LEMMA InsertFacts ==
  ASSUME NEW pieces \in Seq(Part), NEW d \in 1 .. Len(pieces), NEW p \in Part
  PROVE  LET w == InsertAt(pieces, d, p)
         IN  /\ w \in Seq(Part) /\ Len(w) = Len(pieces) + 1
             /\ \A k \in 1 .. Len(pieces) + 1 :
                  w[k] = IF k < d THEN pieces[k] ELSE IF k = d THEN p ELSE pieces[k - 1]
<1> DEFINE a == SubSeq(pieces, 1, d - 1)
           b == SubSeq(pieces, d, Len(pieces))
<1>1. a \in Seq(Part) /\ Len(a) = d - 1 /\ \A k \in 1 .. d - 1 : a[k] = pieces[k]
  OBVIOUS
<1>2. b \in Seq(Part) /\ Len(b) = Len(pieces) - d + 1
      /\ \A k \in 1 .. Len(pieces) - d + 1 : b[k] = pieces[k + d - 1]
  OBVIOUS
<1> HIDE DEF a, b
<1>3. <<p>> \in Seq(Part) /\ Len(<<p>>) = 1 /\ <<p>>[1] = p
  OBVIOUS
<1> DEFINE c == a \o <<p>>
<1>4. c \in Seq(Part) /\ Len(c) = d /\ \A k \in 1 .. d : c[k] = IF k < d THEN a[k] ELSE p
  BY <1>1, <1>3, ConcatProperties
<1> HIDE DEF c
<1> DEFINE w == c \o b
<1>5. /\ w \in Seq(Part) /\ Len(w) = Len(pieces) + 1
      /\ \A k \in 1 .. Len(pieces) + 1 : w[k] = IF k <= d THEN c[k] ELSE b[k - d]
  <2>1. Len(c) + Len(b) = Len(pieces) + 1
    BY <1>2, <1>4
  <2>2. /\ w \in Seq(Part) /\ Len(w) = Len(c) + Len(b)
        /\ \A k \in 1 .. Len(c) + Len(b) : w[k] = IF k <= Len(c) THEN c[k] ELSE b[k - Len(c)]
    BY <1>2, <1>4, ConcatProperties
  <2> HIDE DEF w
  <2> QED BY <1>4, <2>1, <2>2
<1>6. w = InsertAt(pieces, d, p)
  BY DEF w, c, a, b, InsertAt
<1> HIDE DEF w
<1>7. ASSUME NEW k \in 1 .. Len(pieces) + 1
      PROVE  w[k] = IF k < d THEN pieces[k] ELSE IF k = d THEN p ELSE pieces[k - 1]
  <2>1. CASE k <= d
    <3>1. k \in 1 .. d /\ w[k] = c[k] /\ c[k] = IF k < d THEN a[k] ELSE p
      BY <1>4, <1>5, <2>1
    <3>2. k < d => a[k] = pieces[k]
      BY <1>1
    <3> QED BY <2>1, <3>1, <3>2
  <2>2. CASE k > d
    <3>1. PICK j \in 1 .. Len(pieces) - d + 1 : j = k - d
      BY <2>2
    <3>2. b[j] = pieces[j + d - 1] /\ j + d - 1 = k - 1
      BY <1>2, <3>1
    <3>3. w[k] = b[j]
      BY <1>5, <2>2, <3>1
    <3> QED BY <2>2, <3>2, <3>3
  <2> QED BY <2>1, <2>2
<1> QED BY <1>5, <1>6, <1>7

\* Where the pid goes: nothing before it is a dot, nothing after it is a pid.
LEMMA PlaceOfPid ==
  ASSUME NEW pieces \in Seq(Part), PidsFirst(pieces), NEW p \in Part
  PROVE  \E d \in 1 .. Len(pieces) + 1 :
           LET w == WithPid(pieces, p)
           IN  /\ w \in Seq(Part) /\ Len(w) = Len(pieces) + 1
               /\ \A k \in 1 .. Len(pieces) + 1 :
                    w[k] = IF k < d THEN pieces[k] ELSE IF k = d THEN p ELSE pieces[k - 1]
               /\ \A k \in 1 .. Len(pieces) : k < d => pieces[k] # "."
               /\ \A k \in 1 .. Len(pieces) : k >= d => pieces[k] \notin Pid
<1>1. CASE Contains(pieces, ".")
  <2> DEFINE D == {k \in 1 .. Len(pieces) : pieces[k] = "."}
             d == Min(D)
  <2>1. D \in SUBSET Nat /\ D # {}
    BY <1>1 DEF Contains
  <2>2. d \in D /\ \A k \in D : d <= k
    BY <2>1, LeastFacts
  <2>3. WithPid(pieces, p) = InsertAt(pieces, d, p)
    BY <1>1, <2>1 DEF WithPid, SelectInSeq
  <2> HIDE DEF d
  <2>4. \A k \in 1 .. Len(pieces) : k >= d => pieces[k] \notin Pid
    BY <2>2 DEF PidsFirst
  <2>5. d \in 1 .. Len(pieces) /\ \A k \in 1 .. Len(pieces) : k < d => pieces[k] # "."
    BY <2>2
  <2> DEFINE w == WithPid(pieces, p)
  <2>6. /\ w \in Seq(Part) /\ Len(w) = Len(pieces) + 1
        /\ \A k \in 1 .. Len(pieces) + 1 :
              w[k] = IF k < d THEN pieces[k] ELSE IF k = d THEN p ELSE pieces[k - 1]
    BY <2>3, <2>5, InsertFacts
  <2>7. d \in 1 .. Len(pieces) + 1
    BY <2>5
  <2> QED BY <2>4, <2>5, <2>6, <2>7
<1>2. CASE ~Contains(pieces, ".")
  <2>1. WithPid(pieces, p) = Append(pieces, p)
    BY <1>2 DEF WithPid
  <2>2. \A k \in 1 .. Len(pieces) : pieces[k] # "."
    BY <1>2 DEF Contains
  <2>3. Append(pieces, p) \in Seq(Part) /\ Len(Append(pieces, p)) = Len(pieces) + 1
        /\ \A k \in 1 .. Len(pieces) + 1 :
              Append(pieces, p)[k] = IF k < Len(pieces) + 1 THEN pieces[k] ELSE p
    OBVIOUS
  <2>4. Len(pieces) + 1 \in 1 .. Len(pieces) + 1
    OBVIOUS
  <2> QED BY <2>1, <2>2, <2>3, <2>4
<1> QED BY <1>1, <1>2

\* The name a forked process makes for itself.
LEMMA WithPidFacts ==
  ASSUME NEW pieces \in Seq(Part), PidsFirst(pieces), NoPlace(pieces), NEW p \in Pid
  PROVE  LET w == WithPid(pieces, p)
         IN  w \in Seq(Part) /\ w # <<>> /\ Marked(w, p) /\ PidsFirst(w) /\ NoPlace(w)
<1> DEFINE w == WithPid(pieces, p)
           n == Len(pieces)
<1>1. p \in Part /\ p # "." /\ p # "%p" /\ n \in Nat
  BY PidFacts
<1>2. PICK d \in 1 .. n + 1 :
          /\ w \in Seq(Part) /\ Len(w) = n + 1
          /\ \A k \in 1 .. n + 1 :
               w[k] = IF k < d THEN pieces[k] ELSE IF k = d THEN p ELSE pieces[k - 1]
          /\ \A k \in 1 .. n : k < d => pieces[k] # "."
          /\ \A k \in 1 .. n : k >= d => pieces[k] \notin Pid
  BY <1>1, PlaceOfPid
<1> HIDE DEF w
<1>3. DOMAIN w = 1 .. n + 1 /\ w[d] = p
  BY <1>2
<1>4. \A k \in 1 .. n + 1 : k < d => w[k] # "." /\ w[k] # "%p"
  BY <1>2 DEF NoPlace
<1>5. ASSUME NEW k \in 1 .. n + 1, k > d PROVE w[k] \notin Pid /\ w[k] # "%p"
  <2>1. k - 1 \in 1 .. n /\ k - 1 >= d /\ w[k] = pieces[k - 1]
    BY <1>2, <1>5
  <2> QED BY <1>2, <2>1 DEF NoPlace
<1>6. Marked(w, p)
  BY <1>3, <1>5 DEF Marked
<1>7. PidsFirst(w)
  <2> SUFFICES ASSUME NEW i \in 1 .. n + 1, NEW j \in 1 .. n + 1, w[i] = ".", w[j] \in Pid
               PROVE  j < i
    BY <1>3 DEF PidsFirst
  <2>1. ~(i < d) /\ i # d
    BY <1>1, <1>3, <1>4
  <2>2. ~(j > d)
    BY <1>5
  <2> QED BY <2>1, <2>2
<1>8. NoPlace(w)
  BY <1>1, <1>3, <1>4, <1>5 DEF NoPlace
<1> QED BY <1>2, <1>6, <1>7, <1>8 DEF w

-----------------------------------------------------------------------------
(* Blocks.                                                                 *)

\* The allocator finds a block that is not in use.
LEMMA NewBlockFacts ==
  ASSUME NEW s \in State, IsFiniteSet(s.live)
  PROVE  NewBlock(s) \in Nat \ {0} /\ NewBlock(s) \notin s.live
<1> DEFINE n    == Cardinality(s.live) + 1
           free == (1 .. n) \ s.live
<1>1. Cardinality(s.live) \in Nat
  BY FS_CardinalityType
<1>2. IsFiniteSet(1 .. n) /\ Cardinality(1 .. n) = n
  BY <1>1, FS_Interval
<1>3. free # {}
  <2> SUFFICES ASSUME 1 .. n \subseteq s.live PROVE FALSE
    OBVIOUS
  <2>1. Cardinality(1 .. n) <= Cardinality(s.live)
    BY FS_Subset
  <2> QED BY <1>1, <1>2, <2>1
<1>4. free \in SUBSET Nat
  BY <1>1
<1>5. Min(free) \in free
  BY <1>3, <1>4, LeastFacts
<1> QED BY <1>1, <1>5 DEF NewBlock

\* At most one of the blocks is the name's.
LEMMA LiveBound ==
  ASSUME NEW s \in State, BlockInv(s)
  PROVE  Cardinality(s.live) \in Nat /\ Cardinality(s.live) <= s.configured
<1>1. IsFiniteSet(s.live) /\ Cardinality(s.live) \in Nat /\ s.configured \in Nat
  BY FS_CardinalityType DEF BlockInv, State
<1>2. CASE s.configured = 0
  BY <1>2, FS_EmptySet DEF BlockInv
<1>3. CASE s.configured > 0
  <2>1. IsFiniteSet(s.live \ {s.filename.block})
        /\ Cardinality(s.live \ {s.filename.block}) =
              IF s.filename.block \in s.live THEN Cardinality(s.live) - 1 ELSE Cardinality(s.live)
    BY <1>1, FS_RemoveElement
  <2> QED BY <1>1, <1>3, <2>1 DEF BlockInv
<1> QED BY <1>1, <1>2, <1>3

-----------------------------------------------------------------------------
(* The steps of one process.                                               *)

\* A process that takes a step of its own.
LEMMA BecomesKeeps ==
  ASSUME VerboseInv, NEW p \in Processes, NEW s, Becomes(p, s), ProcessInv(s, p),
         s.generation = proc[p].generation
  PROVE  VerboseInv'
<1>1. /\ DOMAIN proc' = Processes /\ proc'[p] = s
      /\ \A q \in Processes \ {p} : proc'[q] = proc[q]
      /\ proc' = [q \in DOMAIN proc' |-> proc'[q]]
  BY DEF VerboseInv, Becomes, Processes
<1>2. Processes' = Processes
  BY <1>1 DEF Processes
<1>3. \A q \in Processes : ProcessInv(proc'[q], q)
  BY <1>1 DEF VerboseInv
<1>4. \A q \in Processes : Forked(proc'[q]) <=> Forked(proc[q])
  BY <1>1 DEF Forked
<1> QED BY <1>1, <1>2, <1>3, <1>4 DEF VerboseInv

LEMMA VerboseInitially == LogInit => VerboseInv
<1> SUFFICES ASSUME LogInit PROVE VerboseInv
  OBVIOUS
<1>1. /\ Processes = {FirstPid} /\ proc[FirstPid] = Fresh
      /\ proc = [q \in Processes |-> proc[q]] /\ FirstPid \in Pid
  BY LogAssumption DEF LogInit, Processes
<1>2. Fresh \in State
  BY DEF Fresh, State, Name, NoName, NoLog, NoMemory
<1>3. ProcessInv(Fresh, FirstPid)
  BY <1>2, FS_EmptySet DEF ProcessInv, NameInv, LogInv, BlockInv, Plain, Fresh, NoName, NoLog, NoMemory, Forked
<1> QED BY <1>1, <1>3 DEF VerboseInv

LEMMA NewInstanceKeeps ==
  ASSUME VerboseInv, NEW p \in Processes, NewInstance(p)
  PROVE  VerboseInv'
<1> DEFINE s == proc[p]
           t == [s EXCEPT !.manager = "ready"]
<1>1. ProcessInv(s, p) /\ s \in State
  BY DEF VerboseInv, ProcessInv
<1>2. /\ t \in State /\ t.filename = s.filename /\ t.log = s.log /\ t.live = s.live
      /\ t.configured = s.configured /\ t.generation = s.generation
      /\ t.reconfigured = s.reconfigured
  BY <1>1 DEF State
<1> HIDE DEF t
<1>3. ProcessInv(t, p)
  BY <1>1, <1>2 DEF ProcessInv, NameInv, LogInv, BlockInv, Forked
<1>4. Becomes(p, t)
  BY DEF NewInstance, t
<1> QED BY <1>2, <1>3, <1>4, BecomesKeeps

\* A name that is configured has no pid in it.
LEMMA NamesPlain == \A name \in Names : name \in Seq(Part) /\ name # <<>> /\ Plain(name)
<1> SUFFICES ASSUME NEW name \in Names PROVE name \in Seq(Part) /\ name # <<>> /\ Plain(name)
  OBVIOUS
<1>1. name \in Seq(Parts) /\ name # <<>> /\ Pid \cap Parts = {}
  BY LogAssumption
<1>2. Plain(name)
  BY <1>1 DEF Plain
<1>3. name \in Seq(Part)
  BY <1>1 DEF Part
<1> QED BY <1>1, <1>2, <1>3

LEMMA ConfigureKeeps ==
  ASSUME VerboseInv, NEW p \in Processes, NEW name \in Names, ~Forked(proc[p]), Configure(p, name)
  PROVE  VerboseInv'
<1> DEFINE s == proc[p]
<1>1. ProcessInv(s, p) /\ s \in State /\ BlockInv(s)
  BY DEF VerboseInv, ProcessInv
<1>2. s.manager = "ready" /\ ~Forked(s)
  BY DEF Configure
<1>3. name \in Seq(Part) /\ name # <<>> /\ Plain(name)
  BY NamesPlain
<1>4. Cardinality(s.live) \in Nat /\ Cardinality(s.live) <= s.configured /\ IsFiniteSet(s.live)
  BY <1>1, LiveBound DEF BlockInv
<1>5. PICK allocated \in BOOLEAN :
        Becomes(p, [s EXCEPT
             !.log = name, !.configured = @ + 1,
             !.filename = IF allocated THEN [block |-> NewBlock(s), parts |-> name]
                                       ELSE NoName,
             !.live = IF allocated THEN @ \cup {NewBlock(s)} ELSE @])
  BY DEF Configure
<1>6. CASE allocated
  <2> DEFINE b == NewBlock(s)
             t == [s EXCEPT !.log = name, !.configured = s.configured + 1,
                            !.filename = [block |-> b, parts |-> name],
                            !.live = s.live \cup {b}]
  <2>1. b \in Nat \ {0} /\ b \notin s.live
    BY <1>1, <1>4, NewBlockFacts
  <2>2. Becomes(p, t)
    BY <1>5, <1>6
  <2> HIDE DEF b
  <2>3. /\ t \in State /\ t.filename = [block |-> b, parts |-> name] /\ t.log = name
        /\ t.live = s.live \cup {b} /\ t.configured = s.configured + 1
        /\ t.generation = s.generation
    <3>1. [block |-> b, parts |-> name] \in Name
      <4>1. b \in Nat /\ name \in Seq(Part)
        BY <1>3, <2>1
      <4> QED BY <4>1 DEF Name
    <3>2. s.live \cup {b} \in SUBSET (Nat \ {0}) /\ s.configured + 1 \in Nat
      BY <1>1, <2>1 DEF State
    <3> QED BY <1>1, <1>3, <3>1, <3>2 DEF State
  <2> HIDE DEF t
  <2>4. NameInv(t) /\ LogInv(t, p)
    BY <1>2, <1>3, <2>3 DEF NameInv, LogInv, Forked
  <2>5. BlockInv(t)
    <3>1. IsFiniteSet(t.live)
      BY <1>4, <2>3, FS_AddElement
    <3>2. t.live \ {t.filename.block} = s.live
      BY <2>1, <2>3
    <3>3. s.configured \in Nat
      BY <1>1 DEF State
    <3>4. t.filename.block = b /\ t.filename.parts = name /\ b \in t.live /\ b # 0
      BY <2>1, <2>3
    <3>5. t.configured \in Nat /\ t.configured > 0 /\ t.configured - 1 = s.configured
      BY <2>3, <3>3
    <3>6. Cardinality(t.live \ {t.filename.block}) <= t.configured - 1 /\ t.configured # 0
      <4>1. Cardinality(t.live \ {t.filename.block}) = Cardinality(s.live)
        BY <3>2, Zenon
      <4> QED BY <1>4, <3>5, <4>1
    <3> QED BY <1>3, <3>1, <3>4, <3>6 DEF BlockInv, NoMemory
  <2> QED BY <2>2, <2>3, <2>4, <2>5, BecomesKeeps DEF ProcessInv
<1>7. CASE ~allocated
  <2> DEFINE t == [s EXCEPT !.log = name, !.configured = s.configured + 1,
                            !.filename = NoName, !.live = s.live]
  <2>1. Becomes(p, t)
    BY <1>5, <1>7
  <2>2. /\ t \in State /\ t.filename = NoName /\ t.log = name
        /\ t.live = s.live /\ t.configured = s.configured + 1
        /\ t.generation = s.generation
    <3>1. NoName \in Name /\ s.configured + 1 \in Nat
      BY <1>1 DEF State, Name, NoName, NoMemory
    <3> QED BY <1>1, <1>3, <3>1 DEF State
  <2> HIDE DEF t
  <2>3. NameInv(t) /\ LogInv(t, p)
    BY <1>2, <1>3, <2>2 DEF NameInv, LogInv, Forked, Plain, NoName
  <2>4. BlockInv(t)
    <3>1. t.live \ {t.filename.block} = s.live
      BY <1>1, <2>2 DEF NoName, NoMemory, State
    <3>2. s.configured \in Nat
      BY <1>1 DEF State
    <3>3. t.configured \in Nat /\ t.configured > 0 /\ t.configured - 1 = s.configured
      BY <2>2, <3>2
    <3>4. t.filename.block = 0 /\ t.filename.parts = <<>>
      BY <2>2 DEF NoName, NoMemory
    <3>5. Cardinality(t.live \ {t.filename.block}) <= t.configured - 1 /\ t.configured # 0
      <4>1. Cardinality(t.live \ {t.filename.block}) = Cardinality(s.live)
        BY <3>1, Zenon
      <4> QED BY <1>4, <3>3, <4>1
    <3>6. IsFiniteSet(t.live)
      BY <1>4, <2>2
    <3> QED BY <3>4, <3>5, <3>6 DEF BlockInv, NoMemory
  <2> QED BY <2>1, <2>2, <2>3, <2>4, BecomesKeeps DEF ProcessInv
<1> QED BY <1>6, <1>7


\* A process gives its log a name of its own: the block of the old one is freed.
LEMMA RenamedFacts ==
  ASSUME NEW s \in State, NameInv(s), BlockInv(s), NeedsPid(s), NEW p \in Pid
  PROVE  LET t == Renamed(s, p)
         IN  /\ t \in State /\ BlockInv(t)
             /\ Marked(t.filename.parts, p) /\ PidsFirst(t.filename.parts)
             /\ NoPlace(t.filename.parts)
             /\ t.log = s.log /\ t.generation = s.generation /\ t.manager = s.manager
             /\ t.reconfigured = s.reconfigured
<1> DEFINE w   == WithPid(s.filename.parts, p)
           n   == NewBlock(s)
           old == s.filename.block
           t   == [s EXCEPT !.filename = [block |-> n, parts |-> w],
                            !.live = (s.live \cup {n}) \ {old}]
<1>1. Renamed(s, p) = t
  BY DEF Renamed
<1>2. s.filename.parts \in Seq(Part) /\ s.live \in SUBSET (Nat \ {0}) /\ s.configured \in Nat
  BY DEF State, Name
<1>3. NoPlace(s.filename.parts)
  BY <1>2 DEF NeedsPid, HasPidPlace, Contains, NoPlace
<1>4. PidsFirst(s.filename.parts)
  BY DEF NameInv, Plain, PidsFirst
<1>5. w \in Seq(Part) /\ w # <<>> /\ Marked(w, p) /\ PidsFirst(w) /\ NoPlace(w)
  BY <1>2, <1>3, <1>4, WithPidFacts
<1>6. old # 0 /\ old \in s.live /\ IsFiniteSet(s.live) /\ s.configured > 0
      /\ Cardinality(s.live \ {old}) <= s.configured - 1
  BY <1>2 DEF NeedsPid, IsFile, BlockInv, NoMemory
<1>7. n \in Nat \ {0} /\ n \notin s.live
  BY <1>6, NewBlockFacts
<1> HIDE DEF w, n
<1>8. /\ t \in State /\ t.filename = [block |-> n, parts |-> w]
      /\ t.live = (s.live \cup {n}) \ {old} /\ t.configured = s.configured
      /\ t.log = s.log /\ t.generation = s.generation /\ t.manager = s.manager
      /\ t.reconfigured = s.reconfigured
  <2>1. [block |-> n, parts |-> w] \in Name /\ (s.live \cup {n}) \ {old} \in SUBSET (Nat \ {0})
    BY <1>2, <1>5, <1>7 DEF Name
  <2> QED BY <2>1 DEF State
<1> HIDE DEF t
<1>9. BlockInv(t)
  <2>1. IsFiniteSet(s.live \cup {n})
    BY <1>6, FS_AddElement
  <2>2. IsFiniteSet(t.live)
    <3>1. PICK L : L = s.live \cup {n}
      OBVIOUS
    <3>2. IsFiniteSet(L \ {old})
      BY <2>1, <3>1, FS_RemoveElement
    <3> QED BY <1>8, <3>1, <3>2
  <2>3. t.filename.block = n /\ t.filename.parts = w /\ n \in t.live /\ n # 0
    BY <1>6, <1>7, <1>8
  <2>4. t.live \ {t.filename.block} = s.live \ {old}
    BY <1>6, <1>7, <1>8, <2>3
  <2>5. Cardinality(t.live \ {t.filename.block}) = Cardinality(s.live \ {old})
    BY <2>4, Zenon
  <2>6. Cardinality(t.live \ {t.filename.block}) <= t.configured - 1 /\ t.configured # 0
    BY <1>6, <1>8, <2>5
  <2> QED BY <1>5, <2>2, <2>3, <2>6 DEF BlockInv, NoMemory
<1> QED BY <1>1, <1>5, <1>8, <1>9

LEMMA ReconfigureKeeps ==
  ASSUME VerboseInv, NEW p \in Processes, Reconfigure(p)
  PROVE  VerboseInv'
<1> DEFINE s     == proc[p]
           named == IF NeedsPid(s) THEN Renamed(s, p) ELSE s
<1>1. ProcessInv(s, p) /\ s \in State /\ NameInv(s) /\ LogInv(s, p) /\ BlockInv(s) /\ p \in Pid
  BY DEF VerboseInv, ProcessInv
<1>2. /\ Forked(s)
      /\ \/ Becomes(p, [named EXCEPT !.log = named.filename.parts, !.reconfigured = "yes"])
         \/ Becomes(p, [named EXCEPT !.reconfigured = "failed"])
  BY Zenon DEF Reconfigure, CanReconfigure
<1>3. named \in State /\ BlockInv(named) /\ NameInv(named) /\ named.generation = s.generation
  BY <1>1, RenamedFacts DEF NameInv
<1>4. named.filename.parts \notin Streams \cup {NoLog} =>
          \/ Plain(named.filename.parts) /\ ~NoPlace(named.filename.parts)
          \/ Marked(named.filename.parts, p) /\ NoPlace(named.filename.parts)
  <2>1. CASE NeedsPid(s)
    BY <1>1, <2>1, RenamedFacts
  <2>2. CASE ~NeedsPid(s) /\ ~IsFile(s.filename)
    BY <1>1, <2>2 DEF IsFile, BlockInv, NoLog
  <2>3. CASE HasPidPlace(s.filename)
    <3>1. s.filename.parts \in Seq(Part)
      BY <1>1 DEF State, Name
    <3>2. ~NoPlace(s.filename.parts)
      BY <2>3, <3>1 DEF HasPidPlace, Contains, NoPlace
    <3>3. ~NeedsPid(s)
      BY <2>3 DEF NeedsPid
    <3> QED BY <1>1, <3>2, <3>3 DEF NameInv
  <2> QED BY <2>1, <2>2, <2>3 DEF NeedsPid
<1> HIDE DEF named
<1>5. CASE Becomes(p, [named EXCEPT !.log = named.filename.parts, !.reconfigured = "yes"])
  <2> DEFINE t == [named EXCEPT !.log = named.filename.parts, !.reconfigured = "yes"]
  <2>1. /\ t \in State /\ t.filename = named.filename /\ t.log = named.filename.parts
        /\ t.live = named.live /\ t.configured = named.configured
        /\ t.generation = named.generation /\ t.reconfigured = "yes"
    BY <1>3 DEF State, Name
  <2> HIDE DEF t
  <2>2. NameInv(t) /\ BlockInv(t)
    BY <1>3, <2>1 DEF NameInv, BlockInv
  <2>3. LogInv(t, p)
    BY <1>2, <1>3, <1>4, <2>1 DEF LogInv, Forked
  <2>4. Becomes(p, t)
    BY <1>5 DEF t
  <2> QED BY <1>3, <2>1, <2>2, <2>3, <2>4, BecomesKeeps DEF ProcessInv
<1>6. CASE Becomes(p, [named EXCEPT !.reconfigured = "failed"])
  <2> DEFINE t == [named EXCEPT !.reconfigured = "failed"]
  <2>1. /\ t \in State /\ t.filename = named.filename
        /\ t.live = named.live /\ t.configured = named.configured
        /\ t.generation = named.generation /\ t.reconfigured = "failed"
    BY <1>3 DEF State
  <2> HIDE DEF t
  <2>2. NameInv(t) /\ BlockInv(t)
    BY <1>3, <2>1 DEF NameInv, BlockInv
  <2>3. LogInv(t, p)
    BY <1>2, <1>3, <2>1 DEF LogInv, Forked
  <2>4. Becomes(p, t)
    BY <1>6 DEF t
  <2> QED BY <1>3, <2>1, <2>2, <2>3, <2>4, BecomesKeeps DEF ProcessInv
<1> QED BY <1>2, <1>5, <1>6

LEMMA CrashKeeps ==
  ASSUME VerboseInv, NEW p \in Processes, ReconfigureCrashes(p)
  PROVE  VerboseInv'
<1> DEFINE s == proc[p]
           t == [s EXCEPT !.manager = "crashed"]
<1>1. ProcessInv(s, p) /\ s \in State
  BY DEF VerboseInv, ProcessInv
<1>2. /\ t \in State /\ t.filename = s.filename /\ t.log = s.log /\ t.live = s.live
      /\ t.configured = s.configured /\ t.generation = s.generation
      /\ t.reconfigured = s.reconfigured
  BY <1>1 DEF State
<1> HIDE DEF t
<1>3. ProcessInv(t, p)
  BY <1>1, <1>2 DEF ProcessInv, NameInv, LogInv, BlockInv, Forked
<1>4. Becomes(p, t)
  BY DEF ReconfigureCrashes, t
<1> QED BY <1>2, <1>3, <1>4, BecomesKeeps

LEMMA TearDownKeeps ==
  ASSUME VerboseInv, NEW p \in Processes, TearDown(p)
  PROVE  VerboseInv'
<1> DEFINE s == proc[p]
           t == [s EXCEPT !.manager = "gone", !.filename = NoName, !.log = NoLog,
                          !.live = s.live \ {s.filename.block}]
<1>1. ProcessInv(s, p) /\ s \in State /\ BlockInv(s)
  BY DEF VerboseInv, ProcessInv
<1>2. /\ t \in State /\ t.filename = NoName /\ t.log = NoLog
      /\ t.live = s.live \ {s.filename.block}
      /\ t.configured = s.configured /\ t.generation = s.generation
  <2>1. NoName \in Name /\ NoLog \in Seq(Part) /\ s.live \ {s.filename.block} \in SUBSET (Nat \ {0})
    BY <1>1 DEF State, Name, NoName, NoLog, NoMemory
  <2> QED BY <1>1, <2>1 DEF State
<1> HIDE DEF t
<1>3. NameInv(t) /\ LogInv(t, p)
  BY <1>2 DEF NameInv, LogInv, Plain, NoName, NoLog
<1>4. BlockInv(t)
  <2>1. t.filename.block = 0 /\ t.filename.parts = <<>> /\ 0 \notin t.live
    BY <1>1, <1>2 DEF NoName, NoMemory, State
  <2>2. IsFiniteSet(s.live \ {s.filename.block})
    BY <1>1, FS_RemoveElement DEF BlockInv
  <2>3. Cardinality(t.live \ {t.filename.block}) = Cardinality(s.live \ {s.filename.block})
    <3>1. t.live \ {t.filename.block} = s.live \ {s.filename.block}
      BY <1>2, <2>1
    <3> QED BY <3>1, Zenon
  <2>4. t.configured > 0 => Cardinality(t.live \ {t.filename.block}) <= t.configured - 1
    BY <1>1, <1>2, <2>3 DEF BlockInv
  <2>5. t.configured = 0 => t.live = {}
    BY <1>1, <1>2 DEF BlockInv
  <2>6. IsFiniteSet(t.live)
    BY <1>2, <2>2
  <2> QED BY <2>1, <2>4, <2>5, <2>6 DEF BlockInv, NoMemory
<1>5. Becomes(p, t)
  BY DEF TearDown, t
<1> QED BY <1>2, <1>3, <1>4, <1>5, BecomesKeeps DEF ProcessInv

-----------------------------------------------------------------------------
(* Processes come and go.                                                  *)

LEMMA ForkKeeps ==
  ASSUME VerboseInv, NEW p \in Processes, NEW child \in Pid, Fork(p, child)
  PROVE  VerboseInv'
<1> DEFINE s == proc[p]
           t == [s EXCEPT !.generation = s.generation + 1, !.reconfigured = "no",
                          !.inherited = s.filename]
<1>1. ProcessInv(s, p) /\ s \in State /\ NameInv(s) /\ BlockInv(s)
  BY DEF VerboseInv, ProcessInv
<1>2. /\ child \notin Processes
      /\ proc' = [q \in Processes \cup {child} |-> IF q = child THEN t ELSE proc[q]]
  BY DEF Fork
<1>3. /\ t \in State /\ t.filename = s.filename /\ t.live = s.live
      /\ t.configured = s.configured /\ t.generation = s.generation + 1
      /\ t.reconfigured = "no"
  <2>1. s.generation + 1 \in Nat /\ s.filename \in Name
    BY <1>1 DEF State
  <2> QED BY <1>1, <2>1 DEF State
<1> HIDE DEF t
<1>4. Forked(t)
  BY <1>1, <1>3 DEF Forked, State
<1>5. ProcessInv(t, child)
  BY <1>1, <1>3, <1>4 DEF ProcessInv, NameInv, LogInv, BlockInv
<1>6. /\ Processes' = Processes \cup {child} /\ proc'[child] = t
      /\ \A q \in Processes : proc'[q] = proc[q]
      /\ proc' = [q \in Processes' |-> proc'[q]]
  BY <1>2 DEF Processes
<1> QED BY <1>4, <1>5, <1>6 DEF VerboseInv

LEMMA ExitKeeps ==
  ASSUME VerboseInv, NEW p \in Processes, Exit(p)
  PROVE  VerboseInv'
<1>1. proc' = [q \in Processes \ {p} |-> proc[q]]
  BY DEF Exit
<1>2. /\ Processes' = Processes \ {p} /\ \A q \in Processes' : proc'[q] = proc[q]
      /\ proc' = [q \in Processes' |-> proc'[q]]
  BY <1>1 DEF Processes
<1> QED BY <1>2 DEF VerboseInv

LEMMA VerboseNextKeeps == VerboseInv /\ [LogNext]_logVars => VerboseInv'
<1> SUFFICES ASSUME VerboseInv, [LogNext]_logVars PROVE VerboseInv'
  OBVIOUS
<1>1. CASE UNCHANGED logVars
  BY <1>1 DEF VerboseInv, Processes, logVars
<1>2. CASE LogNext
  <2>1. PICK p \in Processes :
            \/ NewInstance(p)
            \/ \E name \in Names : ~Forked(proc[p]) /\ Configure(p, name)
            \/ \E child \in Pid : Fork(p, child)
            \/ Reconfigure(p) \/ ReconfigureCrashes(p) \/ TearDown(p) \/ Exit(p)
    BY <1>2 DEF LogNext
  <2> QED BY <2>1, NewInstanceKeeps, ConfigureKeeps, ForkKeeps, ReconfigureKeeps,
             CrashKeeps, TearDownKeeps, ExitKeeps
<1> QED BY <1>1, <1>2

\* The last pid in the name of a forked process's log is its own, and the block
\* of the remembered name is allocated.
THEOREM LogInvariance == LogSpec => []VerboseInv
BY VerboseInitially, VerboseNextKeeps, PTL DEF LogSpec

-----------------------------------------------------------------------------
(* What the invariant is for.                                              *)

\* The last pid in the name of a file tells whose it is; without one it is the
\* process's that was not forked.
LEMMA FileFacts ==
  ASSUME VerboseInv, NEW p \in Processes, Logs(p)
  PROVE  Marked(File(p), p) \/ (~Forked(proc[p]) /\ Plain(File(p)))
<1> DEFINE s == proc[p]
           f == File(p)
<1>1. LogInv(s, p) /\ p \in Pid
  BY DEF VerboseInv, ProcessInv
<1>2. DOMAIN f = DOMAIN s.log
      /\ \A k \in DOMAIN s.log : f[k] = IF s.log[k] = "%p" THEN p ELSE s.log[k]
  BY DEF File
<1> HIDE DEF f
<1>3. CASE Plain(s.log) /\ ~NoPlace(s.log)
  <2>1. PICK k \in DOMAIN s.log : s.log[k] = "%p"
    BY <1>3 DEF NoPlace
  <2>2. f[k] = p
    BY <1>2, <2>1
  <2>3. \A j \in DOMAIN f : f[j] \notin Pid \ {p}
    BY <1>2, <1>3 DEF Plain
  <2> QED BY <1>2, <2>2, <2>3 DEF Marked, f
<1>4. CASE NoPlace(s.log)
  <2>1. DOMAIN f = DOMAIN s.log /\ \A k \in DOMAIN s.log : f[k] = s.log[k]
    BY <1>2, <1>4 DEF NoPlace
  <2>2. Marked(s.log, p) => Marked(f, p)
    BY <2>1 DEF Marked
  <2>3. Plain(s.log) => Plain(f)
    BY <2>1 DEF Plain
  <2>4. Forked(s) => Marked(s.log, p)
    BY <1>1, <1>4 DEF LogInv, Logs
  <2>5. ~Forked(s) => Plain(s.log)
    BY <1>1 DEF LogInv
  <2> QED BY <2>2, <2>3, <2>4, <2>5 DEF f
<1>5. Plain(s.log) \/ NoPlace(s.log)
  BY <1>1 DEF LogInv, Logs
<1> QED BY <1>3, <1>4, <1>5

\* Whatever processes are forked, from whatever parents, no two of them write
\* to the same log once the forked ones have reconfigured theirs.
THEOREM LogsAreApart == LogSpec => []OwnLog
<1>1. VerboseInv => OwnLog
  <2> SUFFICES ASSUME VerboseInv, NEW p \in Processes, NEW q \in Processes,
                      Logs(p), Logs(q), p # q, File(p) = File(q)
               PROVE  FALSE
    BY DEF OwnLog
  <2>1. p \in Pid /\ q \in Pid
    BY DEF VerboseInv
  <2> DEFINE f == File(p)
  <2>2. /\ Marked(f, p) \/ (~Forked(proc[p]) /\ Plain(f))
        /\ Marked(f, q) \/ (~Forked(proc[q]) /\ Plain(f))
    BY FileFacts
  <2>3. DOMAIN f \subseteq Nat
    <3>1. proc[p].log \in Seq(Part)
      BY DEF VerboseInv, ProcessInv, State
    <3> QED BY <3>1 DEF File
  <2> HIDE DEF f
  <2>4. ~(Plain(f) /\ (Marked(f, p) \/ Marked(f, q)))
    BY <2>1 DEF Plain, Marked
  <2>5. ~(Marked(f, p) /\ Marked(f, q))
    <3> SUFFICES ASSUME Marked(f, p), Marked(f, q) PROVE FALSE
      OBVIOUS
    <3>1. PICK i \in DOMAIN f : f[i] = p /\ \A j \in DOMAIN f : j > i => f[j] \notin Pid \ {p}
      BY DEF Marked
    <3>2. PICK k \in DOMAIN f : f[k] = q /\ \A j \in DOMAIN f : j > k => f[j] \notin Pid \ {q}
      BY DEF Marked
    <3>3. ~(k > i) /\ ~(i > k)
      BY <2>1, <3>1, <3>2
    <3>4. i = k
      BY <2>3, <3>3
    <3> QED BY <3>1, <3>2, <3>4
  <2>6. ~(~Forked(proc[p]) /\ ~Forked(proc[q]))
    BY DEF VerboseInv
  <2> QED BY <2>2, <2>4, <2>5, <2>6
<1> QED BY <1>1, LogInvariance, PTL

\* A remembered name is never a block that was freed, and only configuring again
\* leaves blocks behind that nobody frees.
THEOREM NamesAreKept == LogSpec => []NamesAreNotLost
<1>1. VerboseInv => NamesAreNotLost
  <2> SUFFICES ASSUME VerboseInv, NEW p \in Processes
               PROVE  LET s    == proc[p]
                          held == {s.filename.block} \ {NoMemory}
                      IN  /\ held \subseteq s.live
                          /\ s.filename.block = NoMemory <=> s.filename.parts = <<>>
                          /\ Cardinality(s.live \ held)
                                <= IF s.configured = 0 THEN 0 ELSE s.configured - 1
    BY DEF NamesAreNotLost
  <2> DEFINE s    == proc[p]
             held == {s.filename.block} \ {NoMemory}
  <2>1. BlockInv(s) /\ s \in State
    BY DEF VerboseInv, ProcessInv
  <2>2. s.live \ held = s.live \ {s.filename.block}
    BY <2>1 DEF State, NoMemory
  <2>3. Cardinality(s.live \ held) = Cardinality(s.live \ {s.filename.block})
    BY <2>2, Zenon
  <2>4. CASE s.configured = 0
    <3>1. s.live \ held = {}
      BY <2>1, <2>4 DEF BlockInv
    <3>2. Cardinality(s.live \ held) = 0
      BY <3>1, FS_EmptySet, Zenon
    <3> QED BY <2>1, <2>4, <3>2 DEF BlockInv
  <2>5. CASE s.configured # 0
    <3>1. s.configured \in Nat /\ s.configured > 0
      BY <2>1, <2>5 DEF State
    <3>2. Cardinality(s.live \ held) <= s.configured - 1
      BY <2>1, <2>3, <3>1 DEF BlockInv
    <3> QED BY <2>1, <2>5, <3>2 DEF BlockInv
  <2> QED BY <2>4, <2>5
<1> QED BY <1>1, LogInvariance, PTL
=============================================================================
