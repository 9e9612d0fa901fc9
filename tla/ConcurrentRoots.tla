--------------------------- MODULE ConcurrentRoots ---------------------------
(***************************************************************************)
(* MM_ConcurrentMarkingDelegate: the language's roots are collected while  *)
(* the program runs, in units, by threads that pay a tax for allocating.   *)
(* A thread that pays reads the tracing mode, asks the delegate for the    *)
(* next one and tries to switch to it; the thread that switches collects   *)
(* the unit named by the mode.  When there is no unit left the mode is     *)
(* CONCURRENT_TRACE_ONLY.  Switching is OMR's, and atomic.                 *)
(***************************************************************************)
EXTENDS Naturals, VMThreads

\* ConcurrentStatus: OMR's values, and the delegate's one in between.
OFF           == "CONCURRENT_OFF"
ROOT_TRACING  == "CONCURRENT_ROOT_TRACING"
ROOT_TRACING1 == "CONCURRENT_ROOT_TRACING1"
TRACE_ONLY    == "CONCURRENT_TRACE_ONLY"

Units == {ROOT_TRACING1}    \* the delegate's extensions of ConcurrentStatus
Modes == {OFF, ROOT_TRACING, TRACE_ONLY} \cup Units
NONE  == "none"

VARIABLES
    mode,        \* the execution mode of the collector
    tax,         \* thread -> the mode it has read, or switched to, last;
                 \*   NONE if it pays no tax
    collecting,  \* threads that are to collect the unit they switched to
    collected    \* History: unit -> calls of collectRoots for it in this cycle

concurrent == <<mode, tax, collecting, collected>>

ConcurrentInit ==
    /\ mode = OFF
    /\ tax = [t \in Thread |-> NONE]
    /\ collecting = {}
    /\ collected = [u \in Units |-> 0]

-----------------------------------------------------------------------------
(* The delegate.                                                           *)

\* Mutant: the unit is left out.
NextTracingModeAtOnce(m) == TRACE_ONLY

\* getNextTracingMode; it asserts that it is asked of no other mode.
NextTracingMode(m) ==
    CASE m = ROOT_TRACING  -> ROOT_TRACING1
      [] m = ROOT_TRACING1 -> TRACE_ONLY
      [] OTHER             -> "unreachable"

BarrierActivated == TRUE     \* signalThreadsToActivateWriteBarrier

-----------------------------------------------------------------------------

\* A cycle begins: the hooks let it, and do nothing else.
StartCycle ==
    /\ mode = OFF /\ BarrierActivated
    /\ mode' = ROOT_TRACING
    /\ collected' = [u \in Units |-> 0]
    /\ UNCHANGED <<tax, collecting>>

\* A thread that has to pay reads the mode.
StartTax(t) ==
    /\ tax[t] = NONE /\ mode \in {ROOT_TRACING} \cup Units
    /\ tax' = [tax EXCEPT ![t] = mode]
    /\ UNCHANGED <<mode, collecting, collected>>

\* It tries to switch.  If the mode is no longer the one that was read, it
\* reads it again, to trace objects when there are no more roots.
SwitchMode(t) ==
    /\ tax[t] # NONE /\ t \notin collecting
    /\ \/ /\ mode = tax[t]
          /\ mode' = NextTracingMode(mode)
          /\ IF mode' \in Units
             THEN /\ collecting' = collecting \cup {t}
                  /\ tax' = [tax EXCEPT ![t] = mode']
             ELSE /\ tax' = [tax EXCEPT ![t] = NONE]
                  /\ UNCHANGED collecting
       \/ /\ mode # tax[t]
          /\ tax' = [tax EXCEPT ![t] = IF mode = TRACE_ONLY THEN NONE ELSE mode]
          /\ UNCHANGED <<mode, collecting>>
    /\ UNCHANGED collected

\* collectRoots, which finds nothing and leaves its two results as they are:
\* the caller takes the tax for paid or not, as whatever is in them has it.
CollectRoots(t) ==
    /\ t \in collecting
    /\ collecting' = collecting \ {t}
    /\ collected' = [collected EXCEPT ![tax[t]] = @ + 1]
    /\ \E paid \in BOOLEAN :
         tax' = [tax EXCEPT ![t] = IF paid \/ mode = TRACE_ONLY THEN NONE ELSE mode]
    /\ UNCHANGED mode

\* The program is stopped, with no thread inside of paying, and the cycle is
\* finished, or aborted wherever it is.
EndCycle ==
    /\ mode # OFF /\ \A t \in Thread : tax[t] = NONE
    /\ mode' = OFF
    /\ UNCHANGED <<tax, collecting, collected>>

PayTax(t) == SwitchMode(t) \/ CollectRoots(t)

ConcurrentNext ==
    \/ StartCycle
    \/ \E t \in Thread : StartTax(t) \/ PayTax(t)
    \/ EndCycle

ConcurrentSpec == ConcurrentInit /\ [][ConcurrentNext]_concurrent

-----------------------------------------------------------------------------
(* Properties                                                              *)

\* However the threads race for the units, and whatever they read from the
\* results that collectRoots does not set, each unit is collected by one
\* thread only, and by the time the mode is CONCURRENT_TRACE_ONLY every unit
\* has been or is being collected.  The delegate is never asked what comes
\* after a mode that it does not know.
UnitsCollectedOnce ==
  /\ mode \in Modes
  /\ \A u \in Units :
        LET busy == {t \in collecting : tax[t] = u} IN
        /\ collected[u] <= 1
        /\ \A t, s \in busy : t = s
        /\ busy # {} => collected[u] = 0
        /\ mode = TRACE_ONLY => collected[u] = 1 \/ busy # {}
=============================================================================
