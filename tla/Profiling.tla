------------------------------ MODULE Profiling ------------------------------
(***************************************************************************)
(* Profiling.c: how often a thread's stack is sampled.  The interpreter    *)
(* calls ex_omr_checkSampleStack again and again; each thread has a        *)
(* counter in its VM thread that holds samples back.  Sampling itself is   *)
(* switched on and off by OMR, at any time.                                *)
(***************************************************************************)
EXTENDS Naturals, VMThreads

CONSTANTS
    BACKOFF_MAX,   \* EX_OMR_SAMPLESTACK_BACKOFF_MAX, 10 in the code
    TIMER_DECR     \* EX_OMR_SAMPLESTACK_BACKOFF_TIMER_DECR, 1 in the code

ASSUME ProfilingAssumption ==
    /\ BACKOFF_MAX \in Nat /\ TIMER_DECR \in Nat
    /\ 0 < TIMER_DECR /\ TIMER_DECR <= BACKOFF_MAX

VARIABLES
    enabled,   \* omr_ras_sampleStackEnabled
    backoff,   \* thread -> _sampleStackBackoff
    rest,      \* History: thread -> checks it has made after its last sample,
               \*   times TIMER_DECR, up to BACKOFF_MAX
    overdue,   \* History: thread -> the same, of checks that sampling was on in
    early      \* History: threads sampled before BACKOFF_MAX had run down

profile == <<enabled, backoff, rest, overdue, early>>

ProfilingInit ==
    /\ enabled \in BOOLEAN
    /\ backoff = [t \in Thread |-> 0]
    /\ rest = [t \in Thread |-> BACKOFF_MAX]
    /\ overdue = [t \in Thread |-> 0]
    /\ early = {}

\* Mutant: the counter is not set again.
HeldBackNever(t) == backoff[t]

\* The counter is set again when it has run down, whether or not a sample is
\* taken then,
HeldBack(t) == IF backoff[t] = 0 THEN BACKOFF_MAX ELSE backoff[t]

\* and it does not go below 0, being unsigned.
Decreased(n) == IF TIMER_DECR > n THEN 0 ELSE n - TIMER_DECR

Samples(t) == backoff[t] = 0 /\ enabled

Later(n) == IF n + TIMER_DECR > BACKOFF_MAX THEN BACKOFF_MAX ELSE n + TIMER_DECR

\* ex_omr_checkSampleStack
CheckSampleStack(t) ==
    /\ backoff' = [backoff EXCEPT ![t] = Decreased(HeldBack(t))]
    /\ rest' = [rest EXCEPT ![t] = IF Samples(t) THEN TIMER_DECR ELSE Later(@)]
    /\ overdue' = [overdue EXCEPT ![t] =
                       IF ~enabled THEN 0 ELSE IF Samples(t) THEN TIMER_DECR ELSE @ + TIMER_DECR]
    /\ early' = IF Samples(t) /\ rest[t] < BACKOFF_MAX THEN early \cup {t} ELSE early
    /\ UNCHANGED enabled

\* A new VM thread is cleared memory.
NewProfile(t) ==
    /\ backoff' = [backoff EXCEPT ![t] = 0]
    /\ rest' = [rest EXCEPT ![t] = BACKOFF_MAX]
    /\ overdue' = [overdue EXCEPT ![t] = 0]
    /\ UNCHANGED <<enabled, early>>

\* Sampling is switched on or off.
Switch ==
    /\ enabled' = ~enabled
    /\ overdue' = [t \in Thread |-> 0]
    /\ UNCHANGED <<backoff, rest, early>>

ProfilingNext ==
    \/ \E t \in Thread : CheckSampleStack(t) \/ NewProfile(t)
    \/ Switch

ProfilingSpec == ProfilingInit /\ [][ProfilingNext]_profile

-----------------------------------------------------------------------------
(* Properties                                                              *)

\* A thread is never sampled again before BACKOFF_MAX has run down since its
\* last sample, however sampling is switched off and on in between; and while
\* it is on, never later than with the check at which it has.
SamplesSpaced ==
    /\ early = {}
    /\ \A t \in Thread : overdue[t] < BACKOFF_MAX + TIMER_DECR
=============================================================================
