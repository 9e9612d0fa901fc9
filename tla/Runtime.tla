------------------------------- MODULE Runtime -------------------------------
(***************************************************************************)
(* The life of a VM: Startup, the threads that bind to it while it is up   *)
(* (ThreadBinding), and what each of them does besides running the         *)
(* program: it is sampled (Profiling), and pays for its allocations by     *)
(* collecting roots (ConcurrentRoots).                                     *)
(*                                                                         *)
(* main.cpp makes a Runtime, a System and a Context, in this order, and    *)
(* C++ destroys them in the reverse one: a Context (a bound thread) lives  *)
(* inside of the System, which is the VM.                                  *)
(***************************************************************************)
EXTENDS ThreadBinding, Startup, Profiling, ConcurrentRoots

binding == vars
runtime == <<binding, startup, profile, concurrent>>

RuntimeInit == Init /\ StartupInit /\ ProfilingInit /\ ConcurrentInit

\* A thread of a VM that is up, between two calls; one that is bound besides.
Free(t)    == stage = "up" /\ pc[t] = "idle" /\ tax[t] = NONE
Running(t) == Free(t) /\ bound[t] > 0

\* The hooks that OMR_Thread_FirstInit calls: initialize of the environment
\* delegate, and environmentInitialized of the configuration delegate.
EnvironmentDelegateInitialized == TRUE
EnvironmentInitialized         == TRUE
HooksPass == EnvironmentDelegateInitialized /\ EnvironmentInitialized

StartVM == StartUp /\ UNCHANGED <<binding, profile, concurrent>>

\* A first binding makes a VM thread, with a profile of its own.
MakeVMThread(t) ==
    /\ FirstInit(t)
    /\ vm'[t] = 1 => HooksPass
    /\ IF vm'[t] = 1 THEN NewProfile(t) ELSE UNCHANGED profile
    /\ UNCHANGED <<startup, concurrent>>

BindOrUnbind(t) ==
    /\ \/ Free(t) /\ (BindAgain(t) \/ Attach(t) \/ UnbindOne(t) \/ UnbindLast(t))
       \/ AllocLanguageThread(t) \/ LinkLanguageThread(t) \/ UndoInit(t)
       \/ UndoAlloc(t) \/ Cleanup(t) \/ FreeLanguageThread(t) \/ Detach(t)
    /\ UNCHANGED <<startup, profile, concurrent>>

Sample(t) ==
    /\ Running(t) /\ CheckSampleStack(t)
    /\ UNCHANGED <<binding, startup, concurrent>>

SwitchSampling ==
    /\ stage = "up" /\ Switch
    /\ UNCHANGED <<binding, startup, concurrent>>

\* Concurrent marking, in builds that have it.
StartTracing ==
    /\ CONCURRENT_MARK \in build /\ stage = "up" /\ StartCycle
    /\ UNCHANGED <<binding, startup, profile>>

StartPaying(t) ==
    /\ Running(t) /\ StartTax(t)
    /\ UNCHANGED <<binding, startup, profile>>

Pay(t) == PayTax(t) /\ UNCHANGED <<binding, startup, profile>>

EndTracing ==
    /\ stage = "up" /\ EndCycle
    /\ UNCHANGED <<binding, startup, profile>>

\* The Context of every thread has been destroyed, and the System is.
LeaveVM ==
    /\ \A t \in Thread : Free(t) /\ bound[t] = 0
    /\ mode = OFF
    /\ Leave
    /\ UNCHANGED <<binding, profile, concurrent>>

ShutDownVM == ShutDown /\ UNCHANGED <<binding, profile, concurrent>>

InsideCall(t) == MakeVMThread(t) \/ (pc[t] # "idle" /\ BindOrUnbind(t)) \/ Pay(t)

RuntimeNext ==
    \/ StartVM
    \/ \E t \in Thread :
         \/ MakeVMThread(t)
         \/ BindOrUnbind(t)
         \/ Sample(t)
         \/ StartPaying(t)
         \/ Pay(t)
    \/ SwitchSampling
    \/ StartTracing
    \/ EndTracing
    \/ LeaveVM
    \/ ShutDownVM

\* Startup and shutdown go on, and so does a thread in a call.
RuntimeSpec ==
    /\ RuntimeInit /\ [][RuntimeNext]_runtime
    /\ WF_runtime(StartVM) /\ WF_runtime(ShutDownVM)
    /\ \A t \in Thread : WF_runtime(InsideCall(t))

-----------------------------------------------------------------------------
(* Properties                                                              *)

\* When the VM is down, after a failure at any place of startup too, it has
\* left nothing in the forge and no thread attached, with a VM thread or a
\* language thread.
NothingLeftBehind ==
    stage = "down" =>
        /\ forge = {} /\ parts = {}
        /\ \A t \in Thread : Held(t) = {}

\* Every call returns, whether it binds, unbinds or pays the tax, and the VM
\* comes up or goes down.
CallsReturn ==
    /\ \A t \in Thread : /\ pc[t] # "idle" ~> pc[t] = "idle"
                         /\ tax[t] # NONE ~> tax[t] = NONE
    /\ <>(stage \in {"up", "down"})
=============================================================================
