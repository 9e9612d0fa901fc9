----------------------------- MODULE VerboseLog -----------------------------
(***************************************************************************)
(* MM_VerboseManagerImpl: where a process writes its verbose GC log.       *)
(*                                                                         *)
(* The manager remembers the name the log was configured with.  After a    *)
(* fork the child, which has inherited manager and log, is to write to a   *)
(* file of its own: unless the name has a place for a pid, the child's pid *)
(* is put into it.  What the base class MM_VerboseManager does (it opens   *)
(* the log, or fails to and changes nothing; it replaces %p by the pid) is *)
(* part of OMR.                                                            *)
(***************************************************************************)
EXTENDS Naturals, Sequences, SequencesExt, FiniteSetsExt

CONSTANTS
    Pid,        \* process ids; as a part of a name, such an id stands for "_pid"
    FirstPid,   \* the process that is started, not forked
    Names,      \* the names it configures: sequences of parts
    Streams,    \*   of which these are not files (stderr, stdout, a trace hook)
    MaxConfigures, MaxGenerations   \* bounds: configuring again; forks of forks

Parts == UNION {Range(name) : name \in Names}

\* A pid is no part of a name that is configured: a name chosen to look like the
\* one a forked process makes for itself is not told apart from it.
ASSUME LogAssumption ==
    /\ FirstPid \in Pid
    /\ Names \subseteq Seq(Parts) \ {<<>>}
    /\ Pid \cap (Parts \cup {".", "%p"}) = {}
    /\ Streams \subseteq Names
    /\ MaxConfigures \in Nat /\ MaxGenerations \in Nat

VARIABLE proc   \* pid -> state, for every process that runs

logVars == <<proc>>

NoMemory  == 0
NoName    == [block |-> NoMemory, parts |-> <<>>]
NoLog     == <<>>
Processes == DOMAIN proc

\* A process and its manager: the remembered name, the one the base class
\* writes to, and the blocks of memory allocated for names and not freed.
\* (fileCount and iterations are remembered too, and never read.)  How often
\* the log was configured; how many forks away the first process is, whether
\* the log has been reconfigured since, and the name inherited from the parent.
Fresh == [manager |-> "none", filename |-> NoName, log |-> NoLog, live |-> {},
          configured |-> 0, generation |-> 0, reconfigured |-> "no", inherited |-> NoName]

Forked(s) == s.generation > 0

LogInit == proc = [p \in {FirstPid} |-> Fresh]

\* The process becomes s.
Becomes(p, s) == proc' = [proc EXCEPT ![p] = s]

\* The allocator reuses the memory that was freed.
NewBlock(s) == Min((1 .. Cardinality(s.live) + 1) \ s.live)

-----------------------------------------------------------------------------
(* Configuration.                                                          *)

\* newInstance; if initialize() fails there is no manager.
NewInstance(p) ==
    /\ proc[p].manager = "none"
    /\ Becomes(p, [proc[p] EXCEPT !.manager = "ready"])

\* configureVerboseGC: the base class first (if it fails nothing changes); then
\* the name is copied, over the pointer to the name before it.  If there is no
\* memory for the copy it returns false, and the log is written all the same.
Configure(p, name) ==
    LET s == proc[p] IN
    /\ s.manager = "ready" /\ s.configured < MaxConfigures
    /\ \E allocated \in BOOLEAN :
         Becomes(p, [s EXCEPT
             !.log = name, !.configured = @ + 1,
             !.filename = IF allocated THEN [block |-> NewBlock(s), parts |-> name]
                                       ELSE NoName,
             !.live = IF allocated THEN @ \cup {NewBlock(s)} ELSE @])

-----------------------------------------------------------------------------
(* Forking.                                                                *)

\* parseWriterType: no name is the standard stream.
IsFile(name) == name.block # NoMemory /\ name.parts \notin Streams

HasPidPlace(name) == Contains(name.parts, "%p")

\* Mutant: a name without an extension is left as it is.
WithPidAtExtension(parts, p) ==
    IF Contains(parts, ".")
    THEN InsertAt(parts, SelectInSeq(parts, LAMBDA part : part = "."), p)
    ELSE parts

\* The pid goes before the first ".", or to the end if there is none.
WithPid(parts, p) ==
    IF Contains(parts, ".")
    THEN InsertAt(parts, SelectInSeq(parts, LAMBDA part : part = "."), p)
    ELSE Append(parts, p)

\* The child is a copy of its parent.
Fork(p, child) ==
    /\ proc[p].manager = "ready" /\ child \notin Processes
    /\ Forked(proc[p]) => proc[p].reconfigured # "no"
    /\ proc[p].generation < MaxGenerations
    /\ proc' = [q \in Processes \cup {child} |->
                   IF q = child
                   THEN [proc[p] EXCEPT !.generation = @ + 1, !.reconfigured = "no",
                                        !.inherited = proc[p].filename]
                   ELSE proc[q]]

\* The part of reconfigureVerboseGC that gives the child's log a name of its
\* own.  The new block is written to without a look at whether there is one.
NeedsPid(s) == IsFile(s.filename) /\ ~HasPidPlace(s.filename)

CanReconfigure(s) == s.manager = "ready" /\ Forked(s) /\ s.reconfigured = "no"

\* Mutant: the old name is not freed.
RenamedKeeping(s, p) ==
    [s EXCEPT !.filename = [block |-> NewBlock(s), parts |-> WithPid(s.filename.parts, p)],
              !.live = @ \cup {NewBlock(s)}]

Renamed(s, p) ==
    [s EXCEPT !.filename = [block |-> NewBlock(s), parts |-> WithPid(s.filename.parts, p)],
              !.live = (@ \cup {NewBlock(s)}) \ {s.filename.block}]

\* reconfigureVerboseGC, in the child.  If the base class cannot open the log
\* it returns false, and the child still has the log of its parent.
Reconfigure(p) ==
    LET s     == proc[p]
        named == IF NeedsPid(s) THEN Renamed(s, p) ELSE s
    IN  /\ CanReconfigure(s)
        /\ \/ Becomes(p, [named EXCEPT !.log = named.filename.parts, !.reconfigured = "yes"])
           \/ Becomes(p, [named EXCEPT !.reconfigured = "failed"])

\* There is no memory for the new name.
ReconfigureCrashes(p) ==
    /\ CanReconfigure(proc[p]) /\ NeedsPid(proc[p])
    /\ Becomes(p, [proc[p] EXCEPT !.manager = "crashed"])

-----------------------------------------------------------------------------
(* The end.                                                                *)

\* tearDown
TearDown(p) ==
    LET s == proc[p] IN
    /\ s.manager = "ready"
    /\ Becomes(p, [s EXCEPT !.manager = "gone", !.filename = NoName, !.log = NoLog,
                            !.live = @ \ {s.filename.block}])

\* The process ends, and its pid can be used again.
Exit(p) ==
    /\ proc[p].manager \in {"gone", "crashed"}
    /\ proc' = [q \in Processes \ {p} |-> proc[q]]

\* OMR configures the log while the VM starts up, before anything forks; a child
\* that configures again, as configureVerboseGC would let it, is not modelled.
LogNext == \E p \in Processes :
    \/ NewInstance(p)
    \/ \E name \in Names : ~Forked(proc[p]) /\ Configure(p, name)
    \/ \E child \in Pid : Fork(p, child)
    \/ Reconfigure(p)
    \/ ReconfigureCrashes(p)
    \/ TearDown(p)
    \/ Exit(p)

LogSpec == LogInit /\ [][LogNext]_logVars

-----------------------------------------------------------------------------
(* Properties                                                              *)

\* The file a process writes to: the base class fills in the pid.
File(p) == [k \in DOMAIN proc[p].log |->
               IF proc[p].log[k] = "%p" THEN p ELSE proc[p].log[k]]

Logs(p) == /\ proc[p].manager = "ready"
           /\ Forked(proc[p]) => proc[p].reconfigured = "yes"
           /\ proc[p].log \notin Streams \cup {NoLog}

\* No two processes write to the same file, children of one parent, their own
\* children, and processes that got the pid of one that is gone included,
\* once each child has succeeded in reconfiguring its log.
OwnLog == \A p, q \in Processes : Logs(p) /\ Logs(q) /\ p # q => File(p) # File(q)

\* The remembered name is a block that is still allocated, or null.  Blocks that nobody
\* remembers are left only by configuring again, one each time: renaming the
\* log after a fork and tearing the manager down leave none behind.
NamesAreNotLost ==
    \A p \in Processes :
        LET s    == proc[p]
            held == {s.filename.block} \ {NoMemory}
        IN  /\ held \subseteq s.live
            /\ s.filename.block = NoMemory <=> s.filename.parts = <<>>
            /\ Cardinality(s.live \ held) <= IF s.configured = 0 THEN 0 ELSE s.configured - 1

\* The extension of a file name: from the last "." on, if that is in the last
\* component of its path.
Extension(parts) ==
    LET dot   == SelectLastInSeq(parts, LAMBDA part : part = ".")
        slash == SelectLastInSeq(parts, LAMBDA part : part = "/")
    IN  IF dot > slash THEN dot ELSE Len(parts) + 1

\* The comment in reconfigureVerboseGC: if the name has no place for a pid "we
\* append the pid of the child before the extension".
PidBeforeExtension ==
    \A p \in Processes :
        LET s == proc[p] IN
        s.manager = "ready" /\ s.reconfigured = "yes" /\ IsFile(s.inherited) /\ ~HasPidPlace(s.inherited) =>
            s.filename.parts = InsertAt(s.inherited.parts, Extension(s.inherited.parts), p)
=============================================================================
