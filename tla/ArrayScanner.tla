---------------------------- MODULE ArrayScanner ----------------------------
(***************************************************************************)
(* Splash::ArrayScanner: the object scanner bound to the collector.        *)
(* start(visitor, any, bytesToScan) and resume(visitor, bytesToScan) walk  *)
(* the slots of a RefArray and return {bytesScanned, complete}; a BinArray *)
(* has no slots.  A call ends early when it has scanned its budget or when *)
(* the visitor's edge() returned false, and the collector may then resume. *)
(*                                                                         *)
(* One step is one iteration of the loop of resumeRefArray, so that the    *)
(* visitor acts between two of them; between two calls the program runs    *)
(* and may store to the array.                                             *)
(***************************************************************************)
EXTENDS Naturals, Sequences

CONSTANTS
    Ref, Null,     \* the values of a slot
    MaxLength,     \* the longest array (std::uint32_t in the program)
    SLOT_SIZE,     \* sizeof(RefSlot)
    Budgets        \* the values of bytesToScan the collector passes

ASSUME ScannerAssumption ==
    /\ Null \notin Ref
    /\ MaxLength \in Nat
    /\ SLOT_SIZE \in Nat \ {0}
    /\ Budgets \subseteq Nat

Value  == Ref \cup {Null}
Arrays == UNION {[1 .. n -> Value] : n \in 0 .. MaxLength}

VARIABLES
    kind,          \* of target_: "REF" or "BIN"
    slots,         \* the slots of target_
    current,       \* current_, as the number of the slot it points to
    pc,            \* "idle", "scanning" (in the loop), "paused", "complete"
                   \* (what the last call returned), "assert" (one failed)
    bytesToScan,   \* the budget of the call in progress
    bytesScanned,  \* local to the call, and its result once it has returned
    cont,          \* what the visitor answered last in this call
    \* History, of the scan of this target:
    visited,       \* the slots handed to the visitor, in order
    charged,       \* bytes reported by the calls that have returned
    stable         \* slots that have held a reference since the scan began

scanner == <<kind, current, pc, bytesToScan, bytesScanned, cont>>
history == <<visited, charged, stable>>
vars    == <<kind, slots, current, pc, bytesToScan, bytesScanned, cont,
             visited, charged, stable>>

end == Len(slots) + 1

\* A scanner that is constructed but not started.
Init ==
    /\ kind \in {"REF", "BIN"}
    /\ slots \in IF kind = "REF" THEN Arrays ELSE {<<>>}
    /\ current = 1
    /\ pc = "idle"
    /\ bytesToScan = 0
    /\ bytesScanned = 0
    /\ cont = TRUE
    /\ visited = <<>>
    /\ charged = 0
    /\ stable = {i \in 1 .. Len(slots) : slots[i] # Null}

-----------------------------------------------------------------------------
(* The calls.                                                              *)

\* Mutant: the count goes on from the last call.
EnterLoopKeepingCount(budget) ==
    /\ pc' = IF current' <= end THEN "scanning" ELSE "assert"
    /\ bytesToScan' = budget
    /\ UNCHANGED bytesScanned
    /\ cont' = TRUE

\* resumeRefArray up to its loop.
EnterLoop(budget) ==
    /\ pc' = IF current' <= end THEN "scanning" ELSE "assert"
    /\ bytesToScan' = budget
    /\ bytesScanned' = 0
    /\ cont' = TRUE

\* Mutant: the do-nothing scanner that the unfinished tutorial is bound to.
NopStart(budget) ==
    /\ pc = "idle"
    /\ pc' = "complete"
    /\ bytesToScan' = budget
    /\ bytesScanned' = 0
    /\ UNCHANGED <<kind, slots, current, cont, history>>

\* Mutant: a BinArray is reported incomplete.
StartBinIncomplete(budget) ==
    /\ pc = "idle"
    /\ \/ /\ kind = "REF"
          /\ current' = 1
          /\ EnterLoop(budget)
       \/ /\ kind = "BIN"
          /\ pc' = "paused"
          /\ bytesToScan' = budget
          /\ bytesScanned' = 0
          /\ UNCHANGED <<current, cont>>
    /\ UNCHANGED <<kind, slots, history>>

\* start(): a RefArray is scanned from its first slot, a BinArray is complete.
\* The switch on the kind; its default, which asserts, is for a kind that no
\* constructor writes.
Start(budget) ==
    /\ pc = "idle"
    /\ \/ /\ kind = "REF"
          /\ current' = 1
          /\ EnterLoop(budget)
       \/ /\ kind = "BIN"
          /\ pc' = "complete"
          /\ bytesToScan' = budget
          /\ bytesScanned' = 0
          /\ UNCHANGED <<current, cont>>
    /\ UNCHANGED <<kind, slots, history>>

\* Mutant: resuming begins the array again.
ResumeFromTheStart(budget) ==
    /\ pc = "paused"
    /\ current' = 1
    /\ EnterLoop(budget)
    /\ UNCHANGED <<kind, slots, history>>

\* resume(): the collector calls it only when the last result was not complete.
Resume(budget) ==
    /\ pc = "paused"
    /\ \/ /\ kind = "REF"
          /\ UNCHANGED current
          /\ EnterLoop(budget)
       \/ /\ kind = "BIN"
          /\ pc' = "assert"
          /\ UNCHANGED <<current, bytesToScan, bytesScanned, cont>>
    /\ UNCHANGED <<kind, slots, history>>

-----------------------------------------------------------------------------
(* The loop of resumeRefArray: three exits and advances, in this order.    *)

AtEnd     == current = end

\* Mutants: a slot more than the budget; never a byte over the budget.
MustPauseLate  == bytesScanned > bytesToScan \/ ~cont
MustPauseEarly == bytesScanned + SLOT_SIZE > bytesToScan \/ ~cont

MustPause == bytesScanned >= bytesToScan \/ ~cont

Return(how) ==
    /\ pc' = how
    /\ charged' = charged + bytesScanned
    /\ UNCHANGED <<kind, slots, current, bytesToScan, bytesScanned, cont,
                   visited, stable>>

ReturnComplete == pc = "scanning" /\ AtEnd /\ Return("complete")

ReturnPaused == pc = "scanning" /\ ~AtEnd /\ MustPause /\ Return("paused")

\* current_ += 1; bytesScanned += sizeof(RefSlot).
Advance ==
    /\ current' = current + 1
    /\ bytesScanned' = bytesScanned + SLOT_SIZE
    /\ UNCHANGED <<kind, pc, bytesToScan, charged>>

SkipNull ==
    /\ pc = "scanning" /\ ~AtEnd /\ ~MustPause
    /\ slots[current] = Null
    /\ Advance
    /\ UNCHANGED <<slots, cont, visited, stable>>

\* The slots that still hold a reference they have held all along.
StillStable(newSlots) == {i \in stable : newSlots[i] # Null}

\* Mutant: the null check is dropped.
VisitEveryEdge(answer, value) ==
    /\ pc = "scanning" /\ ~AtEnd /\ ~MustPause
    /\ slots' = [slots EXCEPT ![current] = value]
    /\ stable' = StillStable(slots')
    /\ cont' = answer
    /\ visited' = Append(visited, current)
    /\ Advance

\* edge(): the visitor may store to the slot, and asks to go on or to pause.
VisitEdge(answer, value) ==
    /\ pc = "scanning" /\ ~AtEnd /\ ~MustPause
    /\ slots[current] # Null
    /\ slots' = [slots EXCEPT ![current] = value]
    /\ stable' = StillStable(slots')
    /\ cont' = answer
    /\ visited' = Append(visited, current)
    /\ Advance

-----------------------------------------------------------------------------
(* The scanner's environment.                                              *)

\* Between two calls the program stores to the array.
Store(i, value) ==
    /\ pc \in {"idle", "paused", "complete"}
    /\ slots' = [slots EXCEPT ![i] = value]
    /\ stable' = StillStable(slots')
    /\ UNCHANGED <<scanner, visited, charged>>

\* The collector turns to another object, with a scanner of its own or with
\* this one: start() initializes all of its state.
NextTarget ==
    /\ pc = "complete"
    /\ kind' \in {"REF", "BIN"}
    /\ slots' \in IF kind' = "REF" THEN Arrays ELSE {<<>>}
    /\ pc' = "idle"
    /\ current' = 1
    /\ bytesScanned' = 0
    /\ visited' = <<>>
    /\ charged' = 0
    /\ stable' = {i \in 1 .. Len(slots') : slots'[i] # Null}
    /\ UNCHANGED <<bytesToScan, cont>>

Call == \E budget \in Budgets : Start(budget) \/ Resume(budget)

Loop ==
    \/ ReturnComplete
    \/ ReturnPaused
    \/ SkipNull
    \/ \E answer \in BOOLEAN, value \in Value : VisitEdge(answer, value)

Next ==
    \/ Call
    \/ Loop
    \/ \E i \in 1 .. Len(slots), value \in Value : Store(i, value)
    \/ NextTarget

Spec == Init /\ [][Next]_vars

(***************************************************************************)
(* The loop runs to its return.  The collector starts what it has chosen   *)
(* to scan, and keeps resuming a paused scan, again and again with a       *)
(* budget it can spend: with a budget of 0 a call does nothing.            *)
(***************************************************************************)
Fairness ==
    /\ WF_vars(Loop)
    /\ WF_vars(\E budget \in Budgets : Start(budget))
    /\ SF_vars(\E budget \in Budgets \ {0} : Resume(budget))

FairSpec == Spec /\ Fairness

-----------------------------------------------------------------------------
(* Properties                                                              *)

\* The ranges of the variables.
TypeOK ==
    /\ kind \in {"REF", "BIN"}
    /\ slots \in Arrays
    /\ current \in Nat \ {0}
    /\ pc \in {"idle", "scanning", "paused", "complete", "assert"}
    /\ bytesToScan \in Nat
    /\ bytesScanned \in Nat
    /\ cont \in BOOLEAN
    /\ visited \in Seq(Nat)
    /\ charged \in Nat
    /\ stable \subseteq 1 .. Len(slots)

\* No assertion of the scanner fails: current_ never runs past the end of the
\* array, and a BinArray, complete at once, is never resumed.
NoAssertFails == pc # "assert"

\* However a scan is cut into calls, no slot is handed to the visitor twice,
\* and slots are handed over in ascending order.
EachSlotOnce ==
    /\ \A i, j \in 1 .. Len(visited) : i < j => visited[i] < visited[j]
    /\ \A i \in 1 .. Len(visited) : visited[i] < current

\* A scan that is reported complete has shown the visitor every slot that held
\* a reference from its beginning to its end, whatever budgets it was given,
\* however often it was paused, and whatever was stored to the other slots.
NoEdgeLost ==
    pc = "complete" => \A i \in stable : \E j \in 1 .. Len(visited) : visited[j] = i

\* The bytes reported by the calls of a scan add up to the slots passed: the
\* collector's accounting of a large array neither loses nor repeats work when
\* the scan is cut into calls, and a complete scan has paid for all of it.
BytesAddUp ==
    /\ charged + (IF pc = "scanning" THEN bytesScanned ELSE 0)
           = SLOT_SIZE * (current - 1)
    /\ pc = "complete" => charged = SLOT_SIZE * Len(slots)

\* A call overruns its budget by less than one slot, and leaves nothing undone
\* when it says complete: an incomplete result always has a slot to resume at.
PausesWithWorkLeft ==
    /\ bytesScanned < bytesToScan + SLOT_SIZE
    /\ pc = "paused" => current \in 1 .. Len(slots)

\* Enumeration of the slots, with the cutting into calls hidden.
Enumeration ==
    INSTANCE SlotEnumeration WITH next <- current, complete <- (pc = "complete")

EnumeratesSlots == Enumeration!Spec

\* Every object the collector sets out to scan is eventually reported complete,
\* although visitors may pause every call and the program stores in between.
ScanCompletes == pc = "idle" ~> pc = "complete"
=============================================================================
