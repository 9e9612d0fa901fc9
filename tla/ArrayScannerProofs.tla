------------------------- MODULE ArrayScannerProofs -------------------------
(***************************************************************************)
(* ArrayScanner is correct for arrays of any length, any slot size and any *)
(* budgets.  The parts of the inductive invariant say where the scanner    *)
(* stands in each state (Placement), what it has paid for (Accounting),    *)
(* and that every slot behind current_ which held a reference throughout   *)
(* has been visited (StablePassed).                                        *)
(***************************************************************************)
EXTENDS ArrayScanner, TLAPS

Placement ==
    /\ current <= Len(slots) + 1
    /\ pc # "assert"
    /\ pc \in {"scanning", "paused"} => kind = "REF"
    /\ kind = "BIN" => Len(slots) = 0
    /\ pc = "idle" => current = 1 /\ charged = 0 /\ bytesScanned = 0
    /\ pc = "paused" => current <= Len(slots)
    /\ pc = "complete" => current = Len(slots) + 1

Accounting ==
    /\ charged + (IF pc = "scanning" THEN bytesScanned ELSE 0)
           = SLOT_SIZE * (current - 1)
    /\ bytesScanned < bytesToScan + SLOT_SIZE

StablePassed ==
    /\ \A i \in stable : slots[i] # Null
    /\ \A i \in stable : i < current => \E j \in 1 .. Len(visited) : visited[j] = i

IInv == TypeOK /\ Placement /\ Accounting /\ EachSlotOnce /\ StablePassed

-----------------------------------------------------------------------------

LEMMA FunctionIsSeq ==
  ASSUME NEW S, NEW n \in Nat, NEW f \in [1 .. n -> S]
  PROVE  f \in Seq(S) /\ Len(f) = n
OBVIOUS

\* An array is a sequence of values, and a store leaves it one of its length.
LEMMA ArrayFacts ==
  ASSUME NEW s \in Arrays
  PROVE  /\ Len(s) \in Nat
         /\ \A i \in 1 .. Len(s), v \in Value :
                /\ [s EXCEPT ![i] = v] \in Arrays
                /\ Len([s EXCEPT ![i] = v]) = Len(s)
                /\ \A k \in 1 .. Len(s) :
                       [s EXCEPT ![i] = v][k] = IF k = i THEN v ELSE s[k]
<1>1. PICK n \in 0 .. MaxLength : s \in [1 .. n -> Value]
  BY DEF Arrays
<1>2. n \in Nat
  BY ScannerAssumption, <1>1
<1>3. s \in Seq(Value) /\ Len(s) = n
  BY <1>1, <1>2, FunctionIsSeq
<1>4. ASSUME NEW i \in 1 .. Len(s), NEW v \in Value
      PROVE  /\ [s EXCEPT ![i] = v] \in Arrays
             /\ Len([s EXCEPT ![i] = v]) = Len(s)
             /\ \A k \in 1 .. Len(s) :
                    [s EXCEPT ![i] = v][k] = IF k = i THEN v ELSE s[k]
  <2>1. [s EXCEPT ![i] = v] \in [1 .. n -> Value]
    BY <1>1, <1>3, <1>4
  <2>2. Len([s EXCEPT ![i] = v]) = n
    BY <2>1, <1>2, FunctionIsSeq
  <2>3. [s EXCEPT ![i] = v] \in Arrays
    BY <2>1, <1>1 DEF Arrays
  <2>4. \A k \in 1 .. Len(s) : [s EXCEPT ![i] = v][k] = IF k = i THEN v ELSE s[k]
    BY <1>1, <1>3
  <2> QED BY <2>2, <2>3, <2>4, <1>3
<1> QED BY <1>2, <1>3, <1>4

\* The bytes up to the next slot are those up to this one and the slot's own.
LEMMA SlotBytes ==
  ASSUME NEW c \in Nat \ {0}
  PROVE  /\ SLOT_SIZE * (c - 1) \in Nat
         /\ SLOT_SIZE * ((c + 1) - 1) = SLOT_SIZE * (c - 1) + SLOT_SIZE
         /\ SLOT_SIZE * (1 - 1) = 0
BY ScannerAssumption, SMT

LEMMA AppendFacts ==
  ASSUME NEW s \in Seq(Nat), NEW e \in Nat
  PROVE  /\ Append(s, e) \in Seq(Nat)
         /\ Len(Append(s, e)) = Len(s) + 1
         /\ \A i \in 1 .. Len(s) : Append(s, e)[i] = s[i]
         /\ Append(s, e)[Len(s) + 1] = e
OBVIOUS

-----------------------------------------------------------------------------

\* A scan of a new target begins in the invariant.
LEMMA FreshScan ==
  ASSUME TypeOK, kind = "BIN" => Len(slots) = 0,
         current = 1, pc = "idle", bytesScanned = 0, visited = <<>>, charged = 0,
         stable = {i \in 1 .. Len(slots) : slots[i] # Null}
  PROVE  IInv
<1>1. Len(slots) \in Nat
  BY ArrayFacts DEF TypeOK
<1>2. Placement
  BY <1>1 DEF Placement, TypeOK
<1>3. Accounting
  BY SlotBytes, ScannerAssumption DEF Accounting, TypeOK
<1>4. EachSlotOnce /\ StablePassed
  BY <1>1 DEF EachSlotOnce, StablePassed, TypeOK
<1> QED BY <1>2, <1>3, <1>4 DEF IInv

LEMMA EmptyArray ==
  <<>> \in Arrays /\ Len(<<>>) = 0
<1>1. <<>> \in [1 .. 0 -> Value]
  OBVIOUS
<1>2. 0 \in 0 .. MaxLength
  BY ScannerAssumption
<1> QED BY <1>1, <1>2 DEF Arrays

LEMMA InitIInv == Init => IInv
<1> SUFFICES ASSUME Init PROVE IInv
  OBVIOUS
<1>1. slots \in Arrays /\ (kind = "BIN" => Len(slots) = 0)
  BY EmptyArray DEF Init
<1>2. TypeOK
  BY <1>1, ArrayFacts DEF Init, TypeOK
<1> QED BY <1>1, <1>2, FreshScan DEF Init

\* A slot is written: what a scan has done so far stands.
LEMMA StoreKeepsStable ==
  ASSUME IInv, NEW i \in 1 .. Len(slots), NEW v \in Value,
         slots' = [slots EXCEPT ![i] = v],
         stable' = StillStable(slots')
  PROVE  /\ slots' \in Arrays
         /\ Len(slots') = Len(slots)
         /\ stable' \subseteq stable
         /\ \A k \in stable' : slots'[k] # Null
<1>1. slots \in Arrays /\ stable \subseteq 1 .. Len(slots)
  BY DEF IInv, TypeOK
<1> QED BY <1>1, ArrayFacts DEF StillStable

LEMMA NextIInv == IInv /\ [Next]_vars => IInv'
<1> SUFFICES ASSUME IInv, [Next]_vars PROVE IInv'
  OBVIOUS
<1> USE DEF IInv
<1>0. Len(slots) \in Nat /\ SLOT_SIZE \in Nat \ {0}
  BY ArrayFacts, ScannerAssumption DEF TypeOK
<1>1. ASSUME NEW budget \in Budgets, Start(budget)
      PROVE  IInv'
  <2>1. budget \in Nat
    BY ScannerAssumption
  <2>2. TypeOK'
    <3>1. /\ kind' = kind /\ slots' = slots /\ visited' = visited
          /\ charged' = charged /\ stable' = stable
      BY <1>1 DEF Start, history
    <3>2. /\ current' \in Nat \ {0}
          /\ pc' \in {"idle", "scanning", "paused", "complete", "assert"}
          /\ bytesToScan' \in Nat /\ bytesScanned' \in Nat
      BY <1>1, <2>1 DEF Start, EnterLoop, TypeOK
    <3>3. cont' \in BOOLEAN
      BY <1>1, Zenon DEF Start, EnterLoop, TypeOK
    <3> QED BY <3>1, <3>2, <3>3 DEF TypeOK
  <2>3. Placement' /\ Accounting'
    BY <1>0, <1>1, <2>1, SlotBytes
    DEF Start, EnterLoop, end, Placement, Accounting, TypeOK, history
  <2>4. EachSlotOnce' /\ StablePassed'
    BY <1>1 DEF Start, EnterLoop, Placement, EachSlotOnce, StablePassed, TypeOK, history
  <2> QED BY <2>2, <2>3, <2>4
<1>2. ASSUME NEW budget \in Budgets, Resume(budget)
      PROVE  IInv'
  <2>1. budget \in Nat
    BY ScannerAssumption
  <2>2. TypeOK'
    <3>1. /\ kind' = kind /\ slots' = slots /\ visited' = visited
          /\ charged' = charged /\ stable' = stable
      BY <1>2 DEF Resume, history
    <3>2. /\ current' \in Nat \ {0}
          /\ pc' \in {"idle", "scanning", "paused", "complete", "assert"}
          /\ bytesToScan' \in Nat /\ bytesScanned' \in Nat
      BY <1>2, <2>1 DEF Resume, EnterLoop, TypeOK
    <3>3. cont' \in BOOLEAN
      BY <1>2, Zenon DEF Resume, EnterLoop, TypeOK
    <3> QED BY <3>1, <3>2, <3>3 DEF TypeOK
  <2>3. Placement' /\ Accounting'
    BY <1>0, <1>2, <2>1
    DEF Resume, EnterLoop, end, Placement, Accounting, TypeOK, history
  <2>4. EachSlotOnce' /\ StablePassed'
    BY <1>2 DEF Resume, EnterLoop, Placement, EachSlotOnce, StablePassed, TypeOK, history
  <2> QED BY <2>2, <2>3, <2>4
<1>3. ASSUME ReturnComplete PROVE IInv'
  <2>1. TypeOK'
    BY <1>3 DEF ReturnComplete, Return, TypeOK
  <2>2. Placement' /\ Accounting'
    BY <1>0, <1>3
    DEF ReturnComplete, Return, AtEnd, end, Placement, Accounting, TypeOK
  <2>3. EachSlotOnce' /\ StablePassed'
    BY <1>3 DEF ReturnComplete, Return, EachSlotOnce, StablePassed
  <2> QED BY <2>1, <2>2, <2>3
<1>4. ASSUME ReturnPaused PROVE IInv'
  <2>1. TypeOK'
    BY <1>4 DEF ReturnPaused, Return, TypeOK
  <2>2. Placement' /\ Accounting'
    BY <1>0, <1>4
    DEF ReturnPaused, Return, AtEnd, end, Placement, Accounting, TypeOK
  <2>3. EachSlotOnce' /\ StablePassed'
    BY <1>4 DEF ReturnPaused, Return, EachSlotOnce, StablePassed
  <2> QED BY <2>1, <2>2, <2>3
<1>5. ASSUME SkipNull PROVE IInv'
  <2>1. TypeOK'
    BY <1>0, <1>5 DEF SkipNull, Advance, TypeOK
  <2>2. Placement'
    BY <1>0, <1>5 DEF SkipNull, Advance, AtEnd, end, Placement, TypeOK
  <2>3. Accounting'
    BY <1>0, <1>5, SlotBytes DEF SkipNull, Advance, MustPause, Accounting, TypeOK
  <2>4. EachSlotOnce'
    BY <1>5 DEF SkipNull, Advance, EachSlotOnce, TypeOK
  <2>5. StablePassed'
    BY <1>5 DEF SkipNull, Advance, StablePassed, TypeOK
  <2> QED BY <2>1, <2>2, <2>3, <2>4, <2>5
<1>6. ASSUME NEW answer \in BOOLEAN, NEW value \in Value, VisitEdge(answer, value)
      PROVE  IInv'
  <2>1. current \in 1 .. Len(slots)
    BY <1>0, <1>6 DEF VisitEdge, AtEnd, end, Placement, TypeOK
  <2>2. /\ slots' \in Arrays /\ Len(slots') = Len(slots)
        /\ stable' \subseteq stable /\ \A k \in stable' : slots'[k] # Null
    BY <1>6, <2>1, StoreKeepsStable DEF VisitEdge
  <2>3. /\ visited' \in Seq(Nat) /\ Len(visited') = Len(visited) + 1
        /\ \A i \in 1 .. Len(visited) : visited'[i] = visited[i]
        /\ visited'[Len(visited) + 1] = current
    BY <1>6, AppendFacts DEF VisitEdge, TypeOK
  <2>4. Len(visited) \in Nat
    BY DEF TypeOK
  <2>5. TypeOK'
    <3>1. /\ kind' = kind /\ pc' = pc /\ bytesToScan' = bytesToScan
          /\ charged' = charged /\ cont' \in BOOLEAN
      BY <1>6 DEF VisitEdge, Advance
    <3>2. current' \in Nat \ {0} /\ bytesScanned' \in Nat
      BY <1>0, <1>6 DEF VisitEdge, Advance, TypeOK
    <3>3. stable' \subseteq 1 .. Len(slots')
      BY <2>2 DEF TypeOK
    <3> QED BY <2>2, <2>3, <3>1, <3>2, <3>3 DEF TypeOK
  <2>6. Placement'
    BY <1>0, <1>6, <2>1, <2>2 DEF VisitEdge, Advance, Placement, TypeOK
  <2>7. Accounting'
    BY <1>0, <1>6, SlotBytes DEF VisitEdge, Advance, MustPause, Accounting, TypeOK
  <2>8. EachSlotOnce'
    <3>1. PICK n \in Nat : n = Len(visited)
      BY <2>4
    <3>2. Len(visited') = n + 1 /\ visited'[n + 1] = current
          /\ \A i \in 1 .. n : visited'[i] = visited[i]
      BY <2>3, <3>1
    <3>3. current \in Nat /\ current' = current + 1
      BY <1>6 DEF VisitEdge, Advance, TypeOK
    <3>4. /\ \A i, j \in 1 .. n : i < j => visited[i] < visited[j]
          /\ \A i \in 1 .. n : visited[i] < current /\ visited[i] \in Nat
      BY <3>1 DEF EachSlotOnce, TypeOK
    <3>5. \A i \in 1 .. n + 1 : i \in 1 .. n \/ i = n + 1
      BY <3>1
    <3> QED BY <3>2, <3>3, <3>4, <3>5 DEF EachSlotOnce
  <2>9. StablePassed'
    <3>1. ASSUME NEW i \in stable', i < current'
          PROVE  \E j \in 1 .. Len(visited') : visited'[j] = i
      <4>1. i \in stable /\ i \in 1 .. Len(slots)
        BY <2>2, <3>1 DEF TypeOK
      <4>2. current' = current + 1
        BY <1>6 DEF VisitEdge, Advance
      <4>3. CASE i < current
        <5>1. PICK j \in 1 .. Len(visited) : visited[j] = i
          BY <4>1, <4>3 DEF StablePassed
        <5> QED BY <5>1, <2>3, <2>4
      <4>4. CASE i = current
        BY <4>4, <2>3, <2>4
      <4> QED BY <1>0, <2>1, <3>1, <4>1, <4>2, <4>3, <4>4
    <3> QED BY <2>2, <3>1 DEF StablePassed
  <2> QED BY <2>5, <2>6, <2>7, <2>8, <2>9
<1>7. ASSUME NEW i \in 1 .. Len(slots), NEW value \in Value, Store(i, value)
      PROVE  IInv'
  <2>1. /\ slots' \in Arrays /\ Len(slots') = Len(slots)
        /\ stable' \subseteq stable /\ \A k \in stable' : slots'[k] # Null
    BY <1>7, StoreKeepsStable DEF Store
  <2>2. TypeOK'
    BY <1>7, <2>1 DEF Store, scanner, TypeOK
  <2>3. Placement' /\ Accounting' /\ EachSlotOnce'
    BY <1>7, <2>1 DEF Store, scanner, Placement, Accounting, EachSlotOnce
  <2>4. StablePassed'
    BY <1>7, <2>1 DEF Store, scanner, StablePassed
  <2> QED BY <2>2, <2>3, <2>4
<1>8. ASSUME NextTarget PROVE IInv'
  <2>1. slots' \in Arrays /\ (kind' = "BIN" => Len(slots') = 0)
    BY <1>8, EmptyArray DEF NextTarget
  <2>2. TypeOK'
    BY <1>8, <2>1 DEF NextTarget, TypeOK
  <2>3. Len(slots') \in Nat
    BY <2>1, ArrayFacts
  <2>4. Placement'
    BY <1>8, <2>1, <2>3 DEF NextTarget, Placement
  <2>5. Accounting'
    BY <1>0, <1>8, <2>2, SlotBytes DEF NextTarget, Accounting, TypeOK
  <2>6. EachSlotOnce' /\ StablePassed'
    BY <1>8, <2>3 DEF NextTarget, EachSlotOnce, StablePassed
  <2> QED BY <2>2, <2>4, <2>5, <2>6
<1>9. CASE UNCHANGED vars
  BY <1>9 DEF vars, TypeOK, Placement, Accounting, EachSlotOnce, StablePassed
<1> QED
  BY <1>1, <1>2, <1>3, <1>4, <1>5, <1>6, <1>7, <1>8, <1>9 DEF Next, Call, Loop

\* The inductive invariant holds in every reachable state of the scanner.
THEOREM Invariance == Spec => []IInv
<1>1. Init => IInv
  BY InitIInv
<1>2. IInv /\ [Next]_vars => IInv'
  BY NextIInv
<1> QED BY <1>1, <1>2, PTL DEF Spec

-----------------------------------------------------------------------------

\* Every variable keeps its range: current_ points to a slot or one past them.
THEOREM TypeCorrect == Spec => []TypeOK
<1>1. IInv => TypeOK
  BY DEF IInv
<1> QED BY <1>1, Invariance, PTL

\* Neither assert(current_ <= end) nor the asserts of resume() fail.
THEOREM AssertsHold == Spec => []NoAssertFails
<1>1. IInv => NoAssertFails
  BY DEF IInv, Placement, NoAssertFails
<1> QED BY <1>1, Invariance, PTL

\* Pauses and resumptions never hand the same slot to the visitor twice.
THEOREM VisitsSlotsOnce == Spec => []EachSlotOnce
<1>1. IInv => EachSlotOnce
  BY DEF IInv
<1> QED BY <1>1, Invariance, PTL

\* A completed scan has shown the visitor every reference that was there all
\* along: a collector that trusts result.complete marks all it should mark.
THEOREM LosesNoEdge == Spec => []NoEdgeLost
<1>1. IInv => NoEdgeLost
  <2> SUFFICES ASSUME IInv, pc = "complete", NEW i \in stable
               PROVE  \E j \in 1 .. Len(visited) : visited[j] = i
    BY DEF NoEdgeLost
  <2>1. i \in 1 .. Len(slots) /\ current = Len(slots) + 1 /\ Len(slots) \in Nat
    BY ArrayFacts DEF IInv, TypeOK, Placement
  <2> QED BY <2>1 DEF IInv, StablePassed
<1> QED BY <1>1, Invariance, PTL

\* The bytes the calls report are the bytes passed, all of them at the end.
THEOREM AccountsForAllBytes == Spec => []BytesAddUp
<1>1. IInv => BytesAddUp
  <2> SUFFICES ASSUME IInv PROVE BytesAddUp
    OBVIOUS
  <2>1. Len(slots) \in Nat /\ SLOT_SIZE \in Nat
    BY ArrayFacts, ScannerAssumption DEF IInv, TypeOK
  <2>2. pc = "complete" => charged = SLOT_SIZE * Len(slots)
    <3>1. SUFFICES ASSUME pc = "complete" PROVE charged = SLOT_SIZE * Len(slots)
      OBVIOUS
    <3>2. current - 1 = Len(slots)
      BY <2>1, <3>1 DEF IInv, Placement, TypeOK
    <3>3. charged + 0 = SLOT_SIZE * (current - 1)
      BY <3>1 DEF IInv, Accounting
    <3> QED BY <3>2, <3>3 DEF IInv, TypeOK
  <2> QED BY <2>2 DEF IInv, Accounting, BytesAddUp
<1> QED BY <1>1, Invariance, PTL

\* A call overruns its budget by less than a slot; a paused scan has a slot left.
THEOREM PausesProperly == Spec => []PausesWithWorkLeft
<1>1. IInv => PausesWithWorkLeft
  BY ArrayFacts DEF IInv, TypeOK, Placement, Accounting, PausesWithWorkLeft
<1> QED BY <1>1, Invariance, PTL

-----------------------------------------------------------------------------

\* Each step of the scanner enumerates one slot, reports the end, or is
\* invisible to a reader of SlotEnumeration.
THEOREM Refinement == Spec => EnumeratesSlots
<1>1. Init => Enumeration!Begin
  <2> SUFFICES ASSUME Init PROVE Enumeration!Begin
    OBVIOUS
  <2>1. slots \in Arrays
    BY EmptyArray DEF Init
  <2> QED BY <2>1 DEF Init, Arrays, Value, Enumeration!Begin, Enumeration!Arrays,
                     Enumeration!Value
<1>2. IInv /\ [Next]_vars => [Enumeration!Next]_(Enumeration!vars)
  <2> SUFFICES ASSUME IInv, [Next]_vars
               PROVE  Enumeration!Next \/ UNCHANGED Enumeration!vars
    OBVIOUS
  <2> USE DEF Enumeration!vars
  <2>0. Len(slots) \in Nat /\ current \in Nat
    BY ArrayFacts DEF IInv, TypeOK
  <2>1. ASSUME NEW budget \in Budgets, Start(budget)
        PROVE  Enumeration!Next \/ UNCHANGED Enumeration!vars
    <3>0. /\ slots' = slots /\ visited' = visited /\ current' = current
          /\ current = 1 /\ pc = "idle"
      BY <2>1 DEF Start, EnterLoop, IInv, Placement, history
    <3>1. CASE kind = "REF"
      <4>1. pc' # "complete"
        BY <2>1, <3>1 DEF Start, EnterLoop
      <4> QED BY <3>0, <4>1
    <3>2. CASE kind = "BIN"
      <4>1. pc' = "complete" /\ current = Len(slots) + 1
        BY <2>0, <2>1, <3>0, <3>2 DEF Start, IInv, Placement
      <4>2. Enumeration!Finish
        BY <3>0, <4>1 DEF Enumeration!Finish
      <4> QED BY <4>2 DEF Enumeration!Next
    <3> QED BY <3>1, <3>2 DEF IInv, TypeOK
  <2>2. ASSUME NEW budget \in Budgets, Resume(budget)
        PROVE  UNCHANGED Enumeration!vars
    BY <2>2 DEF Resume, EnterLoop, history
  <2>3. ASSUME ReturnComplete PROVE Enumeration!Finish
    BY <2>3 DEF ReturnComplete, Return, AtEnd, end, Enumeration!Finish
  <2>4. ASSUME ReturnPaused PROVE UNCHANGED Enumeration!vars
    BY <2>4 DEF ReturnPaused, Return
  <2>5. ASSUME SkipNull PROVE Enumeration!PassEmpty
    BY <2>0, <2>5 DEF SkipNull, Advance, AtEnd, end, IInv, Placement,
                      Enumeration!PassEmpty
  <2>6. ASSUME NEW answer \in BOOLEAN, NEW value \in Value, VisitEdge(answer, value)
        PROVE  Enumeration!PassEdge
    <3>1. /\ pc = "scanning" /\ pc' = pc /\ current <= Len(slots)
          /\ slots[current] # Null /\ current' = current + 1
          /\ visited' = Append(visited, current)
          /\ slots' = [slots EXCEPT ![current] = value]
      BY <2>0, <2>6 DEF VisitEdge, Advance, AtEnd, end, IInv, Placement
    <3> QED BY <3>1 DEF Enumeration!PassEdge, Enumeration!Value, Value
  <2>7. ASSUME NEW i \in 1 .. Len(slots), NEW value \in Value, Store(i, value)
        PROVE  Enumeration!Store
    BY <2>7 DEF Store, scanner, Enumeration!Store, Enumeration!Value, Value
  <2>8. ASSUME NextTarget PROVE Enumeration!BeginNext
    <3>1. slots' \in Arrays
      BY <2>8, EmptyArray DEF NextTarget
    <3> QED BY <2>8, <3>1 DEF NextTarget, Arrays, Value, Enumeration!BeginNext,
                              Enumeration!Arrays, Enumeration!Value
  <2>9. CASE UNCHANGED vars
    BY <2>9 DEF vars
  <2> QED
    BY <2>1, <2>2, <2>3, <2>4, <2>5, <2>6, <2>7, <2>8, <2>9
    DEF Next, Call, Loop, Enumeration!Next
<1> QED BY <1>1, <1>2, Invariance, PTL DEF Spec, EnumeratesSlots, Enumeration!Spec
=============================================================================
