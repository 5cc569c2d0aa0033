------------------------ MODULE ScanSchedulerProofs ------------------------
(***************************************************************************)
(* Proofs about ScanScheduler, for every divider, every set of policies    *)
(* and every bound.  The safety properties do not use fairness.            *)
(***************************************************************************)
EXTENDS ScanScheduler, TLAPS

\* A tick under way has room for its trigger, and a cycle has taken at least
\* one.
RoomAndWork ==
  /\ io = "ticking" => notify < MaxPending
  /\ script \in {"gated", "executing", "skipping"} => took >= 1

\* The copy of the fault flag is not older than a fault: only this task sets
\* the flag, at the end of its cycle.
FaultCopyFresh == script = "gated" /\ fault => scanFault

IInv == TypeOK /\ RoomAndWork /\ FaultCopyFresh /\ NoScanInFault
          /\ TriggersAccounted

-----------------------------------------------------------------------------
\* A policy is stored with limits in range.
LEMMA NormalisedType ==
  ASSUME NEW input \in Policies PROVE Normalised(input) \in Policies
BY DEF Normalised, Policies

LEMMA InitInvariant == Init => IInv
<1> SUFFICES ASSUME Init PROVE IInv
  OBVIOUS
<1>1. /\ running \in BOOLEAN /\ fault \in BOOLEAN /\ faultTag \in BOOLEAN
      /\ scanFault \in BOOLEAN /\ overrun \in BOOLEAN /\ stopNow \in BOOLEAN
  BY DEF Init
<1>2. TypeOK
  BY <1>1, SchedulerAssumption DEF Init, TypeOK, ScriptSteps
<1>3. RoomAndWork /\ FaultCopyFresh /\ NoScanInFault /\ TriggersAccounted
  BY DEF Init, RoomAndWork, FaultCopyFresh, NoScanInFault, TriggersAccounted,
         OnTheWay
<1>4. QED
  BY <1>2, <1>3 DEF IInv

LEMMA TypeStep ==
  ASSUME IInv, [Next]_vars PROVE TypeOK'
<1> USE SchedulerAssumption
    DEF IInv, TypeOK, RoomAndWork, ScriptSteps, modeVars, ioVars, scriptVars
<1>1. CASE IoBegin BY <1>1 DEF IoBegin
<1>2. CASE IoEnd
  <2>1. divider' \in 0 .. Divider - 1
    BY <1>2 DEF IoEnd
  <2>2. notify' \in 0 .. MaxPending /\ owed' \in Nat
    BY <1>2 DEF IoEnd
  <2>3. QED
    BY <1>2, <2>1, <2>2 DEF IoEnd
<1>3. CASE ScriptWake
  <2>1. owed' \in Nat
    BY <1>3 DEF ScriptWake, TriggersAccounted, OnTheWay
  <2>2. QED
    BY <1>3, <2>1 DEF ScriptWake
<1>4. CASE ScriptGate BY <1>4 DEF ScriptGate
<1>5. CASE ScriptMeasure BY <1>5 DEF ScriptMeasure
<1>6. CASE ScriptJudge
  <2>1. owed' \in Nat
    BY <1>6 DEF ScriptJudge, TriggersAccounted, OnTheWay
  <2>2. consecutive' \in 0 .. MaxStreak
    BY <1>6 DEF ScriptJudge, Streak
  <2>3. stopNow' \in BOOLEAN
    BY <1>6 DEF ScriptJudge, IsFault
  <2>4. fault' \in BOOLEAN /\ scanFault' \in BOOLEAN
    BY <1>6, <2>3 DEF ScriptJudge
  <2>5. QED
    BY <1>6, <2>1, <2>2, <2>3, <2>4 DEF ScriptJudge
<1>7. CASE ScriptStop
  <2>1. running' \in BOOLEAN
    BY <1>7 DEF ScriptStop
  <2>2. QED
    BY <1>7, <2>1 DEF ScriptStop
<1>8. CASE ScriptPublish
  <2>1. /\ faultTag' \in BOOLEAN /\ overrun' \in BOOLEAN
        /\ stopNow' \in BOOLEAN
    BY <1>8 DEF ScriptPublish
  <2>2. QED
    BY <1>8, <2>1 DEF ScriptPublish
<1>9. CASE WebClearTag BY <1>9 DEF WebClearTag
<1>10. CASE WebEndFlashWrite BY <1>10 DEF WebEndFlashWrite
<1>11. CASE WebSetPolicy
  <2>1. policy' \in Policies
    BY <1>11, NormalisedType DEF WebSetPolicy
  <2>2. fault' \in BOOLEAN
    BY <1>11 DEF WebSetPolicy
  <2>3. QED
    BY <1>11, <2>1, <2>2 DEF WebSetPolicy
<1>12. CASE WebSetPlcMode BY <1>12 DEF WebSetPlcMode
<1>13. CASE WebBeginFlashWrite BY <1>13 DEF WebBeginFlashWrite
<1>14. CASE CompilerStops
  <2>1. running' \in BOOLEAN
    BY <1>14 DEF CompilerStops
  <2>2. QED
    BY <1>14, <2>1 DEF CompilerStops
<1>15. CASE UNCHANGED vars BY <1>15 DEF vars
<1>16. QED
  BY <1>1, <1>2, <1>3, <1>4, <1>5, <1>6, <1>7, <1>8, <1>9, <1>10, <1>11,
     <1>12, <1>13, <1>14, <1>15
  DEF Next, IoStep, ScriptStep, WebFinish, WebRequest

LEMMA FaultStep ==
  ASSUME IInv, [Next]_vars PROVE RoomAndWork' /\ FaultCopyFresh' /\ NoScanInFault'
<1> USE DEF IInv, TypeOK, RoomAndWork, FaultCopyFresh, NoScanInFault,
            modeVars, ioVars, scriptVars
<1>1. CASE IoStep BY <1>1 DEF IoStep, IoBegin, IoEnd
<1>2. CASE ScriptStep
  BY <1>2, SchedulerAssumption
  DEF ScriptStep, ScriptWake, ScriptGate, ScriptMeasure, ScriptJudge,
      ScriptStop, ScriptPublish
<1>3. CASE WebFinish BY <1>3 DEF WebFinish, WebClearTag, WebEndFlashWrite
<1>4. CASE WebRequest
  BY <1>4 DEF WebRequest, WebSetPolicy, WebSetPlcMode, WebBeginFlashWrite
<1>5. CASE CompilerStops BY <1>5 DEF CompilerStops
<1>6. CASE UNCHANGED vars BY <1>6 DEF vars
<1>7. QED
  BY <1>1, <1>2, <1>3, <1>4, <1>5, <1>6 DEF Next

LEMMA TriggersStep ==
  ASSUME IInv, [Next]_vars PROVE TriggersAccounted'
<1> USE DEF IInv, TypeOK, RoomAndWork, TriggersAccounted, OnTheWay, modeVars,
            ioVars, scriptVars
<1>1. CASE IoStep BY <1>1 DEF IoStep, IoBegin, IoEnd
<1>2. CASE ScriptStep
  <2>1. CASE ScriptWake BY <2>1 DEF ScriptWake
  <2>2. CASE ScriptGate BY <2>2 DEF ScriptGate
  <2>3. CASE ScriptMeasure
    <3>1. CASE overrun' \/ took > 1 BY <2>3, <3>1 DEF ScriptMeasure
    <3>2. CASE ~(overrun' \/ took > 1) BY <2>3, <3>2 DEF ScriptMeasure
    <3>3. QED BY <3>1, <3>2
  <2>4. CASE ScriptJudge BY <2>4 DEF ScriptJudge
  <2>5. CASE ScriptStop BY <2>5 DEF ScriptStop
  <2>6. CASE ScriptPublish BY <2>6 DEF ScriptPublish
  <2>7. QED
    BY <1>2, <2>1, <2>2, <2>3, <2>4, <2>5, <2>6 DEF ScriptStep
<1>3. CASE WebFinish BY <1>3 DEF WebFinish, WebClearTag, WebEndFlashWrite
<1>4. CASE WebRequest
  BY <1>4 DEF WebRequest, WebSetPolicy, WebSetPlcMode, WebBeginFlashWrite
<1>5. CASE CompilerStops BY <1>5 DEF CompilerStops
<1>6. CASE UNCHANGED vars BY <1>6 DEF vars
<1>7. QED
  BY <1>1, <1>2, <1>3, <1>4, <1>5, <1>6 DEF Next

LEMMA Inductive == Spec => []IInv
<1>1. IInv /\ [Next]_vars => IInv'
  BY TypeStep, FaultStep, TriggersStep DEF IInv
<1>2. QED
  BY InitInvariant, <1>1, PTL DEF Spec

-----------------------------------------------------------------------------
\* Type correctness of the scheduling state of perf_test.cpp.
THEOREM TypeCorrect == Spec => []TypeOK
<1>1. IInv => TypeOK
  BY DEF IInv
<1>2. QED
  BY <1>1, Inductive, PTL

\* A latched scan fault keeps script_engine_run_scan from being called, until
\* perf_test_set_runtime_policy clears it, whatever mode the operator selects.
THEOREM FaultGatesScans == Spec => []NoScanInFault
<1>1. IInv => NoScanInFault
  BY DEF IInv
<1>2. QED
  BY <1>1, Inductive, PTL

\* No trigger is lost from, or counted twice in, the coalesced-scan counter.
THEOREM TriggersAreAccounted == Spec => []TriggersAccounted
<1>1. IInv => TriggersAccounted
  BY DEF IInv
<1>2. QED
  BY <1>1, Inductive, PTL

=============================================================================
