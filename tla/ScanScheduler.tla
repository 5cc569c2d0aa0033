--------------------------- MODULE ScanScheduler ---------------------------
(***************************************************************************)
(* Triggering, gating and overload handling of the script scan             *)
(* (src/main/perf_test.cpp).                                               *)
(*                                                                         *)
(* plc_scan_task runs each millisecond and, in RUN, gives script_scan_task *)
(* one notification per Divider ticks.  script_scan_task takes all pending *)
(* notifications, runs one scan unless the PLC is in STOP or faulted,      *)
(* measures it, and applies the overrun policy: it may set the scan fault  *)
(* and switch the PLC to STOP.  The HTTP server task applies a policy,     *)
(* selects RUN or STOP, and writes flash when it finds the PLC in STOP.    *)
(* The compile task may also select STOP.  g_mode_lock protects single     *)
(* assignments and the judgement of a scan, each one step here; the policy *)
(* a scan is judged by is the one it read when it began.                   *)
(***************************************************************************)
EXTENDS Naturals

CONSTANTS
  Divider,        \* SCRIPT_SCAN_DIVIDER, I/O ticks per script trigger
  DefaultPolicy,  \* initial value of g_runtime_policy
  PolicyInputs,   \* policies the settings page can post
  MaxPending,     \* bound: notifications waiting for the script task
  MaxStreak       \* bound: g_consecutive_overruns saturates here, at or above
                  \*   every limit it is compared with

\* PLC_OVERRUN_WARN_CONTINUE stands for the three kinds that never fault.
PolicyKinds == {"stopImmediately", "faultAfterLimit", "warnContinue"}
Policies == [kind : PolicyKinds, overruns : Nat, coalesced : Nat]

ASSUME SchedulerAssumption ==
  /\ Divider \in Nat \ {0}
  /\ DefaultPolicy \in Policies
  /\ PolicyInputs \subseteq Policies
  /\ PolicyInputs # {}
  /\ MaxPending \in Nat \ {0}
  /\ MaxStreak \in Nat \ {0}
  /\ \A p \in PolicyInputs \cup {DefaultPolicy} : p.overruns <= MaxStreak

VARIABLES
  running,        \* g_plc_runtime_enabled
  policy,         \* g_runtime_policy, its overrun part
  fault,          \* g_scan_fault_active
  consecutive,    \* g_consecutive_overruns
  faultTag,       \* the tag PLC_ScanFaultActive
  io,             \* program counter of plc_scan_task
  divider,        \* script_scan_divider, a local of that task
  notify,         \* notification count of script_scan_task
  script,         \* program counter of script_scan_task
  took,           \* its locals: notify_count,
  scanPolicy,     \*   policy,
  scanFault,      \*   fault_active,
  overrun,        \*   overrun,
  coalesced,      \*   coalesced,
  stopNow,        \*   stop_now
  web,            \* program counter of the HTTP server task
  owed            \* history: triggers given, neither begun as a scan nor
                  \*   counted in g_total_coalesced_scans

modeVars   == <<running, policy, fault, consecutive>>
ioVars     == <<io, divider>>
scriptVars == <<script, took, scanPolicy, scanFault, overrun, coalesced, stopNow>>

vars == <<modeVars, faultTag, ioVars, notify, scriptVars, web, owed>>

\* perf_test_set_runtime_policy replaces a limit of 0 by 1.
Normalised(input) ==
  [input EXCEPT !.overruns = IF input.overruns = 0 THEN 1 ELSE input.overruns]

Init ==
  /\ running = TRUE
  /\ policy = DefaultPolicy
  /\ fault = FALSE
  /\ consecutive = 0
  /\ faultTag = FALSE
  /\ io = "waiting"
  /\ divider = 0
  /\ notify = 0
  /\ script = "waiting"
  /\ took = 0
  /\ scanPolicy = DefaultPolicy
  /\ scanFault = FALSE
  /\ overrun = FALSE
  /\ coalesced = 0
  /\ stopNow = FALSE
  /\ web = "idle"
  /\ owed = 0

-----------------------------------------------------------------------------
(***************************************************************************)
(* plc_scan_task                                                           *)
(***************************************************************************)

\* An I/O task that does not look at the mode.
IoBeginInAnyMode ==
  /\ io = "waiting"
  /\ notify < MaxPending
  /\ io' = "ticking"
  /\ UNCHANGED <<modeVars, faultTag, divider, notify, scriptVars, web, owed>>

\* A timer notification; in STOP the tick does nothing.
IoBegin ==
  /\ io = "waiting"
  /\ running
  /\ notify < MaxPending
  /\ io' = "ticking"
  /\ UNCHANGED <<modeVars, faultTag, divider, notify, scriptVars, web, owed>>

\* A tick that never resets the divider.
IoEndKeepsDivider ==
  /\ io = "ticking"
  /\ io' = "waiting"
  /\ divider' = divider + 1
  /\ IF divider' >= Divider
     THEN notify' = notify + 1 /\ owed' = owed + 1
     ELSE UNCHANGED <<notify, owed>>
  /\ UNCHANGED <<modeVars, faultTag, scriptVars, web>>

\* After the I/O work; the PLC may have been stopped since.
IoEnd ==
  /\ io = "ticking"
  /\ io' = "waiting"
  /\ divider' = (divider + 1) % Divider
  /\ IF divider' = 0
     THEN notify' = notify + 1 /\ owed' = owed + 1
     ELSE UNCHANGED <<notify, owed>>
  /\ UNCHANGED <<modeVars, faultTag, scriptVars, web>>

-----------------------------------------------------------------------------
(***************************************************************************)
(* script_scan_task                                                        *)
(***************************************************************************)

\* All pending notifications are taken for one scan, and the policy and the
\* fault flag are copied.
ScriptWake ==
  /\ script = "waiting"
  /\ notify > 0
  /\ script' = "gated"
  /\ took' = notify
  /\ notify' = 0
  /\ owed' = owed - 1
  /\ scanPolicy' = policy
  /\ scanFault' = fault
  /\ UNCHANGED <<modeVars, faultTag, ioVars, overrun, coalesced, stopNow, web>>

\* A gate that looks at the mode only.
ScriptGateModeOnly ==
  /\ script = "gated"
  /\ script' = IF running THEN "executing" ELSE "skipping"
  /\ UNCHANGED <<modeVars, faultTag, ioVars, notify, took, scanPolicy,
                 scanFault, overrun, coalesced, stopNow, web, owed>>

\* A gate that drops late cycles to catch up.
ScriptGateDropsLate ==
  /\ script = "gated"
  /\ script' = IF running /\ ~scanFault /\ took = 1 THEN "executing" ELSE "skipping"
  /\ UNCHANGED <<modeVars, faultTag, ioVars, notify, took, scanPolicy,
                 scanFault, overrun, coalesced, stopNow, web, owed>>

\* can_run, and the call of script_engine_run_scan.
ScriptGate ==
  /\ script = "gated"
  /\ script' = IF running /\ ~scanFault THEN "executing" ELSE "skipping"
  /\ UNCHANGED <<modeVars, faultTag, ioVars, notify, took, scanPolicy,
                 scanFault, overrun, coalesced, stopNow, web, owed>>

\* A measurement that counts only the triggers it drains.
ScriptMeasureDrainedOnly ==
  /\ script \in {"executing", "skipping"}
  /\ script' = "measured"
  /\ overrun' \in BOOLEAN
  /\ IF overrun' \/ took > 1
     THEN notify' = 0 /\ coalesced' = notify
     ELSE coalesced' = 0 /\ UNCHANGED notify
  /\ UNCHANGED <<modeVars, faultTag, ioVars, took, scanPolicy, scanFault,
                 stopNow, web, owed>>

\* The cycle ends, within the budget or not.  After an overrun, or when more
\* than one trigger was taken, those that arrived meanwhile are discarded too.
ScriptMeasure ==
  /\ script \in {"executing", "skipping"}
  /\ script' = "measured"
  /\ overrun' \in BOOLEAN
  /\ IF overrun' \/ took > 1
     THEN notify' = 0 /\ coalesced' = took - 1 + notify
     ELSE coalesced' = 0 /\ UNCHANGED notify
  /\ UNCHANGED <<modeVars, faultTag, ioVars, took, scanPolicy, scanFault,
                 stopNow, web, owed>>

\* g_consecutive_overruns after this scan.
Streak == IF ~overrun THEN 0
          ELSE IF consecutive < MaxStreak THEN consecutive + 1 ELSE MaxStreak

\* Whether the policy the scan was started with makes it a fault.
IsFault ==
  \/ /\ scanPolicy.kind = "stopImmediately"
     /\ overrun \/ coalesced > 0
  \/ /\ scanPolicy.kind = "faultAfterLimit"
     /\ \/ Streak >= scanPolicy.overruns
        \/ scanPolicy.coalesced > 0 /\ coalesced >= scanPolicy.coalesced

\* A judgement that sets the fault and stops only under the stop policy.
ScriptJudgeStopsSome ==
  /\ script = "measured"
  /\ script' = "judged"
  /\ owed' = owed - coalesced
  /\ consecutive' = Streak
  /\ fault' = (fault \/ IsFault)
  /\ stopNow' = (IsFault /\ scanPolicy.kind = "stopImmediately")
  /\ scanFault' = fault'
  /\ UNCHANGED <<running, policy, faultTag, ioVars, notify, took, scanPolicy,
                 overrun, coalesced, web>>

\* The critical section that counts the scan and applies the policy.
ScriptJudge ==
  /\ script = "measured"
  /\ script' = "judged"
  /\ owed' = owed - coalesced
  /\ consecutive' = Streak
  /\ stopNow' = IsFault
  /\ fault' = (fault \/ stopNow')
  /\ scanFault' = fault'
  /\ UNCHANGED <<running, policy, faultTag, ioVars, notify, took, scanPolicy,
                 overrun, coalesced, web>>

\* Outside the critical section, the PLC is stopped ...
ScriptStop ==
  /\ script = "judged"
  /\ script' = "publishing"
  /\ running' = (running /\ ~stopNow)
  /\ UNCHANGED <<policy, fault, consecutive, faultTag, ioVars, notify, took,
                 scanPolicy, scanFault, overrun, coalesced, stopNow, web, owed>>

\* ... and the fault flag, as it was in the critical section, is published.
\* The locals of this cycle end with it.
ScriptPublish ==
  /\ script = "publishing"
  /\ script' = "waiting"
  /\ faultTag' = scanFault
  /\ took' = 0
  /\ scanPolicy' = DefaultPolicy
  /\ overrun' = FALSE
  /\ coalesced' = 0
  /\ stopNow' = FALSE
  /\ UNCHANGED <<modeVars, ioVars, notify, scanFault, web, owed>>

-----------------------------------------------------------------------------
(***************************************************************************)
(* The HTTP server task, and the compile task's STOP                       *)
(***************************************************************************)

\* perf_test_set_runtime_policy: applying a policy clears the fault ...
WebSetPolicy ==
  /\ web = "idle"
  /\ \E input \in PolicyInputs : policy' = Normalised(input)
  /\ fault' = FALSE
  /\ consecutive' = 0
  /\ web' = "clearingTag"
  /\ UNCHANGED <<running, faultTag, ioVars, notify, scriptVars, owed>>

\* ... and then the tag.
WebClearTag ==
  /\ web = "clearingTag"
  /\ web' = "idle"
  /\ faultTag' = FALSE
  /\ UNCHANGED <<modeVars, ioVars, notify, scriptVars, owed>>

\* plc_mode_post_handler.
WebSetPlcMode ==
  /\ web = "idle"
  /\ running' \in BOOLEAN
  /\ UNCHANGED <<policy, fault, consecutive, faultTag, ioVars, notify,
                 scriptVars, web, owed>>

\* A handler that writes flash: flash_write_allowed looks at the mode once.
WebBeginFlashWrite ==
  /\ web = "idle"
  /\ ~running
  /\ web' = "writingFlash"
  /\ UNCHANGED <<modeVars, faultTag, ioVars, notify, scriptVars, owed>>

WebEndFlashWrite ==
  /\ web = "writingFlash"
  /\ web' = "idle"
  /\ UNCHANGED <<modeVars, faultTag, ioVars, notify, scriptVars, owed>>

\* A compile job in mode stopBeforeCompile begins.
CompilerStops ==
  /\ running' = FALSE
  /\ UNCHANGED <<policy, fault, consecutive, faultTag, ioVars, notify,
                 scriptVars, web, owed>>

-----------------------------------------------------------------------------
IoStep == IoBegin \/ IoEnd
ScriptStep ==
  \/ ScriptWake \/ ScriptGate \/ ScriptMeasure \/ ScriptJudge \/ ScriptStop
  \/ ScriptPublish
WebFinish  == WebClearTag \/ WebEndFlashWrite
WebRequest == WebSetPolicy \/ WebSetPlcMode \/ WebBeginFlashWrite

Next == IoStep \/ ScriptStep \/ WebFinish \/ WebRequest \/ CompilerStops

\* The timer keeps ticking and no task starves for ever; a scan ends.  Nobody
\* is obliged to send a request.
Fairness ==
  /\ WF_vars(IoStep)
  /\ WF_vars(ScriptStep)
  /\ WF_vars(WebFinish)

Spec == Init /\ [][Next]_vars /\ Fairness

-----------------------------------------------------------------------------
(***************************************************************************)
(* Properties.  The definitions above whose comment describes a fault ("A  *)
(* gate that looks at ...") are faulty variants of the action that follows *)
(* them and are not used by the model.                                     *)
(***************************************************************************)
ScriptSteps == {"waiting", "gated", "executing", "skipping", "measured",
                "judged", "publishing"}

\* The type invariant.
TypeOK ==
  /\ running \in BOOLEAN
  /\ policy \in Policies
  /\ fault \in BOOLEAN
  /\ consecutive \in 0 .. MaxStreak
  /\ faultTag \in BOOLEAN
  /\ io \in {"waiting", "ticking"}
  /\ divider \in 0 .. Divider - 1
  /\ notify \in 0 .. MaxPending
  /\ script \in ScriptSteps
  /\ took \in 0 .. MaxPending
  /\ scanPolicy \in Policies
  /\ scanFault \in BOOLEAN
  /\ overrun \in BOOLEAN
  /\ coalesced \in Nat
  /\ stopNow \in BOOLEAN
  /\ web \in {"idle", "clearingTag", "writingFlash"}
  /\ owed \in Nat

\* A faulted PLC executes no script, whatever the operator does: setting RUN
\* again does not start a scan until a policy is applied.  The fault flag the
\* gate uses is a copy taken earlier, so this needs that nobody else sets it.
NoScanInFault == script = "executing" => ~fault

\* The scan statistics (PLC_ScanCoalescedCount): each trigger is exactly once
\* begun as a scan, counted as coalesced, or still on its way.
OnTheWay ==
  CASE script \in {"gated", "executing", "skipping"} -> took - 1
    [] script = "measured" -> coalesced
    [] OTHER -> 0

TriggersAccounted == owed = notify + OnTheWay

\* "Fault after limit" and "Stop immediately": if from some time on such a
\* policy stays in force without being applied again, the PLC is stopped by
\* nothing but a fault, and every scan that is executed overruns, then from
\* each moment without a fault the PLC gets to STOP with a fault, although the
\* switch to STOP is outside the lock and the operator may select RUN at any
\* moment; and at last it keeps the fault, however often RUN is selected.
\* (RUN then resumes the I/O ticks only: the cycles of the script are skipped,
\* and they end in time.)
LastingOverload ==
  /\ <>[](policy.kind # "warnContinue" /\ web # "clearingTag" /\ (running \/ fault))
  /\ <>[][script = "executing" /\ script' = "measured" => overrun']_vars

OverloadStopsPlc ==
  LastingOverload => (~fault ~> fault /\ ~running) /\ <>[]fault

\* A PLC that stays in RUN without a fault keeps executing scans, after any
\* number of faults, stops and policy changes, even if every scan overruns.
ScansContinue == <>[](running /\ ~fault) => []<>(script = "executing")

\* STOP reaches the script task: in a PLC that stays in STOP, the scan that
\* was under way ends and no further one is triggered.
StopSilencesScans == <>[]~running => <>[](script = "waiting" /\ io = "waiting")

\* What the comment in plc_scan_task says of STOP: it prevents scans while
\* flash writes are allowed.
NoScanDuringFlashWrite == web = "writingFlash" => script # "executing"

\* What the overrun policy document says of "Warn and continue": the runtime
\* continues regardless of overload.  The end of a script cycle does not stop
\* the PLC while that policy is in force.
WarnContinues ==
  [][script = "judged" /\ script' = "publishing" /\ running /\ ~running'
       => policy.kind # "warnContinue"]_vars

=============================================================================
