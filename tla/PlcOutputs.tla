----------------------------- MODULE PlcOutputs ------------------------------
(***************************************************************************)
(* The output half of the process image: from the Q globals of the scripts *)
(* (src/main/script_engine.cpp) through do_cmd (src/main/plc_io.cpp) to    *)
(* the pins.                                                               *)
(*                                                                         *)
(* script_scan_task executes a scan, which writes some of the Q globals.   *)
(* If it ends without an exception, all of them are copied to do_cmd, one  *)
(* output at a time.  plc_scan_task preempts it every millisecond, in the  *)
(* middle of the copy too, and drives the pins from do_cmd as it is.       *)
(*                                                                         *)
(* Of an output, no level is modelled but where it comes from: the number  *)
(* of the scan that wrote the Q global, and the number of the scan that    *)
(* copied it on.  The two tasks share a core and plc_scan_task has the    *)
(* higher priority, so that its snapshot of do_cmd and the writes of the   *)
(* pins are one step; but it may wait for the tag mutex before it.         *)
(***************************************************************************)
EXTENDS Naturals, FiniteSetsExt

CONSTANTS
  Outputs,        \* PLC_DO_COUNT
  MaxScans        \* bound: scans executed

ASSUME OutputsAssumption ==
  /\ Outputs \in Nat \ {0}
  /\ MaxScans \in Nat

VARIABLES
  running,        \* g_plc_running
  io,             \* program counter of plc_scan_task
  script,         \* program counter of script_scan_task
  next,           \* the output that the copy comes to next
  q,              \* g_script_io.Q: the scan that wrote each
  command,        \* g_io.do_cmd
  pins,           \* the levels of the output pins
  scans,          \* scans begun
  failed          \* history: scans that ended with an exception

vars == <<running, io, script, next, q, command, pins, scans, failed>>

Channels == 1 .. Outputs

\* Before the first scan all outputs are off: scan 0.
Off == [writer |-> 0, copy |-> 0]

Init ==
  /\ running \in BOOLEAN
  /\ io = "waiting" /\ script = "idle" /\ next = 1
  /\ q = [k \in Channels |-> 0]
  /\ command = [k \in Channels |-> Off]
  /\ pins = [k \in Channels |-> Off]
  /\ scans = 0 /\ failed = {}

\* RUN and STOP: by an operator, the overrun policy or a compile.
SetRunning ==
  /\ running' = ~running
  /\ UNCHANGED <<io, script, next, q, command, pins, scans, failed>>

-----------------------------------------------------------------------------
(***************************************************************************)
(* plc_scan_task, once a millisecond                                       *)
(***************************************************************************)
\* plc_io_tick_1ms, which can wait for the tag mutex at its end.
IoTick ==
  /\ io = "waiting"
  /\ running
  /\ io' = "ticked"
  /\ UNCHANGED <<running, script, next, q, command, pins, scans, failed>>

\* A loop over the outputs that stops one early.
IoApplyAllButLast ==
  /\ io = "ticked"
  /\ io' = "waiting"
  /\ pins' = [k \in Channels |-> IF k < Outputs THEN command[k] ELSE pins[k]]
  /\ UNCHANGED <<running, script, next, q, command, scans, failed>>

\* Outputs that are driven one per millisecond.
IoApplyInTurns ==
  /\ io = "ticked"
  /\ io' = "waiting"
  /\ \E k \in Channels : pins' = [pins EXCEPT ![k] = command[k]]
  /\ UNCHANGED <<running, script, next, q, command, scans, failed>>

\* plc_io_apply_outputs
IoApply ==
  /\ io = "ticked"
  /\ io' = "waiting"
  /\ pins' = command
  /\ UNCHANGED <<running, script, next, q, command, scans, failed>>

-----------------------------------------------------------------------------
(***************************************************************************)
(* script_scan_task: script_engine_run_scan                                *)
(***************************************************************************)
\* A wake-up in RUN, not paused and with an active program.  Others do nothing
\* to the outputs.
ScanBegin ==
  /\ script = "idle"
  /\ running
  /\ scans < MaxScans
  /\ script' = "executing"
  /\ scans' = scans + 1
  /\ UNCHANGED <<running, io, next, q, command, pins, failed>>

\* The script assigns to a Q global, or calls setDO.
ScanWrites(k) ==
  /\ script = "executing"
  /\ q' = [q EXCEPT ![k] = scans]
  /\ UNCHANGED <<running, io, script, next, command, pins, scans, failed>>

ScanSucceeds ==
  /\ script = "executing"
  /\ script' = "copying"
  /\ next' = 1
  /\ UNCHANGED <<running, io, q, command, pins, scans, failed>>

\* An exception in a scan whose outputs are copied all the same.
ScanFailsAndCopies ==
  /\ script = "executing"
  /\ script' = "copying"
  /\ next' = 1
  /\ failed' = failed \cup {scans}
  /\ UNCHANGED <<running, io, q, command, pins, scans>>

\* An exception that clears the Q globals.
ScanFailsAndClears ==
  /\ script = "executing"
  /\ script' = "idle"
  /\ failed' = failed \cup {scans}
  /\ q' = [k \in Channels |-> 0]
  /\ UNCHANGED <<running, io, next, command, pins, scans>>

\* An exception: what the scan wrote so far stays in the Q globals.
ScanFails ==
  /\ script = "executing"
  /\ script' = "idle"
  /\ failed' = failed \cup {scans}
  /\ UNCHANGED <<running, io, next, q, command, pins, scans>>

\* A copy that runs one output too far.
CopyOutputOneMore ==
  /\ script = "copying"
  /\ command' = [command EXCEPT ![next] = [writer |-> q[next], copy |-> scans]]
  /\ IF next <= Outputs
     THEN next' = next + 1 /\ UNCHANGED script
     ELSE next' = 1 /\ script' = "idle"
  /\ UNCHANGED <<running, io, q, pins, scans, failed>>

\* copy_outputs_from_script_globals: plc_io_set_do takes the lock for each.
CopyOutput ==
  /\ script = "copying"
  /\ command' = [command EXCEPT ![next] = [writer |-> q[next], copy |-> scans]]
  /\ IF next < Outputs
     THEN next' = next + 1 /\ UNCHANGED script
     ELSE next' = 1 /\ script' = "idle"
  /\ UNCHANGED <<running, io, q, pins, scans, failed>>

-----------------------------------------------------------------------------
IoStep == IoTick \/ IoApply

ScriptStep == ScanBegin \/ (\E k \in Channels : ScanWrites(k))
                \/ ScanSucceeds \/ ScanFails \/ CopyOutput

Next == SetRunning \/ IoStep \/ ScriptStep

\* The millisecond timer keeps the first task going, and a scan ends.  RUN and
\* new scans are owed to nobody.
Fairness ==
  /\ WF_vars(IoStep)
  /\ WF_vars(ScanSucceeds \/ ScanFails)
  /\ WF_vars(CopyOutput)

Spec == Init /\ [][Next]_vars /\ Fairness

-----------------------------------------------------------------------------
(***************************************************************************)
(* Properties.  The definitions above whose comment describes a fault are  *)
(* faulty variants of the definition that follows them.                    *)
(***************************************************************************)
Levels == [writer : 0 .. MaxScans, copy : 0 .. MaxScans]

TypeOK ==
  /\ running \in BOOLEAN
  /\ io \in {"waiting", "ticked"}
  /\ script \in {"idle", "executing", "copying"}
  /\ next \in Channels
  /\ q \in [Channels -> 0 .. MaxScans]
  /\ command \in [Channels -> Levels]
  /\ pins \in [Channels -> Levels]
  /\ scans \in 0 .. MaxScans
  /\ failed \subseteq 1 .. scans

\* The pins show the copies of at most two scans, one right after the other
\* but for scans that failed, split at one output: the newer up to it, the
\* older from there on.  (A split image stays on the pins for all of a STOP
\* that comes in the middle of a copy.)
Succeeded == (0 .. scans) \ failed

SplitOfTwoCopies ==
  \E k \in 0 .. Outputs : \E older, newer \in Succeeded :
    /\ \A j \in Channels : pins[j].copy = IF j <= k THEN newer ELSE older
    /\ \A n \in Succeeded : n <= older \/ n >= newer

\* What a scan wrote before it failed is shown only when a later scan succeeds
\* (then it is, as the Q globals keep it).
FailedScanHeldBack ==
  \A k \in Channels :
    /\ pins[k].copy \notin failed
    /\ pins[k].writer \in failed => pins[k].copy > pins[k].writer

\* A pin never goes back to an older copy or to what an older scan wrote,
\* whatever is stopped, restarted or fails in between.
PinsNeverGoBack ==
  [][\A k \in Channels : /\ pins'[k].copy >= pins[k].copy
                         /\ pins'[k].writer >= pins[k].writer]_vars

\* If the PLC stays in RUN and the scans come to an end, the pins show the
\* outputs of the last scan that succeeded, all of them.
WholeImageShown ==
  <>[](running /\ script = "idle")
    => <>[](\A k \in Channels : pins[k].copy = Max(Succeeded))

=============================================================================
