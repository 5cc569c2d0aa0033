-------------------------- MODULE PlcOutputsProofs --------------------------
(***************************************************************************)
(* Proofs about PlcOutputs, for every number of outputs and of scans.      *)
(*                                                                         *)
(* The inductive invariant IInv adds to the properties of the pins what    *)
(* holds of do_cmd and of the Q globals they come from: do_cmd is whole    *)
(* but during a copy (CommandSplit), and along the way from the scripts to *)
(* the pins the numbers of the scans only fall (Flow).                     *)
(***************************************************************************)
EXTENDS PlcOutputs, TLAPS

-----------------------------------------------------------------------------
\* A scan under way has not failed.
ScanUnderWay == script # "idle" => scans \notin failed /\ scans # 0

\* The pins are behind do_cmd, do_cmd behind the Q globals, and no copy is
\* older than what it copied.
Flow ==
  \A k \in Channels :
    /\ q[k] <= scans
    /\ command[k].copy <= scans /\ command[k].writer <= q[k]
    /\ command[k].writer <= command[k].copy
    /\ pins[k].copy <= command[k].copy /\ pins[k].writer <= command[k].writer
    /\ pins[k].writer <= pins[k].copy

\* do_cmd holds the copy of the scan that succeeded last, but for the outputs
\* that a copy under way has come to.
LastCopied(last) ==
  /\ script # "idle" => last < scans
  /\ \A n \in Succeeded : n <= last \/ (n = scans /\ script # "idle")
  /\ \A k \in Channels :
       command[k].copy = IF script = "copying" /\ k < next THEN scans ELSE last

CommandSplit == \E last \in Succeeded : LastCopied(last)

\* SplitOfTwoCopies, with the newer of the two copies finished or under way.
SplitAt(k, older, newer) ==
  /\ \A j \in Channels : pins[j].copy = IF j <= k THEN newer ELSE older
  /\ \A n \in Succeeded : n <= older \/ n >= newer
  /\ script = "executing" => older # scans /\ newer # scans

PinsSplit ==
  \E k \in 0 .. Outputs : \E older, newer \in Succeeded : SplitAt(k, older, newer)

\* An image that no failed scan reached.
HeldBack(image) ==
  \A k \in Channels :
    /\ image[k].copy \notin failed
    /\ image[k].writer \in failed => image[k].copy > image[k].writer

IInv == TypeOK /\ ScanUnderWay /\ Flow /\ CommandSplit /\ PinsSplit
          /\ HeldBack(command) /\ HeldBack(pins)

-----------------------------------------------------------------------------
LEMMA InitInvariant == Init => IInv
<1> SUFFICES ASSUME Init PROVE IInv
  OBVIOUS
<1> USE OutputsAssumption DEF Init, Channels, Off
<1>1. TypeOK
  BY DEF TypeOK, Levels
<1>2. 0 \in Succeeded /\ Succeeded = {0}
  BY DEF Succeeded
<1>3. ScanUnderWay /\ Flow /\ HeldBack(command) /\ HeldBack(pins)
  BY DEF ScanUnderWay, Flow, HeldBack
<1>4. CommandSplit
  BY <1>2 DEF CommandSplit, LastCopied
<1>5. PinsSplit
  <2>1. SplitAt(0, 0, 0)
    BY <1>2 DEF SplitAt
  <2>2. QED
    BY <1>2, <2>1 DEF PinsSplit
<1>6. QED
  BY <1>1, <1>3, <1>4, <1>5 DEF IInv

\* Numbers of scans are numbers.
LEMMA ScanNumbers ==
  ASSUME TypeOK
  PROVE  /\ Outputs \in Nat /\ scans \in Nat /\ next \in Nat
         /\ failed \subseteq Nat /\ Succeeded \subseteq Nat
         /\ \A k \in Channels :
              /\ k \in Nat /\ q[k] \in Nat
              /\ command[k].copy \in Nat /\ command[k].writer \in Nat
              /\ pins[k].copy \in Nat /\ pins[k].writer \in Nat
  BY OutputsAssumption, SMTT(20) DEF TypeOK, Levels, Channels, Succeeded

LEMMA TypeStep ==
  ASSUME IInv, [Next]_vars PROVE TypeOK'
<1> USE OutputsAssumption DEF IInv, TypeOK, Channels, ScanUnderWay
<1>1. CASE SetRunning BY <1>1 DEF SetRunning
<1>2. CASE IoTick BY <1>2 DEF IoTick
<1>3. CASE IoApply BY <1>3 DEF IoApply
<1>4. CASE ScanBegin BY <1>4 DEF ScanBegin
<1>5. ASSUME NEW k \in Channels, ScanWrites(k) PROVE TypeOK'
  BY <1>5 DEF ScanWrites
<1>6. CASE ScanSucceeds BY <1>6 DEF ScanSucceeds
<1>7. CASE ScanFails BY <1>7 DEF ScanFails
<1>8. CASE CopyOutput
  <2>1. [writer |-> q[next], copy |-> scans] \in Levels
    BY DEF Levels
  <2>2. command' \in [Channels -> Levels]
    BY <1>8, <2>1 DEF CopyOutput
  <2>3. QED
    BY <1>8, <2>2 DEF CopyOutput
<1>9. CASE UNCHANGED vars BY <1>9 DEF vars
<1>10. QED
  BY <1>1, <1>2, <1>3, <1>4, <1>5, <1>6, <1>7, <1>8, <1>9
     DEF Next, IoStep, ScriptStep

\* What a copied output becomes.
LEMMA CopyEffect ==
  ASSUME TypeOK, CopyOutput
  PROVE  /\ next \in Channels
         /\ command'[next].writer = q[next] /\ command'[next].copy = scans
         /\ \A k \in Channels : k # next => command'[k] = command[k]
         /\ UNCHANGED <<running, io, q, pins, scans, failed>>
  BY DEF TypeOK, CopyOutput

LEMMA UnderWayStep ==
  ASSUME IInv, [Next]_vars PROVE ScanUnderWay'
<1> USE DEF IInv, ScanUnderWay
<1>1. CASE SetRunning BY <1>1 DEF SetRunning
<1>2. CASE IoTick BY <1>2 DEF IoTick
<1>3. CASE IoApply BY <1>3 DEF IoApply
<1>4. CASE ScanBegin
  <2>1. scans \in Nat /\ failed \subseteq 1 .. scans
    BY DEF TypeOK
  <2>2. QED
    BY <1>4, <2>1 DEF ScanBegin
<1>5. ASSUME NEW k \in Channels, ScanWrites(k) PROVE ScanUnderWay'
  BY <1>5 DEF ScanWrites
<1>6. CASE ScanSucceeds BY <1>6 DEF ScanSucceeds
<1>7. CASE ScanFails BY <1>7 DEF ScanFails
<1>8. CASE CopyOutput BY <1>8 DEF CopyOutput
<1>9. CASE UNCHANGED vars BY <1>9 DEF vars
<1>10. QED
  BY <1>1, <1>2, <1>3, <1>4, <1>5, <1>6, <1>7, <1>8, <1>9
     DEF Next, IoStep, ScriptStep

LEMMA FlowStep ==
  ASSUME IInv, [Next]_vars PROVE Flow'
<1> USE ScanNumbers DEF IInv, Flow
<1>1. CASE SetRunning BY <1>1 DEF SetRunning
<1>2. CASE IoTick BY <1>2 DEF IoTick
<1>3. CASE IoApply BY <1>3 DEF IoApply
<1>4. CASE ScanBegin BY <1>4 DEF ScanBegin
<1>5. ASSUME NEW k \in Channels, ScanWrites(k) PROVE Flow'
  <2>1. \A j \in Channels : q'[j] = IF j = k THEN scans ELSE q[j]
    BY <1>5 DEF ScanWrites, TypeOK
  <2>2. QED
    BY <1>5, <2>1 DEF ScanWrites
<1>6. CASE ScanSucceeds BY <1>6 DEF ScanSucceeds
<1>7. CASE ScanFails BY <1>7 DEF ScanFails
<1>8. CASE CopyOutput BY <1>8, CopyEffect
<1>9. CASE UNCHANGED vars BY <1>9 DEF vars
<1>10. QED
  BY <1>1, <1>2, <1>3, <1>4, <1>5, <1>6, <1>7, <1>8, <1>9
     DEF Next, IoStep, ScriptStep

\* do_cmd is whole but during a copy.
LEMMA CommandStep ==
  ASSUME IInv, [Next]_vars PROVE CommandSplit'
<1> USE ScanNumbers DEF IInv
<1>1. PICK last \in Succeeded : LastCopied(last)
  BY DEF CommandSplit
<1>2. last \in Nat /\ last <= scans
  BY <1>1 DEF Succeeded
<1>3. CASE SetRunning
  BY <1>1, <1>3 DEF SetRunning, CommandSplit, LastCopied, Succeeded
<1>4. CASE IoTick
  BY <1>1, <1>4 DEF IoTick, CommandSplit, LastCopied, Succeeded
<1>5. CASE IoApply
  BY <1>1, <1>5 DEF IoApply, CommandSplit, LastCopied, Succeeded
<1>6. CASE ScanBegin
  <2>1. last \in Succeeded' /\ last < scans'
    BY <1>1, <1>2, <1>6 DEF ScanBegin, Succeeded
  <2>2. \A n \in Succeeded' : n \in Succeeded \/ n = scans'
    BY <1>6 DEF ScanBegin, Succeeded
  <2>3. \A n \in Succeeded : n <= last
    BY <1>1, <1>6 DEF ScanBegin, LastCopied
  <2>4. LastCopied(last)'
    BY <1>1, <1>6, <2>1, <2>2, <2>3 DEF ScanBegin, LastCopied
  <2>5. QED
    BY <2>1, <2>4 DEF CommandSplit
<1>7. ASSUME NEW k \in Channels, ScanWrites(k) PROVE CommandSplit'
  BY <1>1, <1>7 DEF ScanWrites, CommandSplit, LastCopied, Succeeded
<1>8. CASE ScanSucceeds
  BY <1>1, <1>8 DEF ScanSucceeds, CommandSplit, LastCopied, Succeeded, Channels
<1>9. CASE ScanFails
  <2>1. last # scans
    BY <1>1, <1>2, <1>9 DEF ScanFails, LastCopied
  <2>2. last \in Succeeded' /\ Succeeded' = Succeeded \ {scans}
    BY <1>1, <1>9, <2>1 DEF ScanFails, Succeeded
  <2>3. LastCopied(last)'
    BY <1>1, <1>9, <2>2 DEF ScanFails, LastCopied
  <2>4. QED
    BY <2>2, <2>3 DEF CommandSplit
<1>10. CASE CopyOutput
  <2>1. Succeeded' = Succeeded /\ scans \in Succeeded
    BY <1>10 DEF CopyOutput, Succeeded, ScanUnderWay
  <2>2. \A n \in Succeeded : n <= last \/ n = scans
    BY <1>1 DEF LastCopied
  <2>3. \A k \in Channels :
          command'[k].copy = IF k < next \/ k = next THEN scans ELSE last
    BY <1>1, <1>10, CopyEffect DEF CopyOutput, LastCopied
  <2>4. CASE next < Outputs
    <3>1. LastCopied(last)'
      BY <1>1, <1>10, <2>1, <2>2, <2>3, <2>4 DEF CopyOutput, LastCopied
    <3>2. QED
      BY <2>1, <3>1 DEF CommandSplit
  <2>5. CASE ~(next < Outputs)
    <3>1. \A k \in Channels : k < next \/ k = next
      BY <2>5 DEF Channels, TypeOK
    <3>2. \A n \in Succeeded : n <= scans
      BY DEF Succeeded
    <3>3. LastCopied(scans)'
      BY <1>10, <2>1, <2>3, <2>5, <3>1, <3>2 DEF CopyOutput, LastCopied
    <3>4. QED
      BY <1>10, <2>1, <3>3 DEF CommandSplit, CopyOutput
  <2>6. QED
    BY <2>4, <2>5
<1>11. CASE UNCHANGED vars
  BY <1>1, <1>11 DEF vars, CommandSplit, LastCopied, Succeeded
<1>12. QED
  BY <1>3, <1>4, <1>5, <1>6, <1>7, <1>8, <1>9, <1>10, <1>11
     DEF Next, IoStep, ScriptStep

\* The pins are split at one output.
LEMMA PinsStep ==
  ASSUME IInv, [Next]_vars PROVE PinsSplit'
<1> USE ScanNumbers DEF IInv
<1>1. PICK k \in 0 .. Outputs : \E older, newer \in Succeeded : SplitAt(k, older, newer)
  BY DEF PinsSplit
<1>2. PICK older \in Succeeded, newer \in Succeeded : SplitAt(k, older, newer)
  BY <1>1
<1>3. older <= scans /\ newer <= scans
  BY DEF Succeeded
<1>4. ASSUME UNCHANGED <<pins, scans, failed>>, script' = "executing" => script = "executing"
      PROVE  PinsSplit'
  BY <1>2, <1>4 DEF PinsSplit, SplitAt, Succeeded
<1>5. CASE SetRunning BY <1>4, <1>5 DEF SetRunning
<1>6. CASE IoTick BY <1>4, <1>6 DEF IoTick
<1>7. CASE IoApply
  <2>1. PICK last \in Succeeded : LastCopied(last)
    BY DEF CommandSplit
  <2>2. Succeeded' = Succeeded /\ pins' = command /\ script' = script /\ scans' = scans
    BY <1>7 DEF IoApply, Succeeded
  <2>3. CASE script = "copying"
    <3>1. scans \in Succeeded /\ next - 1 \in 0 .. Outputs
      BY <2>3, OutputsAssumption DEF Succeeded, ScanUnderWay, TypeOK, Channels
    <3>2. \A j \in Channels : j <= next - 1 <=> j < next
      OBVIOUS
    <3>3. SplitAt(next - 1, last, scans)'
      BY <1>7, <2>1, <2>2, <2>3, <3>2 DEF SplitAt, LastCopied, IoApply
    <3>4. QED
      BY <1>7, <2>2, <3>1, <3>3 DEF PinsSplit, IoApply
  <2>4. CASE script # "copying"
    <3>1. SplitAt(0, last, last)'
      BY <2>1, <2>2, <2>4 DEF SplitAt, LastCopied, Channels
    <3>2. QED
      BY <2>2, <3>1 DEF PinsSplit
  <2>5. QED
    BY <2>3, <2>4
<1>8. CASE ScanBegin
  <2>1. /\ older \in Succeeded' /\ newer \in Succeeded'
        /\ \A n \in Succeeded' : n \in Succeeded \/ n = scans + 1
    BY <1>3, <1>8 DEF ScanBegin, Succeeded, TypeOK
  <2>2. SplitAt(k, older, newer)'
    BY <1>2, <1>3, <1>8, <2>1 DEF ScanBegin, SplitAt
  <2>3. QED
    BY <2>1, <2>2 DEF PinsSplit
<1>9. ASSUME NEW c \in Channels, ScanWrites(c) PROVE PinsSplit'
  BY <1>4, <1>9 DEF ScanWrites
<1>10. CASE ScanSucceeds BY <1>4, <1>10 DEF ScanSucceeds
<1>11. CASE ScanFails
  <2>1. older # scans /\ newer # scans
    BY <1>2, <1>11 DEF ScanFails, SplitAt
  <2>2. Succeeded' = Succeeded \ {scans}
    BY <1>11 DEF ScanFails, Succeeded
  <2>3. SplitAt(k, older, newer)'
    BY <1>2, <1>11, <2>2 DEF ScanFails, SplitAt
  <2>4. QED
    BY <2>1, <2>2, <2>3 DEF PinsSplit
<1>12. CASE CopyOutput BY <1>4, <1>12 DEF CopyOutput
<1>13. CASE UNCHANGED vars BY <1>4, <1>13 DEF vars
<1>14. QED
  BY <1>5, <1>6, <1>7, <1>8, <1>9, <1>10, <1>11, <1>12, <1>13
     DEF Next, IoStep, ScriptStep

\* Neither do_cmd nor the pins show a failed scan.
LEMMA HeldBackStep ==
  ASSUME IInv, [Next]_vars PROVE HeldBack(command)' /\ HeldBack(pins)'
<1> USE ScanNumbers DEF IInv, HeldBack
<1>1. CASE SetRunning BY <1>1 DEF SetRunning
<1>2. CASE IoTick BY <1>2 DEF IoTick
<1>3. CASE IoApply BY <1>3 DEF IoApply
<1>4. CASE ScanBegin BY <1>4 DEF ScanBegin
<1>5. ASSUME NEW k \in Channels, ScanWrites(k) PROVE HeldBack(command)' /\ HeldBack(pins)'
  BY <1>5 DEF ScanWrites
<1>6. CASE ScanSucceeds BY <1>6 DEF ScanSucceeds
<1>7. CASE ScanFails
  <2>1. PICK last \in Succeeded : LastCopied(last)
    BY DEF CommandSplit
  <2>2. \A k \in Channels : command[k].copy < scans
    BY <1>7, <2>1 DEF ScanFails, LastCopied
  <2>3. \A k \in Channels : /\ command[k].writer < scans
                            /\ pins[k].copy < scans /\ pins[k].writer < scans
    BY <2>2 DEF Flow
  <2>4. UNCHANGED <<command, pins>> /\ failed' = failed \cup {scans}
    BY <1>7 DEF ScanFails
  <2>5. QED
    BY <2>2, <2>3, <2>4
<1>8. CASE CopyOutput
  <2>1. scans \notin failed
    BY <1>8 DEF CopyOutput, ScanUnderWay
  <2>2. q[next] \in failed => scans > q[next]
    BY <2>1, CopyEffect, <1>8 DEF Flow
  <2>3. QED
    BY <1>8, <2>1, <2>2, CopyEffect
<1>9. CASE UNCHANGED vars BY <1>9 DEF vars
<1>10. QED
  BY <1>1, <1>2, <1>3, <1>4, <1>5, <1>6, <1>7, <1>8, <1>9
     DEF Next, IoStep, ScriptStep

LEMMA Inductive == Spec => []IInv
<1>1. IInv /\ [Next]_vars => IInv'
  BY TypeStep, UnderWayStep, FlowStep, CommandStep, PinsStep, HeldBackStep DEF IInv
<1>2. QED
  BY InitInvariant, <1>1, PTL DEF Spec

-----------------------------------------------------------------------------
\* Type correctness of the state of the output image.
THEOREM TypeCorrect == Spec => []TypeOK
<1>1. IInv => TypeOK
  BY DEF IInv
<1>2. QED
  BY <1>1, Inductive, PTL

\* plc_scan_task may preempt copy_outputs_from_script_globals anywhere, and
\* yet the pins show two consecutive copies at most, split at one output.
THEOREM SplitBounded == Spec => []SplitOfTwoCopies
<1>1. IInv => SplitOfTwoCopies
  <2> SUFFICES ASSUME IInv PROVE SplitOfTwoCopies
    OBVIOUS
  <2>1. PICK k \in 0 .. Outputs : \E older, newer \in Succeeded : SplitAt(k, older, newer)
    BY DEF IInv, PinsSplit
  <2>2. QED
    BY <2>1 DEF SplitAt, SplitOfTwoCopies
<1>2. QED
  BY <1>1, Inductive, PTL

\* script_engine_run_scan keeps the outputs of a scan that ends in an
\* exception from the pins until a later scan succeeds.
THEOREM FailureHeldBack == Spec => []FailedScanHeldBack
<1>1. IInv => FailedScanHeldBack
  BY DEF IInv, HeldBack, FailedScanHeldBack
<1>2. QED
  BY <1>1, Inductive, PTL

\* plc_io_apply_outputs never drives a pin back to an older level.
THEOREM PinsAdvance == Spec => PinsNeverGoBack
<1>1. IInv /\ [Next]_vars
        => [\A k \in Channels : /\ pins'[k].copy >= pins[k].copy
                                /\ pins'[k].writer >= pins[k].writer]_vars
  <2> SUFFICES ASSUME IInv, Next
               PROVE  \A k \in Channels : /\ pins'[k].copy >= pins[k].copy
                                          /\ pins'[k].writer >= pins[k].writer
    OBVIOUS
  <2> USE ScanNumbers DEF IInv
  <2>1. CASE IoApply
    BY <2>1 DEF IoApply, Flow
  <2>2. CASE ~IoApply
    <3>1. pins' = pins
      BY <2>2 DEF Next, IoStep, ScriptStep, SetRunning, IoTick, ScanBegin,
                  ScanWrites, ScanSucceeds, ScanFails, CopyOutput
    <3>2. QED
      BY <3>1
  <2>3. QED
    BY <2>1, <2>2
<1>2. QED
  BY <1>1, Inductive, PTL DEF Spec, PinsNeverGoBack

=============================================================================
