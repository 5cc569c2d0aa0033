---------------------------- MODULE ScriptEngine ----------------------------
(***************************************************************************)
(* Online replacement of the control program (src/main/script_engine.cpp). *)
(*                                                                         *)
(* Five tasks share the program slots:                                     *)
(*   - the HTTP server task, which accepts an upload, claims the compiler  *)
(*     and queues a job (it is one task, so its handlers never overlap);   *)
(*   - script_compile_task, which builds the job into a second engine and  *)
(*     publishes it in the pending slot;                                   *)
(*   - script_scan_task, which executes the active program and swaps the   *)
(*     pending one in at the end of a scan;                                *)
(*   - script_cleanup_task, which destroys retired programs;               *)
(*   - plc_data_cache_task (src/main/ethernet_web.c), which only reads the *)
(*     name of the active program, but holds g_program_mutex to do so.     *)
(*                                                                         *)
(* A program is named by the number of the upload it was compiled from.    *)
(* The two script-name buffers hold the number of the upload whose file    *)
(* name was copied into them.  A critical section of g_program_mutex is    *)
(* two steps, take and give, so that a take with a timeout can find it     *)
(* held.                                                                   *)
(***************************************************************************)
EXTENDS Naturals, Sequences, FiniteSets

CONSTANTS
  MaxUploads,     \* bound: upload requests whose body was received
  RetiredDepth,   \* depth of g_retired_queue
  UpdateModes,    \* script update modes the settings page can select
  SwapIsBrief     \* timing assumption, see CompilerBegin

AllUpdateModes == {"pauseDuringCompile", "stopBeforeCompile", "onlineHotSwap"}

ASSUME ScriptEngineAssumption ==
  /\ MaxUploads \in Nat
  /\ RetiredDepth \in Nat \ {0}
  /\ UpdateModes \subseteq AllUpdateModes
  /\ UpdateModes # {}
  /\ SwapIsBrief \in BOOLEAN

VARIABLES
  uploads,        \* upload bodies received so far
  overtook,       \* history: the last claim of the compiler, or one since the
                  \*   pending program was published, was queued although a
                  \*   program was pending, the cache task holding the mutex
  running,        \* g_plc_runtime_enabled: operator mode RUN
  updateMode,     \* g_script_update_mode
  compileBusy,    \* g_compile_busy
  state,          \* g_state, the compile state shown to clients
  compileQueue,   \* g_compile_queue, at most one job
  pauseCompile,   \* g_pause_script_for_compile
  pauseRuntime,   \* g_pause_script_for_runtime_update
  pending,        \* g_pending_program
  pendingName,    \* g_pending_script_name
  active,         \* g_active_program
  activeName,     \* g_active_script_name
  generation,     \* g_generation
  retiredQueue,   \* g_retired_queue
  destroyed,      \* programs deleted by the cleanup task
  leaked,         \* programs given up because g_retired_queue was full
  mutex,          \* holder of g_program_mutex
  web,            \* program counter of the HTTP server task
  compiler,       \* program counter of script_compile_task
  job,            \* upload the compile task works on
  jobMode,        \* update mode it read when it began (a local)
  scan,           \* program counter of script_scan_task
  scanPaused,     \* the local "paused" of the current scan
  cleaning        \* program the cleanup task is about to delete

uploadVars   == <<uploads, overtook>>
webVars      == <<uploadVars, web>>
requestVars  == <<compileBusy, state, compileQueue>>
slotVars     == <<pending, pendingName, active, activeName, generation>>
retireVars   == <<retiredQueue, destroyed, leaked, cleaning>>
compilerVars == <<compiler, job, jobMode>>
scanVars     == <<scan, scanPaused>>
pauseVars    == <<pauseCompile, pauseRuntime>>
modeVars     == <<running, updateMode>>

vars == <<webVars, requestVars, slotVars, retireVars, compilerVars, scanVars,
          pauseVars, modeVars, mutex>>

None == 0
Programs == 1 .. MaxUploads
MaybeProgram == Programs \cup {None}

WebSteps      == {"idle", "reading", "probing", "receiving", "claimed",
                  "rechecking", "queueing", "sent", "updating"}
CompilerSteps == {"idle", "deferred", "building", "publishing", "slotHeld",
                  "naming", "nameHeld", "finishing", "failed"}
ScanSteps     == {"idle", "gated", "executing", "boundary", "swapping",
                  "lifting"}
CompileStates == {"idle", "queued", "compiling", "ok", "failed", "queueFull"}

Elements(s) == {s[i] : i \in 1 .. Len(s)}

Init ==
  /\ uploads = 0
  /\ overtook = FALSE
  /\ running = TRUE
  /\ updateMode \in UpdateModes
  /\ compileBusy = FALSE
  /\ state = "idle"
  /\ compileQueue = << >>
  /\ pauseCompile = FALSE
  /\ pauseRuntime = FALSE
  /\ pending = None
  /\ pendingName = None
  /\ active = None
  /\ activeName = None
  /\ generation = 0
  /\ retiredQueue = << >>
  /\ destroyed = {}
  /\ leaked = {}
  /\ mutex = "free"
  /\ web = "idle"
  /\ compiler = "idle"
  /\ job = None
  /\ jobMode = "none"
  /\ scan = "idle"
  /\ scanPaused = FALSE
  /\ cleaning = None

-----------------------------------------------------------------------------
(***************************************************************************)
(* g_program_mutex                                                         *)
(***************************************************************************)
Take(task) == mutex = "free" /\ mutex' = task
Give       == mutex' = "free"

-----------------------------------------------------------------------------
(***************************************************************************)
(* The HTTP server task                                                    *)
(***************************************************************************)

\* script_engine_can_accept_upload: an upload is refused, with nothing
\* changed, while the compiler is busy.  pdMS_TO_TICKS(2) is 0 at the 100 Hz
\* tick rate, so a held mutex skips the look at the pending slot.
WebBeginUpload ==
  /\ web = "idle"
  /\ uploads < MaxUploads
  /\ ~compileBusy
  /\ IF mutex = "free"
     THEN web' = "probing" /\ mutex' = "web"
     ELSE web' = "receiving" /\ UNCHANGED mutex
  /\ UNCHANGED <<uploadVars, requestVars, slotVars, retireVars, compilerVars,
                 scanVars, pauseVars, modeVars>>

\* ... and is refused when a compiled program waits for activation.
WebProbePending ==
  /\ web = "probing"
  /\ Give
  /\ web' = IF pending # None THEN "idle" ELSE "receiving"
  /\ UNCHANGED <<uploadVars, requestVars, slotVars, retireVars, compilerVars,
                 scanVars, pauseVars, modeVars>>

\* The body is lost, or the file name is not acceptable.
WebAbortUpload ==
  /\ web = "receiving"
  /\ web' = "idle"
  /\ UNCHANGED <<uploadVars, requestVars, slotVars, retireVars, compilerVars,
                 scanVars, pauseVars, modeVars, mutex>>

\* script_engine_submit_compile_text: compare-exchange on g_compile_busy.
WebClaimCompiler ==
  /\ web = "receiving"
  /\ uploads' = uploads + 1
  /\ IF compileBusy
     THEN /\ web' = "idle"
          /\ state' = "queueFull"
          /\ UNCHANGED <<compileBusy, overtook>>
     ELSE /\ web' = "claimed"
          /\ compileBusy' = TRUE
          /\ overtook' = (overtook /\ pending # None)
          /\ UNCHANGED state
  /\ UNCHANGED <<compileQueue, slotVars, retireVars, compilerVars, scanVars,
                 pauseVars, modeVars, mutex>>

WebRecheckTake ==
  /\ web = "claimed"
  /\ Take("web")
  /\ web' = "rechecking"
  /\ UNCHANGED <<uploadVars, requestVars, slotVars, retireVars, compilerVars,
                 scanVars, pauseVars, modeVars>>

\* The 10 ms wait for the mutex runs out: the check is skipped.
WebRecheckTimeout ==
  /\ web = "claimed"
  /\ mutex # "free"
  /\ web' = "queueing"
  /\ overtook' = (overtook \/ (mutex = "cache" /\ pending # None))
  /\ UNCHANGED <<uploads, requestVars, slotVars, retireVars, compilerVars,
                 scanVars, pauseVars, modeVars, mutex>>

WebRecheckPending ==
  /\ web = "rechecking"
  /\ Give
  /\ IF pending # None
     THEN /\ web' = "idle"
          /\ compileBusy' = FALSE
          /\ state' = "queueFull"
     ELSE /\ web' = "queueing"
          /\ UNCHANGED <<compileBusy, state>>
  /\ UNCHANGED <<uploadVars, compileQueue, slotVars, retireVars, compilerVars,
                 scanVars, pauseVars, modeVars>>

\* An allocation failure that forgets to release g_compile_busy.
WebOutOfMemoryKeepsClaim ==
  /\ web = "queueing"
  /\ web' = "idle"
  /\ UNCHANGED <<uploadVars, requestVars, slotVars, retireVars, compilerVars,
                 scanVars, pauseVars, modeVars, mutex>>

\* alloc_script_buffer_psram found no memory for the copy.
WebOutOfMemory ==
  /\ web = "queueing"
  /\ web' = "idle"
  /\ compileBusy' = FALSE
  /\ UNCHANGED <<uploadVars, state, compileQueue, slotVars, retireVars,
                 compilerVars, scanVars, pauseVars, modeVars, mutex>>

WebSendJob ==
  /\ web = "queueing"
  /\ IF Len(compileQueue) < 1
     THEN /\ web' = "sent"
          /\ compileQueue' = Append(compileQueue, uploads)
          /\ UNCHANGED <<compileBusy, state>>
     ELSE /\ web' = "idle"
          /\ compileBusy' = FALSE
          /\ state' = "queueFull"
          /\ UNCHANGED compileQueue
  /\ UNCHANGED <<uploadVars, slotVars, retireVars, compilerVars, scanVars,
                 pauseVars, modeVars, mutex>>

\* The state is stored after the send; by now the compile task, which has
\* the higher priority, may have moved on.
WebAcknowledge ==
  /\ web = "sent"
  /\ web' = "idle"
  /\ state' = "queued"
  /\ UNCHANGED <<uploadVars, compileBusy, compileQueue, slotVars, retireVars,
                 compilerVars, scanVars, pauseVars, modeVars, mutex>>

\* Status handlers copy the names and the pending flag under the mutex.
WebReadStatus ==
  /\ web = "idle"
  /\ Take("web")
  /\ web' = "reading"
  /\ UNCHANGED <<uploadVars, requestVars, slotVars, retireVars, compilerVars,
                 scanVars, pauseVars, modeVars>>

WebStatusRead ==
  /\ web = "reading"
  /\ Give
  /\ web' = "idle"
  /\ UNCHANGED <<uploadVars, requestVars, slotVars, retireVars, compilerVars,
                 scanVars, pauseVars, modeVars>>

\* The operator selects RUN or STOP.
WebSetPlcMode ==
  /\ web = "idle"
  /\ running' = ~running
  /\ UNCHANGED <<webVars, updateMode, requestVars, slotVars, retireVars,
                 compilerVars, scanVars, pauseVars, mutex>>

\* script_engine_set_update_mode, from the script settings page.
WebSetUpdateMode ==
  /\ web = "idle"
  /\ updateMode' \in UpdateModes
  /\ UNCHANGED <<webVars, running, requestVars, slotVars, retireVars,
                 compilerVars, scanVars, pauseVars, mutex>>

\* A tag registry upload pauses the script task around its update of the
\* table: script_engine_pause_for_runtime_update ...
WebPauseForTags ==
  /\ web = "idle"
  /\ web' = "updating"
  /\ pauseRuntime' = TRUE
  /\ UNCHANGED <<uploadVars, pauseCompile, requestVars, slotVars, retireVars,
                 compilerVars, scanVars, modeVars, mutex>>

\* ... and script_engine_resume_after_runtime_update.
WebResumeAfterTags ==
  /\ web = "updating"
  /\ web' = "idle"
  /\ pauseRuntime' = FALSE
  /\ UNCHANGED <<uploadVars, pauseCompile, requestVars, slotVars, retireVars,
                 compilerVars, scanVars, modeVars, mutex>>

-----------------------------------------------------------------------------
(***************************************************************************)
(* script_compile_task                                                     *)
(***************************************************************************)
\* A compile task that releases g_compile_busy when it has taken the job.
CompilerReceiveAndRelease ==
  /\ compiler = "idle"
  /\ compileQueue # << >>
  /\ compiler' = "deferred"
  /\ job' = Head(compileQueue)
  /\ compileQueue' = Tail(compileQueue)
  /\ state' = "compiling"
  /\ compileBusy' = FALSE
  /\ UNCHANGED <<webVars, jobMode, slotVars, retireVars, scanVars, pauseVars,
                 modeVars, mutex>>

CompilerReceive ==
  /\ compiler = "idle"
  /\ compileQueue # << >>
  /\ compiler' = "deferred"
  /\ job' = Head(compileQueue)
  /\ compileQueue' = Tail(compileQueue)
  /\ state' = "compiling"
  /\ UNCHANGED <<webVars, compileBusy, jobMode, slotVars, retireVars, scanVars,
                 pauseVars, modeVars, mutex>>

\* After SCRIPT_COMPILE_DEFER_TICKS the update mode is read once, for the whole
\* job.  SwapIsBrief says that the deferral outlasts a swap that was in
\* progress when the job was queued: a few assignments and a log line against
\* two ticks of 10 ms.
CompilerBegin ==
  /\ compiler = "deferred"
  /\ SwapIsBrief => scan \notin {"swapping", "lifting"}
  /\ compiler' = "building"
  /\ jobMode' = updateMode
  /\ running' = (running /\ updateMode # "stopBeforeCompile")
  /\ pauseCompile' = (updateMode = "pauseDuringCompile")
  /\ UNCHANGED <<webVars, requestVars, slotVars, retireVars, job, scanVars,
                 pauseRuntime, updateMode, mutex>>

\* A compile task that releases g_compile_busy before it publishes.
CompilerBuildAndRelease ==
  /\ compiler = "building"
  /\ compiler' \in {"publishing", "failed"}
  /\ compileBusy' = FALSE
  /\ UNCHANGED <<webVars, state, compileQueue, slotVars, retireVars, job,
                 jobMode, scanVars, pauseVars, modeVars, mutex>>

\* ScriptProgram::compile succeeds or reports an error.
CompilerBuild ==
  /\ compiler = "building"
  /\ compiler' \in {"publishing", "failed"}
  /\ UNCHANGED <<webVars, requestVars, slotVars, retireVars, job, jobMode,
                 scanVars, pauseVars, modeVars, mutex>>

CompilerTakeSlot ==
  /\ compiler = "publishing"
  /\ Take("compiler")
  /\ compiler' = "slotHeld"
  /\ UNCHANGED <<webVars, requestVars, slotVars, retireVars, job, jobMode,
                 scanVars, pauseVars, modeVars>>

\* compile_to_pending: an occupied slot makes the compile fail.
CompilerPublish ==
  /\ compiler = "slotHeld"
  /\ Give
  /\ IF pending # None
     THEN compiler' = "failed" /\ UNCHANGED pending
     ELSE compiler' = "naming" /\ pending' = job
  /\ UNCHANGED <<webVars, requestVars, pendingName, active, activeName,
                 generation, retireVars, job, jobMode, scanVars, pauseVars,
                 modeVars>>

\* The name of the pending program is stored by a second critical section,
\* after the status text and the log line ...
CompilerTakeName ==
  /\ compiler = "naming"
  /\ Take("compiler")
  /\ compiler' = "nameHeld"
  /\ UNCHANGED <<webVars, requestVars, slotVars, retireVars, job, jobMode,
                 scanVars, pauseVars, modeVars>>

\* ... whose 20 ms wait for the mutex can run out, which skips it.
CompilerNameTimeout ==
  /\ compiler = "naming"
  /\ mutex # "free"
  /\ compiler' = "finishing"
  /\ UNCHANGED <<webVars, requestVars, slotVars, retireVars, job, jobMode,
                 scanVars, pauseVars, modeVars, mutex>>

CompilerStoreName ==
  /\ compiler = "nameHeld"
  /\ Give
  /\ compiler' = "finishing"
  /\ pendingName' = job
  /\ UNCHANGED <<webVars, requestVars, pending, active, activeName, generation,
                 retireVars, job, jobMode, scanVars, pauseVars, modeVars>>

\* A compile task that lifts the pause on success, as it does on failure.
CompilerSucceedAndUnpause ==
  /\ compiler = "finishing"
  /\ compiler' = "idle"
  /\ job' = None
  /\ state' = "ok"
  /\ compileBusy' = FALSE
  /\ pauseCompile' = FALSE
  /\ UNCHANGED <<webVars, compileQueue, jobMode, slotVars, retireVars,
                 scanVars, pauseRuntime, modeVars, mutex>>

CompilerSucceed ==
  /\ compiler = "finishing"
  /\ compiler' = "idle"
  /\ job' = None
  /\ state' = "ok"
  /\ compileBusy' = FALSE
  /\ UNCHANGED <<webVars, compileQueue, jobMode, slotVars, retireVars,
                 scanVars, pauseVars, modeVars, mutex>>

\* A failed job lifts the pause it set.
CompilerFail ==
  /\ compiler = "failed"
  /\ compiler' = "idle"
  /\ job' = None
  /\ state' = "failed"
  /\ compileBusy' = FALSE
  /\ pauseCompile' = (pauseCompile /\ jobMode # "pauseDuringCompile")
  /\ UNCHANGED <<webVars, compileQueue, jobMode, slotVars, retireVars,
                 scanVars, pauseRuntime, modeVars, mutex>>

-----------------------------------------------------------------------------
(***************************************************************************)
(* script_scan_task                                                        *)
(***************************************************************************)

\* A scan trigger arrives; triggers come in RUN only, and RUN is looked at
\* again before script_engine_run_scan is called.
ScanBegin ==
  /\ scan = "idle"
  /\ running
  /\ scan' = "gated"
  /\ UNCHANGED <<webVars, requestVars, slotVars, retireVars, compilerVars,
                 scanPaused, pauseVars, modeVars, mutex>>

\* script_engine_run_scan looks at the two pause flags once, and executes the
\* active program if there is one.
ScanSamplePause ==
  /\ scan = "gated"
  /\ scanPaused' = (pauseCompile \/ pauseRuntime)
  /\ scan' = IF scanPaused' \/ active = None THEN "boundary" ELSE "executing"
  /\ UNCHANGED <<webVars, requestVars, slotVars, retireVars, compilerVars,
                 pauseVars, modeVars, mutex>>

\* Scan() of the active program ends, normally or with an exception.
ScanEndExecution ==
  /\ scan = "executing"
  /\ scan' = "boundary"
  /\ UNCHANGED <<webVars, requestVars, slotVars, retireVars, compilerVars,
                 scanPaused, pauseVars, modeVars, mutex>>

ScanTakeBoundary ==
  /\ scan = "boundary"
  /\ Take("scan")
  /\ scan' = "swapping"
  /\ UNCHANGED <<webVars, requestVars, slotVars, retireVars, compilerVars,
                 scanPaused, pauseVars, modeVars>>

\* xSemaphoreTake(g_program_mutex, 0) finds the mutex held.
ScanSkipBoundary ==
  /\ scan = "boundary"
  /\ mutex # "free"
  /\ scan' = "idle"
  /\ UNCHANGED <<webVars, requestVars, slotVars, retireVars, compilerVars,
                 scanPaused, pauseVars, modeVars, mutex>>

\* A retired slot without its null check.
RetireWithoutNullCheck(program) ==
  IF Len(retiredQueue) < RetiredDepth
  THEN retiredQueue' = Append(retiredQueue, program) /\ UNCHANGED leaked
  ELSE leaked' = leaked \cup {program} /\ UNCHANGED retiredQueue

\* A full queue that loses its oldest entry to the retired program.
RetireOverOldest(program) ==
  /\ retiredQueue' = IF program = None THEN retiredQueue
                     ELSE Append(IF Len(retiredQueue) < RetiredDepth
                                 THEN retiredQueue ELSE Tail(retiredQueue),
                                 program)
  /\ UNCHANGED leaked

\* queue_retired_program_for_cleanup: a full queue leaks the program.
Retire(program) ==
  IF program = None \/ Len(retiredQueue) < RetiredDepth
  THEN /\ retiredQueue' = IF program = None THEN retiredQueue
                          ELSE Append(retiredQueue, program)
       /\ UNCHANGED leaked
  ELSE /\ leaked' = leaked \cup {program}
       /\ UNCHANGED retiredQueue

\* A swap that leaves the program in the pending slot.
ScanSwapKeepsPending ==
  /\ scan = "swapping"
  /\ Give
  /\ scan' = "idle"
  /\ pending # None
  /\ Retire(active)
  /\ active' = pending
  /\ activeName' = pendingName
  /\ generation' = generation + 1
  /\ UNCHANGED <<pending, pendingName, webVars, requestVars, destroyed, cleaning,
                 compilerVars, scanPaused, pauseVars, modeVars>>

\* A paused scan that only gives the mutex back.
ScanSwapUnlessPaused ==
  /\ scan = "swapping"
  /\ Give
  /\ scan' = "idle"
  /\ IF pending # None /\ ~scanPaused
     THEN /\ Retire(active)
          /\ active' = pending
          /\ activeName' = pendingName
          /\ pending' = None
          /\ pendingName' = None
          /\ generation' = generation + 1
     ELSE UNCHANGED <<slotVars, retiredQueue, leaked>>
  /\ UNCHANGED <<webVars, requestVars, destroyed, cleaning, compilerVars,
                 scanPaused, pauseVars, modeVars>>

\* The pending program, if any, becomes the active one.
ScanSwap ==
  /\ scan = "swapping"
  /\ Give
  /\ scan' = IF pending # None /\ scanPaused THEN "lifting" ELSE "idle"
  /\ IF pending # None
     THEN /\ Retire(active)
          /\ active' = pending
          /\ activeName' = pendingName
          /\ pending' = None
          /\ pendingName' = None
          /\ generation' = generation + 1
     ELSE UNCHANGED <<slotVars, retiredQueue, leaked>>
  /\ UNCHANGED <<webVars, requestVars, destroyed, cleaning, compilerVars,
                 scanPaused, pauseVars, modeVars>>

\* A lift of every pause, the runtime update's too.
ScanLiftBothPauses ==
  /\ scan = "lifting"
  /\ scan' = "idle"
  /\ pauseCompile' = FALSE
  /\ pauseRuntime' = FALSE
  /\ UNCHANGED <<webVars, requestVars, slotVars, retireVars, compilerVars,
                 scanPaused, modeVars, mutex>>

\* The compile pause is lifted after the mutex is given, and only by a scan
\* that was itself paused, whichever pause it saw.
ScanLiftPause ==
  /\ scan = "lifting"
  /\ scan' = "idle"
  /\ pauseCompile' = FALSE
  /\ UNCHANGED <<webVars, requestVars, slotVars, retireVars, compilerVars,
                 scanPaused, pauseRuntime, modeVars, mutex>>

-----------------------------------------------------------------------------
(***************************************************************************)
(* script_cleanup_task                                                     *)
(***************************************************************************)
\* A cleanup that waits for STOP.
CleanerReceiveInStop ==
  /\ ~running
  /\ cleaning = None
  /\ retiredQueue # << >>
  /\ cleaning' = Head(retiredQueue)
  /\ retiredQueue' = Tail(retiredQueue)
  /\ UNCHANGED <<webVars, requestVars, slotVars, destroyed, leaked,
                 compilerVars, scanVars, pauseVars, modeVars, mutex>>

CleanerReceive ==
  /\ cleaning = None
  /\ retiredQueue # << >>
  /\ cleaning' = Head(retiredQueue)
  /\ retiredQueue' = Tail(retiredQueue)
  /\ UNCHANGED <<webVars, requestVars, slotVars, destroyed, leaked,
                 compilerVars, scanVars, pauseVars, modeVars, mutex>>

CleanerDestroy ==
  /\ cleaning # None
  /\ destroyed' = destroyed \cup {cleaning}
  /\ cleaning' = None
  /\ UNCHANGED <<webVars, requestVars, slotVars, retiredQueue, leaked,
                 compilerVars, scanVars, pauseVars, modeVars, mutex>>

-----------------------------------------------------------------------------
(***************************************************************************)
(* plc_data_cache_task                                                     *)
(***************************************************************************)
\* Each build of the values asks for the name of the active program,
\* script_engine_get_active_script_name.  Its wait of 2 ms is none at the
\* 100 Hz tick: a held mutex gives an empty name.  The task has a very low
\* priority, so it can be preempted for long while it holds the mutex.
CacheTakeName ==
  /\ Take("cache")
  /\ UNCHANGED <<webVars, requestVars, slotVars, retireVars, compilerVars,
                 scanVars, pauseVars, modeVars>>

CacheNameRead ==
  /\ mutex = "cache"
  /\ Give
  /\ UNCHANGED <<webVars, requestVars, slotVars, retireVars, compilerVars,
                 scanVars, pauseVars, modeVars>>

-----------------------------------------------------------------------------
\* The steps that finish what the HTTP task has begun.
WebFinish ==
  \/ WebProbePending \/ WebRecheckTake \/ WebRecheckTimeout
  \/ WebRecheckPending \/ WebOutOfMemory \/ WebSendJob \/ WebAcknowledge
  \/ WebStatusRead \/ WebResumeAfterTags

WebRequest ==
  \/ WebBeginUpload \/ WebAbortUpload \/ WebClaimCompiler \/ WebReadStatus
  \/ WebSetPlcMode \/ WebSetUpdateMode \/ WebPauseForTags

CompilerStep ==
  \/ CompilerReceive \/ CompilerBegin \/ CompilerBuild \/ CompilerTakeSlot
  \/ CompilerPublish \/ CompilerTakeName \/ CompilerNameTimeout
  \/ CompilerStoreName \/ CompilerSucceed \/ CompilerFail

ScanStep ==
  \/ ScanBegin \/ ScanSamplePause \/ ScanEndExecution \/ ScanTakeBoundary
  \/ ScanSkipBoundary \/ ScanSwap \/ ScanLiftPause

CleanerStep == CleanerReceive \/ CleanerDestroy

CacheStep == CacheTakeName \/ CacheNameRead

Next ==
  \/ WebRequest \/ WebFinish \/ CompilerStep \/ ScanStep \/ CleanerStep
  \/ CacheStep

\* Every task keeps running: the scheduler starves none of them for ever, and
\* a script that is executed ends.  Requests are never obliged to arrive.  The
\* compile task waits for the mutex without a timeout and FreeRTOS wakes a
\* waiter when the mutex is given, hence strong fairness for that take; the
\* deferral ends although scans go on, hence strong fairness for CompilerBegin.
Fairness ==
  /\ WF_vars(WebFinish)
  /\ WF_vars(CompilerStep)
  /\ SF_vars(CompilerBegin)
  /\ SF_vars(CompilerTakeSlot)
  /\ WF_vars(ScanStep)
  /\ WF_vars(CleanerStep)
  /\ WF_vars(CacheNameRead)

Spec == Init /\ [][Next]_vars /\ Fairness

-----------------------------------------------------------------------------
(***************************************************************************)
(* Properties.  The definitions above whose comment describes a fault      *)
(* ("A swap that leaves ...") are faulty variants of the action that       *)
(* follows them; the model does not use them.  They show that the          *)
(* properties below tell the code from code with that fault.               *)
(***************************************************************************)

\* The type invariant.
TypeOK ==
  /\ uploads \in 0 .. MaxUploads
  /\ overtook \in BOOLEAN
  /\ running \in BOOLEAN
  /\ updateMode \in UpdateModes
  /\ compileBusy \in BOOLEAN
  /\ state \in CompileStates
  /\ compileQueue \in Seq(Programs)
  /\ pauseCompile \in BOOLEAN
  /\ pauseRuntime \in BOOLEAN
  /\ pending \in MaybeProgram
  /\ pendingName \in MaybeProgram
  /\ active \in MaybeProgram
  /\ activeName \in MaybeProgram
  /\ generation \in Nat
  /\ retiredQueue \in Seq(Programs)
  /\ destroyed \subseteq Programs
  /\ leaked \subseteq Programs
  /\ mutex \in {"free", "web", "compiler", "scan", "cache"}
  /\ web \in WebSteps
  /\ compiler \in CompilerSteps
  /\ job \in MaybeProgram
  /\ jobMode \in UpdateModes \cup {"none"}
  /\ scan \in ScanSteps
  /\ scanPaused \in BOOLEAN
  /\ cleaning \in MaybeProgram


\* Single flight (script_engine_submit_compile_text, the preflight's promise
\* that compile jobs cannot pile up): g_compile_busy is true exactly while one
\* job is claimed by the HTTP task, waiting in the queue or with the compile
\* task, and there is never a second one.
WebHoldsJob == web \in {"claimed", "rechecking", "queueing"}

JobsInFlight ==
  (IF WebHoldsJob THEN 1 ELSE 0) + Len(compileQueue)
    + (IF compiler # "idle" THEN 1 ELSE 0)

SingleFlight == JobsInFlight = (IF compileBusy THEN 1 ELSE 0)

\* A program that was accepted and compiled finds the pending slot free
\* (compile_to_pending), unless its upload overtook the pending program while
\* the cache task held the mutex.  Both looks at the slot before the job is
\* queued are skipped when the mutex is held, so the claim is that a skipped
\* look is harmless when the scan task or the compile task holds it, and that
\* the look itself is not too early.
CompiledProgramFindsSlotFree ==
  compiler = "slotHeld" /\ pending # None => overtook

\* Program ownership: no program is in two places, so the cleanup task deletes
\* neither the program a scan executes nor the one about to be activated, and
\* deletes none twice.
Discarded ==
  Elements(retiredQueue) \cup destroyed \cup leaked
    \cup (IF cleaning = None THEN {} ELSE {cleaning})

ProgramsOwnedOnce ==
  /\ active \notin Discarded
  /\ pending \notin Discarded
  /\ pending # None => pending # active
  /\ \A i, j \in 1 .. Len(retiredQueue) :
       retiredQueue[i] = retiredQueue[j] => i = j
  /\ Elements(retiredQueue) \cap destroyed = {}
  /\ cleaning # None => cleaning \notin destroyed \cup Elements(retiredQueue)
  /\ leaked \cap (destroyed \cup Elements(retiredQueue) \cup {cleaning}) = {}

\* The abstract specification this module implements: what has become of each
\* program, read from the two slots, the queue and the cleanup task.
Phase == [p \in Programs |->
  CASE p = pending                                       -> "pending"
    [] p = active                                        -> "active"
    [] p \in Elements(retiredQueue) \/ p = cleaning      -> "retired"
    [] p \in destroyed                                   -> "destroyed"
    [] p \in leaked                                      -> "leaked"
    [] OTHER                                             -> "unused"]

Lifecycle == INSTANCE ProgramLifecycle WITH phase <- Phase

\* Online replacement as a whole (compile_to_pending, script_engine_run_scan,
\* queue_retired_program_for_cleanup, script_cleanup_task): whatever the tasks
\* interleave, each program is published, activated, retired and destroyed
\* once and in the order of the uploads, and none is leaked while the retired
\* queue has room.
ImplementsLifecycle == Lifecycle!Spec

\* Pause during compile (the comment on g_pause_script_for_compile, and
\* "avoids running one more old-program scan after compile"): from the moment
\* the compile task has begun a job in that mode until its program is active
\* or the compile has failed, no scan starts to execute the old program -
\* unless an upload overtook a pending program: the failure of the second job,
\* or the activation of the first program, then lifts the pause of the other.
PausedJobOpen ==
  /\ jobMode = "pauseDuringCompile"
  /\ \/ compiler \in {"building", "publishing", "slotHeld"}
     \/ pending # None

NoOldScanWhilePaused ==
  [][(scan = "gated" /\ scan' = "executing") => ~PausedJobOpen \/ overtook]_vars

\* Runtime update pause (script_engine_pause_for_runtime_update): no scan
\* starts to execute while a tag registry upload updates the table, and the
\* end of a compile or an activation does not lift that pause.
NoScanDuringTagUpdate ==
  [][(scan = "gated" /\ scan' = "executing") => web # "updating"]_vars

\* An upload that claimed the compiler releases it: a failed allocation, a
\* full queue, a failed build and a rejected publication all clear
\* g_compile_busy, so that uploads do not stay refused for ever.
CompilerIsReleased == compileBusy ~> ~compileBusy

\* A compiled program is activated as long as scans find the mutex free at
\* infinitely many scan ends, although scans skip the script while paused.
PendingIsActivated ==
  []<><<ScanTakeBoundary>>_vars => (pending # None ~> pending = None)

\* A retired program whose queue entry was accepted is destroyed.
RetiredIsDestroyed ==
  \A p \in Programs : p \in Elements(retiredQueue) ~> p \in destroyed

\* What the comment on g_pause_script_for_compile says of the end of the
\* pause: it lasts until the compile fails or the new program is activated,
\* the scan that activates it being the one that lifts it.
CompilePauseHasCause ==
  pauseCompile => compiler # "idle" \/ pending # None \/ scan = "lifting"

\* What script_engine.hpp says of script_engine_get_active_script_name: the
\* name is the file name of the active script.
ActiveNameIsOfActiveProgram == activeName = active

=============================================================================
