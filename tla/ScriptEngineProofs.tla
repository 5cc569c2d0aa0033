------------------------- MODULE ScriptEngineProofs -------------------------
(***************************************************************************)
(* Proofs about ScriptEngine, for every number of uploads, every depth of  *)
(* the retired queue and every set of update modes.  Safety does not use   *)
(* the fairness conjuncts of Spec.                                         *)
(*                                                                         *)
(* The properties follow from the inductive invariant IInv, whose parts    *)
(* say who holds the mutex, where the one job is, that a job on its way    *)
(* finds the pending slot occupied only while a scan is emptying it or     *)
(* after it overtook the pending program, and which task set which pause   *)
(* flag.                                                                   *)
(***************************************************************************)
EXTENDS ScriptEngine, SequenceTheorems, FiniteSetTheorems, TLAPS

-----------------------------------------------------------------------------
\* Upload numbers: there is one left while a body is being received, and a
\* claimed job has one.
UploadsLeft ==
  /\ web \in {"probing", "receiving"} => uploads < MaxUploads
  /\ WebHoldsJob => uploads # None

\* The mutex is held exactly inside the critical sections.
MutexOwned ==
  /\ mutex = "web" <=> web \in {"reading", "probing", "rechecking"}
  /\ mutex = "compiler" <=> compiler \in {"slotHeld", "nameHeld"}
  /\ mutex = "scan" <=> scan = "swapping"

\* g_compile_busy covers the one job wherever it is.
OneJob ==
  /\ Len(compileQueue) <= 1
  /\ compileBusy <=> (WebHoldsJob \/ Len(compileQueue) # 0 \/ compiler # "idle")
  /\ WebHoldsJob => Len(compileQueue) = 0 /\ compiler = "idle"
  /\ Len(compileQueue) # 0 => compiler = "idle"
  /\ compiler # "idle" => job # None
  /\ web \in {"probing", "receiving"} => ~compileBusy

\* A job that has passed both looks at the pending slot and has not been
\* published.
JobCommitted ==
  \/ web = "queueing"
  \/ Len(compileQueue) # 0
  \/ compiler \in {"deferred", "building", "publishing", "slotHeld"}

\* The last look at the slot is skipped only while the scan task holds the
\* mutex, which empties the slot, or the cache task, which overtook records
\* (the compile task does not hold the mutex when it has no job).
SlotSpokenFor ==
  JobCommitted /\ pending # None => scan = "swapping" \/ overtook

\* With SwapIsBrief that swap is over when the job begins, so that the next
\* swap that sees a program sees this job's.
SwapOver ==
  SwapIsBrief /\ ~overtook =>
    /\ compiler \in {"building", "publishing", "slotHeld", "failed"} => pending = None
    /\ scan = "lifting" =>
         /\ compiler \notin {"building", "publishing", "slotHeld", "failed"}
         /\ pending = None
    /\ PausedJobOpen => pauseCompile

\* Only the tag registry upload sets and clears the runtime update pause.
TagPause == pauseRuntime <=> web = "updating"

IInv == TypeOK /\ UploadsLeft /\ MutexOwned /\ OneJob /\ SlotSpokenFor
          /\ SwapOver /\ TagPause

-----------------------------------------------------------------------------
LEMMA InitInvariant == Init => IInv
<1> SUFFICES ASSUME Init PROVE IInv
  OBVIOUS
<1>1. << >> \in Seq(Programs) /\ Len(<< >>) = 0
  OBVIOUS
<1>2. TypeOK
  <2>1. uploads \in 0 .. MaxUploads /\ generation \in Nat
    BY ScriptEngineAssumption DEF Init
  <2>2. /\ compileQueue \in Seq(Programs) /\ retiredQueue \in Seq(Programs)
        /\ destroyed \subseteq Programs /\ leaked \subseteq Programs
    BY <1>1 DEF Init
  <2>3. QED
    BY <2>1, <2>2 DEF Init, TypeOK, None, MaybeProgram, CompileStates, WebSteps,
                      CompilerSteps, ScanSteps
<1>3. UploadsLeft /\ MutexOwned /\ OneJob /\ SlotSpokenFor /\ SwapOver /\ TagPause
  BY <1>1 DEF Init, UploadsLeft, MutexOwned, OneJob, SlotSpokenFor, SwapOver,
              TagPause, WebHoldsJob, JobCommitted, PausedJobOpen
<1>4. QED
  BY <1>2, <1>3 DEF IInv

\* A retired program goes to the queue or is leaked.
LEMMA RetireTypes ==
  ASSUME TypeOK, Retire(active)
  PROVE  retiredQueue' \in Seq(Programs) /\ leaked' \subseteq Programs
<1>1. retiredQueue \in Seq(Programs) /\ leaked \subseteq Programs
  BY DEF TypeOK
<1>2. active # None => active \in Programs
  BY DEF TypeOK, MaybeProgram
<1>3. CASE active = None
  BY <1>1, <1>3 DEF Retire
<1>4. CASE active # None /\ Len(retiredQueue) < RetiredDepth
  <2>1. retiredQueue' = Append(retiredQueue, active) /\ UNCHANGED leaked
    BY <1>4 DEF Retire
  <2>2. QED
    BY <1>1, <1>2, <1>4, <2>1
<1>5. CASE active # None /\ ~(Len(retiredQueue) < RetiredDepth)
  BY <1>1, <1>2, <1>5 DEF Retire
<1>6. QED
  BY <1>3, <1>4, <1>5

\* Each step keeps the types.
LEMMA TypeStep ==
  ASSUME IInv, [Next]_vars PROVE TypeOK'
<1> USE ScriptEngineAssumption
    DEF IInv, UploadsLeft, WebHoldsJob, TypeOK, MaybeProgram, Programs, None,
        CompileStates, WebSteps, CompilerSteps, ScanSteps, uploadVars,
        webVars, requestVars, slotVars, retireVars, compilerVars, scanVars,
        pauseVars, modeVars, Take, Give
<1>1. CASE WebRequest
  <2>1. CASE WebBeginUpload BY <2>1 DEF WebBeginUpload
  <2>2. CASE WebAbortUpload BY <2>2 DEF WebAbortUpload
  <2>3. CASE WebClaimCompiler
    <3>1. compileBusy' \in BOOLEAN BY <2>3 DEF WebClaimCompiler
    <3>2. QED BY <2>3, <3>1 DEF WebClaimCompiler
  <2>4. CASE WebReadStatus BY <2>4 DEF WebReadStatus
  <2>5. CASE WebSetPlcMode BY <2>5 DEF WebSetPlcMode
  <2>6. CASE WebSetUpdateMode BY <2>6 DEF WebSetUpdateMode
  <2>7. CASE WebPauseForTags BY <2>7 DEF WebPauseForTags
  <2>8. QED
    BY <1>1, <2>1, <2>2, <2>3, <2>4, <2>5, <2>6, <2>7
    DEF WebRequest
<1>2. CASE WebFinish
  <2>1. CASE WebProbePending BY <2>1 DEF WebProbePending
  <2>2. CASE WebRecheckTake BY <2>2 DEF WebRecheckTake
  <2>3. CASE WebRecheckTimeout BY <2>3 DEF WebRecheckTimeout
  <2>4. CASE WebRecheckPending
    <3>1. compileBusy' \in BOOLEAN BY <2>4 DEF WebRecheckPending
    <3>2. QED BY <2>4, <3>1 DEF WebRecheckPending
  <2>5. CASE WebOutOfMemory
    <3>1. compileBusy' \in BOOLEAN BY <2>5 DEF WebOutOfMemory
    <3>2. QED BY <2>5, <3>1 DEF WebOutOfMemory
  <2>6. CASE WebSendJob
    <3>1. compileBusy' \in BOOLEAN BY <2>6 DEF WebSendJob
    <3>2. QED BY <2>6, <3>1 DEF WebSendJob
  <2>7. CASE WebAcknowledge BY <2>7 DEF WebAcknowledge
  <2>8. CASE WebStatusRead BY <2>8 DEF WebStatusRead
  <2>9. CASE WebResumeAfterTags
    <3>1. pauseRuntime' \in BOOLEAN BY <2>9 DEF WebResumeAfterTags
    <3>2. QED BY <2>9, <3>1 DEF WebResumeAfterTags
  <2>10. QED
    BY <1>2, <2>1, <2>2, <2>3, <2>4, <2>5, <2>6, <2>7, <2>8, <2>9
    DEF WebFinish
<1>3. CASE CompilerStep
  <2>1. CASE CompilerReceive BY <2>1 DEF CompilerReceive
  <2>2. CASE CompilerBegin BY <2>2 DEF CompilerBegin
  <2>3. CASE CompilerBuild BY <2>3 DEF CompilerBuild
  <2>4. CASE CompilerTakeSlot BY <2>4 DEF CompilerTakeSlot
  <2>5. CASE CompilerPublish BY <2>5 DEF CompilerPublish
  <2>6. CASE CompilerTakeName BY <2>6 DEF CompilerTakeName
  <2>7. CASE CompilerNameTimeout BY <2>7 DEF CompilerNameTimeout
  <2>8. CASE CompilerStoreName BY <2>8 DEF CompilerStoreName
  <2>9. CASE CompilerSucceed
    <3>1. compileBusy' \in BOOLEAN BY <2>9 DEF CompilerSucceed
    <3>2. QED BY <2>9, <3>1 DEF CompilerSucceed
  <2>10. CASE CompilerFail
    <3>1. compileBusy' \in BOOLEAN /\ pauseCompile' \in BOOLEAN BY <2>10 DEF CompilerFail
    <3>2. QED BY <2>10, <3>1 DEF CompilerFail
  <2>11. QED
    BY <1>3, <2>1, <2>2, <2>3, <2>4, <2>5, <2>6, <2>7, <2>8, <2>9, <2>10
    DEF CompilerStep
<1>4. CASE ScanStep
  <2>1. CASE ScanBegin BY <2>1 DEF ScanBegin
  <2>2. CASE ScanSamplePause BY <2>2 DEF ScanSamplePause
  <2>3. CASE ScanEndExecution BY <2>3 DEF ScanEndExecution
  <2>4. CASE ScanTakeBoundary BY <2>4 DEF ScanTakeBoundary
  <2>5. CASE ScanSkipBoundary BY <2>5 DEF ScanSkipBoundary
  <2>6. CASE ScanSwap
    <3>1. retiredQueue' \in Seq(Programs) /\ leaked' \subseteq Programs
      BY <2>6, RetireTypes DEF ScanSwap
    <3>2. /\ pending' \in MaybeProgram /\ pendingName' \in MaybeProgram
          /\ active' \in MaybeProgram /\ activeName' \in MaybeProgram
          /\ generation' \in Nat
      BY <2>6 DEF ScanSwap
    <3>3. scan' \in ScanSteps /\ mutex' = "free"
      BY <2>6 DEF ScanSwap
    <3>4. UNCHANGED <<webVars, requestVars, destroyed, cleaning, compilerVars,
                      scanPaused, pauseVars, modeVars>>
      BY <2>6 DEF ScanSwap
    <3>5. QED BY <3>1, <3>2, <3>3, <3>4
  <2>7. CASE ScanLiftPause
    <3>1. pauseCompile' \in BOOLEAN BY <2>7 DEF ScanLiftPause
    <3>2. QED BY <2>7, <3>1 DEF ScanLiftPause
  <2>8. QED
    BY <1>4, <2>1, <2>2, <2>3, <2>4, <2>5, <2>6, <2>7
    DEF ScanStep
<1>5. CASE CleanerStep
  <2>1. CASE CleanerReceive BY <2>1 DEF CleanerReceive
  <2>2. CASE CleanerDestroy BY <2>2 DEF CleanerDestroy
  <2>3. QED
    BY <1>5, <2>1, <2>2
    DEF CleanerStep
<1>6. CASE CacheStep
  <2>1. CASE CacheTakeName BY <2>1 DEF CacheTakeName
  <2>2. CASE CacheNameRead BY <2>2 DEF CacheNameRead
  <2>3. QED
    BY <1>6, <2>1, <2>2
    DEF CacheStep
<1>7. CASE UNCHANGED vars
  BY <1>7 DEF vars
<1>8. QED
  BY <1>1, <1>2, <1>3, <1>4, <1>5, <1>6, <1>7 DEF Next

\* ... and the upload numbers.
LEMMA UploadsStep ==
  ASSUME IInv, [Next]_vars PROVE UploadsLeft'
<1> USE ScriptEngineAssumption
    DEF IInv, UploadsLeft, TypeOK, WebHoldsJob, None, uploadVars, webVars,
        requestVars, slotVars, retireVars, compilerVars, scanVars, pauseVars,
        modeVars, Take, Give
<1>1. CASE WebRequest
  <2>1. CASE WebBeginUpload BY <2>1 DEF WebBeginUpload
  <2>2. CASE WebAbortUpload BY <2>2 DEF WebAbortUpload
  <2>3. CASE WebClaimCompiler BY <2>3 DEF WebClaimCompiler
  <2>4. CASE WebReadStatus BY <2>4 DEF WebReadStatus
  <2>5. CASE WebSetPlcMode BY <2>5 DEF WebSetPlcMode
  <2>6. CASE WebSetUpdateMode BY <2>6 DEF WebSetUpdateMode
  <2>7. CASE WebPauseForTags BY <2>7 DEF WebPauseForTags
  <2>8. QED
    BY <1>1, <2>1, <2>2, <2>3, <2>4, <2>5, <2>6, <2>7
    DEF WebRequest
<1>2. CASE WebFinish
  <2>1. CASE WebProbePending BY <2>1 DEF WebProbePending
  <2>2. CASE WebRecheckTake BY <2>2 DEF WebRecheckTake
  <2>3. CASE WebRecheckTimeout BY <2>3 DEF WebRecheckTimeout
  <2>4. CASE WebRecheckPending BY <2>4 DEF WebRecheckPending
  <2>5. CASE WebOutOfMemory BY <2>5 DEF WebOutOfMemory
  <2>6. CASE WebSendJob BY <2>6 DEF WebSendJob
  <2>7. CASE WebAcknowledge BY <2>7 DEF WebAcknowledge
  <2>8. CASE WebStatusRead BY <2>8 DEF WebStatusRead
  <2>9. CASE WebResumeAfterTags BY <2>9 DEF WebResumeAfterTags
  <2>10. QED
    BY <1>2, <2>1, <2>2, <2>3, <2>4, <2>5, <2>6, <2>7, <2>8, <2>9
    DEF WebFinish
<1>3. CASE CompilerStep
  <2>1. CASE CompilerReceive BY <2>1 DEF CompilerReceive
  <2>2. CASE CompilerBegin BY <2>2 DEF CompilerBegin
  <2>3. CASE CompilerBuild BY <2>3 DEF CompilerBuild
  <2>4. CASE CompilerTakeSlot BY <2>4 DEF CompilerTakeSlot
  <2>5. CASE CompilerPublish BY <2>5 DEF CompilerPublish
  <2>6. CASE CompilerTakeName BY <2>6 DEF CompilerTakeName
  <2>7. CASE CompilerNameTimeout BY <2>7 DEF CompilerNameTimeout
  <2>8. CASE CompilerStoreName BY <2>8 DEF CompilerStoreName
  <2>9. CASE CompilerSucceed BY <2>9 DEF CompilerSucceed
  <2>10. CASE CompilerFail BY <2>10 DEF CompilerFail
  <2>11. QED
    BY <1>3, <2>1, <2>2, <2>3, <2>4, <2>5, <2>6, <2>7, <2>8, <2>9, <2>10
    DEF CompilerStep
<1>4. CASE ScanStep
  <2>1. CASE ScanBegin BY <2>1 DEF ScanBegin
  <2>2. CASE ScanSamplePause BY <2>2 DEF ScanSamplePause
  <2>3. CASE ScanEndExecution BY <2>3 DEF ScanEndExecution
  <2>4. CASE ScanTakeBoundary BY <2>4 DEF ScanTakeBoundary
  <2>5. CASE ScanSkipBoundary BY <2>5 DEF ScanSkipBoundary
  <2>6. CASE ScanSwap BY <2>6 DEF ScanSwap, Retire
  <2>7. CASE ScanLiftPause BY <2>7 DEF ScanLiftPause
  <2>8. QED
    BY <1>4, <2>1, <2>2, <2>3, <2>4, <2>5, <2>6, <2>7
    DEF ScanStep
<1>5. CASE CleanerStep
  <2>1. CASE CleanerReceive BY <2>1 DEF CleanerReceive
  <2>2. CASE CleanerDestroy BY <2>2 DEF CleanerDestroy
  <2>3. QED
    BY <1>5, <2>1, <2>2
    DEF CleanerStep
<1>6. CASE CacheStep
  <2>1. CASE CacheTakeName BY <2>1 DEF CacheTakeName
  <2>2. CASE CacheNameRead BY <2>2 DEF CacheNameRead
  <2>3. QED
    BY <1>6, <2>1, <2>2
    DEF CacheStep
<1>7. CASE UNCHANGED vars
  BY <1>7 DEF vars
<1>8. QED
  BY <1>1, <1>2, <1>3, <1>4, <1>5, <1>6, <1>7 DEF Next

\* ... and the ownership of the mutex.
LEMMA MutexStep ==
  ASSUME IInv, [Next]_vars PROVE MutexOwned'
<1> USE ScriptEngineAssumption
    DEF IInv, MutexOwned, uploadVars, webVars, requestVars, slotVars,
        retireVars, compilerVars, scanVars, pauseVars, modeVars, Take, Give
<1>1. CASE WebRequest
  <2>1. CASE WebBeginUpload BY <2>1 DEF WebBeginUpload
  <2>2. CASE WebAbortUpload BY <2>2 DEF WebAbortUpload
  <2>3. CASE WebClaimCompiler BY <2>3 DEF WebClaimCompiler
  <2>4. CASE WebReadStatus BY <2>4 DEF WebReadStatus
  <2>5. CASE WebSetPlcMode BY <2>5 DEF WebSetPlcMode
  <2>6. CASE WebSetUpdateMode BY <2>6 DEF WebSetUpdateMode
  <2>7. CASE WebPauseForTags BY <2>7 DEF WebPauseForTags
  <2>8. QED
    BY <1>1, <2>1, <2>2, <2>3, <2>4, <2>5, <2>6, <2>7
    DEF WebRequest
<1>2. CASE WebFinish
  <2>1. CASE WebProbePending BY <2>1 DEF WebProbePending
  <2>2. CASE WebRecheckTake BY <2>2 DEF WebRecheckTake
  <2>3. CASE WebRecheckTimeout BY <2>3 DEF WebRecheckTimeout
  <2>4. CASE WebRecheckPending BY <2>4 DEF WebRecheckPending
  <2>5. CASE WebOutOfMemory BY <2>5 DEF WebOutOfMemory
  <2>6. CASE WebSendJob BY <2>6 DEF WebSendJob
  <2>7. CASE WebAcknowledge BY <2>7 DEF WebAcknowledge
  <2>8. CASE WebStatusRead BY <2>8 DEF WebStatusRead
  <2>9. CASE WebResumeAfterTags BY <2>9 DEF WebResumeAfterTags
  <2>10. QED
    BY <1>2, <2>1, <2>2, <2>3, <2>4, <2>5, <2>6, <2>7, <2>8, <2>9
    DEF WebFinish
<1>3. CASE CompilerStep
  <2>1. CASE CompilerReceive BY <2>1 DEF CompilerReceive
  <2>2. CASE CompilerBegin BY <2>2 DEF CompilerBegin
  <2>3. CASE CompilerBuild BY <2>3 DEF CompilerBuild
  <2>4. CASE CompilerTakeSlot BY <2>4 DEF CompilerTakeSlot
  <2>5. CASE CompilerPublish BY <2>5 DEF CompilerPublish
  <2>6. CASE CompilerTakeName BY <2>6 DEF CompilerTakeName
  <2>7. CASE CompilerNameTimeout BY <2>7 DEF CompilerNameTimeout
  <2>8. CASE CompilerStoreName BY <2>8 DEF CompilerStoreName
  <2>9. CASE CompilerSucceed BY <2>9 DEF CompilerSucceed
  <2>10. CASE CompilerFail BY <2>10 DEF CompilerFail
  <2>11. QED
    BY <1>3, <2>1, <2>2, <2>3, <2>4, <2>5, <2>6, <2>7, <2>8, <2>9, <2>10
    DEF CompilerStep
<1>4. CASE ScanStep
  <2>1. CASE ScanBegin BY <2>1 DEF ScanBegin
  <2>2. CASE ScanSamplePause BY <2>2 DEF ScanSamplePause
  <2>3. CASE ScanEndExecution BY <2>3 DEF ScanEndExecution
  <2>4. CASE ScanTakeBoundary BY <2>4 DEF ScanTakeBoundary
  <2>5. CASE ScanSkipBoundary BY <2>5 DEF ScanSkipBoundary
  <2>6. CASE ScanSwap BY <2>6 DEF ScanSwap, Retire
  <2>7. CASE ScanLiftPause BY <2>7 DEF ScanLiftPause
  <2>8. QED
    BY <1>4, <2>1, <2>2, <2>3, <2>4, <2>5, <2>6, <2>7
    DEF ScanStep
<1>5. CASE CleanerStep
  <2>1. CASE CleanerReceive BY <2>1 DEF CleanerReceive
  <2>2. CASE CleanerDestroy BY <2>2 DEF CleanerDestroy
  <2>3. QED
    BY <1>5, <2>1, <2>2
    DEF CleanerStep
<1>6. CASE CacheStep
  <2>1. CASE CacheTakeName BY <2>1 DEF CacheTakeName
  <2>2. CASE CacheNameRead BY <2>2 DEF CacheNameRead
  <2>3. QED
    BY <1>6, <2>1, <2>2
    DEF CacheStep
<1>7. CASE UNCHANGED vars
  BY <1>7 DEF vars
<1>8. QED
  BY <1>1, <1>2, <1>3, <1>4, <1>5, <1>6, <1>7 DEF Next

\* ... and the place of the one job.
LEMMA OneJobStep ==
  ASSUME IInv, [Next]_vars PROVE OneJob'
<1> USE ScriptEngineAssumption
    DEF IInv, OneJob, UploadsLeft, TypeOK, WebHoldsJob, None, uploadVars,
        webVars, requestVars, slotVars, retireVars, compilerVars, scanVars,
        pauseVars, modeVars, Take, Give
<1>1. CASE WebRequest
  <2>1. CASE WebBeginUpload BY <2>1 DEF WebBeginUpload
  <2>2. CASE WebAbortUpload BY <2>2 DEF WebAbortUpload
  <2>3. CASE WebClaimCompiler BY <2>3 DEF WebClaimCompiler
  <2>4. CASE WebReadStatus BY <2>4 DEF WebReadStatus
  <2>5. CASE WebSetPlcMode BY <2>5 DEF WebSetPlcMode
  <2>6. CASE WebSetUpdateMode BY <2>6 DEF WebSetUpdateMode
  <2>7. CASE WebPauseForTags BY <2>7 DEF WebPauseForTags
  <2>8. QED
    BY <1>1, <2>1, <2>2, <2>3, <2>4, <2>5, <2>6, <2>7
    DEF WebRequest
<1>2. CASE WebFinish
  <2>1. CASE WebProbePending BY <2>1 DEF WebProbePending
  <2>2. CASE WebRecheckTake BY <2>2 DEF WebRecheckTake
  <2>3. CASE WebRecheckTimeout BY <2>3 DEF WebRecheckTimeout
  <2>4. CASE WebRecheckPending BY <2>4 DEF WebRecheckPending
  <2>5. CASE WebOutOfMemory BY <2>5 DEF WebOutOfMemory
  <2>6. CASE WebSendJob
    <3>1. CASE Len(compileQueue) < 1
      <4>1. Len(compileQueue') = 1
        BY <2>6, <3>1, Len(compileQueue) \in Nat DEF WebSendJob
      <4>2. QED BY <2>6, <3>1, <4>1 DEF WebSendJob
    <3>2. CASE ~(Len(compileQueue) < 1)
      BY <2>6, <3>2 DEF WebSendJob
    <3>3. QED BY <3>1, <3>2
  <2>7. CASE WebAcknowledge BY <2>7 DEF WebAcknowledge
  <2>8. CASE WebStatusRead BY <2>8 DEF WebStatusRead
  <2>9. CASE WebResumeAfterTags BY <2>9 DEF WebResumeAfterTags
  <2>10. QED
    BY <1>2, <2>1, <2>2, <2>3, <2>4, <2>5, <2>6, <2>7, <2>8, <2>9
    DEF WebFinish
<1>3. CASE CompilerStep
  <2>1. CASE CompilerReceive
    <3>1. compileQueue \in Seq(Programs) /\ compileQueue # << >>
      BY <2>1 DEF CompilerReceive
    <3>2. /\ Head(compileQueue) \in Programs /\ Len(compileQueue) # 0
         /\ Len(Tail(compileQueue)) = Len(compileQueue) - 1
      BY <3>1, HeadTailProperties, EmptySeq
    <3>3. job' # None /\ Len(compileQueue') = 0
      BY <2>1, <3>2 DEF CompilerReceive, Programs
    <3>4. QED BY <2>1, <3>2, <3>3 DEF CompilerReceive
  <2>2. CASE CompilerBegin BY <2>2 DEF CompilerBegin
  <2>3. CASE CompilerBuild BY <2>3 DEF CompilerBuild
  <2>4. CASE CompilerTakeSlot BY <2>4 DEF CompilerTakeSlot
  <2>5. CASE CompilerPublish BY <2>5 DEF CompilerPublish
  <2>6. CASE CompilerTakeName BY <2>6 DEF CompilerTakeName
  <2>7. CASE CompilerNameTimeout BY <2>7 DEF CompilerNameTimeout
  <2>8. CASE CompilerStoreName BY <2>8 DEF CompilerStoreName
  <2>9. CASE CompilerSucceed BY <2>9 DEF CompilerSucceed
  <2>10. CASE CompilerFail BY <2>10 DEF CompilerFail
  <2>11. QED
    BY <1>3, <2>1, <2>2, <2>3, <2>4, <2>5, <2>6, <2>7, <2>8, <2>9, <2>10
    DEF CompilerStep
<1>4. CASE ScanStep
  <2>1. CASE ScanBegin BY <2>1 DEF ScanBegin
  <2>2. CASE ScanSamplePause BY <2>2 DEF ScanSamplePause
  <2>3. CASE ScanEndExecution BY <2>3 DEF ScanEndExecution
  <2>4. CASE ScanTakeBoundary BY <2>4 DEF ScanTakeBoundary
  <2>5. CASE ScanSkipBoundary BY <2>5 DEF ScanSkipBoundary
  <2>6. CASE ScanSwap BY <2>6 DEF ScanSwap, Retire
  <2>7. CASE ScanLiftPause BY <2>7 DEF ScanLiftPause
  <2>8. QED
    BY <1>4, <2>1, <2>2, <2>3, <2>4, <2>5, <2>6, <2>7
    DEF ScanStep
<1>5. CASE CleanerStep
  <2>1. CASE CleanerReceive BY <2>1 DEF CleanerReceive
  <2>2. CASE CleanerDestroy BY <2>2 DEF CleanerDestroy
  <2>3. QED
    BY <1>5, <2>1, <2>2
    DEF CleanerStep
<1>6. CASE CacheStep
  <2>1. CASE CacheTakeName BY <2>1 DEF CacheTakeName
  <2>2. CASE CacheNameRead BY <2>2 DEF CacheNameRead
  <2>3. QED
    BY <1>6, <2>1, <2>2
    DEF CacheStep
<1>7. CASE UNCHANGED vars
  BY <1>7 DEF vars
<1>8. QED
  BY <1>1, <1>2, <1>3, <1>4, <1>5, <1>6, <1>7 DEF Next

\* ... and the claim on the pending slot.
LEMMA SlotStep ==
  ASSUME IInv, [Next]_vars PROVE SlotSpokenFor'
<1> USE ScriptEngineAssumption
    DEF IInv, SlotSpokenFor, JobCommitted, MutexOwned, OneJob, WebHoldsJob,
        TypeOK, None, uploadVars, webVars, requestVars, slotVars, retireVars,
        compilerVars, scanVars, pauseVars, modeVars, Take, Give
<1>1. CASE WebRequest
  <2>1. CASE WebBeginUpload BY <2>1 DEF WebBeginUpload
  <2>2. CASE WebAbortUpload BY <2>2 DEF WebAbortUpload
  <2>3. CASE WebClaimCompiler BY <2>3 DEF WebClaimCompiler
  <2>4. CASE WebReadStatus BY <2>4 DEF WebReadStatus
  <2>5. CASE WebSetPlcMode BY <2>5 DEF WebSetPlcMode
  <2>6. CASE WebSetUpdateMode BY <2>6 DEF WebSetUpdateMode
  <2>7. CASE WebPauseForTags BY <2>7 DEF WebPauseForTags
  <2>8. QED
    BY <1>1, <2>1, <2>2, <2>3, <2>4, <2>5, <2>6, <2>7
    DEF WebRequest
<1>2. CASE WebFinish
  <2>1. CASE WebProbePending BY <2>1 DEF WebProbePending
  <2>2. CASE WebRecheckTake BY <2>2 DEF WebRecheckTake
  <2>3. CASE WebRecheckTimeout BY <2>3 DEF WebRecheckTimeout
  <2>4. CASE WebRecheckPending BY <2>4 DEF WebRecheckPending
  <2>5. CASE WebOutOfMemory BY <2>5 DEF WebOutOfMemory
  <2>6. CASE WebSendJob BY <2>6 DEF WebSendJob
  <2>7. CASE WebAcknowledge BY <2>7 DEF WebAcknowledge
  <2>8. CASE WebStatusRead BY <2>8 DEF WebStatusRead
  <2>9. CASE WebResumeAfterTags BY <2>9 DEF WebResumeAfterTags
  <2>10. QED
    BY <1>2, <2>1, <2>2, <2>3, <2>4, <2>5, <2>6, <2>7, <2>8, <2>9
    DEF WebFinish
<1>3. CASE CompilerStep
  <2>1. CASE CompilerReceive BY <2>1 DEF CompilerReceive
  <2>2. CASE CompilerBegin BY <2>2 DEF CompilerBegin
  <2>3. CASE CompilerBuild BY <2>3 DEF CompilerBuild
  <2>4. CASE CompilerTakeSlot BY <2>4 DEF CompilerTakeSlot
  <2>5. CASE CompilerPublish BY <2>5 DEF CompilerPublish
  <2>6. CASE CompilerTakeName BY <2>6 DEF CompilerTakeName
  <2>7. CASE CompilerNameTimeout BY <2>7 DEF CompilerNameTimeout
  <2>8. CASE CompilerStoreName BY <2>8 DEF CompilerStoreName
  <2>9. CASE CompilerSucceed BY <2>9 DEF CompilerSucceed
  <2>10. CASE CompilerFail BY <2>10 DEF CompilerFail
  <2>11. QED
    BY <1>3, <2>1, <2>2, <2>3, <2>4, <2>5, <2>6, <2>7, <2>8, <2>9, <2>10
    DEF CompilerStep
<1>4. CASE ScanStep
  <2>1. CASE ScanBegin BY <2>1 DEF ScanBegin
  <2>2. CASE ScanSamplePause BY <2>2 DEF ScanSamplePause
  <2>3. CASE ScanEndExecution BY <2>3 DEF ScanEndExecution
  <2>4. CASE ScanTakeBoundary BY <2>4 DEF ScanTakeBoundary
  <2>5. CASE ScanSkipBoundary BY <2>5 DEF ScanSkipBoundary
  <2>6. CASE ScanSwap BY <2>6 DEF ScanSwap, Retire
  <2>7. CASE ScanLiftPause BY <2>7 DEF ScanLiftPause
  <2>8. QED
    BY <1>4, <2>1, <2>2, <2>3, <2>4, <2>5, <2>6, <2>7
    DEF ScanStep
<1>5. CASE CleanerStep
  <2>1. CASE CleanerReceive BY <2>1 DEF CleanerReceive
  <2>2. CASE CleanerDestroy BY <2>2 DEF CleanerDestroy
  <2>3. QED
    BY <1>5, <2>1, <2>2
    DEF CleanerStep
<1>6. CASE CacheStep
  <2>1. CASE CacheTakeName BY <2>1 DEF CacheTakeName
  <2>2. CASE CacheNameRead BY <2>2 DEF CacheNameRead
  <2>3. QED
    BY <1>6, <2>1, <2>2
    DEF CacheStep
<1>7. CASE UNCHANGED vars
  BY <1>7 DEF vars
<1>8. QED
  BY <1>1, <1>2, <1>3, <1>4, <1>5, <1>6, <1>7 DEF Next

\* ... and the pause of a paused job.
LEMMA SwapStep ==
  ASSUME IInv, [Next]_vars PROVE SwapOver'
<1> USE ScriptEngineAssumption
    DEF IInv, SwapOver, PausedJobOpen, SlotSpokenFor, JobCommitted,
        MutexOwned, OneJob, WebHoldsJob, TypeOK, None, uploadVars, webVars,
        requestVars, slotVars, retireVars, compilerVars, scanVars, pauseVars,
        modeVars, Take, Give
<1>1. CASE WebRequest
  <2>1. CASE WebBeginUpload BY <2>1 DEF WebBeginUpload
  <2>2. CASE WebAbortUpload BY <2>2 DEF WebAbortUpload
  <2>3. CASE WebClaimCompiler BY <2>3 DEF WebClaimCompiler
  <2>4. CASE WebReadStatus BY <2>4 DEF WebReadStatus
  <2>5. CASE WebSetPlcMode BY <2>5 DEF WebSetPlcMode
  <2>6. CASE WebSetUpdateMode BY <2>6 DEF WebSetUpdateMode
  <2>7. CASE WebPauseForTags BY <2>7 DEF WebPauseForTags
  <2>8. QED
    BY <1>1, <2>1, <2>2, <2>3, <2>4, <2>5, <2>6, <2>7
    DEF WebRequest
<1>2. CASE WebFinish
  <2>1. CASE WebProbePending BY <2>1 DEF WebProbePending
  <2>2. CASE WebRecheckTake BY <2>2 DEF WebRecheckTake
  <2>3. CASE WebRecheckTimeout BY <2>3 DEF WebRecheckTimeout
  <2>4. CASE WebRecheckPending BY <2>4 DEF WebRecheckPending
  <2>5. CASE WebOutOfMemory BY <2>5 DEF WebOutOfMemory
  <2>6. CASE WebSendJob BY <2>6 DEF WebSendJob
  <2>7. CASE WebAcknowledge BY <2>7 DEF WebAcknowledge
  <2>8. CASE WebStatusRead BY <2>8 DEF WebStatusRead
  <2>9. CASE WebResumeAfterTags BY <2>9 DEF WebResumeAfterTags
  <2>10. QED
    BY <1>2, <2>1, <2>2, <2>3, <2>4, <2>5, <2>6, <2>7, <2>8, <2>9
    DEF WebFinish
<1>3. CASE CompilerStep
  <2>1. CASE CompilerReceive BY <2>1 DEF CompilerReceive
  <2>2. CASE CompilerBegin BY <2>2 DEF CompilerBegin
  <2>3. CASE CompilerBuild BY <2>3 DEF CompilerBuild
  <2>4. CASE CompilerTakeSlot BY <2>4 DEF CompilerTakeSlot
  <2>5. CASE CompilerPublish BY <2>5 DEF CompilerPublish
  <2>6. CASE CompilerTakeName BY <2>6 DEF CompilerTakeName
  <2>7. CASE CompilerNameTimeout BY <2>7 DEF CompilerNameTimeout
  <2>8. CASE CompilerStoreName BY <2>8 DEF CompilerStoreName
  <2>9. CASE CompilerSucceed BY <2>9 DEF CompilerSucceed
  <2>10. CASE CompilerFail BY <2>10 DEF CompilerFail
  <2>11. QED
    BY <1>3, <2>1, <2>2, <2>3, <2>4, <2>5, <2>6, <2>7, <2>8, <2>9, <2>10
    DEF CompilerStep
<1>4. CASE ScanStep
  <2>1. CASE ScanBegin BY <2>1 DEF ScanBegin
  <2>2. CASE ScanSamplePause BY <2>2 DEF ScanSamplePause
  <2>3. CASE ScanEndExecution BY <2>3 DEF ScanEndExecution
  <2>4. CASE ScanTakeBoundary BY <2>4 DEF ScanTakeBoundary
  <2>5. CASE ScanSkipBoundary BY <2>5 DEF ScanSkipBoundary
  <2>6. CASE ScanSwap BY <2>6 DEF ScanSwap, Retire
  <2>7. CASE ScanLiftPause BY <2>7 DEF ScanLiftPause
  <2>8. QED
    BY <1>4, <2>1, <2>2, <2>3, <2>4, <2>5, <2>6, <2>7
    DEF ScanStep
<1>5. CASE CleanerStep
  <2>1. CASE CleanerReceive BY <2>1 DEF CleanerReceive
  <2>2. CASE CleanerDestroy BY <2>2 DEF CleanerDestroy
  <2>3. QED
    BY <1>5, <2>1, <2>2
    DEF CleanerStep
<1>6. CASE CacheStep
  <2>1. CASE CacheTakeName BY <2>1 DEF CacheTakeName
  <2>2. CASE CacheNameRead BY <2>2 DEF CacheNameRead
  <2>3. QED
    BY <1>6, <2>1, <2>2
    DEF CacheStep
<1>7. CASE UNCHANGED vars
  BY <1>7 DEF vars
<1>8. QED
  BY <1>1, <1>2, <1>3, <1>4, <1>5, <1>6, <1>7 DEF Next

\* ... and the cause of the runtime update pause.
LEMMA TagPauseStep ==
  ASSUME IInv, [Next]_vars PROVE TagPause'
<1> USE ScriptEngineAssumption
    DEF IInv, TagPause, TypeOK, uploadVars, webVars, requestVars, slotVars,
        retireVars, compilerVars, scanVars, pauseVars, modeVars, Take, Give
<1>1. CASE WebRequest
  <2>1. CASE WebBeginUpload BY <2>1 DEF WebBeginUpload
  <2>2. CASE WebAbortUpload BY <2>2 DEF WebAbortUpload
  <2>3. CASE WebClaimCompiler BY <2>3 DEF WebClaimCompiler
  <2>4. CASE WebReadStatus BY <2>4 DEF WebReadStatus
  <2>5. CASE WebSetPlcMode BY <2>5 DEF WebSetPlcMode
  <2>6. CASE WebSetUpdateMode BY <2>6 DEF WebSetUpdateMode
  <2>7. CASE WebPauseForTags BY <2>7 DEF WebPauseForTags
  <2>8. QED
    BY <1>1, <2>1, <2>2, <2>3, <2>4, <2>5, <2>6, <2>7
    DEF WebRequest
<1>2. CASE WebFinish
  <2>1. CASE WebProbePending BY <2>1 DEF WebProbePending
  <2>2. CASE WebRecheckTake BY <2>2 DEF WebRecheckTake
  <2>3. CASE WebRecheckTimeout BY <2>3 DEF WebRecheckTimeout
  <2>4. CASE WebRecheckPending BY <2>4 DEF WebRecheckPending
  <2>5. CASE WebOutOfMemory BY <2>5 DEF WebOutOfMemory
  <2>6. CASE WebSendJob BY <2>6 DEF WebSendJob
  <2>7. CASE WebAcknowledge BY <2>7 DEF WebAcknowledge
  <2>8. CASE WebStatusRead BY <2>8 DEF WebStatusRead
  <2>9. CASE WebResumeAfterTags BY <2>9 DEF WebResumeAfterTags
  <2>10. QED
    BY <1>2, <2>1, <2>2, <2>3, <2>4, <2>5, <2>6, <2>7, <2>8, <2>9
    DEF WebFinish
<1>3. CASE CompilerStep
  <2>1. CASE CompilerReceive BY <2>1 DEF CompilerReceive
  <2>2. CASE CompilerBegin BY <2>2 DEF CompilerBegin
  <2>3. CASE CompilerBuild BY <2>3 DEF CompilerBuild
  <2>4. CASE CompilerTakeSlot BY <2>4 DEF CompilerTakeSlot
  <2>5. CASE CompilerPublish BY <2>5 DEF CompilerPublish
  <2>6. CASE CompilerTakeName BY <2>6 DEF CompilerTakeName
  <2>7. CASE CompilerNameTimeout BY <2>7 DEF CompilerNameTimeout
  <2>8. CASE CompilerStoreName BY <2>8 DEF CompilerStoreName
  <2>9. CASE CompilerSucceed BY <2>9 DEF CompilerSucceed
  <2>10. CASE CompilerFail BY <2>10 DEF CompilerFail
  <2>11. QED
    BY <1>3, <2>1, <2>2, <2>3, <2>4, <2>5, <2>6, <2>7, <2>8, <2>9, <2>10
    DEF CompilerStep
<1>4. CASE ScanStep
  <2>1. CASE ScanBegin BY <2>1 DEF ScanBegin
  <2>2. CASE ScanSamplePause BY <2>2 DEF ScanSamplePause
  <2>3. CASE ScanEndExecution BY <2>3 DEF ScanEndExecution
  <2>4. CASE ScanTakeBoundary BY <2>4 DEF ScanTakeBoundary
  <2>5. CASE ScanSkipBoundary BY <2>5 DEF ScanSkipBoundary
  <2>6. CASE ScanSwap BY <2>6 DEF ScanSwap, Retire
  <2>7. CASE ScanLiftPause BY <2>7 DEF ScanLiftPause
  <2>8. QED
    BY <1>4, <2>1, <2>2, <2>3, <2>4, <2>5, <2>6, <2>7
    DEF ScanStep
<1>5. CASE CleanerStep
  <2>1. CASE CleanerReceive BY <2>1 DEF CleanerReceive
  <2>2. CASE CleanerDestroy BY <2>2 DEF CleanerDestroy
  <2>3. QED
    BY <1>5, <2>1, <2>2
    DEF CleanerStep
<1>6. CASE CacheStep
  <2>1. CASE CacheTakeName BY <2>1 DEF CacheTakeName
  <2>2. CASE CacheNameRead BY <2>2 DEF CacheNameRead
  <2>3. QED
    BY <1>6, <2>1, <2>2
    DEF CacheStep
<1>7. CASE UNCHANGED vars
  BY <1>7 DEF vars
<1>8. QED
  BY <1>1, <1>2, <1>3, <1>4, <1>5, <1>6, <1>7 DEF Next

-----------------------------------------------------------------------------
\* A scan begins to execute only in the step that samples the pause flags.
LEMMA OnlySampleStarts ==
  ASSUME Next, scan = "gated", scan' = "executing" PROVE ScanSamplePause
<1> USE DEF webVars, scanVars
<1>1. CASE WebRequest
  BY <1>1 DEF WebRequest, WebBeginUpload, WebAbortUpload, WebClaimCompiler,
              WebReadStatus, WebSetPlcMode, WebSetUpdateMode, WebPauseForTags
<1>2. CASE WebFinish
  BY <1>2 DEF WebFinish, WebProbePending, WebRecheckTake, WebRecheckTimeout,
              WebRecheckPending, WebOutOfMemory, WebSendJob, WebAcknowledge,
              WebStatusRead, WebResumeAfterTags
<1>3. CASE CompilerStep
  BY <1>3 DEF CompilerStep, CompilerReceive, CompilerBegin, CompilerBuild,
              CompilerTakeSlot, CompilerPublish, CompilerTakeName,
              CompilerNameTimeout, CompilerStoreName, CompilerSucceed, CompilerFail
<1>4. CASE ScanStep
  BY <1>4 DEF ScanStep, ScanBegin, ScanEndExecution, ScanTakeBoundary,
              ScanSkipBoundary, ScanSwap, ScanLiftPause
<1>5. CASE CleanerStep
  BY <1>5 DEF CleanerStep, CleanerReceive, CleanerDestroy
<1>6. CASE CacheStep
  BY <1>6 DEF CacheStep, CacheTakeName, CacheNameRead
<1>7. QED
  BY <1>1, <1>2, <1>3, <1>4, <1>5, <1>6 DEF Next

-----------------------------------------------------------------------------
\* IInv is an invariant.
LEMMA Inductive == Spec => []IInv
<1>1. IInv /\ [Next]_vars => IInv'
  BY TypeStep, UploadsStep, MutexStep, OneJobStep, SlotStep, SwapStep,
     TagPauseStep DEF IInv
<1>2. QED
  BY InitInvariant, <1>1, PTL DEF Spec

\* Type correctness of the state of script_engine.cpp.
THEOREM TypeCorrect == Spec => []TypeOK
<1>1. IInv => TypeOK
  BY DEF IInv
<1>2. QED
  BY <1>1, Inductive, PTL

\* The compare-exchange on g_compile_busy and the places that clear it keep
\* compile jobs single file: never two, and busy exactly while there is one.
THEOREM SingleFlightHolds == Spec => []SingleFlight
<1>1. IInv => SingleFlight
  <2> SUFFICES ASSUME IInv PROVE SingleFlight
    OBVIOUS
  <2>1. Len(compileQueue) \in Nat /\ compileBusy \in BOOLEAN
    BY DEF IInv, TypeOK
  <2>2. CASE WebHoldsJob
    BY <2>1, <2>2 DEF IInv, OneJob, SingleFlight, JobsInFlight
  <2>3. CASE Len(compileQueue) # 0
    <3>1. ~WebHoldsJob /\ compiler = "idle" /\ compileBusy
      BY <2>3 DEF IInv, OneJob
    <3>2. Len(compileQueue) \in Nat /\ Len(compileQueue) <= 1
      BY DEF IInv, TypeOK, OneJob
    <3>3. \A n \in Nat : n # 0 /\ n <= 1 => n = 1
      OBVIOUS
    <3>4. Len(compileQueue) = 1
      BY <2>3, <3>2, <3>3
    <3>5. QED
      BY <3>1, <3>4 DEF SingleFlight, JobsInFlight
  <2>4. CASE compiler # "idle"
    BY <2>1, <2>4 DEF IInv, OneJob, SingleFlight, JobsInFlight
  <2>5. CASE ~WebHoldsJob /\ Len(compileQueue) = 0 /\ compiler = "idle"
    BY <2>1, <2>5 DEF IInv, OneJob, SingleFlight, JobsInFlight
  <2>6. QED
    BY <2>2, <2>3, <2>4, <2>5
<1>2. QED
  BY <1>1, Inductive, PTL

\* compile_to_pending finds the pending slot occupied only by a program that
\* an upload overtook while the cache task held the mutex: a look that is
\* skipped because another task holds it is skipped during a swap that
\* empties the slot.
THEOREM SlotFree == Spec => []CompiledProgramFindsSlotFree
<1>1. IInv => CompiledProgramFindsSlotFree
  BY DEF IInv, MutexOwned, SlotSpokenFor, JobCommitted, CompiledProgramFindsSlotFree
<1>2. QED
  BY <1>1, Inductive, PTL

\* script_engine_run_scan does not start the old program once a job in mode
\* pauseDuringCompile has begun, if a swap in progress ends within the
\* deferral of the job (SwapIsBrief) and no upload overtook a pending program.
THEOREM PauseHolds ==
  ASSUME SwapIsBrief PROVE Spec => NoOldScanWhilePaused
<1>1. IInv /\ [Next]_vars
        => [(scan = "gated" /\ scan' = "executing") => ~PausedJobOpen \/ overtook]_vars
  <2> SUFFICES ASSUME IInv, Next, scan = "gated", scan' = "executing"
               PROVE  ~PausedJobOpen \/ overtook
    OBVIOUS
  <2>1. ScanSamplePause
    BY OnlySampleStarts
  <2>2. ~pauseCompile
    BY <2>1 DEF ScanSamplePause
  <2>3. QED
    BY <2>2 DEF IInv, SwapOver
<1>2. QED
  BY <1>1, Inductive, PTL DEF Spec, NoOldScanWhilePaused

\* ... and starts none while a tag registry upload updates the table.
THEOREM TagPauseHolds == Spec => NoScanDuringTagUpdate
<1>1. IInv /\ [Next]_vars
        => [(scan = "gated" /\ scan' = "executing") => web # "updating"]_vars
  <2> SUFFICES ASSUME IInv, Next, scan = "gated", scan' = "executing"
               PROVE  web # "updating"
    OBVIOUS
  <2>1. ScanSamplePause
    BY OnlySampleStarts
  <2>2. ~pauseRuntime
    BY <2>1 DEF ScanSamplePause
  <2>3. QED
    BY <2>2 DEF IInv, TagPause
<1>2. QED
  BY <1>1, Inductive, PTL DEF Spec, NoScanDuringTagUpdate

-----------------------------------------------------------------------------
(***************************************************************************)
(* Proofs that a program has one owner (ProgramsOwnedOnce) and that        *)
(* ScriptEngine implements ProgramLifecycle, for every number of uploads,  *)
(* every depth of the retired queue and every set of update modes.         *)
(*                                                                         *)
(* Both follow from the order of the upload numbers (Line and Fresh):      *)
(* along the way of a program, destroyed, being destroyed, retired queue,  *)
(* active, pending, job in flight, the numbers increase.  So no program is *)
(* in two of these places, and the steps happen in upload order.           *)
(***************************************************************************)
\* The oldest programs are the furthest along, and a leaked program, which
\* left the way, is nowhere else.
Line ==
  /\ \A i, j \in 1 .. Len(retiredQueue) : i < j => retiredQueue[i] < retiredQueue[j]
  /\ \A p \in Elements(retiredQueue) : cleaning < p
  /\ \A d \in destroyed : cleaning # None => d < cleaning
  /\ \A d \in destroyed, p \in Elements(retiredQueue) : d < p
  /\ leaked \cap (destroyed \cup Elements(retiredQueue)) = {}
  /\ cleaning \notin leaked
  /\ \A p \in Elements(retiredQueue) \cup destroyed \cup leaked : p < active
  /\ cleaning # None => cleaning < active
  /\ pending # None => active < pending

\* The job in flight is younger than every program.
Fresh ==
  /\ pending <= uploads /\ active <= uploads
  /\ WebHoldsJob => pending < uploads /\ active < uploads
  /\ \A j \in Elements(compileQueue) : pending < j /\ active < j /\ j <= uploads
  /\ compiler \in {"deferred", "building", "publishing", "slotHeld"} =>
       pending < job /\ active < job /\ job <= uploads

Order == Line /\ Fresh

-----------------------------------------------------------------------------
\* What Append and Tail do to the elements of a queue.
LEMMA AppendElements ==
  ASSUME NEW S, NEW s \in Seq(S), NEW e \in S
  PROVE  Elements(Append(s, e)) = Elements(s) \cup {e}
<1>1. Len(s) \in Nat /\ Len(Append(s, e)) = Len(s) + 1
  OBVIOUS
<1>2. \A i \in 1 .. Len(s) : Append(s, e)[i] = s[i]
  OBVIOUS
<1>3. Append(s, e)[Len(s) + 1] = e
  OBVIOUS
<1>4. 1 .. Len(s) + 1 = (1 .. Len(s)) \cup {Len(s) + 1}
  BY <1>1
<1>5. QED
  BY <1>1, <1>2, <1>3, <1>4 DEF Elements

LEMMA TailElements ==
  ASSUME NEW S, NEW s \in Seq(S), s # << >>
  PROVE  Elements(s) = {Head(s)} \cup Elements(Tail(s))
<1>1. /\ Len(s) \in Nat /\ Len(s) # 0 /\ Len(Tail(s)) = Len(s) - 1
      /\ \A i \in 1 .. Len(Tail(s)) : Tail(s)[i] = s[i + 1]
      /\ Head(s) = s[1]
  BY HeadTailProperties, EmptySeq
<1>2. \A i \in 1 .. Len(s) : i = 1 \/ (i - 1 \in 1 .. Len(Tail(s)) /\ s[i] = Tail(s)[i - 1])
  BY <1>1
<1>3. \A i \in 1 .. Len(Tail(s)) : i + 1 \in 1 .. Len(s)
  BY <1>1
<1>4. Elements(s) \subseteq {Head(s)} \cup Elements(Tail(s))
  BY <1>1, <1>2 DEF Elements
<1>5. Head(s) \in Elements(s)
  BY <1>1 DEF Elements
<1>6. Elements(Tail(s)) \subseteq Elements(s)
  BY <1>1, <1>3 DEF Elements
<1>7. QED
  BY <1>4, <1>5, <1>6

LEMMA NoElements == Elements(<< >>) = {}
  BY DEF Elements

\* The programs and their places are numbers.
LEMMA Numbers ==
  ASSUME TypeOK
  PROVE  /\ uploads \in Nat /\ pending \in Nat /\ active \in Nat
         /\ cleaning \in Nat /\ job \in Nat
         /\ Elements(retiredQueue) \subseteq Programs
         /\ Elements(compileQueue) \subseteq Programs
         /\ destroyed \subseteq Programs /\ leaked \subseteq Programs
         /\ \A p \in Programs : p \in Nat /\ p # None
<1>1. \A s \in Seq(Programs) : Elements(s) \subseteq Programs
  BY ElementOfSeq DEF Elements
<1>2. QED
  BY <1>1, ScriptEngineAssumption DEF TypeOK, MaybeProgram, Programs, None

\* The steps that move a program.
LEMMA MovingSteps ==
  ASSUME [Next]_vars
  PROVE  \/ CompilerPublish \/ ScanSwap \/ CleanerReceive \/ CleanerDestroy
         \/ UNCHANGED <<pending, active, retireVars>>
<1> USE DEF slotVars, retireVars
<1>1. CASE WebRequest
  BY <1>1 DEF WebRequest, WebBeginUpload, WebAbortUpload, WebClaimCompiler,
              WebReadStatus, WebSetPlcMode, WebSetUpdateMode, WebPauseForTags
<1>2. CASE WebFinish
  BY <1>2 DEF WebFinish, WebProbePending, WebRecheckTake, WebRecheckTimeout,
              WebRecheckPending, WebOutOfMemory, WebSendJob, WebAcknowledge,
              WebStatusRead, WebResumeAfterTags
<1>3. CASE CompilerStep
  BY <1>3 DEF CompilerStep, CompilerReceive, CompilerBegin, CompilerBuild,
              CompilerTakeSlot, CompilerTakeName, CompilerNameTimeout,
              CompilerStoreName, CompilerSucceed, CompilerFail
<1>4. CASE ScanStep
  BY <1>4 DEF ScanStep, ScanBegin, ScanSamplePause, ScanEndExecution,
              ScanTakeBoundary, ScanSkipBoundary, ScanLiftPause
<1>5. CASE CleanerStep
  BY <1>5 DEF CleanerStep
<1>6. CASE CacheStep
  BY <1>6 DEF CacheStep, CacheTakeName, CacheNameRead
<1>7. CASE UNCHANGED vars
  BY <1>7 DEF vars
<1>8. QED
  BY <1>1, <1>2, <1>3, <1>4, <1>5, <1>6, <1>7 DEF Next

\* A swap of a pending program: the new slots and what becomes of the old
\* active program.
LEMMA SwapEffect ==
  ASSUME TypeOK, ScanSwap, pending # None
  PROVE  /\ active' = pending /\ pending' = None
         /\ cleaning' = cleaning /\ destroyed' = destroyed
         /\ \/ active = None /\ UNCHANGED <<retiredQueue, leaked>>
            \/ /\ active # None
               /\ retiredQueue' = Append(retiredQueue, active)
               /\ Elements(retiredQueue') = Elements(retiredQueue) \cup {active}
               /\ leaked' = leaked
            \/ /\ active # None
               /\ Len(retiredQueue) >= RetiredDepth
               /\ leaked' = leaked \cup {active}
               /\ retiredQueue' = retiredQueue
<1>1. Retire(active) /\ active' = pending /\ pending' = None
  BY DEF ScanSwap
<1>2. cleaning' = cleaning /\ destroyed' = destroyed
  BY DEF ScanSwap
<1>3. retiredQueue \in Seq(Programs) /\ Len(retiredQueue) \in Nat
  BY DEF TypeOK
<1>4. active # None => active \in Programs
  BY DEF TypeOK, MaybeProgram
<1>5. CASE active = None
  BY <1>1, <1>2, <1>5 DEF Retire
<1>6. CASE active # None /\ Len(retiredQueue) < RetiredDepth
  <2>1. retiredQueue' = Append(retiredQueue, active) /\ leaked' = leaked
    BY <1>1, <1>6 DEF Retire
  <2>2. Elements(retiredQueue') = Elements(retiredQueue) \cup {active}
    BY <1>3, <1>4, <1>6, <2>1, AppendElements
  <2>3. QED
    BY <1>1, <1>2, <1>6, <2>1, <2>2
<1>7. CASE active # None /\ ~(Len(retiredQueue) < RetiredDepth)
  BY <1>1, <1>2, <1>3, <1>7, ScriptEngineAssumption DEF Retire
<1>8. QED
  BY <1>5, <1>6, <1>7

\* The cleanup task takes the head of the retired queue.
LEMMA ReceiveEffect ==
  ASSUME TypeOK, CleanerReceive
  PROVE  /\ cleaning = None /\ cleaning' \in Programs
         /\ retiredQueue # << >> /\ cleaning' = Head(retiredQueue)
         /\ retiredQueue' = Tail(retiredQueue)
         /\ Elements(retiredQueue) = {cleaning'} \cup Elements(retiredQueue')
         /\ UNCHANGED <<pending, active, destroyed, leaked>>
<1>1. retiredQueue \in Seq(Programs) /\ retiredQueue # << >>
  BY DEF TypeOK, CleanerReceive
<1>2. cleaning = None /\ cleaning' = Head(retiredQueue) /\ retiredQueue' = Tail(retiredQueue)
  BY DEF CleanerReceive
<1>3. Head(retiredQueue) \in Programs
  BY <1>1, HeadTailProperties
<1>4. UNCHANGED <<pending, active, destroyed, leaked>>
  BY DEF CleanerReceive, slotVars
<1>5. QED
  BY <1>1, <1>2, <1>3, <1>4, TailElements

\* The order of the upload numbers is kept by a publication ...
LEMMA PublishKeepsLine ==
  ASSUME IInv, Order, CompilerPublish
  PROVE  Line'
<1> USE Numbers DEF IInv, Order
<1>1. UNCHANGED <<active, retireVars>>
  BY DEF CompilerPublish
<1>2. CASE pending # None
  BY <1>1, <1>2 DEF CompilerPublish, Line, Elements, retireVars
<1>3. CASE pending = None
  <2>1. pending' = job /\ active < job
    BY <1>3 DEF CompilerPublish, Fresh
  <2>2. QED
    BY <1>1, <2>1 DEF Line, Elements, retireVars
<1>4. QED
  BY <1>2, <1>3

\* ... by a swap ...
LEMMA SwapKeepsLine ==
  ASSUME IInv, Order, ScanSwap
  PROVE  Line'
<1> USE DEF IInv, Order
<1>1. CASE pending = None
  BY <1>1 DEF ScanSwap, Line, Elements, slotVars
<1>2. CASE pending # None
  <2>1. /\ active' = pending /\ pending' = None
        /\ cleaning' = cleaning /\ destroyed' = destroyed
    BY <1>2, SwapEffect
  <2>2. /\ active < pending
        /\ \A p \in Elements(retiredQueue) \cup destroyed \cup leaked : p < active
        /\ cleaning # None => cleaning < active
    BY <1>2 DEF Line
  <2>3. /\ pending \in Nat /\ active \in Nat /\ cleaning \in Nat
        /\ \A p \in Elements(retiredQueue) \cup destroyed \cup leaked : p \in Nat /\ p # None
    BY Numbers
  <2>4. /\ \A p \in Elements(retiredQueue) \cup destroyed \cup leaked \cup {active} : p < pending
        /\ cleaning < pending
    BY <2>2, <2>3 DEF None
  <2>5. active # None => /\ cleaning < active
                         /\ active \notin Elements(retiredQueue) \cup destroyed \cup leaked \cup {cleaning}
    BY <2>2, <2>3 DEF None
  <2>6. CASE active = None /\ UNCHANGED <<retiredQueue, leaked>>
    BY <2>1, <2>4, <2>6 DEF Line
  <2>7. CASE /\ active # None
             /\ retiredQueue' = Append(retiredQueue, active)
             /\ Elements(retiredQueue') = Elements(retiredQueue) \cup {active}
             /\ leaked' = leaked
    <3>1. retiredQueue \in Seq(Programs) /\ active \in Programs
      BY <2>7 DEF TypeOK, MaybeProgram
    <3>2. /\ Len(retiredQueue) \in Nat /\ Len(retiredQueue') = Len(retiredQueue) + 1
          /\ \A i \in 1 .. Len(retiredQueue) : retiredQueue'[i] = retiredQueue[i]
          /\ retiredQueue'[Len(retiredQueue) + 1] = active
      BY <2>7, <3>1
    <3>3. \A i \in 1 .. Len(retiredQueue) : retiredQueue[i] < active
      BY <2>2 DEF Elements
    <3>4. \A i, j \in 1 .. Len(retiredQueue') : i < j => retiredQueue'[i] < retiredQueue'[j]
      <4> SUFFICES ASSUME NEW i \in 1 .. Len(retiredQueue) + 1,
                          NEW j \in 1 .. Len(retiredQueue) + 1, i < j
                   PROVE  retiredQueue'[i] < retiredQueue'[j]
        BY <3>2
      <4>1. i \in 1 .. Len(retiredQueue)
        BY <3>2
      <4>2. CASE j = Len(retiredQueue) + 1
        BY <3>2, <3>3, <4>1, <4>2
      <4>3. CASE j \in 1 .. Len(retiredQueue)
        BY <3>2, <4>1, <4>3 DEF Line
      <4>4. QED
        BY <3>2, <4>2, <4>3
    <3>5. QED
      BY <2>1, <2>2, <2>4, <2>5, <2>7, <3>4 DEF Line
  <2>8. CASE /\ active # None
             /\ leaked' = leaked \cup {active} /\ retiredQueue' = retiredQueue
    BY <2>1, <2>4, <2>5, <2>8 DEF Line
  <2>9. QED
    BY <1>2, <2>6, <2>7, <2>8, SwapEffect
<1>3. QED
  BY <1>1, <1>2

\* ... and by the cleanup task.
LEMMA ReceiveKeepsLine ==
  ASSUME IInv, Order, CleanerReceive
  PROVE  Line'
<1> USE DEF IInv, Order
<1>1. /\ cleaning = None /\ cleaning' \in Programs
      /\ retiredQueue # << >> /\ cleaning' = Head(retiredQueue)
      /\ retiredQueue' = Tail(retiredQueue)
      /\ Elements(retiredQueue) = {cleaning'} \cup Elements(retiredQueue')
      /\ UNCHANGED <<pending, active, destroyed, leaked>>
  BY ReceiveEffect
<1>2. retiredQueue \in Seq(Programs)
  BY DEF TypeOK
<1>3. /\ Len(retiredQueue) \in Nat /\ Len(retiredQueue) # 0
      /\ Len(retiredQueue') = Len(retiredQueue) - 1
      /\ \A i \in 1 .. Len(retiredQueue') : retiredQueue'[i] = retiredQueue[i + 1]
      /\ cleaning' = retiredQueue[1]
  BY <1>1, <1>2, HeadTailProperties, EmptySeq
<1>4. \A i, j \in 1 .. Len(retiredQueue') : i < j => retiredQueue'[i] < retiredQueue'[j]
  <2> SUFFICES ASSUME NEW i \in 1 .. Len(retiredQueue) - 1,
                      NEW j \in 1 .. Len(retiredQueue) - 1, i < j
               PROVE  retiredQueue[i + 1] < retiredQueue[j + 1]
    BY <1>3
  <2>1. i + 1 \in 1 .. Len(retiredQueue) /\ j + 1 \in 1 .. Len(retiredQueue) /\ i + 1 < j + 1
    BY <1>3
  <2>2. QED
    BY <2>1 DEF Line
<1>5. \A p \in Elements(retiredQueue') : cleaning' < p
  <2> SUFFICES ASSUME NEW i \in 1 .. Len(retiredQueue')
               PROVE  cleaning' < retiredQueue'[i]
    BY DEF Elements
  <2>1. 1 \in 1 .. Len(retiredQueue) /\ i + 1 \in 1 .. Len(retiredQueue) /\ 1 < i + 1
    BY <1>3
  <2>2. QED
    BY <1>3, <2>1 DEF Line
<1>6. cleaning' \in Elements(retiredQueue)
  BY <1>1
<1>7. QED
  BY <1>1, <1>4, <1>5, <1>6 DEF Line

LEMMA DestroyKeepsLine ==
  ASSUME IInv, Order, CleanerDestroy
  PROVE  Line'
<1> USE DEF IInv, Order
<1>1. /\ cleaning # None /\ cleaning' = None /\ destroyed' = destroyed \cup {cleaning}
      /\ UNCHANGED <<pending, active, retiredQueue, leaked>>
  BY DEF CleanerDestroy, slotVars
<1>2. \A p \in Elements(retiredQueue) : p \in Nat /\ p # None /\ None < p
  BY Numbers DEF None
<1>3. Elements(retiredQueue)' = Elements(retiredQueue)
  BY <1>1 DEF Elements
<1>4. cleaning < active /\ cleaning \notin leaked
  BY <1>1 DEF Line
<1>5. \A i, j \in 1 .. Len(retiredQueue') : i < j => retiredQueue'[i] < retiredQueue'[j]
  BY <1>1 DEF Line
<1>6. /\ \A d \in destroyed', p \in Elements(retiredQueue) : d < p
      /\ \A p \in Elements(retiredQueue) \cup destroyed' \cup leaked : p < active
      /\ leaked \cap (destroyed' \cup Elements(retiredQueue)) = {}
  BY <1>1, <1>4 DEF Line
<1>7. None \notin leaked
  BY Numbers
<1>8. QED
  BY <1>1, <1>2, <1>3, <1>5, <1>6, <1>7 DEF Line

LEMMA LineStep ==
  ASSUME IInv, Order, [Next]_vars
  PROVE  Line'
<1>1. CASE UNCHANGED <<pending, active, retireVars>>
  BY <1>1 DEF Order, Line, Elements, retireVars
<1>2. QED
  BY <1>1, MovingSteps, PublishKeepsLine, SwapKeepsLine, ReceiveKeepsLine, DestroyKeepsLine

\* The job in flight stays the youngest program.
LEMMA FreshStep ==
  ASSUME IInv, Order, [Next]_vars
  PROVE  Fresh'
<1> USE Numbers, NoElements
    DEF IInv, Order, Fresh, WebHoldsJob, None, uploadVars, webVars,
        requestVars, slotVars, compilerVars, Take, Give
<1>1. CASE WebRequest
  <2>1. CASE WebClaimCompiler
    <3>1. uploads' = uploads + 1 /\ UNCHANGED <<pending, active, compileQueue, compiler, job>>
      BY <2>1 DEF WebClaimCompiler
    <3>2. Elements(compileQueue)' = Elements(compileQueue)
      BY <3>1 DEF Elements
    <3>3. \A j \in Elements(compileQueue) : j \in Nat
      BY Numbers
    <3>4. QED
      BY <3>1, <3>2, <3>3
  <2>2. CASE ~WebClaimCompiler
    BY <1>1, <2>2 DEF WebRequest, WebBeginUpload, WebAbortUpload, WebReadStatus,
                      WebSetPlcMode, WebSetUpdateMode, WebPauseForTags, Elements
  <2>3. QED
    BY <2>1, <2>2
<1>2. CASE WebFinish
  <2>1. CASE WebSendJob
    <3>1. CASE Len(compileQueue) < 1
      <4>1. uploads \in Programs
        BY <2>1 DEF WebSendJob, UploadsLeft, TypeOK, Programs
      <4>2. /\ compileQueue' = Append(compileQueue, uploads)
            /\ compileQueue \in Seq(Programs)
        BY <2>1, <3>1 DEF WebSendJob, TypeOK
      <4>3. Elements(compileQueue') = Elements(compileQueue) \cup {uploads}
        BY <4>1, <4>2, AppendElements
      <4>4. pending < uploads /\ active < uploads
        BY <2>1 DEF WebSendJob
      <4>5. QED
        BY <2>1, <3>1, <4>3, <4>4 DEF WebSendJob
    <3>2. CASE ~(Len(compileQueue) < 1)
      BY <2>1, <3>2 DEF WebSendJob, Elements
    <3>3. QED
      BY <3>1, <3>2
  <2>2. CASE ~WebSendJob
    BY <1>2, <2>2 DEF WebFinish, WebProbePending, WebRecheckTake, WebRecheckTimeout,
                      WebRecheckPending, WebOutOfMemory, WebAcknowledge,
                      WebStatusRead, WebResumeAfterTags, Elements
  <2>3. QED
    BY <2>1, <2>2
<1>3. CASE CompilerStep
  <2>1. CASE CompilerReceive
    <3>1. compileQueue \in Seq(Programs) /\ compileQueue # << >>
      BY <2>1 DEF CompilerReceive, TypeOK
    <3>2. Elements(compileQueue) = {job'} \cup Elements(compileQueue')
      BY <2>1, <3>1, TailElements DEF CompilerReceive
    <3>3. UNCHANGED <<uploads, web, pending, active>>
      BY <2>1 DEF CompilerReceive
    <3>4. QED
      BY <3>2, <3>3
  <2>2. CASE CompilerPublish
    <3>1. ~WebHoldsJob /\ Len(compileQueue) = 0
      BY <2>2 DEF CompilerPublish, OneJob
    <3>2. Elements(compileQueue) = {}
      BY <3>1 DEF Elements
    <3>3. UNCHANGED <<uploads, web, active, compileQueue, job>> /\ pending' \in {pending, job}
      BY <2>2 DEF CompilerPublish
    <3>4. compiler' \in {"failed", "naming"} /\ compiler = "slotHeld"
      BY <2>2 DEF CompilerPublish
    <3>5. QED
      BY <3>1, <3>2, <3>3, <3>4
  <2>3. CASE ~CompilerReceive /\ ~CompilerPublish
    BY <1>3, <2>3 DEF CompilerStep, CompilerBegin, CompilerBuild, CompilerTakeSlot,
                      CompilerTakeName, CompilerNameTimeout, CompilerStoreName,
                      CompilerSucceed, CompilerFail, Elements
  <2>4. QED
    BY <2>1, <2>2, <2>3
<1>4. CASE ScanStep
  <2>1. CASE ScanSwap
    <3>1. UNCHANGED <<uploads, web, compileQueue, compiler, job>>
      BY <2>1 DEF ScanSwap
    <3>2. \/ UNCHANGED <<pending, active>>
          \/ pending' = None /\ active' = pending
      BY <2>1 DEF ScanSwap
    <3>3. \A j \in Elements(compileQueue) : j \in Nat
      BY Numbers
    <3>4. Elements(compileQueue)' = Elements(compileQueue)
      BY <3>1 DEF Elements
    <3>5. QED
      BY <3>1, <3>2, <3>3, <3>4
  <2>2. CASE ~ScanSwap
    BY <1>4, <2>2 DEF ScanStep, ScanBegin, ScanSamplePause, ScanEndExecution,
                      ScanTakeBoundary, ScanSkipBoundary, ScanLiftPause, Elements
  <2>3. QED
    BY <2>1, <2>2
<1>5. CASE CleanerStep
  BY <1>5 DEF CleanerStep, CleanerReceive, CleanerDestroy, Elements
<1>6. CASE CacheStep
  BY <1>6 DEF CacheStep, CacheTakeName, CacheNameRead, Elements
<1>7. CASE UNCHANGED vars
  BY <1>7 DEF vars, Elements
<1>8. QED
  BY <1>1, <1>2, <1>3, <1>4, <1>5, <1>6, <1>7 DEF Next

LEMMA InitOrder == Init => Order
  BY NoElements, ScriptEngineAssumption
     DEF Init, Order, Line, Fresh, WebHoldsJob, None

LEMMA OrderInductive == Spec => []Order
<1>1. IInv /\ Order /\ [Next]_vars => Order'
  BY LineStep, FreshStep DEF Order
<1>2. QED
  BY InitOrder, <1>1, Inductive, PTL DEF Spec

-----------------------------------------------------------------------------
\* No program has two owners: the cleanup task destroys neither the program
\* that script_engine_run_scan executes nor the pending one, and none twice.
THEOREM OneOwner == Spec => []ProgramsOwnedOnce
<1>1. IInv /\ Order => ProgramsOwnedOnce
  <2> SUFFICES ASSUME IInv, Order PROVE ProgramsOwnedOnce
    OBVIOUS
  <2> USE Numbers DEF IInv, Order, Line, None
  <2>1. active \notin Discarded
    BY DEF Discarded
  <2>2. pending \notin Discarded
    <3>1. CASE pending = None
      BY <3>1 DEF Discarded
    <3>2. CASE pending # None
      BY <3>2 DEF Discarded
    <3>3. QED
      BY <3>1, <3>2
  <2>3. pending # None => pending # active
    OBVIOUS
  <2>4. \A i, j \in 1 .. Len(retiredQueue) :
          retiredQueue[i] = retiredQueue[j] => i = j
    <3>1. \A i \in 1 .. Len(retiredQueue) : retiredQueue[i] \in Nat
      BY DEF Elements
    <3>2. \A i, j \in 1 .. Len(retiredQueue) : i < j \/ i = j \/ j < i
      BY DEF TypeOK
    <3>3. QED
      BY <3>1, <3>2
  <2>5. Elements(retiredQueue) \cap destroyed = {}
    OBVIOUS
  <2>6. cleaning # None => cleaning \notin destroyed \cup Elements(retiredQueue)
    OBVIOUS
  <2>7. leaked \cap (destroyed \cup Elements(retiredQueue) \cup {cleaning}) = {}
    OBVIOUS
  <2>8. QED
    BY <2>1, <2>2, <2>3, <2>4, <2>5, <2>6, <2>7 DEF ProgramsOwnedOnce
<1>2. QED
  BY <1>1, Inductive, OrderInductive, PTL

-----------------------------------------------------------------------------
\* The phase that the mapping gives a program in each place.
PhaseFacts ==
  \A p \in Programs :
    /\ Phase[p] = "pending"   <=> p = pending
    /\ Phase[p] = "active"    <=> p = active
    /\ Phase[p] = "retired"   <=> p \in Elements(retiredQueue) \/ p = cleaning
    /\ Phase[p] = "destroyed" <=> p \in destroyed
    /\ Phase[p] = "leaked"    <=> p \in leaked
    /\ Phase[p] \in {"pending", "active", "retired", "destroyed", "leaked", "unused"}

LEMMA PhaseIs == IInv /\ Line => PhaseFacts
<1> SUFFICES ASSUME IInv, Line, NEW p \in Programs
             PROVE  /\ Phase[p] = "pending"   <=> p = pending
                    /\ Phase[p] = "active"    <=> p = active
                    /\ Phase[p] = "retired"   <=> p \in Elements(retiredQueue) \/ p = cleaning
                    /\ Phase[p] = "destroyed" <=> p \in destroyed
                    /\ Phase[p] = "leaked"    <=> p \in leaked
                    /\ Phase[p] \in {"pending", "active", "retired", "destroyed",
                                     "leaked", "unused"}
  BY DEF PhaseFacts
<1> USE Numbers DEF IInv, Line, None
<1>1. p = pending => p # active
  OBVIOUS
<1>2. p = pending \/ p = active =>
        /\ p \notin Elements(retiredQueue) /\ p # cleaning
        /\ p \notin destroyed /\ p \notin leaked
  OBVIOUS
<1>3. p \in Elements(retiredQueue) \/ p = cleaning => p \notin destroyed /\ p \notin leaked
  OBVIOUS
<1>4. p \in destroyed => p \notin leaked
  OBVIOUS
<1>5. QED
  BY <1>1, <1>2, <1>3, <1>4 DEF Phase

LEMMA PhaseIsNext == IInv' /\ Line' => PhaseFacts'
  BY PhaseIs, PTL

\* A phase changes as the places do.
LEMMA SamePhases ==
  ASSUME UNCHANGED <<pending, active, destroyed, leaked>>,
         PhaseFacts, PhaseFacts',
         \A p \in Programs : p \in Elements(retiredQueue) \/ p = cleaning
                               <=> p \in Elements(retiredQueue') \/ p = cleaning'
  PROVE  Phase' = Phase
<1>1. \A p \in Programs : Phase'[p] = Phase[p]
  BY DEF PhaseFacts, Elements
<1>2. QED
  BY <1>1 DEF Phase

\* compile_to_pending publishes.
LEMMA PublishRefines ==
  ASSUME IInv, Order, CompilerPublish, PhaseFacts, PhaseFacts', pending = None
  PROVE  Lifecycle!Next
<1> USE Numbers DEF IInv, Order, None
<1>1. /\ pending' = job /\ active < job /\ job # None /\ job \in Programs
      /\ UNCHANGED <<active, retireVars>>
  BY DEF CompilerPublish, Fresh, OneJob, TypeOK, MaybeProgram
<1>2. Elements(retiredQueue)' = Elements(retiredQueue)
  BY <1>1 DEF Elements, retireVars
<1>3. Lifecycle!In("pending") = {}
  BY DEF Lifecycle!In, Lifecycle!Programs, PhaseFacts, Programs
<1>4. \A q \in Programs : Phase[q] # "unused" => q < job
  <2> SUFFICES ASSUME NEW q \in Programs, Phase[q] # "unused" PROVE q < job
    OBVIOUS
  <2>1. q = active \/ q = cleaning \/ q \in Elements(retiredQueue) \cup destroyed \cup leaked
    BY DEF PhaseFacts
  <2>2. q <= active
    BY <2>1 DEF Line
  <2>3. QED
    BY <1>1, <2>2
<1>5. \A q \in Programs : q # job => Phase'[q] = Phase[q]
  BY <1>1, <1>2 DEF PhaseFacts, retireVars
<1>6. Phase'[job] = "pending"
  BY <1>1 DEF PhaseFacts
<1>7. Phase' = [Phase EXCEPT ![job] = "pending"]
  BY <1>1, <1>5, <1>6 DEF Phase
<1>8. Lifecycle!Publish(job)
  BY <1>3, <1>4, <1>7 DEF Lifecycle!Publish, Lifecycle!Programs, Programs
<1>9. QED
  BY <1>1, <1>8 DEF Lifecycle!Next, Lifecycle!Programs, Programs

\* The instance of ProgramLifecycle counts as FiniteSets does.
LEMMA SameCardinality == \A S : Lifecycle!Cardinality(S) = Cardinality(S)
  BY DEF Lifecycle!Cardinality, Lifecycle!IsFiniteSet, Cardinality, IsFiniteSet

LEMMA CountTo ==
  ASSUME NEW n \in Nat PROVE Cardinality(1 .. n) = n
<1>1. 1 \in Int /\ n \in Int
  OBVIOUS
<1>2. Cardinality(1 .. n) = IF 1 > n THEN 0 ELSE n - 1 + 1
  BY <1>1, FS_Interval
<1>3. QED
  BY <1>2

\* When a program is leaked, at least RetiredDepth programs are retired: the
\* queue holds RetiredDepth different ones.
LEMMA FullQueue ==
  ASSUME IInv, Line, PhaseFacts, Len(retiredQueue) >= RetiredDepth
  PROVE  Cardinality(Lifecycle!In("retired")) >= RetiredDepth
<1> DEFINE R == Lifecycle!In("retired")
<1> USE DEF IInv, TypeOK
<1>1. R \subseteq Programs /\ Elements(retiredQueue) \subseteq R
  BY Numbers DEF Lifecycle!In, Lifecycle!Programs, PhaseFacts, Programs
<1>2. IsFiniteSet(R)
  <2>1. IsFiniteSet(Programs)
    BY FS_Interval, ScriptEngineAssumption DEF Programs
  <2>2. QED
    BY <1>1, <2>1, FS_Subset
<1>3. Len(retiredQueue) \in Nat /\ retiredQueue \in [1 .. Len(retiredQueue) -> Programs]
  BY LenProperties
<1>4. \A i \in 1 .. Len(retiredQueue) : retiredQueue[i] \in R
  BY <1>1 DEF Elements
<1>5. \A i, j \in 1 .. Len(retiredQueue) : retiredQueue[i] = retiredQueue[j] => i = j
  <2>1. \A i \in 1 .. Len(retiredQueue) : retiredQueue[i] \in Nat
    BY <1>3, ScriptEngineAssumption DEF Programs
  <2>2. \A i, j \in 1 .. Len(retiredQueue) : i < j \/ i = j \/ j < i
    BY <1>3
  <2>3. QED
    BY <2>1, <2>2 DEF Line
<1>6. retiredQueue \in Injection(1 .. Len(retiredQueue), R)
  BY <1>3, <1>4, <1>5 DEF Injection, IsInjective
<1>7. Cardinality(1 .. Len(retiredQueue)) <= Cardinality(R)
  BY <1>2, <1>6, FS_Injection
<1>8. Cardinality(1 .. Len(retiredQueue)) = Len(retiredQueue)
  BY <1>3, CountTo
<1>9. Cardinality(R) \in Nat
  BY <1>2, FS_CardinalityType
<1>10. QED
  BY <1>3, <1>7, <1>8, <1>9, ScriptEngineAssumption

\* The swap at the end of script_engine_run_scan activates.
LEMMA SwapRefines ==
  ASSUME IInv, Order, ScanSwap, PhaseFacts, PhaseFacts', pending # None
  PROVE  Lifecycle!Next
<1> DEFINE fate == IF active # None /\ active \in leaked' THEN "leaked" ELSE "retired"
<1> USE DEF IInv, Order
<1>1. /\ active' = pending /\ pending' = None
      /\ cleaning' = cleaning /\ destroyed' = destroyed
  BY SwapEffect
<1>2. pending \in Programs /\ (active # None => active \in Programs)
  BY DEF TypeOK, MaybeProgram
<1>3. /\ active # pending
      /\ active # None => active \notin Elements(retiredQueue) \cup destroyed \cup leaked \cup {cleaning}
  BY Numbers DEF Line, None
<1>4. Phase[pending] = "pending"
  BY <1>2 DEF PhaseFacts
<1>5. fate = "leaked" => Cardinality(Lifecycle!In("retired")) >= RetiredDepth
  <2>1. fate = "leaked" => Len(retiredQueue) >= RetiredDepth
    BY <1>3, SwapEffect
  <2>2. QED
    BY <2>1, FullQueue
<1>6. \A q \in Programs : q # pending /\ q # active => Phase'[q] = Phase[q]
  <2> SUFFICES ASSUME NEW q \in Programs, q # pending, q # active
               PROVE  Phase'[q] = Phase[q]
    OBVIOUS
  <2>1. q # pending' /\ q # active' /\ (q = cleaning' <=> q = cleaning)
    BY <1>1, Numbers
  <2>2. q \in Elements(retiredQueue)' <=> q \in Elements(retiredQueue)
    BY SwapEffect DEF Elements
  <2>3. q \in leaked' <=> q \in leaked
    BY SwapEffect
  <2>4. q \in destroyed' <=> q \in destroyed
    BY <1>1
  <2>5. QED
    BY <2>1, <2>2, <2>3, <2>4 DEF PhaseFacts
<1>7. Phase'[pending] = "active"
  BY <1>1, <1>2 DEF PhaseFacts
<1>8. active # None => Phase'[active] = fate /\ Phase[active] = "active"
  <2> SUFFICES ASSUME active # None
               PROVE  Phase'[active] = fate /\ Phase[active] = "active"
    OBVIOUS
  <2>1. active \in Elements(retiredQueue)' \/ active \in leaked'
    BY SwapEffect DEF Elements
  <2>2. Phase[active] = "active"
    BY <1>2 DEF PhaseFacts
  <2>3. QED
    BY <1>2, <2>1, <2>2 DEF PhaseFacts
<1>9. \A q \in Programs : Phase[q] = "active" => q = active
  BY DEF PhaseFacts
<1>10. \A q \in Programs :
         Phase'[q] = IF q = pending THEN "active"
                     ELSE IF Phase[q] = "active" THEN fate ELSE Phase[q]
  <2> HIDE DEF fate
  <2> QED
    BY <1>6, <1>7, <1>8, <1>9, Numbers
<1>11. Phase' = [q \in Programs |-> IF q = pending THEN "active"
                                    ELSE IF Phase[q] = "active" THEN fate ELSE Phase[q]]
  <2> HIDE DEF fate
  <2> QED
    BY <1>10 DEF Phase
<1>12. Lifecycle!Activate(pending)
  <2>1. fate \in {"retired", "leaked"}
    OBVIOUS
  <2>2. fate = "leaked" => Lifecycle!Cardinality(Lifecycle!In("retired")) >= RetiredDepth
    BY <1>5, SameCardinality
  <2> HIDE DEF fate
  <2>3. QED
    BY <1>4, <1>11, <2>1, <2>2 DEF Lifecycle!Activate, Lifecycle!Programs, Programs
<1>13. QED
  BY <1>2, <1>12 DEF Lifecycle!Next, Lifecycle!Programs, Programs

\* script_cleanup_task destroys.
LEMMA DestroyRefines ==
  ASSUME IInv, Order, CleanerDestroy, PhaseFacts, PhaseFacts'
  PROVE  Lifecycle!Next
<1> USE DEF IInv, Order
<1>1. /\ cleaning # None /\ cleaning' = None /\ destroyed' = destroyed \cup {cleaning}
      /\ UNCHANGED <<pending, active, retiredQueue, leaked>>
  BY DEF CleanerDestroy, slotVars
<1>2. cleaning \in Programs /\ Elements(retiredQueue)' = Elements(retiredQueue)
  BY <1>1 DEF TypeOK, MaybeProgram, Elements
<1>3. Phase[cleaning] = "retired" /\ Phase'[cleaning] = "destroyed"
  BY <1>1, <1>2 DEF PhaseFacts
<1>4. \A q \in Lifecycle!In("retired") : cleaning <= q
  BY Numbers DEF Lifecycle!In, Lifecycle!Programs, PhaseFacts, Line, Programs
<1>5. \A q \in Programs : q # cleaning => Phase'[q] = Phase[q]
  BY <1>1, <1>2, Numbers DEF PhaseFacts
<1>6. Phase' = [Phase EXCEPT ![cleaning] = "destroyed"]
  <2>1. \A q \in Programs : Phase'[q] = IF q = cleaning THEN "destroyed" ELSE Phase[q]
    BY <1>3, <1>5
  <2>2. Phase' = [q \in Programs |-> IF q = cleaning THEN "destroyed" ELSE Phase[q]]
    BY <2>1 DEF Phase
  <2>3. [Phase EXCEPT ![cleaning] = "destroyed"]
          = [q \in Programs |-> IF q = cleaning THEN "destroyed" ELSE Phase[q]]
    <3>1. DOMAIN Phase = Programs
      BY DEF Phase
    <3>2. QED
      BY <3>1
  <2>4. QED
    BY <2>2, <2>3
<1>7. Lifecycle!Destroy(cleaning)
  BY <1>3, <1>4, <1>6 DEF Lifecycle!Destroy
<1>8. QED
  BY <1>2, <1>7 DEF Lifecycle!Next, Lifecycle!Programs, Programs

LEMMA StepRefines ==
  ASSUME IInv, Order, IInv', Order', [Next]_vars
  PROVE  [Lifecycle!Next]_Phase
<1>1. PhaseFacts /\ PhaseFacts'
  BY PhaseIs, PhaseIsNext DEF Order
<1>2. CASE UNCHANGED <<pending, active, retireVars>>
  BY <1>1, <1>2, SamePhases DEF retireVars, Elements
<1>3. CASE CompilerPublish
  <2>1. CASE pending = None
    BY <1>1, <1>3, <2>1, PublishRefines
  <2>2. CASE pending # None
    <3>1. UNCHANGED <<pending, active, retireVars>>
      BY <1>3, <2>2 DEF CompilerPublish
    <3>2. QED
      BY <1>2, <3>1
  <2>3. QED
    BY <2>1, <2>2
<1>4. CASE ScanSwap
  <2>1. CASE pending # None
    BY <1>1, <1>4, <2>1, SwapRefines
  <2>2. CASE pending = None
    <3>1. UNCHANGED <<pending, active, retireVars>>
      BY <1>4, <2>2 DEF ScanSwap, slotVars, retireVars
    <3>2. QED
      BY <1>2, <3>1
  <2>3. QED
    BY <2>1, <2>2
<1>5. CASE CleanerReceive
  <2>1. /\ cleaning = None
        /\ Elements(retiredQueue) = {cleaning'} \cup Elements(retiredQueue')
        /\ UNCHANGED <<pending, active, destroyed, leaked>>
    BY <1>5, ReceiveEffect DEF IInv
  <2>2. QED
    BY <1>1, <2>1, SamePhases, Numbers DEF IInv
<1>6. CASE CleanerDestroy
  BY <1>1, <1>6, DestroyRefines
<1>7. QED
  BY <1>2, <1>3, <1>4, <1>5, <1>6, MovingSteps

\* Online replacement of the control program implements ProgramLifecycle:
\* whatever the tasks interleave, programs are
\* published, activated, retired and destroyed once each, in upload order, and
\* leaked only when the retired queue is full.
THEOREM LifecycleImplemented == Spec => ImplementsLifecycle
<1>1. Init => Lifecycle!Init
  <2> SUFFICES ASSUME Init PROVE Lifecycle!Init
    OBVIOUS
  <2>1. \A p \in Programs : p # None
    BY DEF Programs, None
  <2>2. \A p \in Programs : Phase[p] = "unused"
    BY <2>1, NoElements DEF Init, Phase
  <2>3. QED
    BY <2>2 DEF Lifecycle!Init, Lifecycle!Programs, Programs, Phase
<1>2. QED
  BY <1>1, StepRefines, Inductive, OrderInductive, PTL
     DEF Spec, ImplementsLifecycle, Lifecycle!Spec

=============================================================================
