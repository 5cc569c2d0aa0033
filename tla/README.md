# PiLab ESP32-P4 PLC: TLA+ models, checks and proofs

This directory models the concurrent core of the firmware in `src/main/`: how a
control program is replaced while the PLC runs, how scans are scheduled and
stopped, how inputs reach the process image and outputs the pins, how the tag
table grows, is saved and restored, and how its values reach the web client;
and, from the web application, how a ladder rung becomes a program. TLC checks
every model on small instances; TLAPS proves every safety property of the
passing runs for all values of the constants. All paths below are relative to
the repository's root, `src/`.

    tlc -workers 2 -config ScriptEngine.cfg MCScriptEngine      check a model
    tlapm ScriptEngineProofs.tla                                check the proofs

## 1. Inventory

The firmware is a set of FreeRTOS tasks on two cores. Task priorities and the
100 Hz tick (`CONFIG_FREERTOS_HZ`) matter: `pdMS_TO_TICKS(2)` is 0, a 10 ms
wait is one tick.

| Task | Where | What it does |
|---|---|---|
| timer ISR | `perf_test.cpp` | notifies `plc_scan_task` every millisecond |
| `plc_scan_task` (core 0, priority 24) | `perf_test.cpp`, `plc_io.cpp` | in RUN: inputs, outputs; every fifth tick notifies the script task |
| `script_scan_task` (core 0, 12) | `perf_test.cpp`, `script_engine.cpp` | one scan of the active script, activation at the scan boundary, overrun policy |
| `script_compile_task` (core 1, 2) | `script_engine.cpp` | builds an uploaded script in an engine of its own, publishes it as pending |
| `script_cleanup_task` (core 1, 1) | `script_engine.cpp` | destroys retired programs after a delay |
| HTTP server (core 1, 1; one task) | `ethernet_web.c` | uploads, RUN/STOP, settings, files, tags, status |
| `plc_data_cache_task` (core 1, 1) | `ethernet_web.c` | builds the JSON the web client polls |
| `udp_server_task` (core 1, 14) | `udp_server.c` | remote I/O packets |

### Components, their state, operations and what makes them correct

**Script engine** (`script_engine.cpp`). State: the active and the pending
program and their names, the one-place compile queue, the eight-place queue of
retired programs, `g_compile_busy`, the compile state shown to clients, two
pause flags, the update mode. Operations: preflight, submit, compile, publish,
scan, activate, retire, destroy, pause and resume around tag updates. Four
tasks share it under one mutex, often with a wait that may run out, and several
atomics outside it; a fifth, the data cache task, takes the mutex to read the
name of the active program. Correct means: one compile job at a time; a program belongs
to one owner at a time; a pause really pauses and is lifted for the right
reason; every failure path lets go of what it claimed; a compiled program gets
activated.

**Scan scheduling and overrun policy** (`perf_test.cpp`). State: RUN or STOP,
the policy, the fault flag, counters of overruns, the notification count.
Operations: the two task loops, mode and policy requests, STOP from the
compile task, the flash-write gate of the handlers. Hard: values copied at the
start of a scan and used at its end, a stop outside the lock. Correct means: a
fault gates scripts, overload stops the PLC under a policy that says so, every
trigger is accounted for, STOP silences the tasks.

**Process image** (`plc_io.cpp`). State: raw, candidate, stable count and level
of each input, outputs, analogs; two double buffers for remote images with
generations and loss statistics. Operations: the 1 ms tick, apply outputs,
publish, reset, reads and writes from scripts and HTTP. Hard: the tick fetches
inputs and tags in two critical sections while packets arrive and resets empty
the buffers. Correct means: debouncing holds whatever happens between, the
newest fresh image wins, losses are counted once, outputs are applied whole.

**Tag table** (`plc_tags.cpp`). State: at most a fixed number of typed tags in
an array whose cells the scripts refer to by address, an index cache of the UDP
bank, a dirty mark, the file `tags.json`. Operations: two-pass merge of an
uploaded registry, ensure-a-tag during compiles, reads and writes, save,
reload. Correct means: a cell keeps its name and type once scripts refer to it,
a rejected upload changes nothing, what was saved loads again.

**HTTP API and data cache** (`ethernet_web.c`). State: the published JSON
buffers, a version, the script generation they belong to, a force flag.
Operations: build, publish, request a rebuild, serve. Correct means: values are
never shown under another layout, and a requested rebuild happens.

**File store and settings pages** (`plc_filesystem.cpp`, `ethernet_web.c`,
`plc_tags.cpp`). State: files on LittleFS, cached settings pages with a dirty
mark. Operations: write a temporary file, unlink, rename; load. Correct means:
after a crash either the old or the new content is there.

**UDP server** (`udp_server.c`): checks packets and publishes them; see the
process image. **Start-up** (`main.cpp`): a fixed sequence. **Script builder**
(`pilab_script_builder.cpp`): text assembly. **Ladder sources**
(`Web/src/ladder/`): pure algorithms on programs: model, schema, tag registry,
validation, transpiler, simulator. **Web client** (`Web/src/stores/`): polling
and edit buffers. `LadderEditor/` and `SFC/` are older or prototype copies;
`components/` and `managed_components/` are vendored.

### Interactions

    UDP packets --> udp_server_task --double buffers--> plc_scan_task --> tag table
                                                           | notify
    browser --> HTTP task --compile queue--> script_compile_task
                  |  RUN/STOP, policy             | pending slot
                  v                               v
              mode, policy, fault <------ script_scan_task --retired queue--> cleanup
                  
`PROJECT.json` lists the hazards of this code at their lines, with the
properties that cover them.

## 2. What is modelled

### ScriptEngine (MCScriptEngine, ScriptEngineProofs)

The upload handler, the compile task, the scan's boundary and the cleanup task,
one action per step between two points where another task can intervene. A
program is the number of the upload it was compiled from. `mutex` is
`g_program_mutex`: taking and giving it are separate actions, so that a take
with a timeout can find it held (`WebRecheckTimeout`, `CompilerNameTimeout`,
`ScanSkipBoundary`); such a timeout may happen whenever the mutex is held.
The data cache task is here as a holder of the mutex (`CacheTakeName`,
`CacheNameRead`; `ethernet_web.c:790`, `script_engine.cpp:1219`): it changes
nothing else, but it can make the others skip a look at any moment.
`pauseCompile` and `pauseRuntime` are the two pause flags. The two atomics are
read in one step, as no property depends on their order: a scan that sees
either is paused.

Assumption `SwapIsBrief`: the compile task defers a job by
`SCRIPT_COMPILE_DEFER_TICKS` (25 ms, two ticks) before it sets the pause. A swap
in progress when the job was queued (a few assignments, then one store that
lifts the previous pause) is over by then. Without it, a late lift of the
previous pause could end the new one. It is a constant, so that the theorem
that needs it names it, and the proofs of the others do not use it.

History variable `overtook`: an upload overtakes the pending program when both
looks at the slot are skipped because the data cache task holds the mutex while
the program waits there, for instance in STOP. The job is then compiled and
thrown away, and its failure lifts the compile pause of the program that still
waits (section 3). `WebRecheckTimeout` sets the variable in this case only; a
look that is skipped because the scan or the compile task holds the mutex does
not set it. The variable falls back when the compiler is claimed with the slot
empty. No action's guard reads it.

Left out: start-up of the tasks, texts, statistics, the values copied before
and after a scan, and `script_engine_compile_text`, which nothing calls.

| Property | Says |
|---|---|
| `SingleFlight` | `g_compile_busy` is true exactly while one job is with the HTTP task, in the queue, or with the compile task |
| `CompiledProgramFindsSlotFree` | no compiled program is thrown away for an occupied slot, unless its upload overtook the pending program: every other way to skip the looks at the slot is harmless |
| `ProgramsOwnedOnce` | no program is active or pending and also retired, and none is destroyed twice |
| `NoOldScanWhilePaused` | in mode "pause during compile" no scan starts the old program between the pause and the activation or the failure, unless an upload overtook |
| `NoScanDuringTagUpdate` | nothing that compile or activation does lifts the pause of a tag registry upload |
| `CompilerIsReleased` | the claim on the compiler ends on every path |
| `PendingIsActivated` | a pending program is activated if infinitely many scans get the mutex, although paused scans execute nothing |
| `RetiredIsDestroyed` | a queued retired program is destroyed |

Bounds: three uploads and a retired queue of one (the code has eight), so that
one program is active, one retired and one leaked or waiting, in the modes that
pause and stop (a hot swap differs from the latter by its STOP only, which the
operator may undo at once); two uploads and the modes pause and hot swap for
liveness. `MaxUploads` is the only bound on behaviour. Fairness: weak for each
task, as the scheduler starves none for ever, and for the cache task's giving
the mutex back; strong for the compile task's blocking take, as FreeRTOS wakes a
waiter when the mutex is given, and for the end of its deferral. New requests
and new looks at the name are never owed. The scan's own take of the mutex does
not wait, so nothing says it must succeed: `PendingIsActivated` has this as its
premise, and how often a scan may miss its boundary stays an open hazard.

### ScanScheduler (MCScanScheduler, ScanSchedulerProofs)

Both scan tasks, the mode, the policy and its judgement, policy and mode
requests, the compile task's STOP and the flash-write gate. The three policies
that never fault are one kind. Whether a cycle overran is a choice; so a cycle
that skips the script may overrun too, as in the code, where the measured time
includes preemption. `owed` is a history variable.

| Property | Says |
|---|---|
| `NoScanInFault` | a script executes only while no fault is active, whatever the operator selects |
| `TriggersAccounted` | each trigger is begun, counted as coalesced, or still on its way |
| `OverloadStopsPlc` | under a lasting overload the PLC gets from every moment without a fault to STOP with a fault, and at last keeps the fault, however often RUN is selected |
| `ScansContinue` | a PLC that stays in RUN without a fault keeps executing scans |
| `StopSilencesScans` | in lasting STOP both tasks come to rest |

`OverloadStopsPlc` does not say that the PLC stays in STOP: RUN may be selected
on a faulted PLC. The I/O ticks then resume and the script cycles are skipped
(`perf_test.cpp:461`), and skipped cycles end in time. Its premise
(`LastingOverload`) is that from some time on every scan that is executed
overruns, a faulting policy stays in force and is not applied again (which would
clear the fault), and nothing but a fault stops the PLC.

Bounds: `Divider` 2 for 5, at most two waiting triggers (the I/O task does not
tick while two wait, which bounds the trigger count only), overrun streaks
counted to 2, which is every limit used; beyond the limit a longer streak
decides nothing else. The 32-bit counter of the code wraps after 2^32
consecutive overruns; the model has no width. Fairness: the timer ticks and the
tasks run; requests are not owed.

### PlcInputs (MCPlcInputs, PlcInputsProofs)

The tick of `plc_io_tick_1ms` in its four parts (sample, process under
`g_io_lock`, fetch tags, write tags) against `udp_server_task`, which publishes
version 2 packets in two critical sections, resets both buffers on request and
may do so between any two parts. Packets are numbered; `stale` is the number of
packets that are too old by now, so time can pass at any moment. `latest` and
`samples` are history variables.

| Property | Says |
|---|---|
| `LossAccounted` | every published image is consumed, counted as missed, or newer than the last fetch |
| `TagsNotBehindInputs` | after a tick, the UDP tags are not older than the inputs of a version 2 packet |
| `DebounceHolds` | without a fresh remote image an input changes only to what the last `PLC_DEBOUNCE_TICKS` samples say |
| `LatestImageWins` | a tick mirrors the newest published image while it is fresh |

Bounds: one input (inputs do not influence each other), the code's three
debounce ticks, three packets. Left out: analog and raw inputs, generation wrap
after 2^32 packets.

### ProgramLifecycle, implemented by ScriptEngine (ScriptEngineProofs)

The abstract specification of online replacement: a program is published,
becomes active, is retired by its successor and destroyed, each once and in
upload order, and is given up undestroyed only when `RetiredDepth` programs wait
already. It knows no task, queue or mutex. `Phase` in ScriptEngine maps the
slots, the queue and the cleanup task's program to the phase of each program;
`ImplementsLifecycle` is the abstract specification under that mapping, a
property of the run `engine_safety` and a theorem. The code has a queue of eight
and a comment that it should never overflow (`script_engine.cpp:748`); the run
has a depth of one so that it does.

### PlcOutputs (MCPlcOutputs, PlcOutputsProofs)

From the Q globals of the scripts through `do_cmd` to the pins. A successful scan
copies its outputs one at a time, each under the lock; the 1 ms task preempts
the copy and drives the pins from what it finds. An output is modelled by where
it comes from: the scan that wrote it and the scan that copied it.

| Property | Says |
|---|---|
| `SplitOfTwoCopies` | the pins show the copies of at most two successive successful scans, split at one output |
| `FailedScanHeldBack` | what a scan wrote before an exception reaches the pins only by a later scan that succeeds |
| `PinsNeverGoBack` | no pin goes back to an older copy or an older writer |
| `WholeImageShown` | once scans end and the PLC stays in RUN, the pins show all of the last successful scan |

Two consequences of the code that no document denies, and that the properties
therefore allow: a STOP in the middle of a copy leaves a split image on the pins
for as long as STOP lasts, and the partial Q writes of a failed scan are
published by the next scan that succeeds. Bounds: three outputs and three scans,
so that a copy can be split in two places and a scan can fail between two that
succeed. Fairness: the 1 ms task, the end of a scan (either way) and the steps
of a copy, all weak; new scans and RUN are not owed.

### TagStore (MCTagStore, TagStoreProofs)

The table whose cells scripts use by address, with the two critical sections of
an upload, the declarations and the registration of the compile task, live
writes, the save (temporary file, unlink, rename, each of which can fail or be
the last step before a restart) and the load at a start. Reading and printing
are modelled by what they do: integers pass through `strtof` and lose the odd
ones beyond 2^24, floats keep six digits.

| Property | Says |
|---|---|
| `OneCellPerName` | a name never gets a second cell, although an upload and a compile may both find it new |
| `ReferencesStayValid` | addresses in script engines and indices of the UDP bank lead to the cells they were taken for |
| `UploadTookEffect` | an upload that was merged in full is in the table, but for names a compile declared since its check |
| `PartialOnlyAfterDeclare` | a merge stops halfway only if a compile declared tags between check and merge |
| `SavedTagsRestored` | a restart brings back the last completed save and the UDP bank, unless the file was removed and not replaced, or is too large |

What the properties except is what the code does: if a compile adds a tag with
another type between check and merge, the merge reads the wrong member of a
union (`plc_tags.cpp:811`; `junk` in the model); between unlink and rename there
is no file (`plc_tags.cpp:716`; `hole`); a save may write 65536 bytes, a load
rejects 32768 (`plc_tags.cpp:736`; `LoadLimit`). Bounds: capacity four, two tags
from the start, three names competing for the two places left, two uploads of
which one clashes in type with a declaration, a value beyond 2^24. Nothing
bounds the number of uploads, compiles, saves and restarts: the state space is
finite by itself. Left out: flags, ranges, the lazy first call of
`plc_tags_init` by several tasks, and texts: a description that contains a `}`
ends its object early when the file is loaded (`plc_tags.cpp:847`), so that
what follows it in the object is lost.

### DataCache (MCDataCache, DataCacheProofs)

The cache task with its two payloads, the request for a rebuild, the handlers
that hold a payload's mutex while they send it, uploads, compiles, activations
and restarts that change what is listed, and a client that polls. A list of
values is modelled by the tags they were read from, so that "a value under the
name of another tag" is two lists that differ.

| Property | Says |
|---|---|
| `ValuesUnderTheirNames` | the client shows no value under another name, as long as no tag left the list between the two copies |
| `FittingValuesAreLabelled` | the client's half: values copied in the order of the layout they name are always shown right |
| `GenerationLayoutHasItsTags` | a layout published for a generation has all tags its program declared |
| `RebuildIsDone` | a requested rebuild happens, unless it was requested while a built layout waited for publication |
| `LayoutFollowsGeneration` | after an activation a layout of that generation is published |
| `ValuesBecomeLive` | once the published layout is right, values reach a polling client again and again |

Known limits of the code that the properties state or except: a rebuild requested
between copy and publication is forgotten (`ethernet_web.c:1196`); a compile that
declares tags and fails leaves the layout stale, and clients fetch layouts
without showing values until the next upload or activation (the premise of
`ValuesBecomeLive` excludes this); an upload that hides one tag and shows
another can keep the number of values, so that neither version nor number tells:
values are then shown under other names until the next rebuild is published,
which is usually the next round of the task, but after a forgotten request the
next upload or activation; a restart counts versions anew. Bounds: three
tags, one upload that swaps visible tags, one program, one restart. Fairness:
the cache task and the handlers run; the client's requests succeed infinitely
often if they are possible infinitely often (strong, as single requests fail
for reasons of the network); `TransfersLeaveGaps` says that not every
publication meets a transfer that holds its mutex, since the code gives up
after one tick and nothing else makes it succeed.

### Ladder (MCLadder, LadderProofs)

One rung of the ladder editor (`Web/src/ladder/ladderTranspiler.js`,
`ladderSimulator.js`, the editing handlers of the page): placing and deleting
symbols and branches, the three builders of the rung's expression, the order of
a scan of the generated program with its blocks, and the simulator's power
flow. The pure functions are recursive functions over nodes, slots, pieces of
the rung (`Sections`: from a node to a node, without the branches already
grouped) and the symbols of the rung in the order of the code (`Placed`).

| Property | Says |
|---|---|
| `ProgramFollowsWires` | on every rung that can be drawn, the generated expression has the value of the power that reaches the right end, and the input computed for a symbol, on the line or on a branch, is the input power it is shown with |

It excepts bare wires in parallel: the readable form leaves them out
(`ladderTranspiler.js:294`), while the validation warns that an empty branch may
bypass logic, so generated program and highlighted power differ. The input of a
symbol behind an off-delay timer on a branch differs from the power flow, too,
but alike in the program and where it is shown. Both are listed as a hazard.
Bounds: three slots of the code's eight, two branches, three symbols, four passes
of twelve (three slots settle in fewer), preset one; a contact, its negation and
an off-delay timer in the toolbox. Branches can then cross, nest, be parallel and
follow each other. The other symbols (coils, latches, one-shots, counters,
on-delay timers) are modelled and in the proof, but not in this run's toolbox.

### Mutants

In each module the definitions whose comment describes a fault are variants of
the definition that follows them. They are not part of the model; replacing the
definition by its faulty variant must violate a property (`mutants` in
`PROJECT.json`).

## 3. Where the code disagrees with what is said of it

* `engine_pause_stuck`: a scan that sampled the pause flags before the job set
  the pause, and lasts longer than the compile, activates the program without
  lifting the pause. Scripts then stay paused with nothing pending. The comment
  on the flag (`main/script_engine.cpp:301`) ends the pause with the activation.
  The property excludes the moment between the swap and the activating scan's
  own lifting of the pause, so that only a pause nobody will lift violates it.
* `engine_active_name`: the program is published before its name, so a swap in
  between activates it without a name and the name stays for the next one
  (`main/script_engine.hpp:66`).
* `scan_during_flash_write`: STOP permits flash writes at once, while a scan that
  passed the gate still executes (`main/perf_test.cpp:351`).
* `warn_policy_stops`: a scan judged by the policy it began with stops the PLC
  after "warn and continue" was applied
  (`docs/PiLab_Runtime_Overrun_Policies.md:71`). The property is about the script
  task's own stop at the end of a cycle, not about a STOP by anybody else.

Two more are not runs of their own; the properties concerned except them by name.

* An overtaken pending program. `script_engine_can_accept_upload` "returns false
  when a compile is already queued/running or a compiled program is waiting to
  be activated" (`main/script_engine.hpp:40`), and the submit rechecks. Both
  looks (`main/script_engine.cpp:977` and 1018) are skipped when the mutex is
  held, and the data cache task holds it without regard to the slot
  (`main/ethernet_web.c:790`). A job is then accepted past a waiting program,
  compiled, and rejected at 705; its failure path clears the pause (855) although
  the first program is not active yet, so that the old program is scanned again,
  which the comment at 847 means to avoid. `CompiledProgramFindsSlotFree` and
  `NoOldScanWhilePaused` except this case (`overtook`).
* "This guarantees that the /api/tag_data layout version and value index order
  always correspond to the most recently published /api/plc_data payload"
  (`main/ethernet_web.c:1153`). They need not: names and values are two copies of
  a table that an upload may rewrite in between, a publication that meets a
  transfer is skipped, and a request for a rebuild can be lost (1196).
  `ValuesUnderTheirNames` holds while no tag leaves the visible list.

## 4. What is proved

For all values of the constants that satisfy the modules' assumptions.

*ScriptEngineProofs*: `TypeOK`, `SingleFlight`, `CompiledProgramFindsSlotFree`,
`NoScanDuringTagUpdate`, and `NoOldScanWhilePaused` under `SwapIsBrief`. Single
flight is not inductive by itself. The invariant adds who may hold the mutex at
which step (`MutexOwned`), that the compile task has a job exactly when it is
not idle (`OneJob`), and, the heart of it, `SlotSpokenFor`: from the moment a
job passed or skipped the look at the slot, a program still in the slot either
is about to be taken by the scan that holds the mutex, or was overtaken
(`overtook`). For of the three that can make the HTTP task skip its look, the
compile task has no job at that time, the scan takes the program, and the cache
task sets `overtook`. `SwapOver` carries the timing assumption. Together these
give that the publishing step finds the slot empty unless an upload overtook.

The same module proves `ProgramsOwnedOnce` and `ImplementsLifecycle`. Both follow
from the order of upload numbers: along the way of a program (destroyed, being
destroyed, retired queue, active, pending, job in flight) the numbers increase
(`Line`, `Fresh`), so no program is in two places, and each step of the engine
is a step of ProgramLifecycle or a stutter. That the slot is free when a program
is published is tested by the code itself (`CompilerPublish`), so neither
depends on the exception above.

*ScanSchedulerProofs*: `TypeOK`, `NoScanInFault` and `TriggersAccounted`. The
gate uses a copy of the fault flag; the invariant says that the copy can be
stale only in the safe direction while a scan is between wake and judgement,
since only the judgement of the same task sets the flag.

*PlcInputsProofs*: all five properties of the module. Each double buffer is
sound by itself (`Sound`); `TagsPublishedFirst` orders the newest tag image
after the newest version 2 inputs; `TagsFetched` and `TagsWritten` carry that
order through the tick. For debouncing, `CandidateSeen` says that while
candidate and level differ the last `stable` samples are the candidate, and a
remote image makes them equal, so a count it sets is never used for a change.

*PlcOutputsProofs*: all safety properties. The pins alone are not inductive:
`CommandSplit` says the same of `do_cmd`, one copy behind, and `Flow` that the
numbers of the scans fall from the Q globals to the pins.

*TagStoreProofs*: all invariants of TagStore. First what the operators on tables
do, for every table and registry: an update keeps places, names and types, a
merge and the ensured tags are appended. The invariant then adds
`CheckStillHolds`: between check and merge the types still agree and the room is
still there, but for what compiles declared.

For `SavedTagsRestored`, a file loads if its types agree with the defaults and
its tags find room beside them. Neither is checked by the save; both follow from the table having held every default and every ensured
tag since its start (`Complete`), so that the file, the defaults and the ensured
tags together are names of one table that was within the capacity (`Loads`).

*RecursionTheorems*: what the last two proofs need about recursive functions.
The library states induction and recursion with operator parameters, which the
provers here cannot instantiate; these lemmas say the same of sets and
functions, and follow from the library's theorem that a well-founded relation
has minimal elements (`LeastNumber`). A set that holds the first number and with
each number the next one is everything up to the last (`InductionFromTo`),
likewise along a size (`InductionBySize`). If the value at a point depends only
on values at points of smaller size, a solution of the equations exists
(`RecursiveFunction`; `ChainRecursion` is the case of one predecessor), so the
function the definition chooses satisfies them.

*DataCacheProofs*: all invariants of DataCache.
- `TypeOK`: what the builders list (`VisibleOf`) is found by induction over the
  cells, as a sequence without repetitions of exactly the visible tags.
- `ValuesUnderTheirNames`: while no tag leaves the visible list, tables grow at
  their end and so do the lists (`VisibleOfGrows`); hence two lists copied within
  such a time (`EpochInv`) agree as far as the shorter one goes, and lists of
  equal length are equal.
- `GenerationLayoutHasItsTags`: the tags of a program are visible from its
  compile on (`GenerationInv`), so a layout built for its generation has them.
- `FittingValuesAreLabelled`: between two restarts a version is given once, and
  nothing newer than the published layout exists, so two payloads that name a
  version mean the same list.

*LadderProofs*: `TypeOK` (every reachable rung is a drawing with tags and blocks)
and `ProgramFollowsWires`. All definitions of the transpiler and the simulator
are shown to satisfy their equations. Then:
- The flow of the simulator only grows, never beyond the node expressions, and
  after pass `n` is complete up to node `n`: so `Slots` passes are enough and the
  flow at a node is the value of its expression (`FlowFacts`).
- Without stored outputs power reaches the right end exactly if a path leads
  there, so the node expressions, built from the left, and the path expression,
  built from the right, have the same value (`SameFromBothEnds`).
- The readable form, if it does not give up, is right for each of its sections
  (`ReadableIsRight`), by induction over their length and the groups left in them.
  Where no branch crosses the end of a group, a group is entered at its left end
  and left at its right end only, so the rest of the section is in series with
  it; and where no bare wire lies in parallel, nothing of it has the text 'true'
  and is dropped. This is where the exception of the property comes from.

The proofs assume what the `ASSUME` of each module says: for TagStore, that
the firmware's own tags fit the table and that uploaded registries have each
name once and no system names (the parser skips them); for ScriptEngine,
`SwapIsBrief` where named; for Ladder, that the flow has as many passes as there
are slots (12 and 8 in the code).

Only model-checked: the liveness properties (`CompilerIsReleased`,
`PendingIsActivated`, `RetiredIsDestroyed`, `OverloadStopsPlc`, `ScansContinue`,
`StopSilencesScans`, `WholeImageShown`, `RebuildIsDone`,
`LayoutFollowsGeneration`, `ValuesBecomeLive`), which are outside the prover's
reach. The findings of section 3 are counterexamples and come from TLC.

## 5. Not modelled, and why

* AngelScript and the managed components (among them LittleFS): vendored. They
  are by far the larger part of the lines of the repository, so that the map
  covers a small share of them. ScriptEngine takes a build as succeeding or
  failing and a scan as ending; TagStore takes unlink and rename as atomic.
* Settings pages (`ethernet_web.c:2582`): the same temporary file, unlink and
  rename as the tag file, with the same hole; the file API is plain I/O.
* The JSON, the HTTP parsing, the pages and the edit buffers of the web
  application: texts and presentation.
* Script builder, and the text of the two target languages of the transpiler:
  strings without state.
* Rungs written as script, several rungs, the schema and the tag registry of the
  ladder editor.
* Start-up: a fixed sequence; its one window (servers before `plc_io_init`) is a
  hazard in `PROJECT.json`.
* The SFC prototype, the stand-alone ladder editor (an older copy), host tools.
* The overlap of one scan under way with a merge of tag values
  (`script_engine.cpp:875`): a question of how long one tick of waiting is.

## 6. What could follow

1. Rungs with counters and one-shots in the run of Ladder, and several rungs,
   where the order of the sections of a scan matters.
2. A composition of ScriptEngine's slots with ScanScheduler's gate: one program
   executes at a time, and it is the active one.
3. A file store with settings pages, composed with the flash-write gate.
4. What a scan of Ladder makes of latches and blocks, compared with the
   controller's language: so far that generated text is not modelled.
