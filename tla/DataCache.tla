------------------------------ MODULE DataCache ------------------------------
(***************************************************************************)
(* The cached live data of the web server (src/main/ethernet_web.c) and    *)
(* the client that polls it (src/Web/src/stores/plcStore.js).              *)
(*                                                                         *)
(* /api/plc_data carries the layout: names and values of the visible tags  *)
(* in table order, under a version.  It is rebuilt when another program    *)
(* became active, on request of a tag upload, and once after start-up.     *)
(* /api/tag_data carries the values only, in the order of the table at the *)
(* time, every 100 ms.  The client puts the values of the second under the *)
(* names of the first.                                                     *)
(*                                                                         *)
(* A list of values is modelled by the list of the tags they were read     *)
(* from; the fixed I/O points in front of every list are left out.  Both   *)
(* payloads fit their buffers: 384 tags of 31 characters stay below the    *)
(* 48 KB and 32 KB caps, so that builds do not fail.                       *)
(***************************************************************************)
EXTENDS Naturals, Sequences, FiniteSets, Functions, SequencesExt

CONSTANTS
  Tags,           \* names a tag can have
  FlashTable,     \* the tag table that start-up restores, in table order
  FlashVisible,   \* the tags of it that are visible to clients
  TagFiles,       \* tag files that are uploaded: the tags listed and shown
  Declared,       \* the tags that control programs declare
  MaxUploads,     \* bound: tag uploads
  MaxPrograms,    \* bound: control programs that are compiled
  MaxReboots      \* bound: restarts of the controller

ASSUME DataCacheAssumption ==
  /\ IsFiniteSet(Tags)
  /\ FlashTable \in Seq(Tags)
  /\ IsInjective(FlashTable)
  /\ FlashVisible \subseteq Range(FlashTable)
  /\ TagFiles \subseteq [listed : SUBSET Tags, shown : SUBSET Tags]
  /\ \A file \in TagFiles : file.shown \subseteq file.listed
  /\ Declared \subseteq Tags
  /\ MaxUploads \in Nat /\ MaxPrograms \in Nat /\ MaxReboots \in Nat

VARIABLES
  table,          \* g_tags: the names, in order; cells are never removed
  visible,        \* the tags with hmi_visible
  http,           \* what the HTTP task is doing
  program,        \* the program being compiled or waiting for activation
  generation,     \* script_engine_get_generation
  forceRebuild,   \* g_plc_data_cache_force_rebuild
  full,           \* the published layout (g_plc_data_cache_*)
  compact,        \* the published values (g_tag_data_cache_*)
  task,           \* program counter of plc_data_cache_task
  fullBuild,      \* its locals build_json and active_generation
  compactBuild,   \* its local tag_json
  client,         \* what the client is doing
  layout,         \* layoutVersion and layoutPointNames of the client
  values,         \* the values it shows under them, NoValues after a full one
  uploads,        \* tag uploads merged so far
  programs,       \* programs begun so far
  reboots,        \* restarts so far
  rewrites,       \* history: times the visible list lost a tag
  needed          \* history: what the active program declared and is not hidden

tableVars  == <<table, visible, rewrites>>
changeVars == <<program, generation, uploads, programs, needed>>
cacheVars  == <<full, compact, task, fullBuild, compactBuild>>
clientVars == <<client, layout, values>>

vars == <<tableVars, changeVars, http, forceRebuild, cacheVars, clientVars,
          reboots>>

\* What clients get to see of a table: the builders go over its cells in
\* order and leave out the tags that are not visible.
VisibleOf(cells, shown) ==
  LET upTo[n \in 0 .. Len(cells)] ==
        IF n = 0 THEN << >>
        ELSE IF cells[n] \in shown THEN Append(upTo[n - 1], cells[n])
        ELSE upTo[n - 1]
  IN  upTo[Len(cells)]

VisibleList == VisibleOf(table, visible)

NoProgram == [step |-> "none", tags |-> {}]

\* Version 0: nothing published yet.  The fields after "list" are history:
\* what rewrites, reboots and uploads were when the list was copied, and
\* whether the values were copied in the order of the layout they name.
EmptyFull == [version |-> 0, generation |-> 0, list |-> << >>,
              rewrites |-> 0, boot |-> 0, uploads |-> 0]
NoLayout  == [version |-> 0, list |-> << >>, rewrites |-> 0, boot |-> 0]
NoValues  == [layout |-> 0, list |-> << >>, rewrites |-> 0, boot |-> 0,
              fits |-> TRUE]

Init ==
  /\ table = FlashTable /\ visible = FlashVisible /\ rewrites = 0
  /\ http = "idle"
  /\ program = NoProgram /\ generation = 0 /\ needed = {}
  /\ uploads = 0 /\ programs = 0 /\ reboots = 0
  /\ forceRebuild = FALSE
  /\ full = EmptyFull /\ compact = NoValues
  /\ task = "idle" /\ fullBuild = EmptyFull /\ compactBuild = NoValues
  /\ client = "idle" /\ layout = NoLayout /\ values = NoValues

\* The controller restarts and restores the table from flash, while the page
\* stays open in the browser with the layout it has.
Reboot ==
  /\ reboots < MaxReboots
  /\ reboots' = reboots + 1
  /\ table' = FlashTable /\ visible' = FlashVisible /\ rewrites' = rewrites + 1
  /\ http' = "idle"
  /\ program' = NoProgram /\ generation' = 0 /\ needed' = {}
  /\ forceRebuild' = FALSE
  /\ full' = EmptyFull /\ compact' = NoValues
  /\ task' = "idle" /\ fullBuild' = EmptyFull /\ compactBuild' = NoValues
  /\ UNCHANGED <<clientVars, uploads, programs>>

-----------------------------------------------------------------------------
(***************************************************************************)
(* What changes the table                                                  *)
(***************************************************************************)
\* plc_tags_load_json_ram merges the tags of a file: known ones take over its
\* visibility, unknown ones are appended.
UploadMerge(file) ==
  /\ http = "idle"
  /\ uploads < MaxUploads
  /\ http' = "merged"
  /\ uploads' = uploads + 1
  /\ \E new \in SetToSeqs(file.listed \ Range(table)) : table' = table \o new
  /\ visible' = (visible \ file.listed) \cup file.shown
  /\ LET hidden == visible \ visible'
     IN  /\ rewrites' = IF hidden = {} THEN rewrites ELSE rewrites + 1
         /\ needed' = needed \ hidden
         /\ program' = [program EXCEPT !.tags = @ \ hidden]
  /\ UNCHANGED <<generation, programs, forceRebuild, cacheVars, clientVars,
                 reboots>>

\* api_tags_post_handler then asks for a new layout, ...
UploadRequestsRebuild ==
  /\ http = "merged"
  /\ http' = "idle"
  /\ forceRebuild' = TRUE
  /\ UNCHANGED <<tableVars, changeVars, cacheVars, clientVars, reboots>>

\* ... unless the merge stopped halfway because the table became full.
UploadFailsPartway ==
  /\ http = "merged"
  /\ http' = "idle"
  /\ UNCHANGED <<tableVars, changeVars, forceRebuild, cacheVars, clientVars,
                 reboots>>

CompileBegin ==
  /\ program.step = "none"
  /\ programs < MaxPrograms
  /\ programs' = programs + 1
  /\ program' = [step |-> "compiling", tags |-> {}]
  /\ UNCHANGED <<tableVars, http, generation, uploads, needed, forceRebuild,
                 cacheVars, clientVars, reboots>>

\* A declared tag that gets a second cell.
CompileDeclaresTagAgain(tag) ==
  /\ program.step = "compiling"
  /\ table' = Append(table, tag)
  /\ visible' = visible \cup {tag}
  /\ program' = [program EXCEPT !.tags = @ \cup {tag}]
  /\ UNCHANGED <<rewrites, http, generation, uploads, programs, needed,
                 forceRebuild, cacheVars, clientVars, reboots>>

\* plc_tags_ensure_param_tag and plc_tags_ensure_monitor_tag: a tag that the
\* script declares is made visible, and appended if it is new.
CompileDeclaresTag(tag) ==
  /\ program.step = "compiling"
  /\ table' = IF tag \in Range(table) THEN table ELSE Append(table, tag)
  /\ visible' = visible \cup {tag}
  /\ program' = [program EXCEPT !.tags = @ \cup {tag}]
  /\ UNCHANGED <<rewrites, http, generation, uploads, programs, needed,
                 forceRebuild, cacheVars, clientVars, reboots>>

\* The script does not compile: its tags stay in the table.
CompileFails ==
  /\ program.step = "compiling"
  /\ program' = NoProgram
  /\ UNCHANGED <<tableVars, http, generation, uploads, programs, needed,
                 forceRebuild, cacheVars, clientVars, reboots>>

CompileSucceeds ==
  /\ program.step = "compiling"
  /\ program' = [program EXCEPT !.step = "pending"]
  /\ UNCHANGED <<tableVars, http, generation, uploads, programs, needed,
                 forceRebuild, cacheVars, clientVars, reboots>>

\* The scan task makes the pending program the active one.
Activate ==
  /\ program.step = "pending"
  /\ program' = NoProgram
  /\ generation' = generation + 1
  /\ needed' = program.tags
  /\ UNCHANGED <<tableVars, http, uploads, programs, forceRebuild, cacheVars,
                 clientVars, reboots>>

-----------------------------------------------------------------------------
(***************************************************************************)
(* plc_data_cache_task: one round every TAG_DATA_CACHE_PERIOD_MS           *)
(***************************************************************************)
\* A round that builds a new layout only on request.
RoundBeginOnRequest ==
  /\ task = "idle"
  /\ IF forceRebuild \/ full.version = 0
     THEN /\ task' = "copyFull"
          /\ fullBuild' = [fullBuild EXCEPT !.generation = generation]
     ELSE task' = "copyCompact" /\ UNCHANGED fullBuild
  /\ UNCHANGED <<tableVars, changeVars, http, forceRebuild, full, compact,
                 compactBuild, clientVars, reboots>>

\* The generation is read at the start of the round, before the table.
RoundBegin ==
  /\ task = "idle"
  /\ IF forceRebuild \/ full.version = 0 \/ generation # full.generation
     THEN /\ task' = "copyFull"
          /\ fullBuild' = [fullBuild EXCEPT !.generation = generation]
     ELSE task' = "copyCompact" /\ UNCHANGED fullBuild
  /\ UNCHANGED <<tableVars, changeVars, http, forceRebuild, full, compact,
                 compactBuild, clientVars, reboots>>

\* plc_data_build_json_into copies the table in one critical section and
\* writes the version the payload will be published under.
CopyFull ==
  /\ task = "copyFull"
  /\ task' = "fullBuilt"
  /\ fullBuild' = [version |-> full.version + 1,
                   generation |-> fullBuild.generation,
                   list |-> VisibleList, rewrites |-> rewrites,
                   boot |-> reboots, uploads |-> uploads]
  /\ UNCHANGED <<tableVars, changeVars, http, forceRebuild, full, compact,
                 compactBuild, clientVars, reboots>>

\* A publication under the generation of that moment.
PublishFullAsOfNow ==
  /\ task = "fullBuilt"
  /\ http # "sendingFull"
  /\ task' = "copyCompact"
  /\ full' = [fullBuild EXCEPT !.generation = generation]
  /\ forceRebuild' = FALSE
  /\ fullBuild' = EmptyFull
  /\ UNCHANGED <<tableVars, changeVars, http, compact, compactBuild,
                 clientVars, reboots>>

\* Under g_plc_data_cache_mutex, which a handler holds while it sends.
PublishFull ==
  /\ task = "fullBuilt"
  /\ http # "sendingFull"
  /\ task' = "copyCompact"
  /\ full' = fullBuild
  /\ forceRebuild' = FALSE
  /\ fullBuild' = EmptyFull
  /\ UNCHANGED <<tableVars, changeVars, http, compact, compactBuild,
                 clientVars, reboots>>

\* A missed publication that takes the request back.
PublishFullTimeoutClears ==
  /\ task = "fullBuilt"
  /\ http = "sendingFull"
  /\ task' = "copyCompact"
  /\ forceRebuild' = FALSE
  /\ fullBuild' = EmptyFull
  /\ UNCHANGED <<tableVars, changeVars, http, full, compact,
                 compactBuild, clientVars, reboots>>

\* The 10 ms wait for the mutex runs out: the request stays.
PublishFullTimeout ==
  /\ task = "fullBuilt"
  /\ http = "sendingFull"
  /\ task' = "copyCompact"
  /\ fullBuild' = EmptyFull
  /\ UNCHANGED <<tableVars, changeVars, http, forceRebuild, full, compact,
                 compactBuild, clientVars, reboots>>

\* tag_data_build_json_into: the values of the table as it is now, and the
\* version of the layout as published now.
CopyCompact ==
  /\ task = "copyCompact"
  /\ task' = "compactBuilt"
  /\ compactBuild' = [layout |-> full.version, list |-> VisibleList,
                      rewrites |-> rewrites, boot |-> reboots,
                      fits |-> VisibleList = full.list]
  /\ UNCHANGED <<tableVars, changeVars, http, forceRebuild, full, compact,
                 fullBuild, clientVars, reboots>>

PublishCompact ==
  /\ task = "compactBuilt"
  /\ http # "sendingCompact"
  /\ task' = "idle"
  /\ compact' = compactBuild
  /\ compactBuild' = NoValues
  /\ UNCHANGED <<tableVars, changeVars, http, forceRebuild, full, fullBuild,
                 clientVars, reboots>>

PublishCompactTimeout ==
  /\ task = "compactBuilt"
  /\ http = "sendingCompact"
  /\ task' = "idle"
  /\ compactBuild' = NoValues
  /\ UNCHANGED <<tableVars, changeVars, http, forceRebuild, full, compact,
                 fullBuild, clientVars, reboots>>

-----------------------------------------------------------------------------
(***************************************************************************)
(* The client: refreshPlcData, one request at a time                       *)
(***************************************************************************)
\* The poll timer: values, or the layout as long as there is none.
ClientPoll ==
  /\ client = "idle"
  /\ client' = IF layout.version = 0 THEN "askFull" ELSE "askCompact"
  /\ UNCHANGED <<tableVars, changeVars, http, forceRebuild, cacheVars, layout,
                 values, reboots>>

\* plc_data_get_handler and tag_data_get_handler begin to send what is
\* published, and hold the mutex, so that it is still the same at the end.
ServeFull ==
  /\ http = "idle"
  /\ client \in {"askFull", "retryFull"}
  /\ full.version # 0
  /\ http' = "sendingFull"
  /\ UNCHANGED <<tableVars, changeVars, forceRebuild, cacheVars, clientVars,
                 reboots>>

ServeCompact ==
  /\ http = "idle"
  /\ client = "askCompact"
  /\ compact # NoValues
  /\ http' = "sendingCompact"
  /\ UNCHANGED <<tableVars, changeVars, forceRebuild, cacheVars, clientVars,
                 reboots>>

\* A client that keeps the version it had.
FullArrivesKeepsVersion ==
  /\ http = "sendingFull"
  /\ http' = "idle"
  /\ client' = "idle"
  /\ layout' = [version |-> IF layout.version = 0 THEN full.version
                            ELSE layout.version,
                list |-> full.list,
                rewrites |-> full.rewrites, boot |-> full.boot]
  /\ values' = NoValues
  /\ UNCHANGED <<tableVars, changeVars, forceRebuild, cacheVars, reboots>>

\* ingestFullPlcData
FullArrives ==
  /\ http = "sendingFull"
  /\ http' = "idle"
  /\ client' = "idle"
  /\ layout' = [version |-> full.version, list |-> full.list,
                rewrites |-> full.rewrites, boot |-> full.boot]
  /\ values' = NoValues
  /\ UNCHANGED <<tableVars, changeVars, forceRebuild, cacheVars, reboots>>

\* A client that trusts the number of values alone.
FitsByCount == Len(compact.list) = Len(layout.list)

\* A client that trusts the version alone.
FitsByVersion == compact.layout = layout.version

\* needsLayoutRefresh, and the length check of normalizeCompactTagData.
FitsLayout ==
  /\ compact.layout # 0 => compact.layout = layout.version
  /\ Len(compact.list) = Len(layout.list)

\* ingestCompactTagData
ValuesArrive ==
  /\ http = "sendingCompact"
  /\ FitsLayout
  /\ http' = "idle"
  /\ client' = "idle"
  /\ values' = compact
  /\ UNCHANGED <<tableVars, changeVars, forceRebuild, cacheVars, layout,
                 reboots>>

\* ... or the values belong to another layout, which is fetched first.
OtherLayoutArrives ==
  /\ http = "sendingCompact"
  /\ ~FitsLayout
  /\ http' = "idle"
  /\ client' = "askFull"
  /\ UNCHANGED <<tableVars, changeVars, forceRebuild, cacheVars, layout, values,
                 reboots>>

\* The network, a busy or a restarting server: the full layout is tried once,
\* then the poll ends without a result.
RequestFails ==
  /\ client # "idle"
  /\ client' = IF client = "retryFull" THEN "idle" ELSE "retryFull"
  /\ http' = IF http = "merged" THEN http ELSE "idle"
  /\ UNCHANGED <<tableVars, changeVars, forceRebuild, cacheVars, layout, values,
                 reboots>>

-----------------------------------------------------------------------------
Change ==
  \/ \E file \in TagFiles : UploadMerge(file)
  \/ CompileBegin
  \/ \E tag \in Declared : CompileDeclaresTag(tag)
  \/ CompileFails \/ CompileSucceeds

UploadReply == UploadRequestsRebuild \/ UploadFailsPartway

CacheTask ==
  \/ RoundBegin \/ CopyFull \/ PublishFull \/ PublishFullTimeout
  \/ CopyCompact \/ PublishCompact \/ PublishCompactTimeout

Serve == ServeFull \/ ServeCompact

Arrive == FullArrives \/ ValuesArrive \/ OtherLayoutArrives

Next ==
  \/ Change \/ UploadReply \/ Activate \/ CacheTask
  \/ ClientPoll \/ Serve \/ Arrive \/ RequestFails \/ Reboot

\* A handler that holds a mutex does not do so at every publication: of the
\* waits (one tick for the layout's mutex, none for that of the values) not
\* all coincide with a transfer.
TransfersLeaveGaps ==
  /\ []<><<CopyFull>>_vars => []<><<PublishFull>>_vars
  /\ []<><<PublishCompact>>_vars

\* The cache task keeps running and a handler that began ends.  A client that
\* is open keeps polling, and not every one of its requests fails.  Changes of
\* the table, activations and restarts are owed to nobody.
Fairness ==
  /\ WF_vars(CacheTask)
  /\ WF_vars(UploadReply)
  /\ WF_vars(ClientPoll)
  /\ SF_vars(ServeFull) /\ SF_vars(FullArrives)
  /\ SF_vars(ServeCompact)
  /\ SF_vars(ValuesArrive \/ OtherLayoutArrives)
  /\ TransfersLeaveGaps

Spec == Init /\ [][Next]_vars /\ Fairness

-----------------------------------------------------------------------------
(***************************************************************************)
(* Properties.  The definitions above whose comment describes a fault are  *)
(* variants of the definition that follows them (FitsByCount and           *)
(* FitsByVersion of FitsLayout), no part of the model.                     *)
(***************************************************************************)
\* A list in which no tag occurs twice.
IsList(s) == s \in Seq(Tags) /\ IsInjective(s)

\* The type invariant.
TypeOK ==
  /\ IsList(table)
  /\ visible \subseteq Range(table)
  /\ http \in {"idle", "merged", "sendingFull", "sendingCompact"}
  /\ program \in [step : {"none", "compiling", "pending"}, tags : SUBSET Tags]
  /\ forceRebuild \in BOOLEAN
  /\ task \in {"idle", "copyFull", "fullBuilt", "copyCompact", "compactBuilt"}
  /\ client \in {"idle", "askFull", "askCompact", "retryFull"}
  /\ \A payload \in {full, fullBuild, layout} :
       payload.version \in Nat /\ IsList(payload.list)
  /\ \A payload \in {compact, compactBuild, values} :
       payload.layout \in Nat /\ IsList(payload.list)
  /\ generation \in Nat /\ full.generation \in Nat
  /\ needed \subseteq Tags

\* The client shows no value under the name of another tag, as long as no tag
\* left the visible list (hidden by an upload, or lost in a restart) between
\* the copy of its layout and the copy of the values.  Tags that a compile
\* declares in between do no harm, although they do not change the version:
\* the table only grows at its end, so that the number of values tells.
ValuesUnderTheirNames ==
  (values # NoValues /\ values.rewrites = layout.rewrites)
    => values.list = layout.list

\* Values that were copied in the order of the layout they name are shown
\* under their own names, whatever happened to the table before or since: the
\* version leads the client to the right layout, unless the controller
\* restarted and counts its versions anew.
FittingValuesAreLabelled ==
  (values # NoValues /\ values.fits /\ values.boot = layout.boot)
    => values.list = layout.list

\* A layout published for a generation contains every tag that the program of
\* that generation declared (and no upload hid since): the generation is read
\* before the table, and a program is activated after its tags exist.
GenerationLayoutHasItsTags ==
  (full.version # 0 /\ full.generation = generation)
    => needed \subseteq Range(full.list)

\* A rebuild that was requested while no built layout waits for publication
\* is done: a layout copied after the upload is published.  (A request that
\* comes between the copy and the publication is forgotten.)
RebuildIsDone ==
  \A n \in 1 .. MaxUploads :
    (forceRebuild /\ task # "fullBuilt" /\ uploads >= n) ~> full.uploads >= n

\* After an activation, a layout of that generation is published.
LayoutFollowsGeneration ==
  \A g \in 0 .. MaxPrograms :
    generation = g ~> (full.version # 0 /\ full.generation = g)
                       \/ generation # g

\* Once the published layout lists what the table lists, a polling client
\* receives values again and again: it does not fetch layouts for ever.
Settled == full.version # 0 /\ full.list = VisibleList

ValuesBecomeLive == <>[]Settled => []<><<ValuesArrive>>_vars

=============================================================================
