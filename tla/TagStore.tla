------------------------------ MODULE TagStore ------------------------------
(***************************************************************************)
(* The tag table and its file (src/main/plc_tags.cpp).                     *)
(*                                                                         *)
(* Scripts refer to the cells of the table by address, so that a cell      *)
(* keeps its place, name and type until the controller restarts.  Two      *)
(* tasks change the table: the HTTP task merges uploaded registries, in    *)
(* two critical sections of the tag mutex, and writes the table to flash,  *)
(* in one; the compile task adds the tags that a script declares and       *)
(* registers the table with the new engine.                                *)
(*                                                                         *)
(* Of a tag, its name, type, live and initial value are modelled.  Flags,  *)
(* texts and ranges are left out (nothing is clamped), and the size of the *)
(* file counts in tags.  System names (PLC_x, UDP_x, __obj_x) are skipped  *)
(* in uploads and never saved.                                             *)
(***************************************************************************)
EXTENDS Integers, Sequences, FiniteSets, SequencesExt

CONSTANTS
  Names,          \* names a tag can have
  SystemNames,    \* those that belong to the firmware
  UdpNames,       \* those of the UDP tag bank
  Values,         \* values of tags; of a bool: 0 and 1
  Capacity,       \* PLC_TAG_MAX_COUNT
  LoadLimit,      \* a file with this many tags is too large to be loaded
  Defaults,       \* the tags that add_default_tags_nolock creates
  Ensured,        \* Start, the diagnostics and the UDP bank: name and type
  Uploads,        \* registries clients upload
  Declarations,   \* tags that scripts declare: parameters and monitors
  Written         \* tags whose live value clients and scripts write

Types == {"bool", "int", "float"}
Entries == [type : Types, value : Values]
UserNames == Names \ SystemNames

\* A registry: its names, each once, with type and initial value.
Registries == UNION {[S -> Entries] : S \in SUBSET UserNames}

ASSUME TagStoreAssumption ==
  /\ IsFiniteSet(Names)
  /\ SystemNames \subseteq Names /\ UdpNames \subseteq SystemNames
  /\ Values \subseteq Int /\ 0 \in Values
  /\ Capacity \in Nat /\ LoadLimit \in Nat
  /\ Defaults \in Registries
  /\ Ensured \in UNION {[S -> Types] : S \in SUBSET Names}
  /\ UdpNames \subseteq DOMAIN Ensured
  /\ Cardinality(DOMAIN Defaults \cup DOMAIN Ensured) <= Capacity
  /\ Uploads \subseteq Registries
  /\ Declarations \subseteq [name : Names, type : Types, value : Values]
  /\ Written \subseteq Names

VARIABLES
  table,          \* g_tags: the first g_tag_count cells
  references,     \* addresses with name and type, held by script engines
  bank,           \* g_udp_tag_indices
  web,            \* program counter of the HTTP task
  upload,         \* its local uploaded_tags
  declaredSince,  \* history: names that compiles added since the upload's check
  compiler,       \* program counter of the compile task
  file,           \* tags.JSON
  tmp,            \* tags.JSON.tmp
  durable,        \* history: user tags of the table when last saved
  hole            \* history: the old file was removed and not replaced yet

tableVars   == <<table, references, bank>>
uploadVars  == <<upload, declaredSince>>
flashVars   == <<file, tmp, durable, hole>>

vars == <<tableVars, web, uploadVars, compiler, flashVars>>

\* No file, or one that nobody reads (the temporary file while it is written).
NoRegistry == << >>

NamesIn(t) == {t[i].name : i \in DOMAIN t}
Cell(name, type, value) ==
  [name |-> name, type |-> type, value |-> value, initial |-> value]

\* The tag mutex is held during a save, from the copy to the rename.
Saving == web \in {"writing", "written", "unlinked"}

-----------------------------------------------------------------------------
(***************************************************************************)
(* Conversions                                                             *)
(***************************************************************************)
\* find_float_field reads every number by strtof: beyond 2^24 odd integers go
\* to the neighbour with an even mantissa (Values stay below 2^25).
Parsed(type, v) ==
  LET magnitude == IF v < 0 THEN -v ELSE v
      rounded   == IF magnitude <= 16777216 \/ magnitude % 2 = 0 THEN magnitude
                   ELSE IF magnitude % 4 = 1 THEN magnitude - 1
                   ELSE magnitude + 1
  IN  IF type = "bool" THEN v ELSE IF v < 0 THEN -rounded ELSE rounded

\* A float is written with six significant digits (%.6g; no ties in Values).
Printed(type, v) ==
  IF type # "float" \/ (v > -1000000 /\ v < 1000000) THEN v
  ELSE LET unit == IF v > -10000000 /\ v < 10000000 THEN 10 ELSE 100
       IN  ((v + unit \div 2) \div unit) * unit

\* A file of the live values.
LiveRegistry(t) ==
  [n \in NamesIn(t) \ SystemNames |->
     LET c == CHOOSE c \in Range(t) : c.name = n
     IN  [type |-> c.type, value |-> Printed(c.type, c.value)]]

\* write_runtime_tag_object_json: user tags with their initial values.
SavedRegistry(t) ==
  [n \in NamesIn(t) \ SystemNames |->
     LET c == CHOOSE c \in Range(t) : c.name = n
     IN  [type |-> c.type, value |-> Printed(c.type, c.initial)]]

-----------------------------------------------------------------------------
(***************************************************************************)
(* Merging a registry into a table                                         *)
(***************************************************************************)
\* A comparison that takes numbers for one type.
NumbersAgree(t, registry) ==
  \A i \in DOMAIN t : t[i].name \in DOMAIN registry =>
    (registry[t[i].name].type = "bool") <=> (t[i].type = "bool")

\* A live tag's type cannot be changed.
TypesAgree(t, registry) ==
  \A i \in DOMAIN t : t[i].name \in DOMAIN registry =>
    registry[t[i].name].type = t[i].type

\* A check that forgets what the table already holds.
NewTagsFit(t, registry) == Cardinality(DOMAIN registry \ NamesIn(t)) <= Capacity

Room(t) == Capacity - Len(t)

Fits(t, registry) == Cardinality(DOMAIN registry \ NamesIn(t)) <= Room(t)

\* An update that takes over the type.
ReplacedCell(c, entry, junk) ==
  Cell(c.name, entry.type, Parsed(entry.type, entry.value))

\* update_existing_tag_from_upload_nolock: in place, and never the type.  If
\* a compile added the tag with another type after the check, the wrong member
\* of the union is read, which gives some value.
UpdatedCell(c, entry, junk) ==
  Cell(c.name, c.type,
       IF c.type = entry.type THEN Parsed(c.type, entry.value)
       ELSE IF c.type = "bool" THEN junk % 2
       ELSE junk)

Updated(t, registry, names, junk) ==
  [i \in DOMAIN t |-> IF t[i].name \in names
                      THEN UpdatedCell(t[i], registry[t[i].name], junk)
                      ELSE t[i]]

Appended(registry, new) ==
  [i \in DOMAIN new |->
     Cell(new[i], registry[new[i]].type,
          Parsed(registry[new[i]].type, registry[new[i]].value))]

\* What was new when the upload was checked.
FreshAtCheck(t, names) == names \ (NamesIn(t) \ declaredSince)

Fresh(t, names) == names \ NamesIn(t)

\* ensure_runtime_diagnostic_tags_nolock, ensure_compatibility_tags_nolock and
\* ensure_udp_tag_bank_nolock: append what is missing, up to the capacity.
\* The set of the tables they can leave (in the code the order is fixed).
EnsuredTables(t) ==
  {t \o [i \in DOMAIN new |-> Cell(new[i], Ensured[new[i]], 0)] :
     new \in UNION {SetToSeqs(S) : S \in
               {S \in SUBSET (DOMAIN Ensured \ NamesIn(t)) :
                  \/ S = DOMAIN Ensured \ NamesIn(t)
                     /\ Cardinality(S) <= Room(t)
                  \/ S # DOMAIN Ensured \ NamesIn(t)
                     /\ Cardinality(S) = Room(t)}}}

\* The index of each tag of the UDP bank; -1 where the table has none.
BankOf(t) ==
  [n \in UdpNames |-> IF \E i \in DOMAIN t : t[i].name = n
                      THEN CHOOSE i \in DOMAIN t : t[i].name = n
                      ELSE -1]

-----------------------------------------------------------------------------
(***************************************************************************)
(* Start and restart                                                       *)
(***************************************************************************)
DefaultTables ==
  {Appended([n \in DOMAIN Defaults |-> Defaults[n]], new) :
     new \in SetToSeqs(DOMAIN Defaults)}

\* plc_tags_init finds the file it saved, and loads it as an upload.
Loadable(f, t) ==
  /\ f # NoRegistry
  /\ Cardinality(DOMAIN f) < LoadLimit
  /\ TypesAgree(t, f)
  /\ Fits(t, f)

LoadedTables(f) ==
  UNION {IF Loadable(f, t)
         THEN {Updated(t, f, DOMAIN f, 0) \o Appended(f, new) :
                 new \in SetToSeqs(Fresh(t, DOMAIN f))}
         ELSE {t} : t \in DefaultTables}

StartedTables(f) == UNION {EnsuredTables(t) : t \in LoadedTables(f)}

Init ==
  /\ file = NoRegistry /\ tmp = NoRegistry
  /\ durable = NoRegistry /\ hole = FALSE
  /\ table \in StartedTables(NoRegistry)
  /\ references = {}
  /\ bank = BankOf(table)
  /\ web = "idle" /\ upload = NoRegistry /\ declaredSince = {}
  /\ compiler = "idle"

\* The controller restarts, at any moment: what is in RAM is lost.
Restart ==
  /\ table' \in StartedTables(file)
  /\ references' = {}
  /\ bank' = BankOf(table')
  /\ web' = "idle" /\ upload' = NoRegistry /\ declaredSince' = {}
  /\ compiler' = "idle"
  /\ UNCHANGED flashVars

-----------------------------------------------------------------------------
(***************************************************************************)
(* The HTTP task                                                           *)
(***************************************************************************)
\* plc_tags_load_json_internal, first critical section.  A registry that does
\* not pass is rejected and changes nothing.
UploadCheck(registry) ==
  /\ web = "idle"
  /\ TypesAgree(table, registry)
  /\ Fits(table, registry)
  /\ web' = "checked"
  /\ upload' = registry
  /\ declaredSince' = {}
  /\ UNCHANGED <<tableVars, compiler, flashVars>>

\* Second critical section, after the scan was asked to pause.
UploadApply ==
  /\ web = "checked"
  /\ Cardinality(Fresh(table, DOMAIN upload)) <= Room(table)
  /\ \E new \in SetToSeqs(Fresh(table, DOMAIN upload)), junk \in Values :
       table' \in EnsuredTables(Updated(table, upload, DOMAIN upload, junk)
                                  \o Appended(upload, new))
  /\ bank' = BankOf(table')
  /\ web' = "accepted"
  /\ UNCHANGED <<references, uploadVars, compiler, flashVars>>

\* The table became full since the check: the merge stops at a new tag, after
\* some of the others, and ensures nothing.
UploadAppliesPartway ==
  /\ web = "checked"
  /\ Cardinality(Fresh(table, DOMAIN upload)) > Room(table)
  /\ \E done \in SUBSET DOMAIN upload, junk \in Values :
       /\ Cardinality(Fresh(table, done)) = Room(table)
       /\ \E new \in SetToSeqs(Fresh(table, done)) :
            table' = Updated(table, upload, done, junk) \o Appended(upload, new)
  /\ web' = "partial"
  /\ UNCHANGED <<references, bank, uploadVars, compiler, flashVars>>

UploadReply ==
  /\ web \in {"accepted", "partial"}
  /\ web' = "idle"
  /\ upload' = NoRegistry
  /\ declaredSince' = {}
  /\ UNCHANGED <<tableVars, compiler, flashVars>>

\* plc_tags_set_value_... (HMI), plc_tags_set_internal_..., the UDP bank write and
\* the scripts themselves write live values.
WriteValue(i, v) ==
  /\ ~Saving
  /\ table[i].name \in Written
  /\ table[i].type = "bool" => v \in {0, 1}
  /\ table' = [table EXCEPT ![i].value = v]
  /\ UNCHANGED <<references, bank, web, uploadVars, compiler, flashVars>>

\* plc_tags_save_to_flash: the temporary file is opened and truncated, ...
SaveBegin ==
  /\ web = "idle"
  /\ web' = "writing"
  /\ tmp' = NoRegistry
  /\ UNCHANGED <<tableVars, uploadVars, compiler, file, durable, hole>>

SaveWrite ==
  /\ web = "writing"
  /\ web' = "written"
  /\ tmp' = SavedRegistry(table)
  /\ UNCHANGED <<tableVars, uploadVars, compiler, file, durable, hole>>

\* ... (the flash is full, or fails), ...
SaveWriteFails ==
  /\ web = "writing"
  /\ web' = "idle"
  /\ tmp' = NoRegistry
  /\ UNCHANGED <<tableVars, uploadVars, compiler, file, durable, hole>>

\* ... the old file is removed, ...
SaveUnlink ==
  /\ web = "written"
  /\ web' = "unlinked"
  /\ file' = NoRegistry
  /\ hole' = TRUE
  /\ UNCHANGED <<tableVars, uploadVars, compiler, tmp, durable>>

\* ... and the new one takes its name, ...
SaveRename ==
  /\ web = "unlinked"
  /\ web' = "idle"
  /\ file' = tmp
  /\ tmp' = NoRegistry
  /\ durable' = [n \in NamesIn(table) \ SystemNames |->
                   LET c == CHOOSE c \in Range(table) : c.name = n
                   IN  [type |-> c.type, value |-> c.initial]]
  /\ hole' = FALSE
  /\ UNCHANGED <<tableVars, uploadVars, compiler>>

\* ... or it is deleted too.
SaveRenameFails ==
  /\ web = "unlinked"
  /\ web' = "idle"
  /\ tmp' = NoRegistry
  /\ UNCHANGED <<tableVars, uploadVars, compiler, file, durable, hole>>

-----------------------------------------------------------------------------
(***************************************************************************)
(* The compile task                                                        *)
(***************************************************************************)
CompileBegin ==
  /\ compiler = "idle"
  /\ compiler' = "declaring"
  /\ UNCHANGED <<tableVars, web, uploadVars, flashVars>>

\* A declaration without the look at the capacity.
CompileDeclareAlways(d) ==
  /\ compiler = "declaring"
  /\ ~Saving
  /\ d.name \notin NamesIn(table)
  /\ table' = Append(table, Cell(d.name, d.type, d.value))
  /\ declaredSince' = IF web = "checked" THEN declaredSince \cup {d.name}
                                         ELSE declaredSince
  /\ UNCHANGED <<references, bank, web, upload, compiler, flashVars>>

\* plc_tags_ensure_param_tag and plc_tags_ensure_monitor_tag, for a new tag.
\* A tag that exists keeps its value; if its type is another one, or the table
\* is full, the compile fails.
CompileDeclare(d) ==
  /\ compiler = "declaring"
  /\ ~Saving
  /\ d.name \notin NamesIn(table)
  /\ Room(table) > 0
  /\ table' = Append(table, Cell(d.name, d.type, d.value))
  /\ declaredSince' = IF web = "checked" THEN declaredSince \cup {d.name}
                                         ELSE declaredSince
  /\ UNCHANGED <<references, bank, web, upload, compiler, flashVars>>

CompileFails ==
  /\ compiler = "declaring"
  /\ compiler' = "idle"
  /\ UNCHANGED <<tableVars, web, uploadVars, flashVars>>

\* plc_tags_register_angelscript_globals: the engine holds the addresses as
\* long as it lives; engines that are destroyed are not followed.
CompileRegister ==
  /\ compiler = "declaring"
  /\ ~Saving
  /\ compiler' = "idle"
  /\ references' = references \cup
       {[cell |-> i, name |-> table[i].name, type |-> table[i].type] :
          i \in DOMAIN table}
  /\ UNCHANGED <<table, bank, web, uploadVars, flashVars>>

-----------------------------------------------------------------------------
Upload == (\E registry \in Uploads : UploadCheck(registry))
            \/ UploadApply \/ UploadAppliesPartway \/ UploadReply

Save == SaveBegin \/ SaveWrite \/ SaveWriteFails \/ SaveUnlink
          \/ SaveRename \/ SaveRenameFails

Compile == CompileBegin \/ (\E d \in Declarations : CompileDeclare(d))
             \/ CompileFails \/ CompileRegister

Write == \E i \in DOMAIN table, v \in Values : WriteValue(i, v)

Next == Upload \/ Save \/ Compile \/ Write \/ Restart

Spec == Init /\ [][Next]_vars

-----------------------------------------------------------------------------
(***************************************************************************)
(* Properties.  A definition above whose comment says "a ... that ..." of  *)
(* something wrong is a faulty variant of the one that follows it.         *)
(***************************************************************************)
Cells == [name : Names, type : Types, value : Int, initial : Int]

TypeOK ==
  /\ table \in Seq(Cells) /\ Len(table) <= Capacity
  /\ references \subseteq [cell : 1 .. Capacity, name : Names, type : Types]
  /\ bank \in [UdpNames -> -1 .. Capacity]
  /\ web \in {"idle", "checked", "accepted", "partial",
              "writing", "written", "unlinked"}
  /\ upload = NoRegistry \/ upload \in Uploads
  /\ declaredSince \subseteq Names
  /\ compiler \in {"idle", "declaring"}
  /\ hole \in BOOLEAN

\* A name has one cell, although an upload and a compile may both find it new
\* and add it: scripts and clients would use different cells under one name.
OneCellPerName ==
  \A i, j \in DOMAIN table : table[i].name = table[j].name => i = j

\* What a script engine or the UDP receiver refers to by address or index
\* stays a cell of that name and type, whatever is uploaded or compiled later.
ReferencesStayValid ==
  /\ \A r \in references :
       /\ r.cell \in DOMAIN table
       /\ table[r.cell].name = r.name
       /\ table[r.cell].type = r.type
  /\ \A n \in UdpNames : bank[n] # -1 =>
       /\ bank[n] \in DOMAIN table
       /\ table[bank[n]].name = n

\* An upload that was answered with OK is in the table, with types and values,
\* except for tags that a compile added between its check and its merge.
UploadTookEffect ==
  web = "accepted" =>
    \A n \in DOMAIN upload : \E i \in DOMAIN table :
      /\ table[i].name = n
      /\ \/ table[i].type = upload[n].type
            /\ table[i].initial = Parsed(upload[n].type, upload[n].value)
         \/ n \in declaredSince

\* An upload stops halfway only if a compile added tags between its check and
\* its merge; otherwise it changes nothing or is merged in full.
PartialOnlyAfterDeclare == web = "partial" => declaredSince # {}

\* A restart brings back the user tags of the last completed save with their
\* types and initial values (integers up to 2^24, other numbers as far as
\* they survive being printed), and finds a cell for each tag of the UDP bank,
\* unless the controller stopped, or the rename failed, between the removal of
\* the old file and the rename of the new one, or the file is too large.
Exact(type, v) ==
  \/ type = "bool"
  \/ type = "int" /\ v >= -16777216 /\ v <= 16777216
  \/ type = "float" /\ v > -1000000 /\ v < 1000000

Restored(n) ==
  \E i \in DOMAIN table' :
    /\ table'[i].name = n
    /\ table'[i].type = durable[n].type
    /\ Exact(durable[n].type, durable[n].value)
         => table'[i].initial = durable[n].value

SavedTagsRestored ==
  [][Restart /\ durable # NoRegistry /\ ~hole
       /\ Cardinality(DOMAIN durable) < LoadLimit
     => /\ \A n \in DOMAIN durable : Restored(n)
        /\ \A n \in UdpNames : bank'[n] # -1]_vars

=============================================================================
