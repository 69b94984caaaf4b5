------------------------------- MODULE Schedule -------------------------------
(***************************************************************************)
(* ScheduleService: the files, column mappings and schedule rows of one    *)
(* company (every query names the company).                                *)
(*                                                                         *)
(* Every await is a step and commits by itself: importSchedule counts and  *)
(* upserts its records chunk by chunk, without a transaction.              *)
(***************************************************************************)
EXTENDS ScheduleColumns

CONSTANTS
    Requests,   \* request handlers that can be active at once
    Sheets,     \* the sheets that can be uploaded, each a sequence of rows
    Configs,    \* the mapping configurations a client sends
    FileNames,
    Cells,      \* the values of cells
    Edits,      \* the values that an edit writes
    ChunkSize,  \* records per statement: 1000
    MaxOps,     \* bound on requests in a behaviour
    MaxFaults   \* bound on crashes and failing calls in a behaviour

SheetRows == UNION {{s[i] : i \in DOMAIN s} : s \in Sheets}
Headers == UNION {Columns(row) : row \in SheetRows}

\* importSchedule refuses a sheet without rows; XLSX leaves empty cells out.
ASSUME ConstantsAssumption ==
    /\ Absent \notin Cells /\ Edits \subseteq Cells \cup {Absent} /\ "none" \notin FileNames
    /\ Sheets \subseteq Seq(Seq([col : Headers, cell : Cells])) \ {<<>>}
    /\ \A c \in Configs : DOMAIN c \subseteq Fields /\ \A f \in DOMAIN c : Len(c[f]) \in Nat
    /\ ChunkSize \in Nat \ {0} /\ MaxOps \in Nat /\ MaxFaults \in Nat

VARIABLES
    files,      \* schedule_files
    maps,       \* company_column_mappings
    rows,       \* schedule_data
    sync,       \* the SCHEDULE_SYNC_STATE configuration, "none" before it is stored
    pc,         \* pc[r]: the await request r is at
    arg,        \* arg[r]: what it works on
    ops,        \* requests so far
    faults,     \* faults so far
    crossed,    \* history: tables with two writers at once, or a default written twice
    renamed     \* history: work order ids that an edit gave up or took

vars == <<files, maps, rows, sync, pc, arg, ops, faults, crossed, renamed>>
tables == <<files, maps, rows, sync>>

\* Rules that no import has generated yet have no columns.  A mapping is never
\* deactivated: no DTO has an isActive.
Mapping(isDefault, rules, config) ==
    [isDefault |-> isDefault, rules |-> rules, config |-> config, uses |-> 0]

\* The steps that write what two requests may write at once.
Writers == [files |-> {"resave", "retire", "file"},
            maps |-> {"remap", "demote", "map"},
            rows |-> {"remap", "count", "upsert", "use"}]
InFlight == (UNION {Writers[k] : k \in DOMAIN Writers}) \cup {"stamp", "sync"}

NoArg == [file |-> 0, name |-> "none", active |-> FALSE, map |-> 0,
          mapping |-> Mapping(FALSE, NoRules, DefaultColumnMapping), recs |-> <<>>,
          done |-> 0, existing |-> 0, fresh |-> 0, batch |-> 0, found |-> FALSE]

IsMapping(m) ==
    /\ m.isDefault \in BOOLEAN
    /\ DOMAIN m.rules \subseteq Headers
    /\ m.config \in Configs \cup {DefaultColumnMapping}
    /\ m.uses \in 0..MaxOps

IsRecord(rec) ==
    /\ rec.raw \in SheetRows
    /\ rec.data \in [Fields -> Cells \cup {Absent}]
    /\ rec.data.woId # Absent

TypeOK ==
    /\ \A i \in DOMAIN files : files[i] \in [name : FileNames, active : BOOLEAN, synced : BOOLEAN]
    /\ \A i \in DOMAIN maps : IsMapping(maps[i])
    /\ \A i \in DOMAIN rows :
          /\ IsRecord(rows[i])
          /\ rows[i].batch \in 1..MaxOps /\ rows[i].edited \in BOOLEAN
    /\ sync \in {"none", "pending"}
    /\ pc \in [Requests -> {"idle"} \cup InFlight]
    /\ \A r \in Requests :
          /\ arg[r].file \in 0..Len(files) /\ arg[r].map \in 0..Len(maps)
          /\ IsMapping(arg[r].mapping)
          /\ \A i \in DOMAIN arg[r].recs : IsRecord(arg[r].recs[i])
          /\ arg[r].done \in 0..Len(arg[r].recs) /\ arg[r].batch \in 0..MaxOps
          /\ arg[r].existing \in Nat /\ arg[r].fresh \in Nat
    /\ ops \in 0..MaxOps
    /\ faults \in 0..MaxFaults
    /\ crossed \subseteq DOMAIN Writers
    /\ renamed \subseteq Cells

\* A company starts without a mapping, or with one of an older release.
Init ==
    /\ files = <<>>
    /\ \/ maps = <<>>
       \/ \E s \in Sheets :
             maps = <<Mapping(TRUE, Rules(s[1], OldRule), DefaultColumnMapping)>>
    /\ rows = <<>>
    /\ sync = "none"
    /\ pc = [r \in Requests |-> "idle"]
    /\ arg = [r \in Requests |-> NoArg]
    /\ ops = 0
    /\ faults = 0
    /\ crossed = {}
    /\ renamed = {}

-------------------------------------------------------------------------------
\* The tables that a request which gets to the label writes along with another one.
Shared(label) ==
    {k \in DOMAIN Writers : label \in Writers[k] /\ \E q \in Requests : pc[q] \in Writers[k]}

Start(r, label, a, K) ==
    /\ pc[r] = "idle"
    /\ ops < MaxOps
    /\ ops' = ops + 1
    /\ pc' = [pc EXCEPT ![r] = label]
    /\ arg' = [arg EXCEPT ![r] = a]
    /\ crossed' = crossed \cup K
    /\ UNCHANGED <<faults, renamed>>

Begin(r, label, a) == Start(r, label, a, Shared(label))

Goto(r, label, a) ==
    /\ pc' = [pc EXCEPT ![r] = label]
    /\ arg' = [arg EXCEPT ![r] = a]
    /\ UNCHANGED <<ops, faults, crossed, renamed>>

Finish(r) == Goto(r, "idle", NoArg)

-------------------------------------------------------------------------------
\* saveConfig

ConfigRead(r, name) ==
    LET same == {i \in DOMAIN files : files[i].name = name} IN
    /\ \/ same = {} /\ Begin(r, "retire", [NoArg EXCEPT !.name = name])
       \/ \E i \in same :
             Begin(r, "resave", [NoArg EXCEPT !.file = i, !.active = files[i].active])
    /\ UNCHANGED tables

\* The settings of the file are left out; save writes back the isActive it has read.
ConfigResave(r) ==
    /\ pc[r] = "resave"
    /\ files' = [files EXCEPT ![arg[r].file].active = arg[r].active]
    /\ Finish(r)
    /\ UNCHANGED <<maps, rows, sync>>

ConfigRetire(r) ==
    /\ pc[r] = "retire"
    /\ files' = [i \in DOMAIN files |-> [files[i] EXCEPT !.active = FALSE]]
    /\ Goto(r, "file", arg[r])
    /\ UNCHANGED <<maps, rows, sync>>

ConfigInsert(r) ==
    /\ pc[r] = "file"
    /\ files' = Append(files, [name |-> arg[r].name, active |-> TRUE, synced |-> FALSE])
    /\ Finish(r)
    /\ UNCHANGED <<maps, rows, sync>>

-------------------------------------------------------------------------------
\* createColumnMapping and updateColumnMapping

Defaults == {i \in DOMAIN maps : maps[i].isDefault}
Demoted == [i \in DOMAIN maps |-> [maps[i] EXCEPT !.isDefault = FALSE]]

\* The save of a mapping: of a new one, or of all of a loaded one, columns that
\* others have changed since included.
Saved(i, m) == IF i = 0 THEN Append(maps, m) ELSE [maps EXCEPT ![i] = m]

\* *(Mutant)* The other defaults stay.
CreateAlongside(r, config, isDefault) ==
    /\ Begin(r, "map", [NoArg EXCEPT !.mapping = Mapping(isDefault, NoRules, config)])
    /\ UNCHANGED tables

MappingCreate(r, config, isDefault) ==
    /\ maps' = IF isDefault THEN Demoted ELSE maps
    /\ Begin(r, "map", [NoArg EXCEPT !.mapping = Mapping(isDefault, NoRules, config)])
    /\ UNCHANGED <<files, rows, sync>>

\* A PUT to mapping i.  Its body has a configuration and may have isDefault, and an id:
\* assigned to what was loaded, it takes the save to mapping j, or to a new one (0).
\* The other defaults are demoted only when i is none.
MappingRead(r, i, j, config, isDefault) ==
    LET read == maps[i]
        label == IF isDefault /\ ~read.isDefault THEN "demote" ELSE "map"
        twice == IF isDefault /\ read.isDefault /\ j # i THEN {"maps"} ELSE {}
        a == [NoArg EXCEPT !.map = j,
                           !.mapping = [read EXCEPT !.config = config, !.isDefault = isDefault]]
    IN
    /\ Start(r, label, a, Shared(label) \cup twice)
    /\ UNCHANGED tables

MappingDemote(r) ==
    /\ pc[r] = "demote"
    /\ maps' = Demoted
    /\ Goto(r, "map", arg[r])
    /\ UNCHANGED <<files, rows, sync>>

MappingSave(r) ==
    /\ pc[r] = "map"
    /\ maps' = Saved(arg[r].map, arg[r].mapping)
    /\ Finish(r)
    /\ UNCHANGED <<files, rows, sync>>

-------------------------------------------------------------------------------
\* importSchedule

Outdated(rules) ==
    DOMAIN rules = {} \/ \E h \in DOMAIN rules : HasUnderscore(rules[h])

\* The mapping that an import of the sheet uses, and whether it saves it first.
InHand(sheet, i) ==
    LET m == IF i = 0 THEN Mapping(TRUE, NoRules, DefaultColumnMapping) ELSE maps[i]
    IN  IF Outdated(m.rules) THEN [m EXCEPT !.rules = GenerateNormalizationRules(sheet[1])] ELSE m

ImportRead(r, sheet, file) ==
    /\ \E i \in IF Defaults = {} THEN {0} ELSE Defaults :
          LET m == InHand(sheet, i)
              recs == Records(sheet, m.rules, m.config)
              a == [NoArg EXCEPT !.file = file, !.map = i, !.mapping = m, !.recs = recs,
                                 !.batch = ops + 1]
          IN  IF i = 0 \/ Outdated(maps[i].rules) THEN Begin(r, "remap", a)
              ELSE Begin(r, "count", a) /\ recs # <<>>
    /\ UNCHANGED tables

\* Without a valid record the import is refused, after the mapping was saved.
ImportRemap(r) ==
    LET a == arg[r] IN
    /\ pc[r] = "remap"
    /\ maps' = Saved(a.map, a.mapping)
    /\ IF a.recs = <<>> THEN Finish(r)
       ELSE Goto(r, "count", IF a.map = 0 THEN [a EXCEPT !.map = Len(maps')] ELSE a)
    /\ UNCHANGED <<files, rows, sync>>

WoIds(recs) == {recs[i].data.woId : i \in DOMAIN recs}
Known(recs) == {i \in DOMAIN rows : rows[i].data.woId \in WoIds(recs)}
ChunkEnd(a) == Min({a.done + ChunkSize, Len(a.recs)})
Chunk(a) == SubSeq(a.recs, a.done + 1, ChunkEnd(a))

\* To the next chunk, or to the first chunk of the next loop.
NextChunk(r, here, next, a) ==
    IF ChunkEnd(a) < Len(a.recs) THEN Goto(r, here, [a EXCEPT !.done = ChunkEnd(a)])
    ELSE Goto(r, next, [a EXCEPT !.done = 0])

\* *(Mutant)* All of the company's rows are counted.
CountAll(r) ==
    /\ pc[r] = "count"
    /\ NextChunk(r, "count", "upsert", [arg[r] EXCEPT !.existing = @ + Len(rows)])
    /\ UNCHANGED tables

ImportCount(r) ==
    /\ pc[r] = "count"
    /\ NextChunk(r, "count", "upsert",
                 [arg[r] EXCEPT !.existing = @ + Cardinality(Known(Chunk(arg[r])))])
    /\ UNCHANGED tables

\* The row that a record becomes.
AsRow(rec, batch) == [raw |-> rec.raw, data |-> rec.data, batch |-> batch, edited |-> FALSE]

\* A column that no record of the statement defines keeps its value in an existing row.
Merged(old, rec, chunk, batch) ==
    LET Unset(f) == f \in Rescued /\ \A i \in DOMAIN chunk : chunk[i].data[f] = Absent
    IN  [AsRow(rec, batch) EXCEPT
            !.data = [f \in Fields |-> IF Unset(f) THEN old.data[f] ELSE rec.data[f]]]

Upserted(chunk, batch) ==
    LET old(w) == SelectInSeq(rows, LAMBDA row : row.data.woId = w)
        rec(w) == chunk[SelectInSeq(chunk, LAMBDA c : c.data.woId = w)]
        updated == [i \in DOMAIN rows |->
                      IF i \in Known(chunk) THEN Merged(rows[i], rec(rows[i].data.woId), chunk, batch)
                      ELSE rows[i]]
        new == Picked(chunk, {i \in DOMAIN chunk : old(chunk[i].data.woId) = 0})
    IN  updated \o [i \in DOMAIN new |-> AsRow(new[i], batch)]

\* *(Mutant)* The loop stops before a last chunk that is not full.
UpsertFullChunks(r) ==
    LET a == arg[r]
        chunk == Chunk(a)
    IN
    /\ pc[r] = "upsert"
    /\ IF Len(chunk) = ChunkSize
         THEN /\ rows' = Upserted(chunk, a.batch)
              /\ NextChunk(r, "upsert", "use", [a EXCEPT !.fresh = @ + Len(rows') - Len(rows)])
         ELSE Goto(r, "use", a) /\ UNCHANGED rows
    /\ UNCHANGED <<files, maps, sync>>

\* PostgreSQL refuses a statement that would write one row twice: the import fails
\* and the chunks before it stay.
ImportUpsert(r) ==
    LET a == arg[r]
        chunk == Chunk(a)
    IN
    /\ pc[r] = "upsert"
    /\ IF Cardinality(WoIds(chunk)) = Len(chunk)
         THEN /\ rows' = Upserted(chunk, a.batch)
              /\ NextChunk(r, "upsert", "use",
                           [a EXCEPT !.fresh = @ + Len(rows') - Len(rows)])
         ELSE Finish(r) /\ UNCHANGED rows
    /\ UNCHANGED <<files, maps, sync>>

ImportUse(r) ==
    /\ pc[r] = "use"
    /\ maps' = [maps EXCEPT ![arg[r].map].uses = @ + 1]
    /\ IF arg[r].file = 0 THEN Finish(r) ELSE Goto(r, "stamp", arg[r])
    /\ UNCHANGED <<files, rows, sync>>

ImportStamp(r) ==
    /\ pc[r] = "stamp"
    /\ files' = [files EXCEPT ![arg[r].file].synced = TRUE]
    /\ Finish(r)
    /\ UNCHANGED <<maps, rows, sync>>

-------------------------------------------------------------------------------
\* updateScheduleData writes any column; rows are never deleted, so that its reads
\* before and after only say that the row exists.
Edit(i, f, v) ==
    /\ ops < MaxOps
    /\ ops' = ops + 1
    /\ f = "woId" => v # Absent /\ \A j \in DOMAIN rows \ {i} : rows[j].data.woId # v
    /\ rows' = [rows EXCEPT ![i].data[f] = v, ![i].edited = TRUE]
    /\ renamed' = IF f = "woId" THEN renamed \cup {rows[i].data.woId, v} ELSE renamed
    /\ UNCHANGED <<files, maps, sync, pc, arg, faults, crossed>>

\* triggerScheduleSync: nothing in the code takes the state away from "pending".
SyncRead(r) ==
    /\ Begin(r, "sync", [NoArg EXCEPT !.found = (sync # "none")])
    /\ UNCHANGED tables

\* Of two first calls the later one meets the unique index, and fails.
SyncSave(r) ==
    /\ pc[r] = "sync"
    /\ sync' = "pending"
    /\ Finish(r)
    /\ UNCHANGED <<files, maps, rows>>

\* A call throws, or the process dies: what has been written stays.
Fault(r) ==
    /\ pc[r] \in InFlight
    /\ faults < MaxFaults
    /\ faults' = faults + 1
    /\ pc' = [pc EXCEPT ![r] = "idle"]
    /\ arg' = [arg EXCEPT ![r] = NoArg]
    /\ UNCHANGED <<tables, ops, crossed, renamed>>

Step(r) ==
    \/ ConfigResave(r) \/ ConfigRetire(r) \/ ConfigInsert(r)
    \/ MappingDemote(r) \/ MappingSave(r)
    \/ ImportRemap(r) \/ ImportCount(r) \/ ImportUpsert(r) \/ ImportUse(r) \/ ImportStamp(r)
    \/ SyncSave(r)

Next ==
    \/ \E r \in Requests :
          \/ Step(r) \/ SyncRead(r) \/ Fault(r)
          \/ \E n \in FileNames : ConfigRead(r, n)
          \/ \E s \in Sheets, f \in 0..Len(files) : ImportRead(r, s, f)
          \/ \E c \in Configs, d \in BOOLEAN :
                \/ MappingCreate(r, c, d)
                \/ \E i \in DOMAIN maps, j \in 0..Len(maps) : MappingRead(r, i, j, c, d)
    \/ \E i \in DOMAIN rows, f \in Fields, v \in Edits : Edit(i, f, v)

Spec == Init /\ [][Next]_vars

-------------------------------------------------------------------------------
\* A company has at most one active file and one default mapping, whatever fails,
\* unless two requests that write them overlapped (the others are demoted in a
\* statement of its own, and a loaded row is saved with the flag it was read with), or
\* a PUT to the default mapping kept it default and named another one in its body.
OneCurrent ==
    /\ "files" \in crossed \/ \A i, j \in DOMAIN files : files[i].active /\ files[j].active => i = j
    /\ "maps" \in crossed \/ \A i, j \in Defaults : i = j

\* importSchedule reports at least as many imported records as rows that it added,
\* also when another import adds them first; it reports exactly those when it runs
\* alone and no work order is listed twice.  An edit that renames a row upsets it.
StatsCoverInserts ==
    \A r \in Requests :
        LET a == arg[r]
            imported == Len(a.recs) - a.existing
        IN  pc[r] = "use" /\ WoIds(a.recs) \cap renamed = {} =>
                /\ a.fresh <= imported
                /\ "rows" \notin crossed /\ Cardinality(WoIds(a.recs)) = Len(a.recs) =>
                      a.fresh = imported

\* An import that gets past its upserts has stored every record: the row of the work
\* order is there, and holds what the last record about it says unless someone wrote
\* it since.
ImportIsStored ==
    \A r \in Requests : pc[r] = "use" =>
        \A i \in DOMAIN arg[r].recs :
            LET rec == arg[r].recs[i] IN
            \/ rec.data.woId \in renamed
            \/ \E j \in DOMAIN rows :
                  /\ rows[j].data.woId = rec.data.woId
                  /\ \/ rows[j].edited
                     \/ rows[j].batch # arg[r].batch /\ "rows" \in crossed
                     \/ \E k \in i..Len(arg[r].recs) :
                           /\ arg[r].recs[k].data.woId = rec.data.woId
                           /\ \A f \in Fields :
                                 arg[r].recs[k].data[f] \in {rows[j].data[f], Absent}

\* "Null prevention" of the schedule's specification: a row's dates are there when
\* the sheet had them under their own name, however it is written and whatever the
\* company's mapping and rules say.
Spells(h, f) ==
    h.words \in CASE f = "dueDate" -> {<<"due", "date">>, <<"due">>, <<"duedate">>}
                  [] f = "releaseDate" -> {<<"release", "date">>, <<"release">>, <<"releasedate">>}
NullPrevention ==
    \A i \in DOMAIN rows : ~rows[i].edited =>
        \A f \in Rescued :
            (\E h \in Columns(rows[i].raw) : Spells(h, f)) => rows[i].data[f] # Absent
===============================================================================
