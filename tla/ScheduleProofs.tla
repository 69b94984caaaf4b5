----------------------------- MODULE ScheduleProofs -----------------------------
(***************************************************************************)
(* Theorems about Schedule, for any sets of requests, sheets, mappings and *)
(* values.                                                                 *)
(*                                                                         *)
(* A request demotes the other files, or mappings, in one statement and    *)
(* writes its own in a later one.  It may do so as long as no other        *)
(* request stands between two such statements: then nothing is current     *)
(* when it writes, or what it writes is current already (FilesInv,         *)
(* MapsInv); what the sheets contain plays no part.                        *)
(*                                                                         *)
(* The rows (RowInv): every record of a sheet has the dates that the sheet *)
(* has under their own name, and a statement leaves them so.  Imports have *)
(* numbers of their own, by which a row tells who wrote it.  What an       *)
(* import has counted and added is weighed against how many of its records *)
(* have a row now: a statement adds exactly the rows of those that had     *)
(* none, and a row is counted once even if the sheet names it twice.       *)
(* A mapping's uses (UsesInv) are bounded by the requests that are not     *)
(* still on their way to adding one.                                       *)
(***************************************************************************)
EXTENDS Schedule, FiniteSetTheorems, SequenceTheorems, TLAPS

File == [name : FileNames, active : BOOLEAN, synced : BOOLEAN]

\* The rules of a mapping: none yet, or those generated from a sheet's first row.
KnownRules ==
    {NoRules} \cup {Rules(s[1], OldRule) : s \in Sheets}
              \cup {GenerateNormalizationRules(s[1]) : s \in Sheets}
MapRow == [isDefault : BOOLEAN, rules : KnownRules,
           config : Configs \cup {DefaultColumnMapping}, uses : Nat]

\* What a request works on, when there are F files and M mappings.
ArgOK(a, F, M) ==
    /\ DOMAIN a = DOMAIN NoArg
    /\ a.file \in 0..F /\ a.map \in 0..M
    /\ a.name \in FileNames \cup {"none"} /\ a.active \in BOOLEAN /\ a.mapping \in MapRow

Shape ==
    /\ files \in Seq(File) /\ maps \in Seq(MapRow)
    /\ DOMAIN pc = Requests /\ DOMAIN arg = Requests
    /\ \A r \in Requests : ArgOK(arg[r], Len(files), Len(maps))
    /\ \A r \in Requests : pc[r] \in {"file", "retire"} => arg[r].name \in FileNames
    /\ \A r \in Requests : pc[r] \in {"stamp", "resave"} => arg[r].file # 0

\* Requests that write the table k did not overlap.
Alone(k) == \A p, q \in Requests : pc[p] \in Writers[k] /\ pc[q] \in Writers[k] => p = q

Active == {i \in DOMAIN files : files[i].active}

FilesInv ==
    "files" \notin crossed =>
        /\ Alone("files")
        /\ \A i, j \in Active : i = j
        /\ \A r \in Requests :
              /\ pc[r] = "file" => Active = {}
              /\ pc[r] = "resave" /\ arg[r].active => arg[r].file \in Active

MapsInv ==
    "maps" \notin crossed =>
        /\ Alone("maps")
        /\ \A i, j \in Defaults : i = j
        /\ \A r \in Requests :
              pc[r] \in {"remap", "map"} /\ arg[r].mapping.isDefault
                  => Defaults \subseteq {arg[r].map}

IInv == Shape /\ FilesInv /\ MapsInv

-------------------------------------------------------------------------------
LEMMA WritersAre ==
    /\ DOMAIN Writers = {"files", "maps", "rows"}
    /\ Writers["files"] = {"resave", "retire", "file"}
    /\ Writers["maps"] = {"remap", "demote", "map"}
    /\ Writers["rows"] = {"remap", "count", "upsert", "use"}
  BY DEF Writers

LEMMA NoArgFields ==
    DOMAIN NoArg = {"file", "name", "active", "map", "mapping", "recs", "done", "existing",
                    "fresh", "batch", "found"}
  BY DEF NoArg

\* Request r is taken to label with the argument a.  When it gets to a statement that
\* writes a table, it was at one already or nobody else was.
Moved(r, label, a) ==
    /\ DOMAIN pc' = Requests /\ DOMAIN arg' = Requests
    /\ pc' = [pc EXCEPT ![r] = label]
    /\ pc'[r] = label /\ arg'[r] = a
    /\ \A q \in Requests \ {r} : pc'[q] = pc[q] /\ arg'[q] = arg[q]
    /\ crossed \subseteq crossed'
    /\ \A k \in DOMAIN Writers :
          k \notin crossed' /\ label \in Writers[k] =>
              \/ pc[r] \in Writers[k]
              \/ \A q \in Requests : pc[q] \notin Writers[k]

LEMMA StartMoves ==
    ASSUME Shape, NEW r \in Requests, NEW label, NEW a, NEW K, Start(r, label, a, K),
           Shared(label) \subseteq K
    PROVE  Moved(r, label, a)
  <1>1. /\ DOMAIN pc' = Requests /\ DOMAIN arg' = Requests
        /\ pc' = [pc EXCEPT ![r] = label]
        /\ pc'[r] = label /\ arg'[r] = a
        /\ \A q \in Requests \ {r} : pc'[q] = pc[q] /\ arg'[q] = arg[q]
    BY DEF Shape, Start
  <1>2. crossed' = crossed \cup K
    BY DEF Start
  <1>3. \A k \in DOMAIN Writers :
           k \notin crossed' /\ label \in Writers[k] => \A q \in Requests : pc[q] \notin Writers[k]
    BY <1>2 DEF Shared
  <1>4. QED BY <1>1, <1>2, <1>3 DEF Moved

LEMMA BeginMoves ==
    ASSUME Shape, NEW r \in Requests, NEW label, NEW a, Begin(r, label, a)
    PROVE  Moved(r, label, a)
  BY StartMoves DEF Begin

LEMMA GotoMoves ==
    ASSUME Shape, NEW r \in Requests, NEW label, NEW a, Goto(r, label, a),
           \A k \in DOMAIN Writers : label \in Writers[k] => pc[r] \in Writers[k]
    PROVE  Moved(r, label, a)
  BY DEF Shape, Goto, Moved

LEMMA FinishMoves ==
    ASSUME Shape, NEW r \in Requests, Finish(r)
    PROVE  Moved(r, "idle", NoArg)
  <1>1. \A k \in DOMAIN Writers : "idle" \notin Writers[k]
    BY WritersAre
  <1>2. QED BY <1>1, GotoMoves DEF Finish

\* Requests that did not overlap before do not after the step.
LEMMA AloneLasts ==
    ASSUME NEW k \in DOMAIN Writers, k \notin crossed => Alone(k), k \notin crossed',
           NEW r \in Requests, NEW label, NEW a, Moved(r, label, a)
    PROVE  /\ Alone(k)' /\ Alone(k)
           /\ label \in Writers[k] => \A q \in Requests \ {r} : pc[q] \notin Writers[k]
  BY DEF Alone, Moved

-------------------------------------------------------------------------------
\* The shape of the tables and of what requests have in hand.

LEMMA FilesTyped ==
    ASSUME Shape
    PROVE  /\ Len(files) \in Nat /\ DOMAIN files = 1..Len(files)
           /\ \A i \in DOMAIN files : files[i] \in File
           /\ Len(maps) \in Nat /\ DOMAIN maps = 1..Len(maps)
           /\ \A i \in DOMAIN maps : maps[i] \in MapRow
  BY DEF Shape

\* Tables do not shrink.
Grow ==
    /\ files' \in Seq(File) /\ maps' \in Seq(MapRow)
    /\ Len(files) <= Len(files') /\ Len(maps) <= Len(maps')

LEMMA ArgLasts ==
    ASSUME Shape, Grow, NEW a, ArgOK(a, Len(files), Len(maps))
    PROVE  ArgOK(a, Len(files'), Len(maps'))
  <1>1. Len(files') \in Nat /\ Len(maps') \in Nat /\ Len(files) \in Nat /\ Len(maps) \in Nat
    BY FilesTyped DEF Grow
  <1>2. a.file \in 0..Len(files') /\ a.map \in 0..Len(maps')
    BY <1>1 DEF ArgOK, Grow
  <1>3. QED BY <1>2 DEF ArgOK

LEMMA ShapeLasts ==
    ASSUME Shape, Grow, NEW r \in Requests, NEW label, NEW a, Moved(r, label, a),
           ArgOK(a, Len(files'), Len(maps')),
           label \in {"file", "retire"} => a.name \in FileNames,
           label \in {"stamp", "resave"} => a.file # 0
    PROVE  Shape'
  <1>1. \A q \in Requests : ArgOK(arg'[q], Len(files'), Len(maps'))
    BY ArgLasts DEF Shape, Moved
  <1>2. QED BY <1>1 DEF Shape, Grow, Moved

LEMMA NoArgOK == ASSUME NEW F \in Nat, NEW M \in Nat PROVE ArgOK(NoArg, F, M)
  <1>1. NoArg.mapping \in MapRow
    BY DEF NoArg, Mapping, MapRow, KnownRules
  <1>2. NoArg.file = 0 /\ NoArg.map = 0 /\ NoArg.name = "none" /\ NoArg.active \in BOOLEAN
    BY DEF NoArg
  <1>3. 0 \in 0..F /\ 0 \in 0..M
    OBVIOUS
  <1>4. QED BY <1>1, <1>2, <1>3 DEF ArgOK

\* What a request sets in its argument.
LEMMA ArgUpdates ==
    ASSUME NEW F, NEW M, NEW a, ArgOK(a, F, M)
    PROVE  /\ \A v : ArgOK([a EXCEPT !.done = v], F, M)
           /\ \A v : ArgOK([a EXCEPT !.existing = v], F, M)
           /\ \A v : ArgOK([a EXCEPT !.fresh = v], F, M)
           /\ \A v : ArgOK([a EXCEPT !.found = v], F, M)
           /\ \A v \in FileNames : ArgOK([a EXCEPT !.name = v], F, M)
           /\ \A v \in MapRow : ArgOK([a EXCEPT !.mapping = v], F, M)
  BY NoArgFields DEF ArgOK

-------------------------------------------------------------------------------
\* What the statements do to the two tables.

LEMMA MapsSaved ==
    ASSUME Shape, NEW i \in 0..Len(maps), NEW m \in MapRow, maps' = Saved(i, m)
    PROVE  /\ maps' \in Seq(MapRow) /\ Len(maps) <= Len(maps') /\ Len(maps') \in Nat
           /\ i = 0 => Len(maps') = Len(maps) + 1
           /\ ~m.isDefault => Defaults' \subseteq Defaults
           /\ i # 0 /\ Defaults \subseteq {i} => Defaults' \subseteq {i}
           /\ i = 0 /\ Defaults = {} => Defaults' \subseteq {Len(maps')}
  <1>0. /\ maps \in Seq(MapRow) /\ Len(maps) \in Nat /\ DOMAIN maps = 1..Len(maps)
        /\ \A j \in DOMAIN maps : maps[j] \in MapRow
    BY FilesTyped DEF Shape
  <1>1. CASE i = 0
    <2>1. maps' = Append(maps, m)
      BY <1>1 DEF Saved
    <2>2. /\ maps' \in Seq(MapRow) /\ Len(maps') = Len(maps) + 1
          /\ DOMAIN maps' = 1..(Len(maps) + 1) /\ maps'[Len(maps) + 1] = m
          /\ \A j \in DOMAIN maps : maps'[j] = maps[j]
      BY <1>0, <2>1
    <2>3. ASSUME NEW j \in Defaults' PROVE j \in Defaults \/ (j = Len(maps) + 1 /\ m.isDefault)
      <3>1. j \in 1..(Len(maps) + 1) /\ maps'[j].isDefault
        BY <2>2 DEF Defaults
      <3>2. CASE j = Len(maps) + 1
        BY <2>2, <3>1, <3>2
      <3>3. CASE j # Len(maps) + 1
        <4>1. j \in DOMAIN maps
          BY <1>0, <3>1, <3>3
        <4>2. QED BY <2>2, <3>1, <4>1 DEF Defaults
      <3>4. QED BY <3>2, <3>3
    <2>4. QED BY <1>0, <1>1, <2>2, <2>3
  <1>2. CASE i # 0
    <2>1. maps' = [maps EXCEPT ![i] = m] /\ i \in DOMAIN maps
      BY <1>0, <1>2 DEF Saved
    <2>2. maps' \in [1..Len(maps) -> MapRow]
      BY <1>0, <2>1
    <2>3. maps' \in Seq(MapRow) /\ Len(maps') = Len(maps)
      BY <1>0, <2>2
    <2>4. ASSUME NEW j \in Defaults' PROVE (j = i /\ m.isDefault) \/ (j # i /\ j \in Defaults)
      <3>1. j \in DOMAIN maps /\ maps'[j].isDefault /\ maps'[j] = IF j = i THEN m ELSE maps[j]
        BY <1>0, <2>1, <2>2 DEF Defaults
      <3>2. QED BY <3>1 DEF Defaults
    <2>5. /\ ~m.isDefault => Defaults' \subseteq Defaults
          /\ Defaults \subseteq {i} => Defaults' \subseteq {i}
      BY <2>4
    <2>6. Len(maps) <= Len(maps') /\ Len(maps') \in Nat
      BY <1>0, <2>3
    <2>7. QED BY <1>2, <2>3, <2>5, <2>6
  <1>3. QED BY <1>1, <1>2

LEMMA MapsDemoted ==
    ASSUME Shape, maps' = Demoted
    PROVE  maps' \in Seq(MapRow) /\ Len(maps') = Len(maps) /\ Defaults' = {}
  <1>0. /\ Len(maps) \in Nat /\ DOMAIN maps = 1..Len(maps)
        /\ \A j \in DOMAIN maps : maps[j] \in MapRow
    BY FilesTyped
  <1>1. \A j \in DOMAIN maps : /\ [maps[j] EXCEPT !.isDefault = FALSE] \in MapRow
                               /\ [maps[j] EXCEPT !.isDefault = FALSE].isDefault = FALSE
    BY <1>0 DEF MapRow
  <1>2. maps' = [j \in 1..Len(maps) |-> [maps[j] EXCEPT !.isDefault = FALSE]]
    BY <1>0 DEF Demoted
  <1>3. maps' \in [1..Len(maps) -> MapRow] /\ \A j \in 1..Len(maps) : maps'[j].isDefault = FALSE
    BY <1>0, <1>1, <1>2
  <1>4. QED BY <1>0, <1>3 DEF Defaults

LEMMA MapsUsed ==
    ASSUME Shape, NEW i \in 0..Len(maps), maps' = [maps EXCEPT ![i].uses = @ + 1]
    PROVE  maps' \in Seq(MapRow) /\ Len(maps') = Len(maps) /\ Defaults' = Defaults
  <1>0. /\ Len(maps) \in Nat /\ DOMAIN maps = 1..Len(maps)
        /\ \A j \in DOMAIN maps : maps[j] \in MapRow
    BY FilesTyped
  <1>1. CASE i \notin DOMAIN maps
    <2>1. maps' = maps
      BY <1>0, <1>1,
         maps = [j \in 1..Len(maps) |-> maps[j]] DEF Shape
    <2>2. QED BY <2>1 DEF Shape, Defaults
  <1>2. CASE i \in DOMAIN maps
    <2> DEFINE m == [maps[i] EXCEPT !.uses = maps[i].uses + 1]
    <2>1. maps[i].uses + 1 \in Nat
      BY <1>0, <1>2 DEF MapRow
    <2>2. m \in MapRow /\ m.isDefault = maps[i].isDefault
      BY <1>0, <1>2, <2>1 DEF MapRow
    <2>3. maps' = [maps EXCEPT ![i] = m]
      OBVIOUS
    <2> HIDE DEF m
    <2>4. maps' \in [1..Len(maps) -> MapRow]
      BY <1>0, <2>2, <2>3
    <2>5. \A j \in DOMAIN maps : maps'[j].isDefault = maps[j].isDefault
      BY <1>0, <2>2, <2>3
    <2>6. QED BY <1>0, <2>4, <2>5 DEF Defaults
  <1>3. QED BY <1>1, <1>2

\* One column of one file is written.
LEMMA FileWritten ==
    ASSUME Shape, NEW i \in DOMAIN files, NEW f \in File, files' = [files EXCEPT ![i] = f]
    PROVE  /\ files' \in Seq(File) /\ Len(files') = Len(files)
           /\ \A j : j \in Active' <=> IF j = i THEN f.active ELSE j \in Active
  <1>0. /\ Len(files) \in Nat /\ DOMAIN files = 1..Len(files)
        /\ \A j \in DOMAIN files : files[j] \in File
    BY FilesTyped
  <1>1. files' \in [1..Len(files) -> File]
    BY <1>0
  <1>2. QED BY <1>0, <1>1 DEF Active

LEMMA FilesRetired ==
    ASSUME Shape, files' = [i \in DOMAIN files |-> [files[i] EXCEPT !.active = FALSE]]
    PROVE  files' \in Seq(File) /\ Len(files') = Len(files) /\ Active' = {}
  <1>0. /\ Len(files) \in Nat /\ DOMAIN files = 1..Len(files)
        /\ \A j \in DOMAIN files : files[j] \in File
    BY FilesTyped
  <1>1. \A j \in DOMAIN files : /\ [files[j] EXCEPT !.active = FALSE] \in File
                                /\ [files[j] EXCEPT !.active = FALSE].active = FALSE
    BY <1>0 DEF File
  <1>2. files' \in [1..Len(files) -> File] /\ \A j \in 1..Len(files) : files'[j].active = FALSE
    BY <1>0, <1>1
  <1>3. QED BY <1>0, <1>2 DEF Active

LEMMA FileInserted ==
    ASSUME Shape, NEW f \in File, files' = Append(files, f)
    PROVE  /\ files' \in Seq(File) /\ Len(files') = Len(files) + 1 /\ Len(files) \in Nat
           /\ Active' \subseteq Active \cup {Len(files')}
  <1>0. files \in Seq(File) /\ Len(files) \in Nat /\ DOMAIN files = 1..Len(files)
    BY FilesTyped DEF Shape
  <1>1. /\ files' \in Seq(File) /\ Len(files') = Len(files) + 1
        /\ DOMAIN files' = 1..(Len(files) + 1)
        /\ \A j \in DOMAIN files : files'[j] = files[j]
    BY <1>0
  <1>2. QED BY <1>0, <1>1 DEF Active

-------------------------------------------------------------------------------
\* A step that has nothing to do with the files, or with the mappings.

LEMMA FilesApart ==
    ASSUME FilesInv, NEW r \in Requests, NEW label, NEW a, Moved(r, label, a),
           label \notin Writers["files"], Active' = Active
    PROVE  FilesInv'
  <1> SUFFICES ASSUME "files" \notin crossed'
               PROVE  /\ Alone("files")' /\ \A i, j \in Active' : i = j
                      /\ \A q \in Requests :
                            /\ pc'[q] = "file" => Active' = {}
                            /\ pc'[q] = "resave" /\ arg'[q].active => arg'[q].file \in Active'
    BY DEF FilesInv
  <1>1. "files" \notin crossed /\ Alone("files")'
    BY AloneLasts, WritersAre DEF FilesInv, Moved
  <1>2. QED BY <1>1, WritersAre DEF FilesInv, Moved

LEMMA MapsApart ==
    ASSUME MapsInv, NEW r \in Requests, NEW label, NEW a, Moved(r, label, a),
           label \notin Writers["maps"], Defaults' = Defaults
    PROVE  MapsInv'
  <1> SUFFICES ASSUME "maps" \notin crossed'
               PROVE  /\ Alone("maps")' /\ \A i, j \in Defaults' : i = j
                      /\ \A q \in Requests :
                            pc'[q] \in {"remap", "map"} /\ arg'[q].mapping.isDefault
                                => Defaults' \subseteq {arg'[q].map}
    BY DEF MapsInv
  <1>1. "maps" \notin crossed /\ Alone("maps")'
    BY AloneLasts, WritersAre DEF MapsInv, Moved
  <1>2. QED BY <1>1, WritersAre DEF MapsInv, Moved

\* The step of a request that stands at, or gets to, a statement that writes the files,
\* or the mappings: nobody else does, unless it is recorded.

LEMMA FilesMine ==
    ASSUME FilesInv, NEW r \in Requests, NEW label, NEW a, Moved(r, label, a),
           pc[r] \in Writers["files"] \/ label \in Writers["files"],
           "files" \notin crossed =>
               /\ \A i, j \in Active' : i = j
               /\ label = "file" => Active' = {}
               /\ label = "resave" /\ a.active => a.file \in Active'
    PROVE  FilesInv'
  <1> SUFFICES ASSUME "files" \notin crossed'
               PROVE  /\ Alone("files")' /\ \A i, j \in Active' : i = j
                      /\ \A q \in Requests :
                            /\ pc'[q] = "file" => Active' = {}
                            /\ pc'[q] = "resave" /\ arg'[q].active => arg'[q].file \in Active'
    BY DEF FilesInv
  <1>1. "files" \notin crossed
    BY DEF Moved
  <1>2. /\ Alone("files")' /\ Alone("files")
        /\ label \in Writers["files"] => \A q \in Requests \ {r} : pc[q] \notin Writers["files"]
    BY <1>1, AloneLasts, WritersAre DEF FilesInv
  <1>3. \A q \in Requests \ {r} : pc'[q] \notin Writers["files"]
    BY <1>2 DEF Alone, Moved
  <1>4. \A q \in Requests \ {r} : pc'[q] # "file" /\ pc'[q] # "resave"
    BY <1>3, WritersAre
  <1>5. QED BY <1>1, <1>2, <1>4 DEF Moved

LEMMA MapsMine ==
    ASSUME MapsInv, NEW r \in Requests, NEW label, NEW a, Moved(r, label, a),
           pc[r] \in Writers["maps"] \/ label \in Writers["maps"],
           "maps" \notin crossed' /\ "maps" \notin crossed =>
               /\ \A i, j \in Defaults' : i = j
               /\ label \in {"remap", "map"} /\ a.mapping.isDefault => Defaults' \subseteq {a.map}
    PROVE  MapsInv'
  <1> SUFFICES ASSUME "maps" \notin crossed'
               PROVE  /\ Alone("maps")' /\ \A i, j \in Defaults' : i = j
                      /\ \A q \in Requests :
                            pc'[q] \in {"remap", "map"} /\ arg'[q].mapping.isDefault
                                => Defaults' \subseteq {arg'[q].map}
    BY DEF MapsInv
  <1>1. "maps" \notin crossed
    BY DEF Moved
  <1>2. /\ Alone("maps")' /\ Alone("maps")
        /\ label \in Writers["maps"] => \A q \in Requests \ {r} : pc[q] \notin Writers["maps"]
    BY <1>1, AloneLasts, WritersAre DEF MapsInv
  <1>3. \A q \in Requests \ {r} : pc'[q] \notin Writers["maps"]
    BY <1>2 DEF Alone, Moved
  <1>4. \A q \in Requests \ {r} : pc'[q] \notin {"remap", "map"}
    BY <1>3, WritersAre
  <1>5. QED BY <1>1, <1>2, <1>4 DEF Moved

-------------------------------------------------------------------------------
\* saveConfig

Holds == Shape' /\ FilesInv' /\ MapsInv'

LEMMA ConfigReadHolds ==
    ASSUME IInv, NEW r \in Requests, NEW name \in FileNames, ConfigRead(r, name)
    PROVE  Holds
  <1>0. Shape /\ UNCHANGED tables /\ Len(files) \in Nat /\ Len(maps) \in Nat
    BY FilesTyped DEF IInv, ConfigRead
  <1>1. Grow /\ UNCHANGED <<files, maps>> /\ Active' = Active /\ Defaults' = Defaults
    BY <1>0 DEF tables, Grow, Shape, Active, Defaults
  <1>2. ASSUME NEW i \in DOMAIN files,
               Begin(r, "resave", [NoArg EXCEPT !.file = i, !.active = files[i].active])
        PROVE  Holds
    <2> DEFINE a == [NoArg EXCEPT !.file = i, !.active = files[i].active]
    <2>1. a.file = i /\ a.active = files[i].active /\ a.map = 0 /\ a.name = "none"
          /\ a.mapping = NoArg.mapping /\ DOMAIN a = DOMAIN NoArg
      BY DEF NoArg
    <2>2. i \in 0..Len(files) /\ i # 0 /\ files[i].active \in BOOLEAN
      BY <1>0, FilesTyped DEF File
    <2>3. ArgOK(a, Len(files'), Len(maps'))
      BY <1>0, <1>1, <2>1, <2>2, NoArgOK DEF ArgOK
    <2>4. Moved(r, "resave", a)
      BY <1>0, <1>2, BeginMoves
    <2>5. Shape'
      BY <1>0, <1>1, <2>1, <2>2, <2>3, <2>4, ShapeLasts
    <2>6. MapsInv'
      BY <1>1, <2>4, MapsApart, WritersAre DEF IInv
    <2>7. FilesInv'
      <3>1. a.active => a.file \in Active'
        BY <1>1, <2>1 DEF Active
      <3> HIDE DEF a
      <3>2. "files" \notin crossed =>
                /\ \A j, k \in Active' : j = k
                /\ "resave" = "file" => Active' = {}
                /\ "resave" = "resave" /\ a.active => a.file \in Active'
        BY <1>1, <3>1 DEF IInv, FilesInv
      <3>3. "resave" \in Writers["files"]
        BY WritersAre
      <3>4. QED BY <2>4, <3>2, <3>3, FilesMine DEF IInv
    <2>8. QED BY <2>5, <2>6, <2>7 DEF Holds
  <1>3. CASE Begin(r, "retire", [NoArg EXCEPT !.name = name])
    <2> DEFINE a == [NoArg EXCEPT !.name = name]
    <2>1. a.name = name
      BY DEF NoArg
    <2>2. ArgOK(a, Len(files'), Len(maps'))
      BY <1>0, <1>1, NoArgOK, ArgUpdates
    <2>3. Moved(r, "retire", a)
      BY <1>0, <1>3, BeginMoves
    <2>4. Shape'
      BY <1>0, <1>1, <2>1, <2>2, <2>3, ShapeLasts
    <2>5. MapsInv'
      BY <1>1, <2>3, MapsApart, WritersAre DEF IInv
    <2>6. FilesInv'
      BY <1>1, <2>3, FilesMine, WritersAre DEF IInv, FilesInv
    <2>7. QED BY <2>4, <2>5, <2>6 DEF Holds
  <1>4. QED BY <1>2, <1>3 DEF ConfigRead

LEMMA ConfigWritesHold ==
    ASSUME IInv, NEW r \in Requests, ConfigResave(r) \/ ConfigRetire(r) \/ ConfigInsert(r)
    PROVE  Holds
  <1>0. /\ Shape /\ UNCHANGED maps /\ Len(files) \in Nat /\ Len(maps) \in Nat
        /\ maps \in Seq(MapRow) /\ ArgOK(arg[r], Len(files), Len(maps))
    BY FilesTyped DEF IInv, Shape, ConfigResave, ConfigRetire, ConfigInsert
  <1>1. Defaults' = Defaults
    BY <1>0 DEF Defaults
  <1>2. CASE ConfigResave(r)
    <2> DEFINE i == arg[r].file
               f == [files[i] EXCEPT !.active = arg[r].active]
    <2>1. i \in DOMAIN files
      BY <1>0, <1>2, FilesTyped DEF ConfigResave, Shape, ArgOK
    <2>2. f \in File /\ f.active = arg[r].active
      BY <1>0, <2>1, FilesTyped DEF File, ArgOK
    <2>3. files' = [files EXCEPT ![i] = f]
      BY <1>2 DEF ConfigResave
    <2> HIDE DEF f, i
    <2>4. /\ files' \in Seq(File) /\ Len(files') = Len(files)
          /\ \A j : j \in Active' <=> IF j = i THEN f.active ELSE j \in Active
      BY <1>0, <2>1, <2>2, <2>3, FileWritten
    <2>5. Moved(r, "idle", NoArg)
      BY <1>0, <1>2, FinishMoves DEF ConfigResave
    <2>6. Shape'
      BY <1>0, <2>4, <2>5, NoArgOK, ShapeLasts DEF Grow
    <2>7. MapsInv'
      BY <1>1, <2>5, MapsApart, WritersAre DEF IInv
    <2>8. FilesInv'
      <3>1. "files" \notin crossed => (f.active => i \in Active) /\ \A j, k \in Active : j = k
        BY <1>2, <2>2 DEF ConfigResave, IInv, FilesInv, i
      <3>2. "files" \notin crossed => \A j, k \in Active' : j = k
        BY <2>4, <3>1
      <3>3. QED BY <1>2, <2>5, <3>2, FilesMine, WritersAre DEF IInv, ConfigResave
    <2>9. QED BY <2>6, <2>7, <2>8 DEF Holds
  <1>3. CASE ConfigRetire(r)
    <2>1. files' \in Seq(File) /\ Len(files') = Len(files) /\ Active' = {}
      BY <1>0, <1>3, FilesRetired DEF ConfigRetire
    <2>2. Moved(r, "file", arg[r])
      BY <1>0, <1>3, GotoMoves, WritersAre DEF ConfigRetire
    <2>3. arg[r].name \in FileNames
      BY <1>0, <1>3 DEF ConfigRetire, Shape
    <2>4. Shape'
      BY <1>0, <2>1, <2>2, <2>3, ShapeLasts DEF Grow
    <2>5. MapsInv'
      BY <1>1, <2>2, MapsApart, WritersAre DEF IInv
    <2>6. FilesInv'
      BY <1>3, <2>1, <2>2, FilesMine, WritersAre DEF IInv, ConfigRetire
    <2>7. QED BY <2>4, <2>5, <2>6 DEF Holds
  <1>4. CASE ConfigInsert(r)
    <2> DEFINE f == [name |-> arg[r].name, active |-> TRUE, synced |-> FALSE]
    <2>1. f \in File
      BY <1>0, <1>4 DEF ConfigInsert, Shape, File
    <2>2. files' = Append(files, f)
      BY <1>4 DEF ConfigInsert
    <2> HIDE DEF f
    <2>3. /\ files' \in Seq(File) /\ Len(files') = Len(files) + 1
          /\ Active' \subseteq Active \cup {Len(files')}
      BY <1>0, <2>1, <2>2, FileInserted
    <2>4. Moved(r, "idle", NoArg)
      BY <1>0, <1>4, FinishMoves DEF ConfigInsert
    <2>5. Grow /\ Len(files') \in Nat
      BY <1>0, <2>3 DEF Grow
    <2>6. Shape'
      BY <1>0, <2>4, <2>5, NoArgOK, ShapeLasts
    <2>7. MapsInv'
      BY <1>1, <2>4, MapsApart, WritersAre DEF IInv
    <2>8. "files" \notin crossed => Active = {}
      BY <1>4 DEF ConfigInsert, IInv, FilesInv
    <2>9. FilesInv'
      BY <1>4, <2>3, <2>4, <2>8, FilesMine, WritersAre DEF IInv, ConfigInsert
    <2>10. QED BY <2>6, <2>7, <2>9 DEF Holds
  <1>5. QED BY <1>2, <1>3, <1>4

-------------------------------------------------------------------------------
\* createColumnMapping and updateColumnMapping

LEMMA MappingTyped ==
    ASSUME NEW d \in BOOLEAN, NEW c \in Configs \cup {DefaultColumnMapping}
    PROVE  Mapping(d, NoRules, c) \in MapRow /\ Mapping(d, NoRules, c).isDefault = d
  BY DEF Mapping, MapRow, KnownRules

LEMMA MappingCreateHolds ==
    ASSUME IInv, NEW r \in Requests, NEW c \in Configs, NEW d \in BOOLEAN, MappingCreate(r, c, d)
    PROVE  Holds
  <1> DEFINE m == Mapping(d, NoRules, c)
             a == [NoArg EXCEPT !.mapping = m]
  <1>0. /\ Shape /\ UNCHANGED files /\ Len(files) \in Nat /\ Len(maps) \in Nat
        /\ files \in Seq(File) /\ maps \in Seq(MapRow)
    BY FilesTyped DEF IInv, Shape, MappingCreate
  <1>1. m \in MapRow /\ m.isDefault = d
    BY MappingTyped
  <1>2. Begin(r, "map", a)
    BY DEF MappingCreate
  <1> HIDE DEF m
  <1>3. a.mapping = m
    BY DEF NoArg
  <1>4. /\ maps' \in Seq(MapRow) /\ Len(maps') = Len(maps)
        /\ IF d THEN Defaults' = {} ELSE Defaults' = Defaults
    <2>1. CASE d
      BY <1>0, <2>1, MapsDemoted DEF MappingCreate
    <2>2. CASE ~d
      BY <1>0, <2>2 DEF MappingCreate, Defaults
    <2>3. QED BY <2>1, <2>2
  <1>5. ArgOK(a, Len(files'), Len(maps'))
    BY <1>0, <1>1, <1>4, NoArgOK, ArgUpdates
  <1> HIDE DEF a
  <1>6. Moved(r, "map", a)
    BY <1>0, <1>2, BeginMoves
  <1>7. Shape'
    BY <1>0, <1>4, <1>5, <1>6, ShapeLasts DEF Grow
  <1>8. FilesInv'
    <2>1. Active' = Active
      BY <1>0 DEF Active
    <2>2. QED BY <1>6, <2>1, FilesApart, WritersAre DEF IInv
  <1>9. MapsInv'
    <2>1. "maps" \notin crossed => \A i, j \in Defaults' : i = j
      BY <1>4 DEF IInv, MapsInv
    <2>2. a.mapping.isDefault => Defaults' \subseteq {a.map}
      BY <1>1, <1>3, <1>4
    <2>3. "map" \in Writers["maps"]
      BY WritersAre
    <2>4. QED BY <1>6, <2>1, <2>2, <2>3, MapsMine DEF IInv
  <1>10. QED BY <1>7, <1>8, <1>9 DEF Holds

ReadArg(i, j, c, d) ==
    [NoArg EXCEPT !.map = j, !.mapping = [maps[i] EXCEPT !.config = c, !.isDefault = d]]

LEMMA ReadStarts ==
    ASSUME NEW r, NEW i, NEW j, NEW c, NEW d, MappingRead(r, i, j, c, d)
    PROVE  /\ UNCHANGED tables /\ UNCHANGED <<files, maps, rows, sync>>
           /\ \E label \in {"demote", "map"}, K \in SUBSET DOMAIN Writers :
                 Start(r, label, ReadArg(i, j, c, d), K) /\ Shared(label) \subseteq K
  <1> DEFINE label == IF d /\ ~maps[i].isDefault THEN "demote" ELSE "map"
             K == Shared(label) \cup IF d /\ maps[i].isDefault /\ j # i THEN {"maps"} ELSE {}
  <1>1. label \in {"demote", "map"} /\ K \in SUBSET DOMAIN Writers /\ Shared(label) \subseteq K
    BY WritersAre DEF Shared
  <1>2. Start(r, label, ReadArg(i, j, c, d), K)
    BY DEF MappingRead, ReadArg
  <1>3. UNCHANGED <<files, maps, rows, sync>> /\ UNCHANGED tables
    BY DEF MappingRead, tables
  <1> HIDE DEF label, K
  <1>4. QED BY <1>1, <1>2, <1>3

LEMMA MappingReadHolds ==
    ASSUME IInv, NEW r \in Requests, NEW i \in DOMAIN maps, NEW j \in 0..Len(maps),
           NEW c \in Configs, NEW d \in BOOLEAN, MappingRead(r, i, j, c, d)
    PROVE  Holds
  <1> DEFINE m == [maps[i] EXCEPT !.config = c, !.isDefault = d]
             a == [NoArg EXCEPT !.map = j, !.mapping = m]
             label == IF d /\ ~maps[i].isDefault THEN "demote" ELSE "map"
             K == Shared(label) \cup IF d /\ maps[i].isDefault /\ j # i THEN {"maps"} ELSE {}
  <1>0. /\ Shape /\ UNCHANGED tables /\ Len(files) \in Nat /\ Len(maps) \in Nat
        /\ i \in 1..Len(maps) /\ maps[i] \in MapRow
    BY FilesTyped DEF IInv, MappingRead
  <1>1. Grow /\ UNCHANGED <<files, maps>> /\ Active' = Active /\ Defaults' = Defaults
    BY <1>0 DEF tables, Grow, Shape, Active, Defaults
  <1>2. m \in MapRow /\ m.isDefault = d
    BY <1>0 DEF MapRow
  <1>3. Start(r, label, a, K)
    BY DEF MappingRead
  <1> HIDE DEF m
  <1>4. /\ a.map = j /\ a.mapping = m /\ a.file = 0 /\ a.name = "none"
        /\ a.active = NoArg.active /\ DOMAIN a = DOMAIN NoArg
    BY DEF NoArg
  <1>5. ArgOK(a, Len(files'), Len(maps'))
    BY <1>0, <1>1, <1>2, <1>4, NoArgOK DEF ArgOK
  <1> HIDE DEF a
  <1>6. Moved(r, label, a)
    BY <1>0, <1>3, StartMoves
  <1>7. label \in {"demote", "map"}
    OBVIOUS
  <1>8. Shape'
    BY <1>0, <1>1, <1>5, <1>6, <1>7, ShapeLasts
  <1>9. FilesInv'
    BY <1>1, <1>6, <1>7, FilesApart, WritersAre DEF IInv
  <1>10. MapsInv'
    <2>1. ASSUME "maps" \notin crossed', label = "map", a.mapping.isDefault
          PROVE  Defaults' \subseteq {a.map}
      <3>1. i \in Defaults
        BY <1>2, <1>4, <2>1 DEF Defaults
      <3>2. "maps" \notin crossed /\ "maps" \notin K
        BY <1>3, <2>1 DEF Start
      <3>3. i = j
        BY <1>2, <1>4, <2>1, <3>1, <3>2 DEF Defaults
      <3>4. QED BY <1>1, <1>4, <3>1, <3>2, <3>3 DEF IInv, MapsInv
    <2>2. "maps" \notin crossed => \A x, y \in Defaults' : x = y
      BY <1>1 DEF IInv, MapsInv
    <2>3. label \in Writers["maps"]
      BY <1>7, WritersAre
    <2> HIDE DEF label
    <2>4. QED BY <1>6, <1>7, <2>1, <2>2, <2>3, MapsMine DEF IInv
  <1>11. QED BY <1>8, <1>9, <1>10 DEF Holds

LEMMA MappingWritesHold ==
    ASSUME IInv, NEW r \in Requests, MappingDemote(r) \/ MappingSave(r)
    PROVE  Holds
  <1>0. /\ Shape /\ UNCHANGED files /\ Len(files) \in Nat /\ Len(maps) \in Nat
        /\ files \in Seq(File) /\ ArgOK(arg[r], Len(files), Len(maps))
    BY FilesTyped DEF IInv, Shape, MappingDemote, MappingSave
  <1>1. Active' = Active
    BY <1>0 DEF Active
  <1>2. CASE MappingDemote(r)
    <2>1. maps' \in Seq(MapRow) /\ Len(maps') = Len(maps) /\ Defaults' = {}
      BY <1>0, <1>2, MapsDemoted DEF MappingDemote
    <2>2. Moved(r, "map", arg[r])
      BY <1>0, <1>2, GotoMoves, WritersAre DEF MappingDemote
    <2>3. Shape'
      BY <1>0, <2>1, <2>2, ShapeLasts DEF Grow
    <2>4. FilesInv'
      BY <1>1, <2>2, FilesApart, WritersAre DEF IInv
    <2>5. MapsInv'
      BY <2>1, <2>2, MapsMine, WritersAre DEF IInv
    <2>6. QED BY <2>3, <2>4, <2>5 DEF Holds
  <1>3. CASE MappingSave(r)
    <2> DEFINE i == arg[r].map
               m == arg[r].mapping
    <2>1. i \in 0..Len(maps) /\ m \in MapRow /\ maps' = Saved(i, m) /\ pc[r] = "map"
      BY <1>0, <1>3 DEF MappingSave, ArgOK
    <2>2. "maps" \notin crossed =>
              (\A j, k \in Defaults : j = k) /\ (m.isDefault => Defaults \subseteq {i})
      BY <2>1 DEF IInv, MapsInv
    <2>3. i = 0 => i \notin Defaults
      BY <1>0, FilesTyped DEF Defaults
    <2> HIDE DEF i, m
    <2>4. /\ maps' \in Seq(MapRow) /\ Len(maps) <= Len(maps')
          /\ ~m.isDefault => Defaults' \subseteq Defaults
          /\ i # 0 /\ Defaults \subseteq {i} => Defaults' \subseteq {i}
          /\ i = 0 /\ Defaults = {} => Defaults' \subseteq {Len(maps')}
      BY <1>0, <2>1, MapsSaved
    <2>5. "maps" \notin crossed => \A j, k \in Defaults' : j = k
      <3>1. CASE ~m.isDefault
        BY <2>2, <2>4, <3>1
      <3>2. CASE m.isDefault /\ i # 0
        BY <2>2, <2>4, <3>2
      <3>3. CASE m.isDefault /\ i = 0
        <4>1. "maps" \notin crossed => Defaults = {}
          BY <2>2, <2>3, <3>3
        <4>2. QED BY <2>4, <3>3, <4>1
      <3>4. QED BY <3>1, <3>2, <3>3
    <2>6. Moved(r, "idle", NoArg)
      BY <1>0, <1>3, FinishMoves DEF MappingSave
    <2>7. Grow
      BY <1>0, <2>4 DEF Grow
    <2>8. Shape'
      BY <1>0, <2>6, <2>7, NoArgOK, ShapeLasts, Len(maps') \in Nat DEF Grow
    <2>9. FilesInv'
      BY <1>1, <2>6, FilesApart, WritersAre DEF IInv
    <2>10. MapsInv'
      BY <2>1, <2>5, <2>6, MapsMine, WritersAre DEF IInv
    <2>11. QED BY <2>8, <2>9, <2>10 DEF Holds
  <1>4. QED BY <1>2, <1>3

-------------------------------------------------------------------------------
\* importSchedule

LEMMA InHandTyped ==
    ASSUME Shape, NEW sheet \in Sheets, NEW i \in {0} \cup DOMAIN maps
    PROVE  InHand(sheet, i) \in MapRow
  <1> DEFINE m == IF i = 0 THEN Mapping(TRUE, NoRules, DefaultColumnMapping) ELSE maps[i]
  <1>1. m \in MapRow
    BY FilesTyped, MappingTyped
  <1> HIDE DEF m
  <1>2. [m EXCEPT !.rules = GenerateNormalizationRules(sheet[1])] \in MapRow
    BY <1>1 DEF MapRow, KnownRules
  <1>3. InHand(sheet, i) \in {m, [m EXCEPT !.rules = GenerateNormalizationRules(sheet[1])]}
    BY DEF InHand, m
  <1>4. QED BY <1>1, <1>2, <1>3

LEMMA ImportReadHolds ==
    ASSUME IInv, NEW r \in Requests, NEW sheet \in Sheets, NEW file \in 0..Len(files),
           ImportRead(r, sheet, file)
    PROVE  Holds
  <1>0. Shape /\ UNCHANGED tables /\ Len(files) \in Nat /\ Len(maps) \in Nat
    BY FilesTyped DEF IInv, ImportRead
  <1>1. Grow /\ UNCHANGED <<files, maps>> /\ Active' = Active /\ Defaults' = Defaults
    BY <1>0 DEF tables, Grow, Shape, Active, Defaults
  <1>2. PICK i \in IF Defaults = {} THEN {0} ELSE Defaults :
          \E label \in {"remap", "count"} :
             LET m == InHand(sheet, i)
                 recs == Records(sheet, m.rules, m.config)
             IN  Begin(r, label, [NoArg EXCEPT !.file = file, !.map = i, !.mapping = m,
                                               !.recs = recs, !.batch = ops + 1])
    BY DEF ImportRead
  <1> DEFINE m == InHand(sheet, i)
             a == [NoArg EXCEPT !.file = file, !.map = i, !.mapping = m,
                                !.recs = Records(sheet, m.rules, m.config), !.batch = ops + 1]
  <1>3. PICK label \in {"remap", "count"} : Begin(r, label, a)
    BY <1>2
  <1>4. m \in MapRow
    BY <1>0, InHandTyped DEF Defaults
  <1>5. i \in 0..Len(maps)
    BY <1>0, FilesTyped DEF Defaults
  <1> HIDE DEF m
  <1>6. /\ a.file = file /\ a.map = i /\ a.mapping = m /\ a.name = "none"
        /\ a.active = NoArg.active /\ DOMAIN a = DOMAIN NoArg
    BY DEF NoArg
  <1> HIDE DEF a
  <1>7. ArgOK(a, Len(files'), Len(maps'))
    BY <1>0, <1>1, <1>4, <1>5, <1>6, NoArgOK DEF ArgOK
  <1>8. Moved(r, label, a)
    BY <1>0, <1>3, BeginMoves
  <1>9. Shape'
    BY <1>0, <1>1, <1>7, <1>8, ShapeLasts
  <1>10. FilesInv'
    BY <1>1, <1>8, FilesApart, WritersAre DEF IInv
  <1>11. MapsInv'
    <2>1. CASE label = "remap"
      <3>1. "maps" \notin crossed => (\A j, k \in Defaults' : j = k) /\ Defaults' \subseteq {a.map}
        BY <1>1, <1>6 DEF IInv, MapsInv
      <3>2. QED BY <1>8, <2>1, <3>1, MapsMine, WritersAre DEF IInv
    <2>2. CASE label = "count"
      BY <1>1, <1>8, <2>2, MapsApart, WritersAre DEF IInv
    <2>3. QED BY <2>1, <2>2
  <1>12. QED BY <1>9, <1>10, <1>11 DEF Holds

LEMMA ImportRemapHolds ==
    ASSUME IInv, NEW r \in Requests, ImportRemap(r)
    PROVE  Holds
  <1> DEFINE i == arg[r].map
             m == arg[r].mapping
             a == IF arg[r].map = 0 THEN [arg[r] EXCEPT !.map = Len(maps')] ELSE arg[r]
  <1>0. /\ Shape /\ UNCHANGED files /\ Len(files) \in Nat /\ Len(maps) \in Nat
        /\ files \in Seq(File) /\ ArgOK(arg[r], Len(files), Len(maps))
    BY FilesTyped DEF IInv, Shape, ImportRemap
  <1>1. i \in 0..Len(maps) /\ m \in MapRow /\ maps' = Saved(i, m) /\ pc[r] = "remap"
    BY <1>0 DEF ImportRemap, ArgOK
  <1>2. "maps" \notin crossed =>
            (\A j, k \in Defaults : j = k) /\ (m.isDefault => Defaults \subseteq {i})
    BY <1>1 DEF IInv, MapsInv
  <1>3. i = 0 => i \notin Defaults
    BY <1>0, FilesTyped DEF Defaults
  <1>4. Finish(r) \/ Goto(r, "count", a)
    BY DEF ImportRemap
  <1> HIDE DEF i, m
  <1>5. /\ maps' \in Seq(MapRow) /\ Len(maps) <= Len(maps') /\ Len(maps') \in Nat
        /\ ~m.isDefault => Defaults' \subseteq Defaults
        /\ i # 0 /\ Defaults \subseteq {i} => Defaults' \subseteq {i}
        /\ i = 0 /\ Defaults = {} => Defaults' \subseteq {Len(maps')}
    BY <1>0, <1>1, MapsSaved
  <1>6. "maps" \notin crossed => \A j, k \in Defaults' : j = k
    <2>1. CASE ~m.isDefault
      BY <1>2, <1>5, <2>1
    <2>2. CASE m.isDefault /\ i # 0
      BY <1>2, <1>5, <2>2
    <2>3. CASE m.isDefault /\ i = 0
      <3>1. "maps" \notin crossed => Defaults = {}
        BY <1>2, <1>3, <2>3
      <3>2. QED BY <1>5, <2>3, <3>1
    <2>4. QED BY <2>1, <2>2, <2>3
  <1>7. Grow /\ Active' = Active
    BY <1>0, <1>5 DEF Grow, Active
  <1>8. ASSUME NEW label \in {"idle", "count"}, NEW b, Moved(r, label, b),
               ArgOK(b, Len(files'), Len(maps'))
        PROVE  Holds
    <2>1. Shape'
      BY <1>0, <1>7, <1>8, ShapeLasts
    <2>2. FilesInv'
      BY <1>7, <1>8, FilesApart, WritersAre DEF IInv
    <2>3. MapsInv'
      BY <1>1, <1>6, <1>8, MapsMine, WritersAre DEF IInv
    <2>4. QED BY <2>1, <2>2, <2>3 DEF Holds
  <1>9. CASE Finish(r)
    BY <1>0, <1>5, <1>8, <1>9, FinishMoves, NoArgOK
  <1>10. CASE Goto(r, "count", a)
    <2>1. ArgOK(a, Len(files'), Len(maps'))
      <3>1. ArgOK(arg[r], Len(files'), Len(maps'))
        BY <1>0, <1>7, ArgLasts
      <3>2. ArgOK([arg[r] EXCEPT !.map = Len(maps')], Len(files'), Len(maps'))
        BY <1>5, <3>1, NoArgFields DEF ArgOK
      <3>3. QED BY <3>1, <3>2
    <2> HIDE DEF a
    <2>2. Moved(r, "count", a)
      BY <1>0, <1>1, <1>10, GotoMoves, WritersAre
    <2>3. QED BY <1>8, <2>1, <2>2
  <1>11. QED BY <1>4, <1>9, <1>10

\* The later steps of an import, and the steps that are not about files or mappings,
\* change neither which files are active nor which mappings are defaults.
LEMMA ApartHolds ==
    ASSUME IInv, NEW r \in Requests,
           NEW label \in {"idle", "count", "upsert", "use", "stamp", "sync"},
           NEW a, Moved(r, label, a), ArgOK(a, Len(files), Len(maps)),
           files' \in Seq(File), Len(files') = Len(files), Active' = Active,
           maps' \in Seq(MapRow), Len(maps') = Len(maps), Defaults' = Defaults,
           label = "stamp" => a.file # 0
    PROVE  Holds
  <1>1. Shape'
    BY FilesTyped, ShapeLasts DEF IInv, Grow
  <1>2. FilesInv' /\ MapsInv'
    BY FilesApart, MapsApart, WritersAre DEF IInv
  <1>3. QED BY <1>1, <1>2 DEF Holds

LEMMA ChunkMoves ==
    ASSUME Shape, NEW r \in Requests, pc[r] \in {"count", "upsert"},
           NEW here \in {"count", "upsert"}, NEW next \in {"upsert", "use"},
           NEW a, ArgOK(a, Len(files), Len(maps)), NextChunk(r, here, next, a)
    PROVE  \E label \in {here, next} : \E b : Moved(r, label, b) /\ ArgOK(b, Len(files), Len(maps))
  <1>1. \A v : ArgOK([a EXCEPT !.done = v], Len(files), Len(maps))
    BY ArgUpdates
  <1>2. \A label \in {here, next} : \A k \in DOMAIN Writers : label \in Writers[k] => pc[r] \in Writers[k]
    BY WritersAre
  <1>3. CASE Goto(r, here, [a EXCEPT !.done = ChunkEnd(a)])
    <2> DEFINE b == [a EXCEPT !.done = ChunkEnd(a)]
    <2>1. ArgOK(b, Len(files), Len(maps)) /\ Goto(r, here, b)
      BY <1>1, <1>3
    <2> HIDE DEF b
    <2>2. QED BY <1>2, <2>1, GotoMoves
  <1>4. CASE Goto(r, next, [a EXCEPT !.done = 0])
    <2> DEFINE b == [a EXCEPT !.done = 0]
    <2>1. ArgOK(b, Len(files), Len(maps)) /\ Goto(r, next, b)
      BY <1>1, <1>4
    <2> HIDE DEF b
    <2>2. QED BY <1>2, <2>1, GotoMoves
  <1>5. QED BY <1>3, <1>4 DEF NextChunk

LEMMA ImportHolds ==
    ASSUME IInv, NEW r \in Requests,
           ImportCount(r) \/ ImportUpsert(r) \/ ImportUse(r) \/ ImportStamp(r)
    PROVE  Holds
  <1>0. /\ Shape /\ Len(files) \in Nat /\ Len(maps) \in Nat /\ files \in Seq(File)
        /\ maps \in Seq(MapRow) /\ ArgOK(arg[r], Len(files), Len(maps))
    BY FilesTyped DEF IInv, Shape
  <1>1. ASSUME UNCHANGED <<files, maps>>, NEW label \in {"idle", "count", "upsert", "use"}, NEW a,
               Moved(r, label, a), ArgOK(a, Len(files), Len(maps))
        PROVE  Holds
    BY <1>0, <1>1, ApartHolds DEF Active, Defaults
  <1>2. CASE ImportCount(r)
    <2> DEFINE a == [arg[r] EXCEPT !.existing = @ + Cardinality(Known(Chunk(arg[r])))]
    <2>1. ArgOK(a, Len(files), Len(maps))
      BY <1>0, ArgUpdates
    <2>2. NextChunk(r, "count", "upsert", a) /\ UNCHANGED <<files, maps>> /\ pc[r] = "count"
      BY <1>2 DEF ImportCount, tables
    <2> HIDE DEF a
    <2>3. \E label \in {"count", "upsert"} : \E b :
             Moved(r, label, b) /\ ArgOK(b, Len(files), Len(maps))
      BY <1>0, <2>1, <2>2, ChunkMoves
    <2>4. QED BY <1>1, <2>2, <2>3
  <1>3. CASE ImportUpsert(r)
    <2> DEFINE a == [arg[r] EXCEPT !.fresh = @ + Len(rows') - Len(rows)]
    <2>1. ArgOK(a, Len(files), Len(maps))
      BY <1>0, ArgUpdates
    <2>2. UNCHANGED <<files, maps>> /\ (NextChunk(r, "upsert", "use", a) \/ Finish(r))
          /\ pc[r] = "upsert"
      BY <1>3 DEF ImportUpsert
    <2> HIDE DEF a
    <2>3. CASE NextChunk(r, "upsert", "use", a)
      <3>1. \E label \in {"upsert", "use"} : \E b :
               Moved(r, label, b) /\ ArgOK(b, Len(files), Len(maps))
        BY <1>0, <2>1, <2>2, <2>3, ChunkMoves
      <3>2. QED BY <1>1, <2>2, <3>1
    <2>4. CASE Finish(r)
      BY <1>0, <1>1, <2>2, <2>4, FinishMoves, NoArgOK
    <2>5. QED BY <2>2, <2>3, <2>4
  <1>4. CASE ImportUse(r)
    <2>1. /\ maps' \in Seq(MapRow) /\ Len(maps') = Len(maps) /\ Defaults' = Defaults
          /\ UNCHANGED files /\ Active' = Active
      BY <1>0, <1>4, MapsUsed DEF ImportUse, ArgOK, Active
    <2>2. CASE Finish(r)
      BY <1>0, <2>1, <2>2, FinishMoves, NoArgOK, ApartHolds
    <2>3. CASE Goto(r, "stamp", arg[r]) /\ arg[r].file # 0
      <3>1. Moved(r, "stamp", arg[r])
        BY <1>0, <2>3, GotoMoves, WritersAre
      <3>2. QED BY <1>0, <2>1, <2>3, <3>1, ApartHolds
    <2>4. QED BY <1>4, <2>2, <2>3 DEF ImportUse
  <1>5. CASE ImportStamp(r)
    <2> DEFINE i == arg[r].file
               f == [files[i] EXCEPT !.synced = TRUE]
    <2>1. i \in DOMAIN files
      BY <1>0, <1>5, FilesTyped DEF ImportStamp, Shape, ArgOK
    <2>2. f \in File /\ f.active = files[i].active
      BY <1>0, <2>1, FilesTyped DEF File
    <2>3. files' = [files EXCEPT ![i] = f]
      BY <1>5 DEF ImportStamp
    <2> HIDE DEF f, i
    <2>4. /\ files' \in Seq(File) /\ Len(files') = Len(files)
          /\ \A j : j \in Active' <=> IF j = i THEN f.active ELSE j \in Active
      BY <1>0, <2>1, <2>2, <2>3, FileWritten
    <2>5. Active' = Active
      BY <2>1, <2>2, <2>4 DEF Active
    <2>6. UNCHANGED maps /\ Defaults' = Defaults
      BY <1>5 DEF ImportStamp, Defaults
    <2>7. Moved(r, "idle", NoArg)
      BY <1>0, <1>5, FinishMoves DEF ImportStamp
    <2>8. QED BY <1>0, <2>4, <2>5, <2>6, <2>7, NoArgOK, ApartHolds
  <1>6. QED BY <1>2, <1>3, <1>4, <1>5

-------------------------------------------------------------------------------
LEMMA SyncHolds ==
    ASSUME IInv, NEW r \in Requests, SyncRead(r) \/ SyncSave(r) \/ Fault(r)
    PROVE  Holds
  <1>0. /\ Shape /\ Len(files) \in Nat /\ Len(maps) \in Nat
        /\ files \in Seq(File) /\ maps \in Seq(MapRow) /\ UNCHANGED <<files, maps>>
    BY FilesTyped DEF IInv, Shape, SyncRead, SyncSave, Fault, tables
  <1>1. Active' = Active /\ Defaults' = Defaults
    BY <1>0 DEF Active, Defaults
  <1>2. CASE SyncRead(r)
    <2> DEFINE a == [NoArg EXCEPT !.found = (sync # "none")]
    <2>1. ArgOK(a, Len(files), Len(maps)) /\ Begin(r, "sync", a)
      BY <1>0, <1>2, NoArgOK, ArgUpdates DEF SyncRead
    <2> HIDE DEF a
    <2>2. Moved(r, "sync", a)
      BY <1>0, <2>1, BeginMoves
    <2>3. QED BY <1>0, <1>1, <2>1, <2>2, ApartHolds
  <1>3. CASE SyncSave(r) \/ Fault(r)
    <2>1. Moved(r, "idle", NoArg)
      <3>1. CASE SyncSave(r)
        BY <1>0, <3>1, FinishMoves DEF SyncSave
      <3>2. CASE Fault(r)
        BY <1>0, <3>2, WritersAre DEF Fault, Moved, Shape
      <3>3. QED BY <1>3, <3>1, <3>2
    <2>2. QED BY <1>0, <1>1, <2>1, NoArgOK, ApartHolds
  <1>4. QED BY <1>2, <1>3

LEMMA InitIInv == Init => IInv
  <1> SUFFICES ASSUME Init PROVE IInv
    OBVIOUS
  <1>1. files = <<>> /\ files \in Seq(File) /\ Len(files) = 0 /\ Active = {}
    BY DEF Init, Active
  <1>2. maps \in Seq(MapRow) /\ Len(maps) \in Nat /\ \A i, j \in Defaults : i = j
    <2>1. CASE maps = <<>>
      BY <2>1 DEF Defaults
    <2>2. ASSUME NEW s \in Sheets,
                 maps = <<Mapping(TRUE, Rules(s[1], OldRule), DefaultColumnMapping)>>
          PROVE  maps \in Seq(MapRow) /\ Len(maps) \in Nat /\ \A i, j \in Defaults : i = j
      <3> DEFINE m == Mapping(TRUE, Rules(s[1], OldRule), DefaultColumnMapping)
      <3>1. m \in MapRow
        BY DEF Mapping, MapRow, KnownRules
      <3>2. maps = <<m>>
        BY <2>2
      <3> HIDE DEF m
      <3>3. QED BY <3>1, <3>2 DEF Defaults
    <2>3. QED BY <2>1, <2>2 DEF Init
  <1>3. /\ DOMAIN pc = Requests /\ DOMAIN arg = Requests
        /\ \A r \in Requests : pc[r] = "idle" /\ arg[r] = NoArg
    BY DEF Init
  <1>4. Shape
    BY <1>1, <1>2, <1>3, NoArgOK DEF Shape
  <1>5. FilesInv /\ MapsInv
    BY <1>1, <1>2, <1>3, WritersAre DEF FilesInv, MapsInv, Alone
  <1>6. QED BY <1>4, <1>5 DEF IInv

LEMMA StepIInv == IInv /\ [Next]_vars => IInv'
  <1> SUFFICES ASSUME IInv, [Next]_vars PROVE Holds
    BY DEF Holds, IInv
  <1>1. ASSUME NEW r \in Requests, Step(r) PROVE Holds
    BY <1>1, ConfigWritesHold, MappingWritesHold, ImportRemapHolds, ImportHolds, SyncHolds DEF Step
  <1>2. ASSUME UNCHANGED <<files, maps, pc, arg, crossed>> PROVE Holds
    BY <1>2 DEF Holds, IInv, Shape, FilesInv, MapsInv, Alone, Active, Defaults
  <1>3. CASE \E i \in DOMAIN rows, f \in Fields, v \in Edits : Edit(i, f, v)
    BY <1>2, <1>3 DEF Edit
  <1>4. CASE UNCHANGED vars
    BY <1>2, <1>4 DEF vars
  <1>5. QED BY <1>1, <1>3, <1>4, SyncHolds, ConfigReadHolds, ImportReadHolds, MappingCreateHolds,
               MappingReadHolds DEF Next

\* saveConfig, createColumnMapping, updateColumnMapping and importSchedule: a company has
\* at most one active file and one default mapping as long as the requests that write
\* them do not overlap, whatever fails in between.
THEOREM OneCurrentFileAndMapping == Spec => []OneCurrent
  <1>1. IInv => OneCurrent
    BY DEF IInv, FilesInv, MapsInv, OneCurrent, Active
  <1>2. QED BY <1>1, InitIInv, StepIInv, PTL DEF Spec

-------------------------------------------------------------------------------
\* Positions: the first and the last of a set, and what is picked from a sequence.

LEMMA LeastOf ==
    ASSUME NEW T, T \subseteq Nat, T # {}
    PROVE  \E x \in T : \A y \in T : x <= y
  <1>1. \E x \in T : \A y \in T : <<y, x>> \notin OpToRel(<, Nat)
    BY WFMin, NatLessThanWellFounded, Zenon
  <1>2. PICK x \in T : \A y \in T : <<y, x>> \notin OpToRel(<, Nat)
    BY <1>1
  <1>3. \A y \in T : ~(y < x)
    BY <1>2 DEF OpToRel
  <1>4. QED BY <1>3

LEMMA FirstOf ==
    ASSUME NEW T, T \subseteq Nat, T # {}
    PROVE  Min(T) \in T /\ \A x \in T : Min(T) <= x
  BY LeastOf DEF Min

LEMMA LastOf ==
    ASSUME NEW n \in Nat, NEW T \in SUBSET (1..n), T # {}
    PROVE  Max(T) \in T
  <1> DEFINE M == {n - c : c \in T}
  <1>1. M \subseteq Nat /\ M # {}
    <2>1. \A c \in T : n - c \in Nat /\ n - c \in M
      OBVIOUS
    <2>2. QED BY <2>1
  <1>2. PICK m \in M : \A k \in M : m <= k
    BY <1>1, LeastOf
  <1>3. PICK c \in T : m = n - c
    OBVIOUS
  <1>4. ASSUME NEW d \in T PROVE c >= d
    <2>1. n - d \in M
      OBVIOUS
    <2>2. n - c <= n - d
      <3> HIDE DEF M
      <3>1. QED BY <1>2, <1>3, <2>1
    <2>3. c \in Nat /\ d \in Nat
      OBVIOUS
    <2>4. QED BY <2>2, <2>3
  <1>5. QED BY <1>4 DEF Max

\* g lists the elements of I without repetition, and t those that they have in s.
Enumerates(g, s, I, t) ==
    /\ g \in [1..Cardinality(I) -> I]
    /\ t = [k \in 1..Cardinality(I) |-> s[g[k]]]
    /\ \A j, k \in 1..Cardinality(I) : g[j] = g[k] => j = k
    /\ \A i \in I : \E k \in 1..Cardinality(I) : g[k] = i

LEMMA PickedIs ==
    ASSUME NEW s, NEW n \in Nat, NEW I \in SUBSET (1..n)
    PROVE  /\ Cardinality(I) \in Nat /\ IsFiniteSet(I)
           /\ \E g : Enumerates(g, s, I, Picked(s, I))
  <1> DEFINE c == Cardinality(I)
             Upto(i) == {j \in I : j <= i}
             h == [i \in I |-> Cardinality(Upto(i))]
             g == [k \in 1..c |-> CHOOSE i \in I : Cardinality(Upto(i)) = k]
  <1>1. IsFiniteSet(I) /\ c \in Nat
    <2>1. IsFiniteSet(1..n)
      BY FS_Interval
    <2>2. IsFiniteSet(I)
      BY <2>1, FS_Subset
    <2>3. QED BY <2>2, FS_CardinalityType
  <1>2. \A i \in I : h[i] \in 1..c
    <2> SUFFICES ASSUME NEW i \in I PROVE Cardinality(Upto(i)) \in 1..c
      OBVIOUS
    <2>1. IsFiniteSet(Upto(i)) /\ Cardinality(Upto(i)) <= c
      BY <1>1, FS_Subset
    <2>2. Cardinality(Upto(i)) \in Nat /\ Cardinality(Upto(i)) # 0
      BY <2>1, FS_CardinalityType, FS_EmptySet, i \in Upto(i)
    <2> HIDE DEF Upto, c
    <2>3. QED BY <1>1, <2>1, <2>2
  <1>3. \A i, j \in I : h[i] = h[j] => i = j
    <2>1. ASSUME NEW i \in I, NEW j \in I, i < j, h[i] = h[j] PROVE FALSE
      <3>0. i < j /\ \A x \in I : x \in Int
        BY <2>1
      <3>1. Upto(i) \subseteq Upto(j) /\ j \in Upto(j) /\ j \notin Upto(i)
        <4> HIDE DEF h
        <4>1. \A x : x \in Upto(i) <=> x \in I /\ x <= i
          OBVIOUS
        <4>2. \A x : x \in Upto(j) <=> x \in I /\ x <= j
          OBVIOUS
        <4> HIDE DEF Upto
        <4>3. \A x \in I : x <= i => x <= j
          BY <3>0
        <4>4. i <= i /\ j <= j /\ ~(j <= i)
          BY <3>0
        <4>5. QED BY <4>1, <4>2, <4>3, <4>4
      <3>2. IsFiniteSet(Upto(j))
        BY <1>1, FS_Subset
      <3> HIDE DEF Upto
      <3>3. Cardinality(Upto(i)) = Cardinality(Upto(j))
        <4>1. h[i] = Cardinality(Upto(i)) /\ h[j] = Cardinality(Upto(j))
          OBVIOUS
        <4> HIDE DEF h
        <4>2. QED BY <2>1, <4>1
      <3>4. Upto(i) = Upto(j)
        BY <3>1, <3>2, <3>3, FS_Subset
      <3>5. QED BY <3>1, <3>4
    <2>2. \A i, j \in I : i < j \/ j < i \/ i = j
      OBVIOUS
    <2> HIDE DEF h
    <2>3. QED BY <2>1, <2>2
  <1>4. h \in Injection(I, 1..c)
    BY <1>2, <1>3 DEF Injection, IsInjective
  <1>5. h \in Surjection(I, 1..c)
    <2>1. IsFiniteSet(1..c) /\ Cardinality(1..c) = c
      BY <1>1, FS_Interval
    <2> HIDE DEF h
    <2>2. QED BY <1>4, <2>1, FS_Injection
  <1>6. \A k \in 1..c : \E i \in I : Cardinality(Upto(i)) = k
    BY <1>5 DEF Surjection
  <1>7. \A k \in 1..c : g[k] \in I /\ h[g[k]] = k
    <2> HIDE DEF Upto
    <2>1. QED BY <1>6
  <1>8. g \in [1..c -> I]
    BY <1>7
  <1>9. \A i \in I : \E k \in 1..c : g[k] = i
    <2> SUFFICES ASSUME NEW i \in I PROVE g[h[i]] = i
      BY <1>2
    <2> HIDE DEF g, h
    <2>1. QED BY <1>2, <1>3, <1>7
  <1>10. \A j, k \in 1..c : g[j] = g[k] => j = k
    <2> HIDE DEF g, h
    <2>1. QED BY <1>7
  <1>11. Picked(s, I) = [k \in 1..c |-> s[g[k]]]
    BY DEF Picked
  <1> HIDE DEF g, c
  <1>12. QED BY <1>1, <1>8, <1>9, <1>10, <1>11 DEF c, Enumerates

-------------------------------------------------------------------------------
\* From a sheet to its records.

RawRow == Seq([col : Headers, cell : Cells])
Data == [Fields -> Cells \cup {Absent}]

\* A date that the sheet has under its own name is there.
Rescues(rec) ==
    \A f \in Rescued : (\E h \in Columns(rec.raw) : Spells(h, f)) => rec.data[f] # Absent

Record == {rec \in [raw : SheetRows, data : Data] : rec.data.woId # Absent /\ Rescues(rec)}

LEMMA SheetsAre ==
    /\ \A s \in Sheets : s \in Seq(RawRow) /\ Len(s) \in Nat \ {0} /\ DOMAIN s = 1..Len(s)
    /\ \A row \in SheetRows :
          /\ row \in RawRow /\ Len(row) \in Nat /\ DOMAIN row = 1..Len(row)
          /\ \A i \in DOMAIN row : row[i].cell \in Cells
  <1>1. \A s \in Sheets : s \in Seq(RawRow) /\ Len(s) \in Nat \ {0} /\ DOMAIN s = 1..Len(s)
    <2> SUFFICES ASSUME NEW s \in Sheets
                 PROVE  s \in Seq(RawRow) /\ Len(s) \in Nat \ {0} /\ DOMAIN s = 1..Len(s)
      OBVIOUS
    <2>1. s \in Seq(RawRow) /\ s # <<>>
      BY ConstantsAssumption DEF RawRow
    <2>2. QED BY <2>1, EmptySeq, LenProperties
  <1>2. \A row \in SheetRows : row \in RawRow
    BY <1>1 DEF SheetRows
  <1>3. \A row \in RawRow :
          /\ Len(row) \in Nat /\ DOMAIN row = 1..Len(row)
          /\ \A i \in DOMAIN row : row[i].cell \in Cells
    <2> SUFFICES ASSUME NEW row \in RawRow
                 PROVE  /\ Len(row) \in Nat /\ DOMAIN row = 1..Len(row)
                        /\ \A i \in DOMAIN row : row[i].cell \in Cells
      OBVIOUS
    <2> DEFINE Cell == [col : Headers, cell : Cells]
    <2>1. row \in Seq(Cell)
      BY DEF RawRow
    <2>2. \A c \in Cell : c.cell \in Cells
      OBVIOUS
    <2> HIDE DEF Cell
    <2>3. Len(row) \in Nat /\ DOMAIN row = 1..Len(row) /\ row \in [1..Len(row) -> Cell]
      BY <2>1, LenProperties
    <2>4. QED BY <2>2, <2>3
  <1>4. QED BY <1>1, <1>2, <1>3

LEMMA NormalizedCells ==
    ASSUME NEW row \in SheetRows, NEW rules, NEW n \in DOMAIN ApplyNormalization(row, rules)
    PROVE  ApplyNormalization(row, rules)[n] \in Cells
  <1> DEFINE Name(h) == IF h \in DOMAIN rules THEN rules[h] ELSE NormalizeColumnName(h)
             Named == {i \in DOMAIN row : Name(row[i].col) = n}
  <1>1. /\ n \in {Name(h) : h \in Columns(row)}
        /\ ApplyNormalization(row, rules)[n] = row[Max(Named)].cell
    BY DEF ApplyNormalization
  <1> HIDE DEF Name
  <1>2. Named \in SUBSET (1..Len(row)) /\ Named # {} /\ Len(row) \in Nat
    BY <1>1, SheetsAre DEF Columns
  <1>3. Max(Named) \in DOMAIN row
    BY <1>2, LastOf
  <1>4. QED BY <1>1, <1>3, SheetsAre

LEMMA MappedCells ==
    ASSUME NEW row \in SheetRows, NEW rules, NEW config \in Configs \cup {DefaultColumnMapping}
    PROVE  ApplyColumnMapping(ApplyNormalization(row, rules), config) \in Data
  <1> DEFINE N == ApplyNormalization(row, rules)
             I(f) == {i \in 1..Len(config[f]) : config[f][i] \in DOMAIN N}
             first(f) == IF f \in DOMAIN config
                           THEN SelectInSeq(config[f], LAMBDA n : n \in DOMAIN N) ELSE 0
  <1>1. ApplyColumnMapping(N, config) =
            [f \in Fields |-> IF first(f) = 0 THEN Absent ELSE N[config[f][first(f)]]]
    BY DEF ApplyColumnMapping
  <1>2. ASSUME NEW f \in Fields, first(f) # 0
        PROVE  N[config[f][first(f)]] \in Cells
    <2>1. f \in DOMAIN config /\ first(f) = Min(I(f)) /\ I(f) # {}
      BY <1>2 DEF SelectInSeq
    <2>2. Len(config[f]) \in Nat
      <3>1. CASE config \in Configs
        BY <2>1, <3>1, ConstantsAssumption
      <3>2. CASE config = DefaultColumnMapping
        BY <2>1, <3>2 DEF DefaultColumnMapping
      <3>3. QED BY <3>1, <3>2
    <2>3. first(f) \in I(f)
      BY <2>1, <2>2, FirstOf
    <2> HIDE DEF N, first
    <2>4. config[f][first(f)] \in DOMAIN N
      BY <2>3
    <2>5. QED BY <2>4, NormalizedCells DEF N
  <1> HIDE DEF N, first
  <1>3. QED BY <1>1, <1>2 DEF Data, N

LEMMA AliasesAre ==
    /\ \A f \in Rescued \cup {"woId"} :
          Len(ColumnAliases[f]) \in Nat /\ DOMAIN ColumnAliases[f] = 1..Len(ColumnAliases[f])
    /\ ColumnAliases["dueDate"][1] = Camel(<<"due", "date">>)
    /\ ColumnAliases["dueDate"][3] = Camel(<<"duedate">>)
    /\ ColumnAliases["dueDate"][4] = Camel(<<"due">>)
    /\ ColumnAliases["releaseDate"][1] = Camel(<<"release", "date">>)
    /\ ColumnAliases["releaseDate"][3] = Camel(<<"releasedate">>)
    /\ ColumnAliases["releaseDate"][4] = Camel(<<"release">>)
    /\ {1, 3, 4} \subseteq DOMAIN ColumnAliases["dueDate"]
    /\ {1, 3, 4} \subseteq DOMAIN ColumnAliases["releaseDate"]
  BY DEF ColumnAliases, Rescued

\* A header that spells a date is normalised to one of the date's aliases.
LEMMA SpellingIsAlias ==
    ASSUME NEW f \in Rescued, NEW h, Spells(h, f)
    PROVE  \E i \in DOMAIN ColumnAliases[f] : ColumnAliases[f][i] = NormalizeColumnName(h)
  <1>1. NormalizeColumnName(h) = Camel(h.words)
    BY DEF Spells, IsWoId, Rescued, NormalizeColumnName
  <1>2. CASE f = "dueDate"
    <2>1. h.words \in {<<"due", "date">>, <<"due">>, <<"duedate">>}
      BY <1>2 DEF Spells
    <2>2. QED BY <1>1, <1>2, <2>1, AliasesAre
  <1>3. CASE f = "releaseDate"
    <2>1. h.words \in {<<"release", "date">>, <<"release">>, <<"releasedate">>}
      BY <1>3 DEF Spells
    <2>2. QED BY <1>1, <1>3, <2>1, AliasesAre
  <1>4. QED BY <1>2, <1>3 DEF Rescued

LEMMA FoundCells ==
    ASSUME NEW row \in SheetRows, NEW f \in Rescued \cup {"woId"}
    PROVE  /\ FindColumnValue(row, f) \in Cells \cup {Absent}
           /\ f \in Rescued /\ (\E h \in Columns(row) : Spells(h, f)) => FindColumnValue(row, f) \in Cells
  <1> DEFINE aliases == ColumnAliases[f]
             IsAlias(name) == \E i \in DOMAIN aliases : aliases[i] = name
             E == {i \in 1..Len(aliases) : aliases[i] \in Columns(row)}
             exact == SelectInSeq(aliases, LAMBDA a : a \in Columns(row))
             ByName == {i \in 1..Len(row) : row[i].col = aliases[exact]}
             BySpelling == {i \in 1..Len(row) : IsAlias(NormalizeColumnName(row[i].col))}
             found == IF exact # 0
                        THEN SelectInSeq(row, LAMBDA c : c.col = aliases[exact])
                        ELSE SelectInSeq(row, LAMBDA c : IsAlias(NormalizeColumnName(c.col)))
  <1>0. /\ Len(row) \in Nat /\ DOMAIN row = 1..Len(row) /\ \A i \in DOMAIN row : row[i].cell \in Cells
        /\ Len(aliases) \in Nat /\ DOMAIN aliases = 1..Len(aliases)
    BY SheetsAre, AliasesAre
  <1>1. FindColumnValue(row, f) = IF found = 0 THEN Absent ELSE row[found].cell
    BY DEF FindColumnValue
  <1>2. exact = IF E # {} THEN Min(E) ELSE 0
    BY DEF SelectInSeq
  <1>3. exact # 0 => found = IF ByName # {} THEN Min(ByName) ELSE 0
    BY DEF SelectInSeq
  <1>4. exact = 0 => found = IF BySpelling # {} THEN Min(BySpelling) ELSE 0
    BY DEF SelectInSeq
  <1> HIDE DEF aliases, exact, found
  <1>a. ASSUME NEW n \in Nat, NEW T \in SUBSET (1..n), T # {} PROVE Min(T) \in T
    <2>1. T \subseteq Nat
      OBVIOUS
    <2>2. QED BY <1>a, <2>1, FirstOf
  <1>b. E \in SUBSET (1..Len(aliases)) /\ ByName \in SUBSET (1..Len(row))
        /\ BySpelling \in SUBSET (1..Len(row))
    OBVIOUS
  <1>c. /\ E # {} => Min(E) \in E
        /\ ByName # {} => Min(ByName) \in ByName
        /\ BySpelling # {} => Min(BySpelling) \in BySpelling
    <2> HIDE DEF E, ByName, BySpelling
    <2>1. QED BY <1>0, <1>a, <1>b
  <1>5. found # 0 => found \in DOMAIN row
    <2> HIDE DEF ByName, BySpelling
    <2>1. QED BY <1>0, <1>3, <1>4, <1>b, <1>c
  <1>6. FindColumnValue(row, f) \in Cells \cup {Absent}
    BY <1>0, <1>1, <1>5
  <1>7. ASSUME f \in Rescued, NEW h \in Columns(row), Spells(h, f)
        PROVE  FindColumnValue(row, f) \in Cells
    <2>1. CASE exact # 0
      <3>1. E # {} /\ exact \in E
        BY <1>2, <1>c, <2>1
      <3>2. ByName # {}
        BY <1>0, <3>1 DEF Columns
      <3>3. Min(ByName) \in ByName /\ found = Min(ByName)
        BY <1>3, <1>c, <2>1, <3>2
      <3>4. found \in DOMAIN row /\ found # 0
        BY <1>0, <3>3
      <3>5. QED BY <1>0, <1>1, <3>4
    <2>2. CASE exact = 0
      <3>1. IsAlias(NormalizeColumnName(h))
        BY <1>7, SpellingIsAlias DEF aliases
      <3>2. BySpelling # {}
        BY <1>0, <3>1 DEF Columns
      <3>3. Min(BySpelling) \in BySpelling /\ found = Min(BySpelling)
        BY <1>4, <1>c, <2>2, <3>2
      <3>4. found \in DOMAIN row /\ found # 0
        BY <1>0, <3>3
      <3>5. QED BY <1>0, <1>1, <3>4
    <2>3. QED BY <2>1, <2>2
  <1>8. QED BY <1>6, <1>7

LEMMA TransformedData ==
    ASSUME NEW row \in SheetRows, NEW mapped \in Data
    PROVE  LET data == TransformToScheduleData(row, mapped)
           IN  data \in Data /\ Rescues([raw |-> row, data |-> data])
  <1> DEFINE data == TransformToScheduleData(row, mapped)
             rec == [raw |-> row, data |-> data]
  <1>1. data = [f \in Fields |-> IF mapped[f] = Absent /\ f \in Rescued \cup {"woId"}
                                   THEN FindColumnValue(row, f) ELSE mapped[f]]
    BY DEF TransformToScheduleData
  <1>2. rec.raw = row /\ rec.data = data
    OBVIOUS
  <1> HIDE DEF data, rec
  <1>3. data \in Data
    BY <1>1, FoundCells DEF Data
  <1>4. ASSUME NEW f \in Rescued, NEW h \in Columns(row), Spells(h, f)
        PROVE  data[f] # Absent
    <2>1. FindColumnValue(row, f) # Absent
      BY <1>4, FoundCells, ConstantsAssumption
    <2>2. f \in Fields
      BY DEF Rescued, Fields
    <2>3. QED BY <1>1, <2>1, <2>2
  <1>5. Rescues(rec)
    BY <1>2, <1>4 DEF Rescues
  <1>6. QED BY <1>3, <1>5 DEF data, rec

LEMMA RecordsAre ==
    ASSUME NEW sheet \in Sheets, NEW rules, NEW config \in Configs \cup {DefaultColumnMapping}
    PROVE  Records(sheet, rules, config) \in Seq(Record)
  <1> DEFINE rec(i) == [raw |-> sheet[i],
                        data |-> TransformToScheduleData(sheet[i],
                                   ApplyColumnMapping(ApplyNormalization(sheet[i], rules), config))]
             recs == [i \in DOMAIN sheet |-> rec(i)]
             I == {i \in DOMAIN sheet : recs[i].data.woId # Absent}
  <1>0. Len(sheet) \in Nat /\ DOMAIN sheet = 1..Len(sheet)
    BY SheetsAre
  <1>1. ASSUME NEW i \in DOMAIN sheet
        PROVE  rec(i) \in [raw : SheetRows, data : Data] /\ Rescues(rec(i))
    <2>1. sheet[i] \in SheetRows
      BY <1>1 DEF SheetRows
    <2>2. ApplyColumnMapping(ApplyNormalization(sheet[i], rules), config) \in Data
      BY <2>1, MappedCells
    <2>3. QED BY <2>1, <2>2, TransformedData
  <1>2. Records(sheet, rules, config) = Picked(recs, I)
    BY DEF Records
  <1>3. \A i \in DOMAIN sheet : recs[i] = rec(i)
    OBVIOUS
  <1> HIDE DEF rec, recs
  <1>4. \A i \in I : recs[i] \in Record
    BY <1>1, <1>3 DEF Record
  <1>a. I \in SUBSET (1..Len(sheet))
    BY <1>0
  <1> HIDE DEF I
  <1>5. PICK g : Enumerates(g, recs, I, Picked(recs, I))
    BY <1>0, <1>a, PickedIs
  <1>6. Cardinality(I) \in Nat
    BY <1>0, <1>a, PickedIs
  <1>7. \A k \in 1..Cardinality(I) : recs[g[k]] \in Record
    BY <1>4, <1>5 DEF Enumerates
  <1>8. [k \in 1..Cardinality(I) |-> recs[g[k]]] \in Seq(Record)
    BY <1>6, <1>7, IsASeq
  <1>9. QED BY <1>2, <1>5, <1>8 DEF Enumerates

-------------------------------------------------------------------------------
\* What a statement of the import makes of the rows.

StoredRow ==
    {x \in [raw : SheetRows, data : Data, batch : 1..MaxOps, edited : BOOLEAN] :
        x.data.woId # Absent /\ (~x.edited => Rescues(x))}

Ids == {rows[i].data.woId : i \in DOMAIN rows}
Unique(t) == \A i, j \in DOMAIN t : t[i].data.woId = t[j].data.woId => i = j

\* The row holds what a record of the chunk says.
FromChunk(row, chunk, batch) ==
    /\ row.batch = batch /\ ~row.edited
    /\ \E k \in DOMAIN chunk :
          /\ chunk[k].data.woId = row.data.woId
          /\ \A f \in Fields : chunk[k].data[f] \in {row.data[f], Absent}

NewOnes(chunk) == {i \in DOMAIN chunk : chunk[i].data.woId \notin Ids}

LEMMA RecordFields ==
    ASSUME NEW rec \in Record
    PROVE  /\ rec.raw \in SheetRows /\ rec.data \in Data /\ rec.data.woId # Absent
           /\ rec.data.woId \in Cells /\ Rescues(rec)
  <1>1. rec.raw \in SheetRows /\ rec.data \in Data /\ rec.data.woId # Absent /\ Rescues(rec)
    BY DEF Record
  <1>2. rec.data["woId"] \in Cells \cup {Absent}
    BY <1>1 DEF Data, Fields
  <1>3. QED BY <1>1, <1>2

LEMMA StoredFields ==
    ASSUME NEW x \in StoredRow
    PROVE  /\ x.raw \in SheetRows /\ x.data \in Data /\ x.data.woId # Absent
           /\ x.data.woId \in Cells /\ (~x.edited => Rescues(x))
           /\ x.batch \in 1..MaxOps /\ x.edited \in BOOLEAN
  <1>1. /\ x.raw \in SheetRows /\ x.data \in Data /\ x.data.woId # Absent
        /\ (~x.edited => Rescues(x)) /\ x.batch \in 1..MaxOps /\ x.edited \in BOOLEAN
    BY DEF StoredRow
  <1>2. x.data["woId"] \in Cells \cup {Absent}
    BY <1>1 DEF Data, Fields
  <1>3. QED BY <1>1, <1>2

LEMMA MergedIs ==
    ASSUME NEW old \in StoredRow, NEW chunk, NEW k \in DOMAIN chunk, chunk[k] \in Record,
           NEW batch \in 1..MaxOps, chunk[k].data.woId = old.data.woId
    PROVE  LET m == Merged(old, chunk[k], chunk, batch)
           IN  m \in StoredRow /\ m.data.woId = old.data.woId /\ FromChunk(m, chunk, batch)
  <1> DEFINE rec == chunk[k]
             Unset(f) == f \in Rescued /\ \A i \in DOMAIN chunk : chunk[i].data[f] = Absent
             data == [f \in Fields |-> IF Unset(f) THEN old.data[f] ELSE rec.data[f]]
             m == Merged(old, rec, chunk, batch)
  <1>1. m = [raw |-> rec.raw, data |-> data, batch |-> batch, edited |-> FALSE]
    <2> DEFINE plain == [raw |-> rec.raw, data |-> rec.data, batch |-> batch, edited |-> FALSE]
    <2>1. m = [plain EXCEPT !.data = data]
      BY DEF Merged, AsRow
    <2> HIDE DEF m, data
    <2>2. QED BY <2>1
  <1>2. m.raw = rec.raw /\ m.data = data /\ m.batch = batch /\ m.edited = FALSE
    BY <1>1
  <1>3. rec.raw \in SheetRows /\ rec.data \in Data /\ rec.data.woId # Absent /\ Rescues(rec)
        /\ old.data \in Data
    BY RecordFields, StoredFields
  <1>4. \A f \in Fields : Unset(f) => rec.data[f] = Absent
    OBVIOUS
  <1>5. \A f \in Fields : data[f] = IF Unset(f) THEN old.data[f] ELSE rec.data[f]
    OBVIOUS
  <1>6. "woId" \in Fields /\ ~Unset("woId") /\ Rescued \subseteq Fields
    BY DEF Fields, Rescued
  <1>7. data \in Data
    BY <1>3, <1>5 DEF Data
  <1>8. data["woId"] = rec.data["woId"]
    BY <1>5, <1>6
  <1>9. \A f \in Fields : rec.data[f] \in {data[f], Absent}
    BY <1>4, <1>5
  <1> HIDE DEF data, Unset, m
  <1>10. Rescues(m)
    BY <1>2, <1>3, <1>6, <1>9 DEF Rescues
  <1>11. m \in StoredRow
    BY <1>1, <1>2, <1>3, <1>7, <1>8, <1>10 DEF StoredRow
  <1>12. FromChunk(m, chunk, batch)
    BY <1>2, <1>8, <1>9 DEF FromChunk
  <1>13. QED BY <1>2, <1>8, <1>11, <1>12 DEF m

LEMMA AsRowIs ==
    ASSUME NEW chunk, NEW k \in DOMAIN chunk, chunk[k] \in Record, NEW batch \in 1..MaxOps
    PROVE  LET m == AsRow(chunk[k], batch)
           IN  m \in StoredRow /\ m.data.woId = chunk[k].data.woId /\ FromChunk(m, chunk, batch)
  <1> DEFINE rec == chunk[k]
             m == AsRow(rec, batch)
  <1>1. m = [raw |-> rec.raw, data |-> rec.data, batch |-> batch, edited |-> FALSE]
    BY DEF AsRow
  <1>2. m.raw = rec.raw /\ m.data = rec.data /\ m.batch = batch /\ m.edited = FALSE
    BY <1>1
  <1>3. rec.raw \in SheetRows /\ rec.data \in Data /\ rec.data.woId # Absent /\ Rescues(rec)
    BY RecordFields
  <1> HIDE DEF m, rec
  <1>4. Rescues(m)
    BY <1>2, <1>3 DEF Rescues
  <1>5. m \in StoredRow
    BY <1>1, <1>2, <1>3, <1>4 DEF StoredRow
  <1>6. FromChunk(m, chunk, batch)
    BY <1>2 DEF FromChunk, rec
  <1>7. QED BY <1>2, <1>5, <1>6 DEF m, rec

\* The first position at which a sequence has a work order, if it has any.
LEMMA SelectedIs ==
    ASSUME NEW t, Len(t) \in Nat, DOMAIN t = 1..Len(t), NEW w
    PROVE  LET k == SelectInSeq(t, LAMBDA x : x.data.woId = w)
           IN  \/ k \in DOMAIN t /\ t[k].data.woId = w
               \/ k = 0 /\ \A i \in DOMAIN t : t[i].data.woId # w
  <1> DEFINE I == {i \in 1..Len(t) : t[i].data.woId = w}
             k == SelectInSeq(t, LAMBDA x : x.data.woId = w)
  <1>1. k = IF I # {} THEN Min(I) ELSE 0
    BY DEF SelectInSeq
  <1>2. I \subseteq Nat
    OBVIOUS
  <1>3. \A i : i \in I <=> i \in DOMAIN t /\ t[i].data.woId = w
    OBVIOUS
  <1> HIDE DEF I, k
  <1>4. I # {} => Min(I) \in I
    BY <1>2, FirstOf
  <1>5. QED BY <1>1, <1>3, <1>4 DEF k

\* As many work orders as records: no two records are about the same.
LEMMA DistinctIds ==
    ASSUME NEW t, Len(t) \in Nat, DOMAIN t = 1..Len(t)
    PROVE  /\ IsFiniteSet(WoIds(t)) /\ Cardinality(WoIds(t)) \in Nat
           /\ Cardinality(WoIds(t)) = Len(t) <=> Unique(t)
  <1> DEFINE D == 1..Len(t)
             W == WoIds(t)
             h == [i \in D |-> t[i].data.woId]
  <1>1. IsFiniteSet(D) /\ Cardinality(D) = Len(t)
    <2>1. IsFiniteSet(D)
      BY FS_Interval
    <2>2. Cardinality(D) = IF 1 > Len(t) THEN 0 ELSE Len(t) - 1 + 1
      BY FS_Interval
    <2> HIDE DEF D
    <2>3. QED BY <2>1, <2>2
  <1>2. \A i \in D : h[i] = t[i].data.woId
    OBVIOUS
  <1>3. h \in Surjection(D, W)
    BY DEF Surjection, WoIds
  <1> HIDE DEF D, W, h
  <1>4. IsFiniteSet(W) /\ (Cardinality(W) = Cardinality(D) <=> h \in Injection(D, W))
    BY <1>1, <1>3, FS_Surjection
  <1>5. h \in Injection(D, W) <=> \A i, j \in D : h[i] = h[j] => i = j
    BY <1>3 DEF Injection, IsInjective, Surjection
  <1>6. D = DOMAIN t
    BY DEF D
  <1>7. (\A i, j \in D : h[i] = h[j] => i = j) <=> Unique(t)
    BY <1>2, <1>6 DEF Unique
  <1>8. Cardinality(W) \in Nat
    BY <1>4, FS_CardinalityType
  <1>9. QED BY <1>1, <1>4, <1>5, <1>7, <1>8 DEF W

LEMMA UpsertedIs ==
    ASSUME rows \in Seq(StoredRow), Unique(rows), NEW chunk \in Seq(Record), Unique(chunk),
           NEW batch \in 1..MaxOps
    PROVE  LET R == Upserted(chunk, batch) IN
           /\ R \in Seq(StoredRow) /\ Unique(R)
           /\ Len(R) = Len(rows) + Cardinality(NewOnes(chunk)) /\ DOMAIN rows \subseteq DOMAIN R
           /\ \A j \in DOMAIN rows :
                 /\ R[j].data.woId = rows[j].data.woId
                 /\ IF rows[j].data.woId \in WoIds(chunk) THEN FromChunk(R[j], chunk, batch)
                                                         ELSE R[j] = rows[j]
           /\ \A j \in DOMAIN R \ DOMAIN rows :
                 R[j].data.woId \in WoIds(chunk) /\ FromChunk(R[j], chunk, batch)
           /\ \A k \in DOMAIN chunk : \E j \in DOMAIN R : R[j].data.woId = chunk[k].data.woId
  <1> DEFINE old(w) == SelectInSeq(rows, LAMBDA row : row.data.woId = w)
             pos(w) == SelectInSeq(chunk, LAMBDA c : c.data.woId = w)
             rec(w) == chunk[pos(w)]
             updated == [i \in DOMAIN rows |->
                           IF i \in Known(chunk)
                             THEN Merged(rows[i], rec(rows[i].data.woId), chunk, batch)
                             ELSE rows[i]]
             I == {i \in DOMAIN chunk : old(chunk[i].data.woId) = 0}
             new == Picked(chunk, I)
             added == [i \in DOMAIN new |-> AsRow(new[i], batch)]
             R == Upserted(chunk, batch)
             n == Len(rows)
             c == Cardinality(I)
  <1>0. /\ n \in Nat /\ DOMAIN rows = 1..n /\ \A i \in DOMAIN rows : rows[i] \in StoredRow
        /\ Len(chunk) \in Nat /\ DOMAIN chunk = 1..Len(chunk)
        /\ \A k \in DOMAIN chunk : chunk[k] \in Record
    <2>1. /\ n \in Nat /\ DOMAIN rows = 1..n /\ rows \in [1..n -> StoredRow]
      BY LenProperties
    <2>2. /\ Len(chunk) \in Nat /\ DOMAIN chunk = 1..Len(chunk) /\ chunk \in [1..Len(chunk) -> Record]
      BY LenProperties
    <2>3. QED BY <2>1, <2>2
  <1>1. R = updated \o added
    BY DEF Upserted
  <1>2. \A w : IF w \in Ids THEN old(w) # 0 ELSE old(w) = 0
    <2> SUFFICES ASSUME NEW w PROVE IF w \in Ids THEN old(w) # 0 ELSE old(w) = 0
      OBVIOUS
    <2>1. \/ old(w) \in DOMAIN rows /\ rows[old(w)].data.woId = w
          \/ old(w) = 0 /\ \A i \in DOMAIN rows : rows[i].data.woId # w
      BY <1>0, SelectedIs
    <2> HIDE DEF old
    <2>2. QED BY <1>0, <2>1 DEF Ids
  <1>3. \A w \in WoIds(chunk) : pos(w) \in DOMAIN chunk /\ chunk[pos(w)].data.woId = w
    <2> SUFFICES ASSUME NEW w \in WoIds(chunk)
                 PROVE  pos(w) \in DOMAIN chunk /\ chunk[pos(w)].data.woId = w
      OBVIOUS
    <2>1. \E k \in DOMAIN chunk : chunk[k].data.woId = w
      BY DEF WoIds
    <2>2. QED BY <1>0, <2>1, SelectedIs
  <1>4. \A i \in DOMAIN rows : i \in Known(chunk) <=> rows[i].data.woId \in WoIds(chunk)
    BY DEF Known
  <1>5. I = NewOnes(chunk)
    <2> HIDE DEF old
    <2>1. QED BY <1>2 DEF NewOnes
  <1> HIDE DEF old
  <1>6. I \in SUBSET (1..Len(chunk))
    BY <1>0
  <1> HIDE DEF I
  <1>7. c \in Nat /\ \E g : Enumerates(g, chunk, I, new)
    BY <1>0, <1>6, PickedIs
  <1>8. PICK g : Enumerates(g, chunk, I, new)
    BY <1>7
  <1> HIDE DEF new
  <1>9. DOMAIN new = 1..c /\ \A k \in 1..c : new[k] = chunk[g[k]] /\ g[k] \in I /\ g[k] \in DOMAIN chunk
    BY <1>0, <1>6, <1>8 DEF Enumerates
  <1>10. ASSUME NEW j \in DOMAIN rows
         PROVE  /\ updated[j] \in StoredRow /\ updated[j].data.woId = rows[j].data.woId
                /\ IF rows[j].data.woId \in WoIds(chunk)
                     THEN FromChunk(updated[j], chunk, batch) ELSE updated[j] = rows[j]
    <2> HIDE DEF pos
    <2>1. CASE j \in Known(chunk)
      <3>1. rows[j].data.woId \in WoIds(chunk)
        BY <1>4, <2>1
      <3> DEFINE k == pos(rows[j].data.woId)
      <3>2. k \in DOMAIN chunk /\ chunk[k].data.woId = rows[j].data.woId
        BY <1>3, <3>1
      <3>3. updated[j] = Merged(rows[j], chunk[k], chunk, batch)
        BY <2>1
      <3> HIDE DEF updated, k
      <3>4. QED BY <1>0, <3>1, <3>2, <3>3, MergedIs
    <2>2. CASE j \notin Known(chunk)
      <3>1. updated[j] = rows[j] /\ rows[j].data.woId \notin WoIds(chunk)
        BY <1>4, <2>2
      <3> HIDE DEF updated
      <3>2. QED BY <1>0, <3>1
    <2>3. QED BY <2>1, <2>2
  <1>11. ASSUME NEW k \in 1..c
         PROVE  /\ added[k] \in StoredRow /\ added[k].data.woId = chunk[g[k]].data.woId
                /\ FromChunk(added[k], chunk, batch)
    <2>1. added[k] = AsRow(chunk[g[k]], batch) /\ g[k] \in DOMAIN chunk
      BY <1>9
    <2> HIDE DEF added
    <2>2. QED BY <1>0, <2>1, AsRowIs
  <1>12. DOMAIN updated = 1..n /\ DOMAIN added = 1..c
    BY <1>0, <1>9
  <1>a. updated = [j \in 1..n |-> updated[j]] /\ added = [k \in 1..c |-> added[k]]
    BY <1>12
  <1> HIDE DEF updated, added
  <1>13. updated \in Seq(StoredRow) /\ Len(updated) = n
    <2>1. updated \in [1..n -> StoredRow]
      BY <1>0, <1>10, <1>a
    <2>2. QED BY <1>0, <2>1
  <1>14. added \in Seq(StoredRow) /\ Len(added) = c
    <2>1. added \in [1..c -> StoredRow]
      BY <1>11, <1>a
    <2>2. QED BY <1>7, <2>1
  <1> HIDE DEF R, c
  <1>15. /\ R \in Seq(StoredRow) /\ Len(R) = n + c /\ DOMAIN R = 1..(n + c)
         /\ \A j \in 1..(n + c) : R[j] = IF j <= n THEN updated[j] ELSE added[j - n]
    <2>1. /\ R \in Seq(StoredRow) /\ Len(R) = n + c
          /\ \A j \in 1..(n + c) : R[j] = IF j <= n THEN updated[j] ELSE added[j - n]
      BY <1>0, <1>1, <1>7, <1>13, <1>14, ConcatProperties DEF c
    <2>2. QED BY <2>1, LenProperties
  <1>16. \A j \in DOMAIN rows : j \in DOMAIN R /\ R[j] = updated[j]
    BY <1>0, <1>7, <1>15
  <1>17. ASSUME NEW j \in DOMAIN R \ DOMAIN rows
         PROVE  j - n \in 1..c /\ R[j] = added[j - n]
    BY <1>0, <1>7, <1>15
  <1>18. \A j \in DOMAIN R \ DOMAIN rows :
            /\ R[j].data.woId \in WoIds(chunk) /\ FromChunk(R[j], chunk, batch)
            /\ R[j].data.woId \notin Ids
    <2> SUFFICES ASSUME NEW j \in DOMAIN R \ DOMAIN rows
                 PROVE  /\ R[j].data.woId \in WoIds(chunk) /\ FromChunk(R[j], chunk, batch)
                        /\ R[j].data.woId \notin Ids
      OBVIOUS
    <2>1. PICK k \in 1..c : R[j] = added[k]
      BY <1>17
    <2>2. QED BY <1>5, <1>9, <1>11, <2>1 DEF WoIds, NewOnes
  <1>19. \A k \in DOMAIN chunk : \E j \in DOMAIN R : R[j].data.woId = chunk[k].data.woId
    <2> SUFFICES ASSUME NEW k \in DOMAIN chunk
                 PROVE  \E j \in DOMAIN R : R[j].data.woId = chunk[k].data.woId
      OBVIOUS
    <2>1. CASE chunk[k].data.woId \in Ids
      BY <1>10, <1>16, <2>1 DEF Ids
    <2>2. CASE chunk[k].data.woId \notin Ids
      <3>1. k \in I
        BY <1>5, <2>2 DEF NewOnes
      <3>2. PICK m \in 1..c : g[m] = k
        BY <1>8, <3>1 DEF Enumerates, c
      <3>3. n + m \in 1..(n + c) /\ ~(n + m <= n) /\ (n + m) - n = m
        BY <1>0, <1>7
      <3>4. R[n + m] = added[m] /\ n + m \in DOMAIN R
        BY <1>15, <3>3
      <3>5. QED BY <1>11, <3>2, <3>4
    <2>3. QED BY <2>1, <2>2
  <1>20. Unique(R)
    <2> SUFFICES ASSUME NEW i \in DOMAIN R, NEW j \in DOMAIN R, R[i].data.woId = R[j].data.woId
                 PROVE  i = j
      BY DEF Unique
    <2>1. CASE i \in DOMAIN rows /\ j \in DOMAIN rows
      BY <1>10, <1>16, <2>1 DEF Unique
    <2>2. CASE i \in DOMAIN rows /\ j \notin DOMAIN rows
      BY <1>10, <1>16, <1>18, <2>2 DEF Ids
    <2>3. CASE i \notin DOMAIN rows /\ j \in DOMAIN rows
      BY <1>10, <1>16, <1>18, <2>3 DEF Ids
    <2>4. CASE i \notin DOMAIN rows /\ j \notin DOMAIN rows
      <3>1. i - n \in 1..c /\ R[i] = added[i - n] /\ j - n \in 1..c /\ R[j] = added[j - n]
        BY <1>17, <2>4
      <3>2. chunk[g[i - n]].data.woId = chunk[g[j - n]].data.woId
        BY <1>11, <3>1
      <3>3. g[i - n] = g[j - n]
        BY <1>9, <3>1, <3>2 DEF Unique
      <3>4. i - n = j - n
        BY <1>8, <3>1, <3>3 DEF Enumerates, c
      <3>5. i \in Int /\ j \in Int
        BY <1>15, <1>0, <1>7
      <3>6. QED BY <1>0, <3>4, <3>5
    <2>5. QED BY <2>1, <2>2, <2>3, <2>4
  <1>21. /\ \A j \in DOMAIN rows :
                 /\ R[j].data.woId = rows[j].data.woId
                 /\ IF rows[j].data.woId \in WoIds(chunk) THEN FromChunk(R[j], chunk, batch)
                                                         ELSE R[j] = rows[j]
    BY <1>10, <1>16
  <1>22. QED BY <1>5, <1>15, <1>16, <1>18, <1>19, <1>20, <1>21 DEF R, c

-------------------------------------------------------------------------------
\* Chunks, and how many of their records have a row.

\* t is the part of recs after lo, up to hi.
PartOf(t, recs, lo, hi) ==
    /\ t \in Seq(Record) /\ Len(t) = hi - lo /\ DOMAIN t = 1..(hi - lo)
    /\ \A i \in 1..(hi - lo) : t[i] = recs[lo + i]

LEMMA RecsAre ==
    ASSUME NEW recs \in Seq(Record)
    PROVE  /\ Len(recs) \in Nat /\ DOMAIN recs = 1..Len(recs)
           /\ \A i \in 1..Len(recs) : recs[i] \in Record
  BY LenProperties

LEMMA ChunkIs ==
    ASSUME NEW a, a.recs \in Seq(Record), a.done \in 0..Len(a.recs)
    PROVE  /\ ChunkEnd(a) \in a.done..Len(a.recs)
           /\ PartOf(Chunk(a), a.recs, a.done, ChunkEnd(a))
  <1> DEFINE n == Len(a.recs)
             T == {a.done + ChunkSize, n}
             hi == ChunkEnd(a)
  <1>0. n \in Nat /\ a.done \in Nat /\ ChunkSize \in Nat /\ \A i \in 1..n : a.recs[i] \in Record
    BY RecsAre, ConstantsAssumption
  <1>1. T \subseteq Nat /\ T # {}
    BY <1>0
  <1>2. hi = Min(T)
    BY DEF ChunkEnd
  <1>3. hi \in T /\ hi <= n
    <2> HIDE DEF T, hi
    <2>1. hi \in T /\ \A x \in T : hi <= x
      BY <1>1, <1>2, FirstOf
    <2>2. n \in T
      BY DEF T
    <2>3. QED BY <2>1, <2>2
  <1>4. hi \in a.done..n
    <2> HIDE DEF hi
    <2>1. QED BY <1>0, <1>3
  <1>5. PartOf(Chunk(a), a.recs, a.done, hi)
    <2> HIDE DEF hi
    <2>1. Chunk(a) = SubSeq(a.recs, a.done + 1, hi)
      BY DEF Chunk, hi
    <2>2. a.done + 1 \in Int /\ hi \in Int /\ \A i \in (a.done + 1)..hi : a.recs[i] \in Record
      BY <1>0, <1>4
    <2>3. /\ Chunk(a) \in Seq(Record)
          /\ Len(Chunk(a)) = IF a.done + 1 <= hi THEN hi - (a.done + 1) + 1 ELSE 0
          /\ \A i \in 1..(hi - (a.done + 1) + 1) : Chunk(a)[i] = a.recs[a.done + 1 + i - 1]
      BY <2>1, <2>2, SubSeqProperties
    <2>4. Len(Chunk(a)) = hi - a.done /\ hi - (a.done + 1) + 1 = hi - a.done
      BY <1>0, <1>4, <2>3
    <2>5. \A i \in 1..(hi - a.done) : Chunk(a)[i] = a.recs[a.done + i]
      <3>1. \A i \in 1..(hi - a.done) : a.done + 1 + i - 1 = a.done + i
        BY <1>0, <1>4
      <3>2. QED BY <2>3, <2>4, <3>1
    <2>6. DOMAIN Chunk(a) = 1..(hi - a.done)
      BY <2>3, <2>4, LenProperties
    <2>7. QED BY <2>3, <2>4, <2>5, <2>6 DEF PartOf
  <1>6. QED BY <1>4, <1>5

\* The records of recs from m to n whose work order has a row.
Present(recs, m, n) == {i \in m..n : recs[i].data.woId \in Ids}

LEMMA PresentIs ==
    ASSUME NEW recs, NEW lo \in Nat, NEW hi \in Nat, NEW n \in Nat, lo <= hi, hi <= n
    PROVE  /\ IsFiniteSet(Present(recs, lo + 1, hi))
           /\ Cardinality(Present(recs, lo + 1, hi)) \in 0..(hi - lo)
           /\ Cardinality(Present(recs, lo + 1, n)) =
                 Cardinality(Present(recs, lo + 1, hi)) + Cardinality(Present(recs, hi + 1, n))
  <1>1. ASSUME NEW x \in Nat, NEW y \in Nat, x <= y
        PROVE  /\ IsFiniteSet(Present(recs, x + 1, y))
               /\ Cardinality(Present(recs, x + 1, y)) \in 0..(y - x)
    <2> DEFINE P == Present(recs, x + 1, y)
               D == (x + 1)..y
    <2>1. IsFiniteSet(D)
      BY FS_Interval
    <2>2. Cardinality(D) = IF x + 1 > y THEN 0 ELSE y - (x + 1) + 1
      BY FS_Interval
    <2>3. Cardinality(D) = y - x
      <3> HIDE DEF D
      <3>1. QED BY <1>1, <2>2
    <2>4. P \in SUBSET D
      BY DEF Present
    <2> HIDE DEF P, D
    <2>5. IsFiniteSet(P) /\ Cardinality(P) <= Cardinality(D)
      BY <2>1, <2>4, FS_Subset
    <2>6. Cardinality(P) \in Nat
      BY <2>5, FS_CardinalityType
    <2>7. Cardinality(P) \in 0..(y - x)
      BY <1>1, <2>3, <2>5, <2>6
    <2>8. QED BY <2>5, <2>7 DEF P
  <1>2. Cardinality(Present(recs, lo + 1, n)) =
                 Cardinality(Present(recs, lo + 1, hi)) + Cardinality(Present(recs, hi + 1, n))
    <2> DEFINE A == Present(recs, lo + 1, hi)
               B == Present(recs, hi + 1, n)
    <2>1. IsFiniteSet(A) /\ IsFiniteSet(B) /\ Cardinality(A) \in Nat /\ Cardinality(B) \in Nat
      BY <1>1
    <2>2. A \cap B = {} /\ Present(recs, lo + 1, n) = A \cup B
      BY DEF Present
    <2> HIDE DEF A, B
    <2>3. Cardinality(A \cap B) = 0
      BY <2>2, FS_EmptySet
    <2>4. Cardinality(A \cup B) = Cardinality(A) + Cardinality(B) - Cardinality(A \cap B)
      BY <2>1, FS_Union
    <2>5. Cardinality(Present(recs, lo + 1, n)) = Cardinality(A) + Cardinality(B)
      <3>1. Cardinality(Present(recs, lo + 1, n)) = Cardinality(A \cup B)
        BY <2>2, Zenon
      <3>2. Cardinality(A \cup B) = Cardinality(A) + Cardinality(B)
        BY <2>1, <2>3, <2>4
      <3>3. QED BY <3>1, <3>2
    <2>6. QED BY <2>5 DEF A, B
  <1>3. QED BY <1>1, <1>2

\* A count of rows is a count of records when neither repeats a work order.
LEMMA KnownCount ==
    ASSUME rows \in Seq(StoredRow), Unique(rows), NEW recs \in Seq(Record),
           NEW lo \in Nat, NEW hi \in Nat, lo <= hi, hi <= Len(recs),
           NEW t, PartOf(t, recs, lo, hi)
    PROVE  /\ Cardinality(Known(t)) \in Nat
           /\ Cardinality(Known(t)) <= Cardinality(Present(recs, lo + 1, hi))
           /\ Unique(recs) => Cardinality(Known(t)) = Cardinality(Present(recs, lo + 1, hi))
  <1> DEFINE K == Known(t)
             P == Present(recs, lo + 1, hi)
             f == [i \in K |-> CHOOSE k \in P : recs[k].data.woId = rows[i].data.woId]
             g == [k \in P |-> CHOOSE i \in K : rows[i].data.woId = recs[k].data.woId]
  <1>0. /\ IsFiniteSet(P) /\ Cardinality(P) \in Nat /\ P \subseteq DOMAIN recs
        /\ K \subseteq DOMAIN rows /\ K \in SUBSET (1..Len(rows)) /\ Len(rows) \in Nat
    <2>1. Len(recs) \in Nat /\ DOMAIN recs = 1..Len(recs)
      BY RecsAre
    <2>2. IsFiniteSet(P) /\ Cardinality(P) \in Nat
      <3>1. IsFiniteSet(P) /\ Cardinality(P) \in 0..(hi - lo)
        BY <2>1, PresentIs
      <3> HIDE DEF P
      <3>2. QED BY <3>1
    <2>3. P \subseteq DOMAIN recs
      BY <2>1 DEF Present
    <2>4. K \subseteq DOMAIN rows /\ DOMAIN rows = 1..Len(rows) /\ Len(rows) \in Nat
      BY LenProperties DEF Known
    <2>5. QED BY <2>2, <2>3, <2>4
  <1>1. \A i \in K : \E k \in P : recs[k].data.woId = rows[i].data.woId
    <2> SUFFICES ASSUME NEW i \in K PROVE \E k \in P : recs[k].data.woId = rows[i].data.woId
      OBVIOUS
    <2>1. PICK j \in 1..(hi - lo) : t[j].data.woId = rows[i].data.woId
      BY DEF Known, WoIds, PartOf
    <2>2. lo + j \in (lo + 1)..hi /\ recs[lo + j] = t[j]
      BY DEF PartOf
    <2>3. rows[i].data.woId \in Ids
      BY DEF Known, Ids
    <2>4. QED BY <2>1, <2>2, <2>3 DEF Present
  <1>2. \A k \in P : \E i \in K : rows[i].data.woId = recs[k].data.woId
    <2> SUFFICES ASSUME NEW k \in P PROVE \E i \in K : rows[i].data.woId = recs[k].data.woId
      OBVIOUS
    <2>1. k \in (lo + 1)..hi
      BY DEF Present
    <2>2. k - lo \in 1..(hi - lo) /\ lo + (k - lo) = k
      BY <2>1
    <2>3. t[k - lo] = recs[k] /\ k - lo \in DOMAIN t
      BY <2>2 DEF PartOf
    <2>4. PICK i \in DOMAIN rows : rows[i].data.woId = recs[k].data.woId
      BY DEF Present, Ids
    <2>5. i \in K
      BY <2>3, <2>4 DEF Known, WoIds
    <2>6. QED BY <2>4, <2>5
  <1> HIDE DEF K, P
  <1>3. IsFiniteSet(K) /\ Cardinality(K) \in Nat
    <2>1. IsFiniteSet(1..Len(rows))
      BY <1>0, FS_Interval
    <2>2. IsFiniteSet(K)
      BY <1>0, <2>1, FS_Subset
    <2>3. QED BY <2>2, FS_CardinalityType
  <1>4. f \in Injection(K, P)
    <2>1. \A i \in K : f[i] \in P /\ recs[f[i]].data.woId = rows[i].data.woId
      BY <1>1
    <2>2. f \in [K -> P]
      BY <2>1
    <2> HIDE DEF f
    <2>3. \A i, j \in K : f[i] = f[j] => i = j
      BY <1>0, <2>1 DEF Unique
    <2>4. QED BY <2>2, <2>3 DEF Injection, IsInjective
  <1>5. Cardinality(K) <= Cardinality(P)
    <2> HIDE DEF f
    <2>1. QED BY <1>0, <1>4, FS_Injection
  <1>6. ASSUME Unique(recs) PROVE Cardinality(K) = Cardinality(P)
    <2>1. \A k \in P : g[k] \in K /\ rows[g[k]].data.woId = recs[k].data.woId
      BY <1>2
    <2>2. g \in [P -> K]
      BY <2>1
    <2> HIDE DEF g
    <2>3. \A i, j \in P : g[i] = g[j] => i = j
      BY <1>0, <1>6, <2>1 DEF Unique
    <2>4. g \in Injection(P, K)
      BY <2>2, <2>3 DEF Injection, IsInjective
    <2>5. Cardinality(P) <= Cardinality(K)
      BY <1>3, <2>4, FS_Injection
    <2>6. QED BY <1>0, <1>3, <1>5, <2>5
  <1>7. QED BY <1>3, <1>5, <1>6 DEF K, P

LEMMA NewCount ==
    ASSUME NEW recs \in Seq(Record), NEW lo \in Nat, NEW hi \in Nat, lo <= hi, hi <= Len(recs),
           NEW t, PartOf(t, recs, lo, hi)
    PROVE  /\ Cardinality(NewOnes(t)) \in Nat
           /\ Cardinality(NewOnes(t)) = (hi - lo) - Cardinality(Present(recs, lo + 1, hi))
  <1> DEFINE D == (lo + 1)..hi
             P == Present(recs, lo + 1, hi)
             N == NewOnes(t)
             f == [i \in N |-> lo + i]
  <1>1. IsFiniteSet(D)
    BY FS_Interval
  <1>2. Cardinality(D) = hi - lo
    <2>1. Cardinality(D) = IF lo + 1 > hi THEN 0 ELSE hi - (lo + 1) + 1
      BY FS_Interval
    <2> HIDE DEF D
    <2>2. QED BY <2>1
  <1>3. IsFiniteSet(D \ P) /\ Cardinality(D \ P) = Cardinality(D) - Cardinality(D \cap P)
    <2> HIDE DEF D, P
    <2>1. QED BY <1>1, FS_Difference
  <1>4. D \cap P = P
    BY DEF Present
  <1>5. IsFiniteSet(N)
    <2>1. N \in SUBSET (1..(hi - lo))
      BY DEF NewOnes, PartOf
    <2>2. IsFiniteSet(1..(hi - lo))
      BY FS_Interval
    <2>3. QED BY <2>1, <2>2, FS_Subset
  <1>6. \A i \in N : i \in Nat /\ i \in 1..(hi - lo) /\ lo + i \in D \ P
    BY DEF NewOnes, PartOf, Present
  <1>7. \A k \in D \ P : k - lo \in N /\ lo + (k - lo) = k
    <2> SUFFICES ASSUME NEW k \in D \ P PROVE k - lo \in N /\ lo + (k - lo) = k
      OBVIOUS
    <2>1. k - lo \in 1..(hi - lo) /\ lo + (k - lo) = k
      OBVIOUS
    <2>2. t[k - lo] = recs[k] /\ k - lo \in DOMAIN t /\ recs[k].data.woId \notin Ids
      BY <2>1 DEF PartOf, Present
    <2>3. QED BY <2>1, <2>2 DEF NewOnes
  <1> HIDE DEF D, P, N
  <1>8. f \in Bijection(N, D \ P)
    <2>1. f \in [N -> D \ P]
      BY <1>6
    <2>2. \A i, j \in N : f[i] = f[j] => i = j
      BY <1>6
    <2>3. \A k \in D \ P : \E i \in N : f[i] = k
      BY <1>7
    <2>4. QED BY <2>1, <2>2, <2>3 DEF Bijection, Injection, Surjection, IsInjective
  <1>9. Cardinality(D \ P) = Cardinality(N)
    <2> HIDE DEF f
    <2>1. ExistsBijection(N, D \ P)
      BY <1>8 DEF ExistsBijection
    <2>2. QED BY <1>5, <2>1, FS_Bijection
  <1>10. Cardinality(N) \in Nat
    BY <1>5, FS_CardinalityType
  <1>11. QED BY <1>2, <1>3, <1>4, <1>9, <1>10 DEF N, P

-------------------------------------------------------------------------------
\* What the rows and the imports in progress satisfy.

Importing == {"remap", "count", "upsert", "use"}

RecsOK(label, a) ==
    /\ a.recs \in Seq(Record) /\ a.done \in 0..Len(a.recs)
    /\ a.batch \in 0..ops /\ (label \in Importing => a.batch # 0)
    /\ a.existing \in Nat /\ a.fresh \in Nat

RowsTyped ==
    /\ rows \in Seq(StoredRow) /\ Unique(rows)
    /\ sync \in {"none", "pending"}
    /\ pc \in [Requests -> {"idle"} \cup InFlight]
    /\ \A r \in Requests : RecsOK(pc[r], arg[r])
    /\ ops \in 0..MaxOps /\ faults \in 0..MaxFaults
    /\ crossed \subseteq DOMAIN Writers /\ renamed \subseteq Cells

\* Every import has a number of its own, and is alone unless it is recorded.
BatchInv ==
    /\ \A p, q \in Requests :
          pc[p] \in Importing /\ pc[q] \in Importing /\ arg[p].batch = arg[q].batch => p = q
    /\ "rows" \notin crossed => Alone("rows")

\* The counts so far: of rows there were, and of rows added, against the records that
\* have a row now.
StatsOK(label, a) ==
    LET n == Len(a.recs)
        exact == "rows" \notin crossed /\ Unique(a.recs)
        Tally(x, y) == x <= y /\ (exact => x = y)
    IN  WoIds(a.recs) \cap renamed = {} =>
            /\ label = "remap" => a.done = 0 /\ a.existing = 0 /\ a.fresh = 0
            /\ label = "count" =>
                  a.fresh = 0 /\ Tally(a.existing, Cardinality(Present(a.recs, 1, a.done)))
            /\ label = "upsert" =>
                  Tally(a.fresh + a.existing,
                        a.done + Cardinality(Present(a.recs, a.done + 1, n)))
            /\ label = "use" => Tally(a.fresh + a.existing, n)

\* What ImportIsStored says of a record, and of how many an import can say it.
RowHolds(row, a, i) ==
    /\ row.data.woId = a.recs[i].data.woId
    /\ \/ row.edited
       \/ row.batch # a.batch /\ "rows" \in crossed
       \/ \E k \in i..Len(a.recs) :
             /\ a.recs[k].data.woId = a.recs[i].data.woId
             /\ \A f \in Fields : a.recs[k].data[f] \in {row.data[f], Absent}
IsStored(a, i) ==
    a.recs[i].data.woId \in renamed \/ \E j \in DOMAIN rows : RowHolds(rows[j], a, i)

Written(label, a) ==
    IF label = "use" THEN Len(a.recs) ELSE IF label = "upsert" THEN a.done ELSE 0
StoredOK(label, a) == \A i \in 1..Written(label, a) : IsStored(a, i)

ImportsInv == \A r \in Requests : StatsOK(pc[r], arg[r]) /\ StoredOK(pc[r], arg[r])

RowInv == RowsTyped /\ BatchInv /\ ImportsInv

\* What the request that moves must show for the invariant to last.
LEMMA RowInvMoves ==
    ASSUME RowInv, NEW r \in Requests, NEW label \in {"idle"} \cup InFlight, NEW a,
           Moved(r, label, a),
           (rows \in Seq(StoredRow) /\ Unique(rows))', sync' \in {"none", "pending"},
           ops' \in ops..MaxOps, faults' \in 0..MaxFaults, crossed' \subseteq DOMAIN Writers,
           (renamed \subseteq Cells)',
           RecsOK(label, a)', StatsOK(label, a)', StoredOK(label, a)',
           \A q \in Requests \ {r} : (StatsOK(pc[q], arg[q]) /\ StoredOK(pc[q], arg[q]))',
           label \in Importing => \/ pc[r] \in Importing /\ a.batch = arg[r].batch
                                  \/ a.batch = ops + 1
    PROVE  RowInv'
  <1>1. ops \in Nat /\ ops' \in Nat /\ ops <= ops' /\ ops' \in 0..MaxOps
    BY ConstantsAssumption DEF RowInv, RowsTyped
  <1>2. \A q \in Requests : RecsOK(pc[q], arg[q])'
    <2> SUFFICES ASSUME NEW q \in Requests PROVE RecsOK(pc[q], arg[q])'
      OBVIOUS
    <2>1. CASE q = r
      BY <2>1 DEF Moved
    <2>2. CASE q # r
      BY <1>1, <2>2 DEF Moved, RowInv, RowsTyped, RecsOK
    <2>3. QED BY <2>1, <2>2
  <1>3. pc' \in [Requests -> {"idle"} \cup InFlight]
    BY DEF Moved, RowInv, RowsTyped
  <1>4. RowsTyped'
    BY <1>1, <1>2, <1>3 DEF RowsTyped
  <1>5. ASSUME NEW p \in Requests, NEW q \in Requests,
               pc'[p] \in Importing, pc'[q] \in Importing, arg'[p].batch = arg'[q].batch
        PROVE  p = q
    <2>0. \A s \in Requests : arg[s].batch \in 0..ops
      BY DEF RowInv, RowsTyped, RecsOK
    <2>1. \A s, t \in Requests :
             pc[s] \in Importing /\ pc[t] \in Importing /\ arg[s].batch = arg[t].batch => s = t
      BY DEF RowInv, BatchInv
    <2>2. \A s \in Requests : s # r => pc'[s] = pc[s] /\ arg'[s] = arg[s]
      BY DEF Moved
    <2>3. pc'[r] = label /\ arg'[r] = a
      BY DEF Moved
    <2>4. \A s \in Requests : arg[s].batch # ops + 1
      BY <1>1, <2>0
    <2>5. QED BY <1>5, <2>1, <2>2, <2>3, <2>4
  <1>6. "rows" \notin crossed' => Alone("rows")'
    <2>1. "rows" \in DOMAIN Writers
      BY WritersAre
    <2>2. "rows" \notin crossed => Alone("rows")
      BY DEF RowInv, BatchInv
    <2>3. QED BY <2>1, <2>2, AloneLasts
  <1>7. BatchInv'
    BY <1>5, <1>6 DEF BatchInv
  <1>8. ImportsInv'
    <2> SUFFICES ASSUME NEW q \in Requests PROVE (StatsOK(pc[q], arg[q]) /\ StoredOK(pc[q], arg[q]))'
      BY DEF ImportsInv
    <2>1. CASE q = r
      BY <2>1 DEF Moved
    <2>2. CASE q # r
      BY <2>2
    <2>3. QED BY <2>1, <2>2
  <1>9. QED BY <1>4, <1>7, <1>8 DEF RowInv

\* A step that leaves the rows alone.
LEMMA RowsStay ==
    ASSUME UNCHANGED <<rows, renamed>>, crossed \subseteq crossed', NEW label, NEW a
    PROVE  /\ StatsOK(label, a) => StatsOK(label, a)'
           /\ StoredOK(label, a) => StoredOK(label, a)'
  <1>1. UNCHANGED Ids /\ \A recs, m, n : UNCHANGED Present(recs, m, n)
    BY DEF Ids, Present
  <1>2. ASSUME StatsOK(label, a) PROVE StatsOK(label, a)'
    BY <1>1, <1>2 DEF StatsOK
  <1>3. ASSUME StoredOK(label, a) PROVE StoredOK(label, a)'
    BY <1>3 DEF StoredOK, IsStored, RowHolds, Written
  <1>4. QED BY <1>2, <1>3

\* A request that is not importing has nothing to show.
LEMMA NotImporting ==
    ASSUME NEW label, label \notin Importing, NEW a
    PROVE  StatsOK(label, a)' /\ StoredOK(label, a)'
  <1>1. label # "remap" /\ label # "count" /\ label # "upsert" /\ label # "use"
    BY DEF Importing
  <1>2. StatsOK(label, a)'
    BY <1>1 DEF StatsOK
  <1>3. Written(label, a)' = 0
    BY <1>1 DEF Written
  <1>4. StoredOK(label, a)'
    BY <1>3 DEF StoredOK
  <1>5. QED BY <1>2, <1>4

\* A step of a request that does not import, or gives up its import.
LEMMA AwayKeeps ==
    ASSUME RowInv, NEW r \in Requests, NEW label \in {"idle"} \cup InFlight, NEW a,
           label \notin Importing, Moved(r, label, a),
           UNCHANGED <<rows, renamed>>, sync' \in {"none", "pending"},
           ops' \in ops..MaxOps, faults' \in 0..MaxFaults, crossed' \subseteq DOMAIN Writers,
           RecsOK(label, a)'
    PROVE  RowInv'
  <1>1. StatsOK(label, a)' /\ StoredOK(label, a)'
    BY NotImporting
  <1>2. (rows \in Seq(StoredRow) /\ Unique(rows) /\ renamed \subseteq Cells)'
    BY DEF RowInv, RowsTyped, Unique
  <1>3. \A q \in Requests \ {r} : (StatsOK(pc[q], arg[q]) /\ StoredOK(pc[q], arg[q]))'
    BY RowsStay DEF RowInv, ImportsInv, Moved
  <1>4. QED BY <1>1, <1>2, <1>3, RowInvMoves

\* Moved, for Begin, Goto and Finish, with what these do to the other variables.
LEMMA StartsMoves ==
    ASSUME Shape, RowInv, NEW r \in Requests, NEW label, NEW a, NEW K, Start(r, label, a, K),
           Shared(label) \subseteq K, K \subseteq DOMAIN Writers
    PROVE  /\ Moved(r, label, a) /\ pc[r] = "idle" /\ ops' = ops + 1 /\ ops' \in ops..MaxOps
           /\ faults' \in 0..MaxFaults
           /\ crossed' \subseteq DOMAIN Writers /\ UNCHANGED renamed
           /\ "rows" \notin crossed' /\ label \in Importing => \A q \in Requests : pc[q] \notin Importing
  <1>1. Moved(r, label, a)
    BY StartMoves
  <1>2. /\ pc[r] = "idle" /\ ops' = ops + 1 /\ ops < MaxOps /\ UNCHANGED <<faults, renamed>>
        /\ crossed' = crossed \cup K
    BY DEF Start
  <1>3. ops \in 0..MaxOps /\ MaxOps \in Nat /\ faults \in 0..MaxFaults /\ crossed \subseteq DOMAIN Writers
    BY ConstantsAssumption DEF RowInv, RowsTyped
  <1>4. ops' \in ops..MaxOps
    BY <1>2, <1>3
  <1>5. Writers["rows"] = Importing /\ "rows" \in DOMAIN Writers
    BY WritersAre DEF Importing
  <1>6. "rows" \notin crossed' /\ label \in Importing => \A q \in Requests : pc[q] \notin Importing
    BY <1>2, <1>5 DEF Shared
  <1>7. QED BY <1>1, <1>2, <1>3, <1>4, <1>6

LEMMA BeginsMoves ==
    ASSUME Shape, RowInv, NEW r \in Requests, NEW label, NEW a, Begin(r, label, a)
    PROVE  /\ Moved(r, label, a) /\ pc[r] = "idle" /\ ops' = ops + 1 /\ ops' \in ops..MaxOps
           /\ faults' \in 0..MaxFaults
           /\ crossed' \subseteq DOMAIN Writers /\ UNCHANGED renamed
           /\ "rows" \notin crossed' /\ label \in Importing => \A q \in Requests : pc[q] \notin Importing
  <1>1. Start(r, label, a, Shared(label)) /\ Shared(label) \subseteq DOMAIN Writers
    BY DEF Begin, Shared
  <1>2. QED BY <1>1, StartsMoves

LEMMA GotoesMoves ==
    ASSUME Shape, RowInv, NEW r \in Requests, NEW label, NEW a, Goto(r, label, a),
           \A k \in DOMAIN Writers : label \in Writers[k] => pc[r] \in Writers[k]
    PROVE  /\ Moved(r, label, a) /\ ops' \in ops..MaxOps /\ faults' \in 0..MaxFaults
           /\ crossed' \subseteq DOMAIN Writers /\ UNCHANGED <<ops, renamed, crossed>>
  <1>1. Moved(r, label, a) /\ UNCHANGED <<ops, faults, renamed, crossed>>
    BY GotoMoves DEF Goto
  <1>2. ops \in 0..MaxOps /\ MaxOps \in Nat /\ faults \in 0..MaxFaults /\ crossed \subseteq DOMAIN Writers
    BY ConstantsAssumption DEF RowInv, RowsTyped
  <1>3. ops' \in ops..MaxOps
    BY <1>1, <1>2
  <1>4. QED BY <1>1, <1>2, <1>3

\* An argument without records, or with those the request already has.
LEMMA RecsUpdates ==
    ASSUME RowInv, NEW label, NEW a, NEW l, ops' \in ops..MaxOps,
           RecsOK(l, a), label \notin Importing
    PROVE  RecsOK(label, a)'
  <1>1. ops \in Nat /\ ops' \in Nat /\ ops <= ops'
    BY ConstantsAssumption DEF RowInv, RowsTyped
  <1>2. QED BY <1>1 DEF RecsOK

LEMMA PlainArgs ==
    ASSUME RowInv, NEW a, a.recs = <<>>, a.done = 0, a.batch = 0, a.existing = 0, a.fresh = 0,
           NEW label, label \notin Importing, ops' \in ops..MaxOps
    PROVE  RecsOK(label, a)'
  <1>1. ops \in Nat /\ ops' \in Nat
    BY ConstantsAssumption DEF RowInv, RowsTyped
  <1>2. a.recs \in Seq(Record) /\ Len(a.recs) = 0
    BY EmptySeq
  <1>3. QED BY <1>1, <1>2 DEF RecsOK

LEMMA NoArgPlain ==
    /\ NoArg.recs = <<>> /\ NoArg.done = 0 /\ NoArg.batch = 0 /\ NoArg.existing = 0 /\ NoArg.fresh = 0
  BY DEF NoArg

-------------------------------------------------------------------------------
\* The steps of requests that do not import.

\* The first step of such a request, and its last.
LEMMA StartAway ==
    ASSUME Shape, RowInv, NEW r \in Requests, NEW label \in InFlight \ Importing, NEW a,
           NEW K, Start(r, label, a, K), Shared(label) \subseteq K, K \subseteq DOMAIN Writers,
           UNCHANGED <<rows, sync>>,
           a.recs = <<>>, a.done = 0, a.batch = 0, a.existing = 0, a.fresh = 0
    PROVE  RowInv'
  <1>1. /\ Moved(r, label, a) /\ ops' \in ops..MaxOps /\ faults' \in 0..MaxFaults
        /\ crossed' \subseteq DOMAIN Writers /\ UNCHANGED renamed
    BY StartsMoves
  <1>2. RecsOK(label, a)'
    BY <1>1, PlainArgs
  <1>3. sync' \in {"none", "pending"}
    BY DEF RowInv, RowsTyped
  <1>4. QED BY <1>1, <1>2, <1>3, AwayKeeps

LEMMA BeginAway ==
    ASSUME Shape, RowInv, NEW r \in Requests, NEW label \in InFlight \ Importing, NEW a,
           Begin(r, label, a), UNCHANGED <<rows, sync>>,
           a.recs = <<>>, a.done = 0, a.batch = 0, a.existing = 0, a.fresh = 0
    PROVE  RowInv'
  <1>1. Start(r, label, a, Shared(label)) /\ Shared(label) \subseteq DOMAIN Writers
    BY DEF Begin, Shared
  <1>2. QED BY <1>1, StartAway

LEMMA GotoAway ==
    ASSUME Shape, RowInv, NEW r \in Requests, NEW label \in {"idle"} \cup InFlight, NEW a,
           label \notin Importing, Goto(r, label, a), UNCHANGED rows,
           sync' \in {"none", "pending"},
           \A k \in DOMAIN Writers : label \in Writers[k] => pc[r] \in Writers[k],
           a = arg[r] \/ a = NoArg
    PROVE  RowInv'
  <1>1. /\ Moved(r, label, a) /\ ops' \in ops..MaxOps /\ faults' \in 0..MaxFaults
        /\ crossed' \subseteq DOMAIN Writers /\ UNCHANGED renamed
    BY GotoesMoves
  <1>2. RecsOK(label, a)'
    <2>1. CASE a = arg[r]
      <3>1. RecsOK(pc[r], arg[r])
        BY DEF RowInv, RowsTyped
      <3>2. QED BY <1>1, <2>1, <3>1, RecsUpdates
    <2>2. CASE a = NoArg
      BY <1>1, <2>2, NoArgPlain, PlainArgs
    <2>3. QED BY <2>1, <2>2
  <1>3. QED BY <1>1, <1>2, AwayKeeps

LEMMA FinishAway ==
    ASSUME Shape, RowInv, NEW r \in Requests, Finish(r), UNCHANGED rows, sync' \in {"none", "pending"}
    PROVE  RowInv'
  <1>1. "idle" \notin Importing /\ \A k \in DOMAIN Writers : "idle" \notin Writers[k]
    BY WritersAre DEF Importing
  <1>2. Goto(r, "idle", NoArg)
    BY DEF Finish
  <1>3. QED BY <1>1, <1>2, GotoAway

LEMMA InFlightAre ==
    InFlight = {"resave", "retire", "file", "remap", "demote", "map", "count", "upsert", "use",
                "stamp", "sync"}
  <1>1. {Writers[k] : k \in DOMAIN Writers} = {Writers["files"], Writers["maps"], Writers["rows"]}
    BY WritersAre
  <1>2. UNION {Writers["files"], Writers["maps"], Writers["rows"]}
            = Writers["files"] \cup Writers["maps"] \cup Writers["rows"]
    OBVIOUS
  <1>3. InFlight = Writers["files"] \cup Writers["maps"] \cup Writers["rows"] \cup {"stamp", "sync"}
    <2> DEFINE U == {Writers[k] : k \in DOMAIN Writers}
    <2>1. InFlight = (UNION U) \cup {"stamp", "sync"}
      BY DEF InFlight
    <2>2. U = {Writers["files"], Writers["maps"], Writers["rows"]}
      BY <1>1
    <2> HIDE DEF U
    <2>3. QED BY <1>2, <2>1, <2>2
  <1>4. QED BY <1>3, WritersAre

LEMMA ConfigKeepsRows ==
    ASSUME Shape, RowInv, NEW r \in Requests,
           \/ \E n \in FileNames : ConfigRead(r, n)
           \/ ConfigResave(r) \/ ConfigRetire(r) \/ ConfigInsert(r)
    PROVE  RowInv'
  <1>0. {"resave", "retire", "file"} \subseteq InFlight \ Importing /\ sync \in {"none", "pending"}
    BY InFlightAre DEF Importing, RowInv, RowsTyped
  <1>1. ASSUME NEW n \in FileNames, ConfigRead(r, n) PROVE RowInv'
    <2>1. CASE Begin(r, "retire", [NoArg EXCEPT !.name = n])
      <3> DEFINE a == [NoArg EXCEPT !.name = n]
      <3>1. a.recs = <<>> /\ a.done = 0 /\ a.batch = 0 /\ a.existing = 0 /\ a.fresh = 0
        BY DEF NoArg
      <3>2. Begin(r, "retire", a) /\ UNCHANGED <<rows, sync>>
        BY <1>1, <2>1 DEF ConfigRead, tables
      <3> HIDE DEF a
      <3>3. QED BY <1>0, <3>1, <3>2, BeginAway
    <2>2. ASSUME NEW i \in DOMAIN files,
                 Begin(r, "resave", [NoArg EXCEPT !.file = i, !.active = files[i].active])
          PROVE  RowInv'
      <3> DEFINE a == [NoArg EXCEPT !.file = i, !.active = files[i].active]
      <3>1. a.recs = <<>> /\ a.done = 0 /\ a.batch = 0 /\ a.existing = 0 /\ a.fresh = 0
        BY DEF NoArg
      <3>2. Begin(r, "resave", a) /\ UNCHANGED <<rows, sync>>
        BY <1>1, <2>2 DEF ConfigRead, tables
      <3> HIDE DEF a
      <3>3. QED BY <1>0, <3>1, <3>2, BeginAway
    <2>3. QED BY <1>1, <2>1, <2>2 DEF ConfigRead
  <1>2. CASE ConfigResave(r) \/ ConfigInsert(r)
    BY <1>0, <1>2, FinishAway DEF ConfigResave, ConfigInsert
  <1>3. CASE ConfigRetire(r)
    <2>1. /\ Goto(r, "file", arg[r]) /\ UNCHANGED <<rows, sync>>
          /\ \A k \in DOMAIN Writers : "file" \in Writers[k] => pc[r] \in Writers[k]
      BY <1>3, WritersAre DEF ConfigRetire
    <2>2. QED BY <1>0, <2>1, GotoAway
  <1>4. QED BY <1>1, <1>2, <1>3

LEMMA MappingKeepsRows ==
    ASSUME Shape, RowInv, NEW r \in Requests,
           \/ \E c \in Configs, d \in BOOLEAN :
                 MappingCreate(r, c, d)
                 \/ \E i \in DOMAIN maps, j \in 0..Len(maps) : MappingRead(r, i, j, c, d)
           \/ MappingDemote(r) \/ MappingSave(r)
    PROVE  RowInv'
  <1>0. {"map", "demote"} \subseteq InFlight \ Importing /\ sync \in {"none", "pending"}
    BY InFlightAre DEF Importing, RowInv, RowsTyped
  <1>1. ASSUME NEW c \in Configs, NEW d \in BOOLEAN, MappingCreate(r, c, d) PROVE RowInv'
    <2> DEFINE a == [NoArg EXCEPT !.mapping = Mapping(d, NoRules, c)]
    <2>1. a.recs = <<>> /\ a.done = 0 /\ a.batch = 0 /\ a.existing = 0 /\ a.fresh = 0
      BY DEF NoArg
    <2>2. Begin(r, "map", a) /\ UNCHANGED <<rows, sync>>
      BY <1>1 DEF MappingCreate
    <2> HIDE DEF a
    <2>3. QED BY <1>0, <2>1, <2>2, BeginAway
  <1>2. ASSUME NEW c \in Configs, NEW d \in BOOLEAN, NEW i \in DOMAIN maps,
               NEW j \in 0..Len(maps), MappingRead(r, i, j, c, d)
        PROVE  RowInv'
    <2>1. PICK a : a = ReadArg(i, j, c, d)
      OBVIOUS
    <2>2. a.recs = <<>> /\ a.done = 0 /\ a.batch = 0 /\ a.existing = 0 /\ a.fresh = 0
      BY <2>1 DEF ReadArg, NoArg
    <2>3. /\ UNCHANGED <<rows, sync>>
          /\ \E label \in {"demote", "map"}, K \in SUBSET DOMAIN Writers :
                Start(r, label, a, K) /\ Shared(label) \subseteq K
      BY <1>2, <2>1, ReadStarts
    <2>4. QED BY <1>0, <2>2, <2>3, StartAway
  <1>3. CASE MappingDemote(r)
    <2>1. /\ Goto(r, "map", arg[r]) /\ UNCHANGED <<rows, sync>>
          /\ \A k \in DOMAIN Writers : "map" \in Writers[k] => pc[r] \in Writers[k]
      BY <1>3, WritersAre DEF MappingDemote
    <2>2. QED BY <1>0, <2>1, GotoAway
  <1>4. CASE MappingSave(r)
    BY <1>0, <1>4, FinishAway DEF MappingSave
  <1>5. QED BY <1>1, <1>2, <1>3, <1>4

LEMMA SyncKeepsRows ==
    ASSUME Shape, RowInv, NEW r \in Requests, SyncRead(r) \/ SyncSave(r) \/ Fault(r)
    PROVE  RowInv'
  <1>0. "sync" \in InFlight \ Importing /\ sync \in {"none", "pending"}
    BY InFlightAre DEF Importing, RowInv, RowsTyped
  <1>1. CASE SyncRead(r)
    <2> DEFINE a == [NoArg EXCEPT !.found = (sync # "none")]
    <2>1. a.recs = <<>> /\ a.done = 0 /\ a.batch = 0 /\ a.existing = 0 /\ a.fresh = 0
      BY DEF NoArg
    <2>2. Begin(r, "sync", a) /\ UNCHANGED <<rows, sync>>
      BY <1>1 DEF SyncRead, tables
    <2> HIDE DEF a
    <2>3. QED BY <1>0, <2>1, <2>2, BeginAway
  <1>2. CASE SyncSave(r)
    BY <1>2, FinishAway DEF SyncSave
  <1>3. CASE Fault(r)
    <2>1. /\ UNCHANGED <<rows, sync, ops, crossed, renamed>> /\ faults < MaxFaults /\ faults' = faults + 1
          /\ pc' = [pc EXCEPT ![r] = "idle"] /\ arg' = [arg EXCEPT ![r] = NoArg]
      BY <1>3 DEF Fault, tables
    <2>2. Moved(r, "idle", NoArg)
      BY <2>1, WritersAre DEF Moved, Shape
    <2>3. ops \in 0..MaxOps /\ MaxOps \in Nat /\ MaxFaults \in Nat /\ faults \in 0..MaxFaults
          /\ crossed \subseteq DOMAIN Writers
      BY ConstantsAssumption DEF RowInv, RowsTyped
    <2>4. ops' \in ops..MaxOps /\ faults' \in 0..MaxFaults
      BY <2>1, <2>3
    <2>5. "idle" \notin Importing
      BY DEF Importing
    <2>6. RecsOK("idle", NoArg)'
      BY <2>4, <2>5, NoArgPlain, PlainArgs
    <2>7. QED BY <1>0, <2>1, <2>2, <2>3, <2>4, <2>5, <2>6, AwayKeeps
  <1>4. QED BY <1>1, <1>2, <1>3

-------------------------------------------------------------------------------
\* The steps of an import.

LEMMA ArgFields ==
    ASSUME NEW a, DOMAIN a = DOMAIN NoArg, NEW v
    PROVE  /\ LET b == [a EXCEPT !.done = v] IN
                 /\ b.recs = a.recs /\ b.batch = a.batch /\ b.done = v
                 /\ b.existing = a.existing /\ b.fresh = a.fresh
           /\ LET b == [a EXCEPT !.existing = v] IN
                 /\ b.recs = a.recs /\ b.batch = a.batch /\ b.done = a.done
                 /\ b.existing = v /\ b.fresh = a.fresh /\ DOMAIN b = DOMAIN NoArg
           /\ LET b == [a EXCEPT !.fresh = v] IN
                 /\ b.recs = a.recs /\ b.batch = a.batch /\ b.done = a.done
                 /\ b.existing = a.existing /\ b.fresh = v /\ DOMAIN b = DOMAIN NoArg
           /\ LET b == [a EXCEPT !.map = v] IN
                 /\ b.recs = a.recs /\ b.batch = a.batch /\ b.done = a.done
                 /\ b.existing = a.existing /\ b.fresh = a.fresh
  BY NoArgFields

\* A step of an import that leaves the rows alone.
LEMMA ImportingKeeps ==
    ASSUME RowInv, NEW r \in Requests, NEW label \in Importing, NEW a, Moved(r, label, a),
           UNCHANGED <<rows, renamed, sync>>,
           ops' \in ops..MaxOps, faults' \in 0..MaxFaults, crossed' \subseteq DOMAIN Writers,
           RecsOK(label, a)', StatsOK(label, a)', StoredOK(label, a)',
           \/ pc[r] \in Importing /\ a.batch = arg[r].batch
           \/ a.batch = ops + 1
    PROVE  RowInv'
  <1>1. (rows \in Seq(StoredRow) /\ Unique(rows) /\ renamed \subseteq Cells)'
        /\ sync' \in {"none", "pending"}
    BY DEF RowInv, RowsTyped, Unique
  <1>2. \A q \in Requests \ {r} : (StatsOK(pc[q], arg[q]) /\ StoredOK(pc[q], arg[q]))'
    BY RowsStay DEF RowInv, ImportsInv, Moved
  <1>3. label \in {"idle"} \cup InFlight
    BY InFlightAre DEF Importing
  <1>4. QED BY <1>1, <1>2, <1>3, RowInvMoves

\* Before it counts, an import has nothing to show.
LEMMA NothingCounted ==
    ASSUME NEW a, NEW label \in {"remap", "count"},
           WoIds(a.recs) \cap renamed' = {} => a.done = 0 /\ a.existing = 0 /\ a.fresh = 0
    PROVE  StatsOK(label, a)' /\ StoredOK(label, a)'
  <1>1. Written(label, a)' = 0
    BY DEF Written
  <1>2. StoredOK(label, a)'
    BY <1>1 DEF StoredOK
  <1>3. StatsOK(label, a)'
    <2>1. CASE WoIds(a.recs) \cap renamed' # {}
      BY <2>1 DEF StatsOK, WoIds
    <2>2. CASE WoIds(a.recs) \cap renamed' = {}
      <3>1. a.done = 0 /\ a.existing = 0 /\ a.fresh = 0
        BY <2>2
      <3>2. Present(a.recs, 1, 0)' = {}
        BY DEF Present
      <3>3. Cardinality(Present(a.recs, 1, 0)') = 0
        BY <3>2, FS_EmptySet
      <3>4. Cardinality(Present(a.recs, 1, a.done))' = 0
        BY <3>1, <3>3
      <3>5. QED BY <3>1, <3>4 DEF StatsOK
    <2>3. QED BY <2>1, <2>2
  <1>4. QED BY <1>2, <1>3

LEMMA ImportReadKeepsRows ==
    ASSUME Shape, RowInv, NEW r \in Requests, NEW sheet \in Sheets, NEW file \in 0..Len(files),
           ImportRead(r, sheet, file)
    PROVE  RowInv'
  <1>1. PICK i \in IF Defaults = {} THEN {0} ELSE Defaults :
          \E label \in {"remap", "count"} :
             LET m == InHand(sheet, i)
                 recs == Records(sheet, m.rules, m.config)
             IN  Begin(r, label, [NoArg EXCEPT !.file = file, !.map = i, !.mapping = m,
                                               !.recs = recs, !.batch = ops + 1])
    BY DEF ImportRead
  <1> DEFINE m == InHand(sheet, i)
  <1>2. PICK a : a = [NoArg EXCEPT !.file = file, !.map = i, !.mapping = m,
                                   !.recs = Records(sheet, m.rules, m.config), !.batch = ops + 1]
    OBVIOUS
  <1>3. PICK label \in {"remap", "count"} : Begin(r, label, a)
    BY <1>1, <1>2
  <1>4. m \in MapRow
    BY InHandTyped DEF Defaults
  <1>5. Records(sheet, m.rules, m.config) \in Seq(Record)
    <2> HIDE DEF m
    <2>1. m.config \in Configs \cup {DefaultColumnMapping}
      BY <1>4 DEF MapRow
    <2>2. QED BY <2>1, RecordsAre
  <1> HIDE DEF m
  <1>6. /\ a.recs \in Seq(Record) /\ a.done = 0 /\ a.existing = 0 /\ a.fresh = 0
        /\ a.batch = ops + 1
    BY <1>2, <1>5 DEF NoArg
  <1>7. /\ Moved(r, label, a) /\ ops' = ops + 1 /\ ops' \in ops..MaxOps /\ faults' \in 0..MaxFaults
        /\ crossed' \subseteq DOMAIN Writers /\ UNCHANGED renamed
    BY <1>3, BeginsMoves
  <1>8. UNCHANGED <<rows, sync>>
    BY DEF ImportRead, tables
  <1>9. ops \in Nat
    BY DEF RowInv, RowsTyped
  <1>10. RecsOK(label, a)'
    <2>1. Len(a.recs) \in Nat
      BY <1>6, RecsAre
    <2>2. QED BY <1>6, <1>7, <1>9, <2>1 DEF RecsOK
  <1>11. StatsOK(label, a)' /\ StoredOK(label, a)'
    BY <1>6, NothingCounted
  <1>12. label \in Importing
    BY DEF Importing
  <1>13. QED BY <1>6, <1>7, <1>8, <1>10, <1>11, <1>12, ImportingKeeps

LEMMA ImportRemapKeepsRows ==
    ASSUME Shape, RowInv, NEW r \in Requests, ImportRemap(r)
    PROVE  RowInv'
  <1>0. pc[r] = "remap" /\ UNCHANGED <<rows, sync>> /\ sync' \in {"none", "pending"}
    BY DEF ImportRemap, RowInv, RowsTyped
  <1>1. CASE Finish(r)
    BY <1>0, <1>1, FinishAway
  <1>2. ASSUME Goto(r, "count", IF arg[r].map = 0 THEN [arg[r] EXCEPT !.map = Len(maps')] ELSE arg[r])
        PROVE  RowInv'
    <2>1. PICK a : a = IF arg[r].map = 0 THEN [arg[r] EXCEPT !.map = Len(maps')] ELSE arg[r]
      OBVIOUS
    <2>2. Goto(r, "count", a)
      BY <1>2, <2>1
    <2>3. DOMAIN arg[r] = DOMAIN NoArg
      BY DEF Shape, ArgOK
    <2>4. /\ a.recs = arg[r].recs /\ a.batch = arg[r].batch /\ a.done = arg[r].done
          /\ a.existing = arg[r].existing /\ a.fresh = arg[r].fresh
      BY <2>1, <2>3, ArgFields
    <2>5. /\ Moved(r, "count", a) /\ ops' \in ops..MaxOps /\ faults' \in 0..MaxFaults
          /\ crossed' \subseteq DOMAIN Writers /\ UNCHANGED <<ops, renamed, crossed>>
      <3>1. \A k \in DOMAIN Writers : "count" \in Writers[k] => pc[r] \in Writers[k]
        BY <1>0, WritersAre
      <3>2. QED BY <2>2, <3>1, GotoesMoves
    <2>6. /\ "count" \in Importing /\ pc[r] \in Importing
          /\ RecsOK(pc[r], arg[r]) /\ StatsOK("remap", arg[r])
      BY <1>0 DEF Importing, RowInv, RowsTyped, ImportsInv
    <2>7. RecsOK("count", a)'
      BY <2>4, <2>5, <2>6 DEF RecsOK
    <2>8. WoIds(a.recs) \cap renamed' = {} => a.done = 0 /\ a.existing = 0 /\ a.fresh = 0
      BY <2>4, <2>5, <2>6 DEF StatsOK
    <2>9. StatsOK("count", a)' /\ StoredOK("count", a)'
      BY <2>8, NothingCounted
    <2>10. QED BY <1>0, <2>4, <2>5, <2>6, <2>7, <2>9, ImportingKeeps
  <1>3. QED BY <1>1, <1>2 DEF ImportRemap

LEMMA ImportEndKeepsRows ==
    ASSUME Shape, RowInv, NEW r \in Requests, ImportUse(r) \/ ImportStamp(r)
    PROVE  RowInv'
  <1>0. UNCHANGED <<rows, sync>> /\ sync' \in {"none", "pending"}
    BY DEF ImportUse, ImportStamp, RowInv, RowsTyped
  <1>1. CASE Finish(r)
    BY <1>0, <1>1, FinishAway
  <1>2. ASSUME Goto(r, "stamp", arg[r]) PROVE RowInv'
    <2>1. "stamp" \in InFlight \ Importing
      BY InFlightAre DEF Importing
    <2>2. \A k \in DOMAIN Writers : "stamp" \notin Writers[k]
      BY WritersAre
    <2>3. QED BY <1>0, <1>2, <2>1, <2>2, GotoAway
  <1>3. QED BY <1>1, <1>2 DEF ImportUse, ImportStamp

LEMMA NoneBeyond ==
    ASSUME NEW recs, NEW n \in Nat
    PROVE  Cardinality(Present(recs, n + 1, n)) = 0
  <1>1. Present(recs, n + 1, n) = {}
    BY DEF Present
  <1>2. QED BY <1>1, FS_EmptySet

LEMMA PresentFromFirst ==
    ASSUME NEW recs, NEW lo \in Nat, NEW hi \in Nat, lo <= hi
    PROVE  /\ Cardinality(Present(recs, 1, lo)) \in Nat
           /\ Cardinality(Present(recs, lo + 1, hi)) \in Nat
           /\ Cardinality(Present(recs, 1, hi)) =
                 Cardinality(Present(recs, 1, lo)) + Cardinality(Present(recs, lo + 1, hi))
  <1>1. ASSUME NEW z \in Nat, NEW y, y = z + 1, z <= lo
        PROVE  /\ Cardinality(Present(recs, y, lo)) \in 0..(lo - z)
               /\ Cardinality(Present(recs, y, hi)) =
                     Cardinality(Present(recs, y, lo)) + Cardinality(Present(recs, lo + 1, hi))
    BY <1>1, PresentIs
  <1>2. /\ Cardinality(Present(recs, lo + 1, hi)) \in 0..(hi - lo)
        /\ Cardinality(Present(recs, lo + 1, hi)) =
              Cardinality(Present(recs, lo + 1, hi)) + Cardinality(Present(recs, hi + 1, hi))
    <2>1. hi <= hi
      OBVIOUS
    <2>2. QED BY <2>1, PresentIs
  <1>3. 0 \in Nat /\ 1 = 0 + 1 /\ 0 <= lo
    OBVIOUS
  <1>4. QED BY <1>1, <1>2, <1>3

\* A chunk more is counted, or the last.
LEMMA CountAdds ==
    ASSUME RowInv, NEW a, RecsOK("count", a), StatsOK("count", a), NEW b,
           b.recs = a.recs, b.fresh = a.fresh,
           b.existing = a.existing + Cardinality(Known(Chunk(a))),
           NEW label, NEW hi \in Nat, hi = ChunkEnd(a),
           \/ label = "count" /\ b.done = hi
           \/ label = "upsert" /\ b.done = 0 /\ hi = Len(a.recs)
    PROVE  b.existing \in Nat /\ hi \in 0..Len(a.recs) /\ StatsOK(label, b) /\ StoredOK(label, b)
  <1> DEFINE recs == a.recs
             n == Len(recs)
             lo == a.done
             P(x, y) == Cardinality(Present(recs, x, y))
             known == Cardinality(Known(Chunk(a)))
  <1>1. /\ recs \in Seq(Record) /\ n \in Nat /\ lo \in Nat /\ hi \in lo..n
        /\ PartOf(Chunk(a), recs, lo, hi)
    <2>1. recs \in Seq(Record) /\ n \in Nat /\ lo \in 0..n
      BY RecsAre DEF RecsOK
    <2>2. hi \in lo..n /\ PartOf(Chunk(a), recs, lo, hi)
      BY <2>1, ChunkIs
    <2>3. QED BY <2>1, <2>2
  <1>2. /\ known \in Nat /\ known <= P(lo + 1, hi)
        /\ Unique(recs) => known = P(lo + 1, hi)
    <2>1. rows \in Seq(StoredRow) /\ Unique(rows)
      BY DEF RowInv, RowsTyped
    <2>2. lo <= hi /\ hi <= n
      BY <1>1
    <2> HIDE DEF recs, n, lo
    <2>3. QED BY <1>1, <2>1, <2>2, KnownCount DEF n
  <1>3. P(1, hi) = P(1, lo) + P(lo + 1, hi) /\ P(1, lo) \in Nat /\ P(lo + 1, hi) \in Nat
    <2>1. lo <= hi
      BY <1>1
    <2> HIDE DEF recs, n, lo
    <2>2. QED BY <1>1, <2>1, PresentFromFirst
  <1>4. a.existing \in Nat /\ a.fresh \in Nat /\ b.existing \in Nat
    BY <1>2 DEF RecsOK
  <1>5. ASSUME WoIds(recs) \cap renamed = {}
        PROVE  /\ b.fresh = 0 /\ b.existing <= P(1, hi)
               /\ ("rows" \notin crossed /\ Unique(recs)) => b.existing = P(1, hi)
    <2>1. /\ a.fresh = 0 /\ a.existing <= P(1, lo)
          /\ ("rows" \notin crossed /\ Unique(recs)) => a.existing = P(1, lo)
      BY <1>5 DEF StatsOK
    <2> HIDE DEF P, lo, recs, known
    <2>2. b.existing = a.existing + known /\ b.fresh = a.fresh
      BY DEF known
    <2>3. QED BY <1>2, <1>3, <1>4, <2>1, <2>2
  <1>6. StatsOK(label, b)
    <2>1. CASE label = "count" /\ b.done = hi
      BY <1>5, <2>1 DEF StatsOK
    <2>2. CASE label = "upsert" /\ b.done = 0 /\ hi = n
      <3>1. b.done + Cardinality(Present(b.recs, b.done + 1, Len(b.recs))) = P(1, hi)
        <4>1. b.done + 1 = 1 /\ b.recs = recs /\ Len(b.recs) = hi /\ b.done = 0
          BY <1>1, <2>2
        <4>2. P(1, hi) \in Nat
          <5> HIDE DEF P, lo
          <5>1. QED BY <1>3
        <4> HIDE DEF recs, n
        <4>3. QED BY <4>1, <4>2
      <3>2. ASSUME WoIds(recs) \cap renamed = {}
            PROVE  b.fresh + b.existing = b.existing
        <4> HIDE DEF P, recs, n, lo
        <4>1. QED BY <1>4, <1>5, <3>2
      <3>3. QED BY <1>5, <2>2, <3>1, <3>2 DEF StatsOK
    <2>3. QED BY <2>1, <2>2
  <1>7. StoredOK(label, b)
    BY DEF StoredOK, Written
  <1>8. hi \in 0..n
    BY <1>1
  <1>9. QED BY <1>4, <1>6, <1>7, <1>8

LEMMA ImportCountKeepsRows ==
    ASSUME Shape, RowInv, NEW r \in Requests, ImportCount(r)
    PROVE  RowInv'
  <1> DEFINE a == arg[r]
             known == Cardinality(Known(Chunk(a)))
             c == [a EXCEPT !.existing = a.existing + known]
             hi == ChunkEnd(a)
             n == Len(a.recs)
  <1>0. /\ pc[r] = "count" /\ UNCHANGED <<rows, sync>> /\ DOMAIN a = DOMAIN NoArg
        /\ RecsOK("count", a) /\ StatsOK("count", a) /\ "count" \in Importing
    BY DEF ImportCount, tables, Shape, ArgOK, RowInv, RowsTyped, ImportsInv, Importing
  <1>1. NextChunk(r, "count", "upsert", c)
    BY DEF ImportCount
  <1>2. /\ c.recs = a.recs /\ c.batch = a.batch /\ c.done = a.done
        /\ c.existing = a.existing + known /\ c.fresh = a.fresh /\ DOMAIN c = DOMAIN NoArg
    <2> HIDE DEF known, a
    <2>1. QED BY <1>0, ArgFields
  <1>3. hi \in Nat /\ n \in Nat /\ a.done \in Nat /\ hi <= n /\ (hi < n \/ hi = n)
    <2>1. n \in Nat /\ a.done \in 0..n
      BY <1>0, RecsAre DEF RecsOK
    <2>2. hi \in a.done..n
      BY <1>0, ChunkIs DEF RecsOK
    <2>3. QED BY <2>1, <2>2
  <1>4. ChunkEnd(c) = hi /\ Len(c.recs) = n
    BY <1>2 DEF ChunkEnd
  <1> HIDE DEF known, c
  <1>5. ASSUME NEW label \in {"count", "upsert"}, NEW v, Goto(r, label, [c EXCEPT !.done = v]),
               \/ label = "count" /\ v = hi
               \/ label = "upsert" /\ v = 0 /\ hi = n
        PROVE  RowInv'
    <2>1. PICK b : b = [c EXCEPT !.done = v]
      OBVIOUS
    <2>2. /\ b.recs = a.recs /\ b.batch = a.batch /\ b.done = v
          /\ b.existing = a.existing + known /\ b.fresh = a.fresh
      BY <1>2, <2>1, ArgFields
    <2>3. /\ Moved(r, label, b) /\ ops' \in ops..MaxOps /\ faults' \in 0..MaxFaults
          /\ crossed' \subseteq DOMAIN Writers /\ UNCHANGED <<ops, renamed, crossed>>
      <3>1. \A k \in DOMAIN Writers : label \in Writers[k] => pc[r] \in Writers[k]
        BY <1>0, WritersAre
      <3>2. QED BY <1>5, <2>1, <3>1, GotoesMoves
    <2>4. b.existing \in Nat /\ hi \in 0..n /\ StatsOK(label, b) /\ StoredOK(label, b)
      <3> HIDE DEF a, hi, n
      <3>1. \/ label = "count" /\ b.done = hi
            \/ label = "upsert" /\ b.done = 0 /\ hi = Len(a.recs)
        BY <1>5, <2>2 DEF n
      <3>2. b.existing = a.existing + Cardinality(Known(Chunk(a))) /\ hi = ChunkEnd(a)
        BY <2>2 DEF known, hi
      <3>3. QED BY <1>0, <1>3, <2>2, <3>1, <3>2, CountAdds DEF n
    <2>5. RecsOK(label, b)'
      <3>1. v \in 0..n
        BY <1>3, <1>5
      <3>2. QED BY <1>0, <2>2, <2>3, <2>4, <3>1 DEF RecsOK
    <2>6. StatsOK(label, b)' /\ StoredOK(label, b)'
      BY <1>0, <2>3, <2>4, RowsStay
    <2>7. label \in Importing
      BY DEF Importing
    <2>8. QED BY <1>0, <2>2, <2>3, <2>5, <2>6, <2>7, ImportingKeeps
  <1>6. CASE hi < n
    BY <1>1, <1>4, <1>5, <1>6 DEF NextChunk
  <1>7. CASE hi = n
    <2>1. ~(hi < n)
      BY <1>3, <1>7
    <2>2. QED BY <1>1, <1>4, <1>5, <1>7, <2>1 DEF NextChunk
  <1>8. QED BY <1>3, <1>6, <1>7

\* What a statement of an import has made of the rows.
Wrote(chunk, batch) ==
    /\ rows' \in Seq(StoredRow) /\ Unique(rows)'
    /\ Len(rows') = Len(rows) + Cardinality(NewOnes(chunk)) /\ DOMAIN rows \subseteq DOMAIN rows'
    /\ \A j \in DOMAIN rows :
          /\ rows'[j].data.woId = rows[j].data.woId
          /\ \/ rows[j].data.woId \in WoIds(chunk) /\ FromChunk(rows'[j], chunk, batch)
             \/ rows[j].data.woId \notin WoIds(chunk) /\ rows'[j] = rows[j]
    /\ \A j \in DOMAIN rows' \ DOMAIN rows :
          rows'[j].data.woId \in WoIds(chunk) /\ FromChunk(rows'[j], chunk, batch)
    /\ \A k \in DOMAIN chunk : \E j \in DOMAIN rows' : rows'[j].data.woId = chunk[k].data.woId

LEMMA UpsertWrites ==
    ASSUME rows \in Seq(StoredRow), Unique(rows), NEW chunk \in Seq(Record), Unique(chunk),
           NEW batch \in 1..MaxOps, rows' = Upserted(chunk, batch)
    PROVE  Wrote(chunk, batch)
  <1>1. LET R == Upserted(chunk, batch) IN
           /\ R \in Seq(StoredRow) /\ Unique(R)
           /\ Len(R) = Len(rows) + Cardinality(NewOnes(chunk)) /\ DOMAIN rows \subseteq DOMAIN R
           /\ \A j \in DOMAIN rows :
                 /\ R[j].data.woId = rows[j].data.woId
                 /\ IF rows[j].data.woId \in WoIds(chunk) THEN FromChunk(R[j], chunk, batch)
                                                         ELSE R[j] = rows[j]
           /\ \A j \in DOMAIN R \ DOMAIN rows :
                 R[j].data.woId \in WoIds(chunk) /\ FromChunk(R[j], chunk, batch)
           /\ \A k \in DOMAIN chunk : \E j \in DOMAIN R : R[j].data.woId = chunk[k].data.woId
    BY UpsertedIs
  <1> DEFINE R == Upserted(chunk, batch)
  <1>2. R = rows'
    OBVIOUS
  <1> HIDE DEF R
  <1>3. Unique(rows)'
    BY <1>1, <1>2 DEF Unique, R
  <1>4. QED BY <1>1, <1>2, <1>3 DEF Wrote, R

LEMMA WroteIds ==
    ASSUME NEW chunk, NEW batch, Wrote(chunk, batch)
    PROVE  Ids' = Ids \cup WoIds(chunk)
  <1>1. ASSUME NEW w \in Ids' PROVE w \in Ids \cup WoIds(chunk)
    <2>1. PICK j \in DOMAIN rows' : rows'[j].data.woId = w
      BY DEF Ids
    <2>2. QED BY <2>1 DEF Wrote, Ids
  <1>2. ASSUME NEW w \in Ids PROVE w \in Ids'
    <2>1. PICK j \in DOMAIN rows : rows[j].data.woId = w
      BY DEF Ids
    <2>2. j \in DOMAIN rows' /\ rows'[j].data.woId = w
      BY <2>1 DEF Wrote
    <2>3. QED BY <2>2 DEF Ids
  <1>3. ASSUME NEW w \in WoIds(chunk) PROVE w \in Ids'
    <2>1. PICK k \in DOMAIN chunk : chunk[k].data.woId = w
      BY DEF WoIds
    <2>2. PICK j \in DOMAIN rows' : rows'[j].data.woId = w
      BY <2>1 DEF Wrote
    <2>3. QED BY <2>2 DEF Ids
  <1>4. QED BY <1>1, <1>2, <1>3

LEMMA PresentGrows ==
    ASSUME Ids \subseteq Ids', NEW recs, NEW m \in Nat, NEW n \in Nat
    PROVE  /\ Cardinality(Present(recs, m, n)) \in Nat /\ Cardinality(Present(recs, m, n)') \in Nat
           /\ Cardinality(Present(recs, m, n)) <= Cardinality(Present(recs, m, n)')
           /\ (\A i \in m..n : recs[i].data.woId \in Ids' => recs[i].data.woId \in Ids) =>
                 Cardinality(Present(recs, m, n)) = Cardinality(Present(recs, m, n)')
  <1> DEFINE P == Present(recs, m, n)
             Q == Present(recs, m, n)'
  <1>1. Q = {i \in m..n : recs[i].data.woId \in Ids'}
    BY DEF Present
  <1>2. P \subseteq Q /\ Q \in SUBSET (m..n)
    BY <1>1 DEF Present
  <1>3. (\A i \in m..n : recs[i].data.woId \in Ids' => recs[i].data.woId \in Ids) => P = Q
    BY <1>1 DEF Present
  <1> HIDE DEF P, Q
  <1>4. IsFiniteSet(m..n)
    BY FS_Interval
  <1>5. IsFiniteSet(Q)
    BY <1>2, <1>4, FS_Subset
  <1>6. IsFiniteSet(P) /\ Cardinality(P) <= Cardinality(Q)
    BY <1>2, <1>5, FS_Subset
  <1>7. Cardinality(P) \in Nat /\ Cardinality(Q) \in Nat
    BY <1>5, <1>6, FS_CardinalityType
  <1>8. P = Q => Cardinality(P) = Cardinality(Q)
    OBVIOUS
  <1>9. QED BY <1>3, <1>6, <1>7, <1>8 DEF P, Q

\* An import that another one runs into.
LEMMA OthersKeep ==
    ASSUME NEW chunk, NEW batch, Wrote(chunk, batch), UNCHANGED renamed, "rows" \in crossed,
           crossed \subseteq crossed', NEW label, NEW a, RecsOK(label, a), a.batch # batch,
           StatsOK(label, a), StoredOK(label, a)
    PROVE  StatsOK(label, a)' /\ StoredOK(label, a)'
  <1>0. a.recs \in Seq(Record) /\ Len(a.recs) \in Nat /\ a.done \in Nat /\ a.done + 1 \in Nat
    BY RecsAre DEF RecsOK
  <1>1. StatsOK(label, a)'
    <2> DEFINE P(m, n) == Cardinality(Present(a.recs, m, n))
    <2>1. /\ P(1, a.done) <= P(1, a.done)' /\ P(1, a.done) \in Nat /\ P(1, a.done)' \in Nat
          /\ P(a.done + 1, Len(a.recs)) <= P(a.done + 1, Len(a.recs))'
          /\ P(a.done + 1, Len(a.recs)) \in Nat /\ P(a.done + 1, Len(a.recs))' \in Nat
      <3>1. Ids \subseteq Ids'
        BY WroteIds
      <3>2. QED BY <1>0, <3>1, PresentGrows
    <2>2. a.existing \in Nat /\ a.fresh \in Nat
      BY DEF RecsOK
    <2>3. "rows" \in crossed'
      OBVIOUS
    <2>4. QED BY <1>0, <2>1, <2>2, <2>3 DEF StatsOK, WoIds
  <1>2. ASSUME NEW i \in 1..Written(label, a), IsStored(a, i) PROVE IsStored(a, i)'
    <2>1. ASSUME NEW j \in DOMAIN rows, RowHolds(rows[j], a, i) PROVE RowHolds(rows[j], a, i)'
      <3>1. j \in DOMAIN rows' /\ rows'[j].data.woId = rows[j].data.woId
        BY DEF Wrote
      <3>2. CASE rows'[j] = rows[j]
        BY <2>1, <3>2 DEF RowHolds
      <3>3. CASE FromChunk(rows'[j], chunk, batch)
        BY <2>1, <3>1, <3>3 DEF RowHolds, FromChunk
      <3>4. QED BY <3>2, <3>3 DEF Wrote
    <2>2. \A j \in DOMAIN rows : j \in DOMAIN rows'
      BY DEF Wrote
    <2>3. QED BY <1>2, <2>1, <2>2 DEF IsStored
  <1>3. StoredOK(label, a)'
    BY <1>2 DEF StoredOK, Written
  <1>4. QED BY <1>1, <1>3

\* The import that writes: its counts,
LEMMA UpsertAdds ==
    ASSUME NEW a, RecsOK("upsert", a), StatsOK("upsert", a), NEW hi \in Nat, hi = ChunkEnd(a),
           Wrote(Chunk(a), a.batch), UNCHANGED <<renamed, crossed>>,
           rows \in Seq(StoredRow),
           NEW b, b.recs = a.recs, b.existing = a.existing,
           b.fresh = a.fresh + Len(rows') - Len(rows),
           NEW label,
           \/ label = "upsert" /\ b.done = hi
           \/ label = "use" /\ hi = Len(a.recs)
    PROVE  b.fresh \in Nat /\ StatsOK(label, b)'
  <1> DEFINE recs == a.recs
             n == Len(recs)
             lo == a.done
             P(x, y) == Cardinality(Present(recs, x, y))
             new == Cardinality(NewOnes(Chunk(a)))
  <1>1. /\ recs \in Seq(Record) /\ n \in Nat /\ lo \in Nat /\ hi \in lo..n /\ lo <= hi /\ hi <= n
        /\ PartOf(Chunk(a), recs, lo, hi)
    <2>1. recs \in Seq(Record) /\ n \in Nat /\ lo \in 0..n
      BY RecsAre DEF RecsOK
    <2>2. hi \in lo..n /\ PartOf(Chunk(a), recs, lo, hi)
      BY <2>1, ChunkIs
    <2>3. QED BY <2>1, <2>2
  <1>2. new \in Nat /\ new = (hi - lo) - P(lo + 1, hi)
    <2> HIDE DEF recs, n, lo
    <2>1. QED BY <1>1, NewCount DEF n
  <1>3. P(lo + 1, n) = P(lo + 1, hi) + P(hi + 1, n)
    <2>1. lo \in Nat /\ n \in Nat /\ hi \in Nat /\ lo <= hi /\ hi <= n
      BY <1>1
    <2> HIDE DEF recs, n, lo
    <2>2. Cardinality(Present(recs, lo + 1, n)) =
             Cardinality(Present(recs, lo + 1, hi)) + Cardinality(Present(recs, hi + 1, n))
      BY <2>1, PresentIs
    <2>3. QED BY <2>2
  <1>4. P(lo + 1, hi) \in Nat
    <2>1. lo \in Nat /\ lo <= hi
      BY <1>1
    <2> HIDE DEF recs, n, lo
    <2>2. QED BY <2>1, PresentFromFirst
  <1>5. /\ P(hi + 1, n) \in Nat /\ P(hi + 1, n)' \in Nat /\ P(hi + 1, n) <= P(hi + 1, n)'
        /\ Unique(recs) => P(hi + 1, n) = P(hi + 1, n)'
    <2>1. Ids' = Ids \cup WoIds(Chunk(a))
      BY WroteIds
    <2>2. ASSUME Unique(recs), NEW i \in (hi + 1)..n PROVE recs[i].data.woId \notin WoIds(Chunk(a))
      <3>1. ASSUME NEW k \in DOMAIN Chunk(a), Chunk(a)[k].data.woId = recs[i].data.woId PROVE FALSE
        <4>1. k \in 1..(hi - lo) /\ Chunk(a)[k] = recs[lo + k]
          BY <1>1 DEF PartOf
        <4>2. lo + k \in 1..n /\ i \in 1..n /\ lo + k # i
          BY <1>1, <4>1
        <4>3. DOMAIN recs = 1..n
          BY <1>1, RecsAre
        <4>4. recs[lo + k].data.woId = recs[i].data.woId
          BY <3>1, <4>1
        <4> HIDE DEF recs, lo, n
        <4>5. QED BY <2>2, <4>2, <4>3, <4>4 DEF Unique
      <3>2. QED BY <3>1 DEF WoIds
    <2>3. hi + 1 \in Nat
      OBVIOUS
    <2>4. Ids \subseteq Ids'
      BY <2>1
    <2>5. Unique(recs) => \A i \in (hi + 1)..n : recs[i].data.woId \in Ids' => recs[i].data.woId \in Ids
      BY <2>1, <2>2
    <2>6. n \in Nat
      BY <1>1
    <2> HIDE DEF recs, n
    <2>7. QED BY <2>3, <2>4, <2>5, <2>6, PresentGrows
  <1>6. b.fresh = a.fresh + new /\ b.fresh \in Nat /\ a.fresh \in Nat /\ a.existing \in Nat
    <2>1. Len(rows') = Len(rows) + new /\ Len(rows) \in Nat
      BY LenProperties DEF Wrote
    <2>2. a.fresh \in Nat /\ a.existing \in Nat
      BY DEF RecsOK
    <2> HIDE DEF new
    <2>3. QED BY <1>2, <2>1, <2>2
  <1>7. ASSUME WoIds(recs) \cap renamed' = {}
        PROVE  /\ b.fresh + b.existing <= hi + P(hi + 1, n)'
               /\ ("rows" \notin crossed' /\ Unique(recs)) => b.fresh + b.existing = hi + P(hi + 1, n)'
    <2>1. /\ a.fresh + a.existing <= lo + P(lo + 1, n)
          /\ ("rows" \notin crossed /\ Unique(recs)) => a.fresh + a.existing = lo + P(lo + 1, n)
      BY <1>7 DEF StatsOK
    <2>2. lo + P(lo + 1, n) + new = hi + P(hi + 1, n)
      <3> HIDE DEF P, lo, recs, n, new
      <3>1. QED BY <1>1, <1>2, <1>3, <1>4, <1>5
    <2>3. b.fresh + b.existing = a.fresh + a.existing + new
      <3> HIDE DEF new
      <3>1. QED BY <1>2, <1>6
    <2> DEFINE before == P(lo + 1, n)
               after == P(hi + 1, n)
               then == P(hi + 1, n)'
    <2>4. before \in Nat
      <3> HIDE DEF P, lo, recs, n
      <3>1. QED BY <1>3, <1>4, <1>5
    <2>5. after \in Nat /\ then \in Nat /\ after <= then /\ (Unique(recs) => after = then)
      BY <1>5
    <2> HIDE DEF P, lo, recs, n, new, before, after, then
    <2>6. lo + before + new = hi + after
      BY <2>2 DEF before, after
    <2>7. /\ a.fresh + a.existing <= lo + before
          /\ ("rows" \notin crossed /\ Unique(recs)) => a.fresh + a.existing = lo + before
      BY <2>1 DEF before
    <2>8. /\ b.fresh + b.existing <= hi + then
          /\ ("rows" \notin crossed' /\ Unique(recs)) => b.fresh + b.existing = hi + then
      <3>1. lo \in Nat /\ new \in Nat /\ a.fresh \in Nat /\ a.existing \in Nat
        BY <1>1, <1>2, <1>6
      <3>2. PICK x \in Nat, y \in Nat : x = a.fresh + a.existing /\ y = b.fresh + b.existing
        <4>1. b.existing \in Nat /\ b.fresh \in Nat
          BY <1>6, <3>1
        <4>2. a.fresh + a.existing \in Nat /\ b.fresh + b.existing \in Nat
          BY <3>1, <4>1
        <4>3. QED BY <4>2
      <3>3. y = x + new /\ x <= lo + before
            /\ (("rows" \notin crossed' /\ Unique(recs)) => x = lo + before)
        BY <2>3, <2>7, <3>2
      <3>4. y <= hi + then
        BY <2>4, <2>5, <2>6, <3>1, <3>3
      <3>5. ASSUME "rows" \notin crossed' /\ Unique(recs) PROVE y = hi + then
        BY <2>4, <2>5, <2>6, <3>1, <3>3, <3>5
      <3>6. QED BY <3>2, <3>4, <3>5
    <2>9. QED BY <2>8 DEF then
  <1>8. CASE label = "upsert" /\ b.done = hi
    BY <1>6, <1>7, <1>8 DEF StatsOK, WoIds, Unique
  <1>9. CASE label = "use" /\ hi = n
    <2>1. P(n + 1, n)' = 0
      <3>1. Present(recs, n + 1, n)' = {}
        BY <1>1 DEF Present
      <3>2. QED BY <3>1, FS_EmptySet
    <2>2. hi + P(hi + 1, n)' = n
      <3>1. P(hi + 1, n)' = 0
        BY <1>9, <2>1
      <3> HIDE DEF P, recs, n
      <3>2. QED BY <1>1, <1>9, <3>1
    <2>3. QED BY <1>6, <1>7, <1>9, <2>2 DEF StatsOK, WoIds, Unique
  <1>10. QED BY <1>8, <1>9

\* and its records.
LEMMA UpsertStores ==
    ASSUME NEW a, RecsOK("upsert", a), StoredOK("upsert", a), NEW hi \in Nat, hi = ChunkEnd(a),
           Unique(Chunk(a)), Wrote(Chunk(a), a.batch), UNCHANGED <<renamed, crossed>>,
           NEW b, b.recs = a.recs, b.batch = a.batch, NEW label,
           \/ label = "upsert" /\ b.done = hi
           \/ label = "use" /\ hi = Len(a.recs)
    PROVE  StoredOK(label, b)'
  <1> DEFINE recs == a.recs
             n == Len(recs)
             lo == a.done
             chunk == Chunk(a)
  <1>1. /\ n \in Nat /\ lo \in Nat /\ hi \in lo..n
        /\ PartOf(chunk, recs, lo, hi) /\ DOMAIN chunk = 1..(hi - lo)
    <2>1. recs \in Seq(Record) /\ n \in Nat /\ lo \in 0..n
      BY RecsAre DEF RecsOK
    <2>2. hi \in lo..n /\ PartOf(chunk, recs, lo, hi)
      BY <2>1, ChunkIs
    <2>3. QED BY <2>1, <2>2 DEF PartOf
  <1>2. Written(label, b)' = hi
    BY DEF Written
  <1>3. ASSUME NEW i \in 1..hi, NEW j \in DOMAIN rows', NEW k \in DOMAIN chunk,
               rows'[j].data.woId = recs[i].data.woId, rows'[j].batch = a.batch,
               chunk[k].data.woId = recs[i].data.woId, lo + k >= i,
               \A f \in Fields : chunk[k].data[f] \in {rows'[j].data[f], Absent}
        PROVE  RowHolds(rows[j], b, i)'
    <2>1. chunk[k] = recs[lo + k] /\ lo + k \in i..n
      BY <1>1, <1>3 DEF PartOf
    <2>2. \E m \in i..Len(b.recs) :
             /\ b.recs[m].data.woId = b.recs[i].data.woId
             /\ \A f \in Fields : b.recs[m].data[f] \in {rows'[j].data[f], Absent}
      BY <1>3, <2>1
    <2>3. rows'[j].data.woId = b.recs[i].data.woId
      BY <1>3
    <2>4. QED BY <2>2, <2>3 DEF RowHolds
  <1>4. ASSUME NEW i \in 1..lo, IsStored(a, i) PROVE IsStored(b, i)'
    <2>1. CASE recs[i].data.woId \in renamed
      BY <2>1 DEF IsStored
    <2>2. ASSUME NEW j \in DOMAIN rows, RowHolds(rows[j], a, i) PROVE RowHolds(rows[j], b, i)'
      <3>1. j \in DOMAIN rows' /\ rows'[j].data.woId = rows[j].data.woId
            /\ rows[j].data.woId = recs[i].data.woId
        BY <2>2 DEF Wrote, RowHolds
      <3>2. CASE rows'[j] = rows[j]
        BY <2>2, <3>2 DEF RowHolds
      <3>3. CASE FromChunk(rows'[j], chunk, a.batch)
        <4>1. PICK k \in DOMAIN chunk :
                 /\ chunk[k].data.woId = rows'[j].data.woId
                 /\ \A f \in Fields : chunk[k].data[f] \in {rows'[j].data[f], Absent}
          BY <3>3 DEF FromChunk
        <4>2. rows'[j].batch = a.batch /\ lo + k >= i /\ i \in 1..hi
          BY <1>1, <3>3 DEF FromChunk
        <4> HIDE DEF chunk, recs, lo
        <4>3. QED BY <1>3, <3>1, <4>1, <4>2
      <3>4. QED BY <3>2, <3>3 DEF Wrote
    <2>3. \A j \in DOMAIN rows : j \in DOMAIN rows'
      BY DEF Wrote
    <2>4. QED BY <1>4, <2>1, <2>2, <2>3 DEF IsStored
  <1>5. ASSUME NEW i \in (lo + 1)..hi PROVE IsStored(b, i)'
    <2>1. i - lo \in DOMAIN chunk /\ chunk[i - lo] = recs[i] /\ lo + (i - lo) = i /\ i \in 1..hi
      <3>1. i - lo \in 1..(hi - lo) /\ lo + (i - lo) = i /\ i \in 1..hi
        BY <1>1
      <3>2. chunk[i - lo] = recs[lo + (i - lo)]
        BY <1>1, <3>1 DEF PartOf
      <3>3. QED BY <1>1, <3>1, <3>2
    <2>2. PICK j \in DOMAIN rows' : rows'[j].data.woId = recs[i].data.woId
      BY <2>1 DEF Wrote
    <2>3. recs[i].data.woId \in WoIds(chunk)
      BY <2>1 DEF WoIds
    <2>4. FromChunk(rows'[j], chunk, a.batch)
      <3>1. CASE j \in DOMAIN rows
        BY <2>2, <2>3, <3>1 DEF Wrote
      <3>2. CASE j \notin DOMAIN rows
        BY <2>2, <3>2 DEF Wrote
      <3>3. QED BY <3>1, <3>2
    <2>5. PICK k \in DOMAIN chunk :
             /\ chunk[k].data.woId = rows'[j].data.woId
             /\ \A f \in Fields : chunk[k].data[f] \in {rows'[j].data[f], Absent}
      BY <2>4 DEF FromChunk
    <2>6. k = i - lo
      BY <2>1, <2>2, <2>5 DEF Unique
    <2>7. lo + k >= i /\ rows'[j].batch = a.batch
      BY <1>1, <2>1, <2>4, <2>6 DEF FromChunk
    <2>8. RowHolds(rows[j], b, i)'
      <3> HIDE DEF chunk, recs, lo
      <3>1. QED BY <1>3, <2>1, <2>2, <2>5, <2>7
    <2>9. QED BY <2>8 DEF IsStored
  <1>6. \A i \in 1..hi : IsStored(b, i)'
    <2>1. \A i \in 1..lo : IsStored(a, i)
      BY DEF StoredOK, Written
    <2>2. \A i \in 1..hi : i \in 1..lo \/ i \in (lo + 1)..hi
      BY <1>1
    <2>3. QED BY <1>4, <1>5, <2>1, <2>2
  <1>7. QED BY <1>2, <1>6 DEF StoredOK

LEMMA ImportUpsertKeepsRows ==
    ASSUME Shape, RowInv, NEW r \in Requests, ImportUpsert(r)
    PROVE  RowInv'
  <1>0. /\ pc[r] = "upsert" /\ DOMAIN arg[r] = DOMAIN NoArg
        /\ RecsOK("upsert", arg[r]) /\ StatsOK("upsert", arg[r]) /\ StoredOK("upsert", arg[r])
        /\ "upsert" \in Importing /\ sync' \in {"none", "pending"}
    BY DEF ImportUpsert, Shape, ArgOK, RowInv, RowsTyped, ImportsInv, Importing
  <1>1. CASE Finish(r) /\ UNCHANGED rows
    BY <1>0, <1>1, FinishAway
  <1>2. ASSUME Cardinality(WoIds(Chunk(arg[r]))) = Len(Chunk(arg[r])),
               rows' = Upserted(Chunk(arg[r]), arg[r].batch),
               NextChunk(r, "upsert", "use", [arg[r] EXCEPT !.fresh = @ + Len(rows') - Len(rows)])
        PROVE  RowInv'
    <2>1. PICK a : a = arg[r]
      OBVIOUS
    <2> DEFINE c == [a EXCEPT !.fresh = a.fresh + Len(rows') - Len(rows)]
               hi == ChunkEnd(a)
               n == Len(a.recs)
    <2>2. RecsOK("upsert", a) /\ StatsOK("upsert", a) /\ StoredOK("upsert", a)
      BY <1>0, <2>1
    <2>3. /\ a.recs \in Seq(Record) /\ n \in Nat /\ a.done \in Nat /\ hi \in Nat /\ hi <= n
          /\ (hi < n \/ hi = n) /\ Chunk(a) \in Seq(Record)
          /\ Len(Chunk(a)) \in Nat /\ DOMAIN Chunk(a) = 1..Len(Chunk(a))
      <3>1. a.recs \in Seq(Record) /\ n \in Nat /\ a.done \in 0..n
        BY <2>2, RecsAre DEF RecsOK
      <3>2. hi \in a.done..n /\ Chunk(a) \in Seq(Record)
        BY <3>1, ChunkIs DEF PartOf
      <3>3. Len(Chunk(a)) \in Nat /\ DOMAIN Chunk(a) = 1..Len(Chunk(a))
        BY <3>2, LenProperties
      <3>4. QED BY <3>1, <3>2, <3>3
    <2>4. Unique(Chunk(a)) /\ a.batch \in 1..MaxOps
      <3>1. Cardinality(WoIds(Chunk(a))) = Len(Chunk(a))
        BY <1>2, <2>1
      <3>2. Unique(Chunk(a))
        BY <2>3, <3>1, DistinctIds
      <3>3. ops \in 0..MaxOps /\ MaxOps \in Nat /\ a.batch \in 0..ops /\ a.batch # 0
        BY <1>0, <2>2, ConstantsAssumption DEF RowInv, RowsTyped, RecsOK
      <3>4. QED BY <3>2, <3>3
    <2>5. Wrote(Chunk(a), a.batch)
      <3>1. rows \in Seq(StoredRow) /\ Unique(rows) /\ rows' = Upserted(Chunk(a), a.batch)
        BY <1>2, <2>1 DEF RowInv, RowsTyped
      <3>2. QED BY <2>3, <2>4, <3>1, UpsertWrites
    <2>6. NextChunk(r, "upsert", "use", c)
      BY <1>2, <2>1
    <2>7. /\ c.recs = a.recs /\ c.batch = a.batch /\ c.done = a.done /\ c.existing = a.existing
          /\ c.fresh = a.fresh + Len(rows') - Len(rows) /\ DOMAIN c = DOMAIN NoArg
      BY <1>0, <2>1, ArgFields
    <2>8. ChunkEnd(c) = hi /\ Len(c.recs) = n
      BY <2>7 DEF ChunkEnd
    <2> HIDE DEF c
    <2>9. ASSUME NEW label \in {"upsert", "use"}, NEW v, Goto(r, label, [c EXCEPT !.done = v]),
                 \/ label = "upsert" /\ v = hi
                 \/ label = "use" /\ v = 0 /\ hi = n
          PROVE  RowInv'
      <3>1. PICK b : b = [c EXCEPT !.done = v]
        OBVIOUS
      <3>2. /\ b.recs = a.recs /\ b.batch = a.batch /\ b.done = v /\ b.existing = a.existing
            /\ b.fresh = a.fresh + Len(rows') - Len(rows)
        BY <2>7, <3>1, ArgFields
      <3>3. /\ Moved(r, label, b) /\ ops' \in ops..MaxOps /\ faults' \in 0..MaxFaults
            /\ crossed' \subseteq DOMAIN Writers /\ UNCHANGED <<ops, renamed, crossed>>
        <4>1. \A k \in DOMAIN Writers : label \in Writers[k] => pc[r] \in Writers[k]
          BY <1>0, WritersAre
        <4>2. QED BY <2>9, <3>1, <4>1, GotoesMoves
      <3>4. b.fresh \in Nat /\ StatsOK(label, b)' /\ StoredOK(label, b)'
        <4> HIDE DEF hi, n
        <4>1. \/ label = "upsert" /\ b.done = hi
              \/ label = "use" /\ hi = Len(a.recs)
          BY <2>9, <3>2 DEF n
        <4>2. hi = ChunkEnd(a) /\ rows \in Seq(StoredRow)
          BY DEF hi, RowInv, RowsTyped
        <4>3. b.fresh \in Nat /\ StatsOK(label, b)'
          BY <2>2, <2>3, <2>5, <3>2, <3>3, <4>1, <4>2, UpsertAdds
        <4>4. StoredOK(label, b)'
          BY <2>2, <2>3, <2>4, <2>5, <3>2, <3>3, <4>1, <4>2, UpsertStores
        <4>5. QED BY <4>3, <4>4
      <3>5. RecsOK(label, b)'
        <4>1. v \in 0..n
          BY <2>3, <2>9
        <4>2. QED BY <1>0, <2>2, <3>2, <3>3, <3>4, <4>1 DEF RecsOK
      <3>6. ASSUME NEW q \in Requests \ {r} PROVE (StatsOK(pc[q], arg[q]) /\ StoredOK(pc[q], arg[q]))'
        <4>1. pc'[q] = pc[q] /\ arg'[q] = arg[q]
          BY <3>3 DEF Moved
        <4>2. StatsOK(pc[q], arg[q]) /\ StoredOK(pc[q], arg[q]) /\ RecsOK(pc[q], arg[q])
          BY DEF RowInv, ImportsInv, RowsTyped
        <4>3. PICK l, x : l = pc[q] /\ x = arg[q]
          OBVIOUS
        <4>4. StatsOK(l, x)' /\ StoredOK(l, x)'
          <5>1. CASE l \notin Importing
            BY <5>1, NotImporting
          <5>2. CASE l \in Importing
            <6>1. x.batch # a.batch
              BY <1>0, <2>1, <4>3, <5>2 DEF RowInv, BatchInv
            <6>2. "rows" \in crossed
              <7>1. "rows" \notin crossed => Alone("rows")
                BY DEF RowInv, BatchInv
              <7>2. Writers["rows"] = Importing
                BY WritersAre DEF Importing
              <7>3. QED BY <1>0, <4>3, <5>2, <7>1, <7>2 DEF Alone
            <6>3. UNCHANGED renamed /\ crossed \subseteq crossed'
              BY <3>3
            <6>4. StatsOK(l, x) /\ StoredOK(l, x) /\ RecsOK(l, x)
              BY <4>2, <4>3
            <6>5. QED BY <2>5, <6>1, <6>2, <6>3, <6>4, OthersKeep
          <5>3. QED BY <5>1, <5>2
        <4>5. pc'[q] = l /\ arg'[q] = x
          BY <4>1, <4>3
        <4>6. StatsOK(pc[q], arg[q])' /\ StoredOK(pc[q], arg[q])'
          BY <4>4, <4>5
        <4>7. QED BY <4>6
      <3>7. (rows \in Seq(StoredRow) /\ Unique(rows) /\ renamed \subseteq Cells)'
        BY <2>5, <3>3 DEF Wrote, RowInv, RowsTyped
      <3>8. label \in {"idle"} \cup InFlight /\ a.batch = arg[r].batch /\ pc[r] \in Importing
        BY <1>0, <2>1, InFlightAre
      <3>9. QED BY <1>0, <3>2, <3>3, <3>4, <3>5, <3>6, <3>7, <3>8, RowInvMoves
    <2>10. CASE hi < n
      BY <2>6, <2>8, <2>9, <2>10 DEF NextChunk
    <2>11. CASE hi = n
      <3>1. ~(hi < n)
        BY <2>3, <2>11
      <3>2. QED BY <2>6, <2>8, <2>9, <2>11, <3>1 DEF NextChunk
    <2>12. QED BY <2>3, <2>10, <2>11
  <1>3. QED BY <1>1, <1>2 DEF ImportUpsert

-------------------------------------------------------------------------------
\* An edit of row i takes it out of what the imports say of it; what they say of its old
\* and its new work order is not held against them.
LEMMA EditKeepsRows ==
    ASSUME RowInv, NEW i \in DOMAIN rows, NEW f \in Fields, NEW v \in Edits, Edit(i, f, v)
    PROVE  RowInv'
  <1> DEFINE old == rows[i]
             data == [old.data EXCEPT ![f] = v]
             e == [old EXCEPT !.data = data, !.edited = TRUE]
  <1>0. /\ rows \in Seq(StoredRow) /\ Unique(rows) /\ Len(rows) \in Nat
        /\ DOMAIN rows = 1..Len(rows) /\ \A j \in DOMAIN rows : rows[j] \in StoredRow
    <2>1. rows \in Seq(StoredRow) /\ Unique(rows)
      BY DEF RowInv, RowsTyped
    <2>2. QED BY <2>1, LenProperties
  <1>1. /\ ops < MaxOps /\ ops' = ops + 1 /\ UNCHANGED <<sync, pc, arg, faults, crossed>>
        /\ f = "woId" => v # Absent /\ \A j \in DOMAIN rows \ {i} : rows[j].data.woId # v
        /\ renamed' = IF f = "woId" THEN renamed \cup {rows[i].data.woId, v} ELSE renamed
    BY DEF Edit
  <1>2. /\ old.raw \in SheetRows /\ old.data \in Data /\ old.data.woId # Absent
        /\ old.data.woId \in Cells /\ old.batch \in 1..MaxOps /\ v \in Cells \cup {Absent}
        /\ DOMAIN old = {"raw", "data", "batch", "edited"}
    <2>1. old \in StoredRow
      BY <1>0
    <2>2. DOMAIN old = {"raw", "data", "batch", "edited"}
      BY <2>1 DEF StoredRow
    <2>3. v \in Cells \cup {Absent}
      BY ConstantsAssumption
    <2>4. QED BY <2>1, <2>2, <2>3, StoredFields
  <1>3. /\ data \in Data /\ data[f] = v /\ \A g \in Fields \ {f} : data[g] = old.data[g]
        /\ data.woId = IF f = "woId" THEN v ELSE old.data.woId
    BY <1>2 DEF Data, Fields
  <1>4. e.raw = old.raw /\ e.data = data /\ e.batch = old.batch /\ e.edited = TRUE
        /\ e = [raw |-> old.raw, data |-> data, batch |-> old.batch, edited |-> TRUE]
    <2> DEFINE plain == [raw |-> old.raw, data |-> old.data, batch |-> old.batch, edited |-> old.edited]
    <2>1. old = plain
      BY <1>0 DEF StoredRow
    <2>2. e = [plain EXCEPT !.data = data, !.edited = TRUE]
      <3> HIDE DEF old, data, plain
      <3>1. QED BY <2>1
    <2> HIDE DEF old, data, e
    <2>3. QED BY <2>2
  <1>5. rows' = [rows EXCEPT ![i] = e]
    BY DEF Edit
  <1> HIDE DEF e, data
  <1>6. e \in StoredRow /\ e.data.woId = IF f = "woId" THEN v ELSE old.data.woId
    <2>1. data.woId # Absent
      BY <1>1, <1>2, <1>3
    <2>2. QED BY <1>2, <1>3, <1>4, <2>1 DEF StoredRow
  <1>7. /\ DOMAIN rows' = DOMAIN rows /\ rows'[i] = e
        /\ \A j \in DOMAIN rows \ {i} : rows'[j] = rows[j]
    BY <1>5
  <1>8. rows' \in Seq(StoredRow)
    <2>1. rows' \in [1..Len(rows) -> StoredRow]
      BY <1>0, <1>5, <1>6
    <2>2. QED BY <1>0, <2>1
  <1>9. Unique(rows)'
    <2>1. \A j \in DOMAIN rows \ {i} : rows'[j].data.woId # rows'[i].data.woId
      BY <1>0, <1>1, <1>6, <1>7 DEF Unique
    <2>2. QED BY <1>0, <1>7, <2>1 DEF Unique
  <1>10. renamed \subseteq renamed' /\ renamed' \subseteq Cells
    BY <1>1, <1>2 DEF RowInv, RowsTyped
  <1>11. /\ Ids' \subseteq Ids \cup renamed' /\ Ids \subseteq Ids' \cup renamed'
    <2>1. ASSUME NEW w \in Ids' PROVE w \in Ids \cup renamed'
      <3>1. PICK j \in DOMAIN rows : rows'[j].data.woId = w
        BY <1>7 DEF Ids
      <3>2. CASE j = i
        BY <1>1, <1>6, <1>7, <3>1, <3>2 DEF Ids
      <3>3. CASE j # i
        BY <1>7, <3>1, <3>3 DEF Ids
      <3>4. QED BY <3>2, <3>3
    <2>2. ASSUME NEW w \in Ids PROVE w \in Ids' \cup renamed'
      <3>1. PICK j \in DOMAIN rows : rows[j].data.woId = w
        BY DEF Ids
      <3>2. CASE j = i
        BY <1>1, <1>6, <1>7, <3>1, <3>2 DEF Ids
      <3>3. CASE j # i
        BY <1>7, <3>1, <3>3 DEF Ids
      <3>4. QED BY <3>2, <3>3
    <2>3. QED BY <2>1, <2>2
  <1>12. ASSUME NEW label, NEW a, RecsOK(label, a), StatsOK(label, a) PROVE StatsOK(label, a)'
    <2>1. a.recs \in Seq(Record) /\ Len(a.recs) \in Nat /\ a.done \in 0..Len(a.recs)
          /\ DOMAIN a.recs = 1..Len(a.recs)
      BY <1>12, RecsAre DEF RecsOK
    <2>2. CASE WoIds(a.recs) \cap renamed' # {}
      BY <2>2 DEF StatsOK, WoIds
    <2>3. CASE WoIds(a.recs) \cap renamed' = {}
      <3>1. \A k \in DOMAIN a.recs : a.recs[k].data.woId \in Ids' <=> a.recs[k].data.woId \in Ids
        BY <1>11, <2>3 DEF WoIds
      <3>2. UNCHANGED Present(a.recs, 1, a.done) /\ UNCHANGED Present(a.recs, a.done + 1, Len(a.recs))
        <4>1. \A k \in 1..a.done : k \in DOMAIN a.recs
          BY <2>1
        <4>2. \A k \in (a.done + 1)..Len(a.recs) : k \in DOMAIN a.recs
          BY <2>1
        <4>3. QED BY <3>1, <4>1, <4>2 DEF Present
      <3>3. WoIds(a.recs) \cap renamed = {} /\ UNCHANGED crossed
        BY <1>1, <1>10, <2>3
      <3>4. QED BY <1>12, <3>2, <3>3 DEF StatsOK, WoIds, Unique
    <2>4. QED BY <2>2, <2>3
  <1>13. ASSUME NEW a, NEW k, IsStored(a, k) PROVE IsStored(a, k)'
    <2>1. CASE a.recs[k].data.woId \in renamed'
      BY <2>1 DEF IsStored
    <2>2. ASSUME a.recs[k].data.woId \notin renamed',
                 NEW j \in DOMAIN rows, RowHolds(rows[j], a, k)
          PROVE  RowHolds(rows[j], a, k)'
      <3>1. CASE j = i
        <4>1. f # "woId"
          BY <1>1, <2>2, <3>1 DEF RowHolds
        <4>2. QED BY <1>4, <1>6, <1>7, <2>2, <3>1, <4>1 DEF RowHolds
      <3>2. CASE j # i
        BY <1>1, <1>7, <2>2, <3>2 DEF RowHolds
      <3>3. QED BY <3>1, <3>2
    <2>3. a.recs[k].data.woId \in renamed => a.recs[k].data.woId \in renamed'
      BY <1>10
    <2>4. \A j \in DOMAIN rows : j \in DOMAIN rows'
      BY <1>7
    <2>5. QED BY <1>13, <2>1, <2>2, <2>3, <2>4 DEF IsStored
  <1>14. ASSUME NEW label, NEW a, StoredOK(label, a) PROVE StoredOK(label, a)'
    BY <1>13, <1>14 DEF StoredOK, Written
  <1>15. ImportsInv'
    <2> SUFFICES ASSUME NEW q \in Requests PROVE StatsOK(pc[q], arg[q])' /\ StoredOK(pc[q], arg[q])'
      BY DEF ImportsInv
    <2>1. RecsOK(pc[q], arg[q]) /\ StatsOK(pc[q], arg[q]) /\ StoredOK(pc[q], arg[q])
      BY DEF RowInv, ImportsInv, RowsTyped
    <2>2. PICK l, x : l = pc[q] /\ x = arg[q]
      OBVIOUS
    <2>3. StatsOK(l, x)' /\ StoredOK(l, x)'
      BY <1>12, <1>14, <2>1, <2>2
    <2>4. l = pc'[q] /\ x = arg'[q]
      BY <1>1, <2>2
    <2>5. QED BY <2>3, <2>4
  <1>16. ops \in 0..MaxOps /\ MaxOps \in Nat
    BY ConstantsAssumption DEF RowInv, RowsTyped
  <1>17. RowsTyped'
    <2>1. ops' \in 0..MaxOps /\ \A b : b \in 0..ops => b \in 0..ops'
      BY <1>1, <1>16
    <2>2. \A q \in Requests : RecsOK(pc[q], arg[q])'
      BY <1>1, <2>1 DEF RowInv, RowsTyped, RecsOK
    <2>3. QED BY <1>1, <1>8, <1>9, <1>10, <2>1, <2>2 DEF RowInv, RowsTyped
  <1>18. BatchInv'
    BY <1>1 DEF RowInv, BatchInv, Alone
  <1>19. QED BY <1>15, <1>17, <1>18 DEF RowInv

LEMMA InitRowInv == Init => RowInv
  <1> SUFFICES ASSUME Init PROVE RowInv
    OBVIOUS
  <1>1. /\ rows = <<>> /\ sync = "none" /\ ops = 0 /\ faults = 0 /\ crossed = {} /\ renamed = {}
        /\ pc = [r \in Requests |-> "idle"] /\ \A r \in Requests : pc[r] = "idle" /\ arg[r] = NoArg
    BY DEF Init
  <1>2. "idle" \notin Importing
    BY DEF Importing
  <1>3. RecsOK("idle", NoArg)
    <2>1. NoArg.recs \in Seq(Record) /\ Len(NoArg.recs) = 0
      BY NoArgPlain, EmptySeq
    <2>2. QED BY <1>1, <1>2, <2>1, NoArgPlain DEF RecsOK
  <1>4. RowsTyped
    <2>1. rows \in Seq(StoredRow) /\ Unique(rows)
      BY <1>1, EmptySeq DEF Unique
    <2>2. QED BY <1>1, <1>3, <2>1, ConstantsAssumption DEF RowsTyped
  <1>5. BatchInv
    BY <1>1, <1>2, WritersAre DEF BatchInv, Alone, Importing
  <1>6. ImportsInv
    BY <1>1 DEF ImportsInv, StatsOK, StoredOK, Written
  <1>7. QED BY <1>4, <1>5, <1>6 DEF RowInv

LEMMA StepRowInv == IInv /\ RowInv /\ [Next]_vars => RowInv'
  <1> SUFFICES ASSUME Shape, RowInv, [Next]_vars PROVE RowInv'
    BY DEF IInv
  <1>1. ASSUME NEW r \in Requests, Step(r) PROVE RowInv'
    BY <1>1, ConfigKeepsRows, MappingKeepsRows, SyncKeepsRows, ImportRemapKeepsRows,
       ImportCountKeepsRows, ImportUpsertKeepsRows, ImportEndKeepsRows DEF Step
  <1>2. ASSUME NEW r \in Requests,
               \/ SyncRead(r) \/ Fault(r)
               \/ \E n \in FileNames : ConfigRead(r, n)
               \/ \E c \in Configs, d \in BOOLEAN :
                     MappingCreate(r, c, d)
                 \/ \E i \in DOMAIN maps, j \in 0..Len(maps) : MappingRead(r, i, j, c, d)
        PROVE  RowInv'
    BY <1>2, ConfigKeepsRows, MappingKeepsRows, SyncKeepsRows
  <1>3. ASSUME NEW r \in Requests, NEW s \in Sheets, NEW f \in 0..Len(files), ImportRead(r, s, f)
        PROVE  RowInv'
    BY <1>3, ImportReadKeepsRows
  <1>4. ASSUME NEW i \in DOMAIN rows, NEW f \in Fields, NEW v \in Edits, Edit(i, f, v) PROVE RowInv'
    BY <1>4, EditKeepsRows
  <1>5. ASSUME UNCHANGED vars PROVE RowInv'
    <2>1. UNCHANGED <<rows, sync, pc, arg, ops, faults, crossed, renamed>>
      BY <1>5 DEF vars
    <2>2. RowsTyped'
      BY <2>1 DEF RowInv, RowsTyped, RecsOK, Unique
    <2>3. BatchInv'
      BY <2>1 DEF RowInv, BatchInv, Alone
    <2>4. ImportsInv'
      BY <2>1, RowsStay DEF RowInv, ImportsInv
    <2>5. QED BY <2>2, <2>3, <2>4 DEF RowInv
  <1>6. QED BY <1>1, <1>2, <1>3, <1>4, <1>5 DEF Next

LEMMA RowsAlways == Spec => [](IInv /\ RowInv)
  BY InitIInv, StepIInv, InitRowInv, StepRowInv, PTL DEF Spec

\* utils/schedule-normalizer.ts: the dates of a stored row are there when its sheet had
\* them under their own name, whatever mapping and rules the company has.
THEOREM StoredDatesAreThere == Spec => []NullPrevention
  <1>1. RowInv => NullPrevention
    <2> SUFFICES ASSUME RowInv, NEW i \in DOMAIN rows, ~rows[i].edited, NEW f \in Rescued,
                        \E h \in Columns(rows[i].raw) : Spells(h, f)
                 PROVE  rows[i].data[f] # Absent
      BY DEF NullPrevention
    <2>1. rows \in Seq(StoredRow)
      BY DEF RowInv, RowsTyped
    <2>2. rows[i] \in StoredRow
      BY <2>1
    <2>3. Rescues(rows[i])
      BY <2>2, StoredFields
    <2>4. QED BY <2>3 DEF Rescues
  <1>2. QED BY <1>1, RowsAlways, PTL

\* importSchedule: an import that reports success has stored every record, and its row holds
\* what the import's last record about the work order says, unless an edit or an overlapping
\* import wrote it since.
THEOREM ImportsAreStored == Spec => []ImportIsStored
  <1>1. RowInv => ImportIsStored
    <2> SUFFICES ASSUME RowInv, NEW r \in Requests, pc[r] = "use", NEW i \in DOMAIN arg[r].recs,
                        arg[r].recs[i].data.woId \notin renamed
                 PROVE  \E j \in DOMAIN rows : RowHolds(rows[j], arg[r], i)
      BY DEF ImportIsStored, RowHolds
    <2>1. arg[r].recs \in Seq(Record) /\ StoredOK("use", arg[r])
      BY DEF RowInv, RowsTyped, RecsOK, ImportsInv
    <2>2. i \in 1..Len(arg[r].recs)
      BY <2>1, RecsAre
    <2>3. IsStored(arg[r], i)
      BY <2>1, <2>2 DEF StoredOK, Written
    <2>4. QED BY <2>3 DEF IsStored
  <1>2. QED BY <1>1, RowsAlways, PTL

\* importSchedule reports at least as many imported records as rows it has added, and exactly
\* as many when no import overlapped it and its sheet names no work order twice; its two loops
\* count and write chunk by chunk.
THEOREM ReportsCoverInserts == Spec => []StatsCoverInserts
  <1>1. RowInv => StatsCoverInserts
    <2> SUFFICES ASSUME RowInv, NEW r \in Requests, pc[r] = "use",
                        WoIds(arg[r].recs) \cap renamed = {}
                 PROVE  /\ arg[r].fresh <= Len(arg[r].recs) - arg[r].existing
                        /\ "rows" \notin crossed /\ Cardinality(WoIds(arg[r].recs)) = Len(arg[r].recs)
                              => arg[r].fresh = Len(arg[r].recs) - arg[r].existing
      BY DEF StatsCoverInserts
    <2> DEFINE a == arg[r]
               n == Len(a.recs)
    <2>1. RecsOK("use", a) /\ StatsOK("use", a)
      BY DEF RowInv, RowsTyped, ImportsInv
    <2>2. /\ a.existing \in Nat /\ a.fresh \in Nat /\ n \in Nat /\ DOMAIN a.recs = 1..n
      BY <2>1, RecsAre DEF RecsOK
    <2>3. Cardinality(WoIds(a.recs)) = n <=> Unique(a.recs)
      BY <2>2, DistinctIds
    <2>4. /\ a.fresh + a.existing <= n
          /\ ("rows" \notin crossed /\ Unique(a.recs)) => a.fresh + a.existing = n
      BY <2>1 DEF StatsOK
    <2> HIDE DEF a, n
    <2>5. /\ a.fresh <= n - a.existing
          /\ ("rows" \notin crossed /\ Cardinality(WoIds(a.recs)) = n) => a.fresh = n - a.existing
      BY <2>2, <2>3, <2>4
    <2>6. QED BY <2>5 DEF a, n
  <1>2. QED BY <1>1, RowsAlways, PTL

-------------------------------------------------------------------------------
\* How often a mapping was used is bounded by the requests so far: an import in progress
\* has still to add its use, and a save of a loaded mapping writes an older count.

Busy == {r \in Requests : pc[r] \in Importing}
Fits(x) == x + Cardinality(Busy) <= ops
Uses == {0} \cup {maps[i].uses : i \in DOMAIN maps} \cup {arg[r].mapping.uses : r \in Requests}

UsesInv == IsFiniteSet(Busy) /\ \A x \in Uses : Fits(x)

LEMMA UsesTyped ==
    ASSUME Shape
    PROVE  \A x \in Uses : x \in Nat
  BY FilesTyped DEF Shape, ArgOK, MapRow, Uses

\* A request that begins an import, goes on with one, ends one, or has none.
LEMMA BusyMoves ==
    ASSUME IsFiniteSet(Busy), NEW r \in Requests, NEW label, NEW a, Moved(r, label, a)
    PROVE  /\ IsFiniteSet(Busy') /\ Cardinality(Busy) \in Nat /\ Cardinality(Busy') \in Nat
           /\ Cardinality(Busy') <= Cardinality(Busy) + 1
           /\ (label \in Importing => pc[r] \in Importing) =>
                 Cardinality(Busy') <= Cardinality(Busy)
           /\ label \notin Importing /\ pc[r] \in Importing =>
                 Cardinality(Busy') + 1 = Cardinality(Busy)
  <1>1. \A q : q \in Busy' <=> q \in Requests /\ IF q = r THEN label \in Importing ELSE q \in Busy
    BY DEF Busy, Moved, Importing
  <1>2. r \in Busy <=> pc[r] \in Importing
    BY DEF Busy
  <1>3. Busy' = IF label \in Importing THEN Busy \cup {r} ELSE Busy \ {r}
    <2>1. Busy \subseteq Requests
      BY DEF Busy
    <2>2. CASE label \in Importing
      BY <1>1, <2>1, <2>2
    <2>3. CASE label \notin Importing
      BY <1>1, <2>1, <2>3
    <2>4. QED BY <2>2, <2>3
  <1>4. /\ IsFiniteSet(Busy \cup {r}) /\ Cardinality(Busy) \in Nat
        /\ Cardinality(Busy \cup {r}) = Cardinality(Busy) \/ Cardinality(Busy \cup {r}) = Cardinality(Busy) + 1
        /\ r \in Busy => Busy \cup {r} = Busy
    BY FS_AddElement, FS_CardinalityType
  <1>5. /\ IsFiniteSet(Busy \ {r})
        /\ r \in Busy => Cardinality(Busy \ {r}) = Cardinality(Busy) - 1
        /\ r \notin Busy => Busy \ {r} = Busy
    BY FS_RemoveElement
  <1>6. IsFiniteSet(Busy') /\ Cardinality(Busy') \in Nat
    BY <1>3, <1>4, <1>5, FS_CardinalityType
  <1>7. CASE label \in Importing
    <2>1. Busy' = Busy \cup {r}
      BY <1>3, <1>7
    <2>2. Cardinality(Busy') = Cardinality(Busy) \/ Cardinality(Busy') = Cardinality(Busy) + 1
      BY <1>4, <2>1
    <2>3. r \in Busy => Cardinality(Busy') = Cardinality(Busy)
      BY <1>4, <2>1
    <2>4. QED BY <1>2, <1>4, <1>6, <1>7, <2>2, <2>3
  <1>8. CASE label \notin Importing
    <2>1. Busy' = Busy \ {r}
      BY <1>3, <1>8
    <2>2. /\ r \in Busy => Cardinality(Busy') = Cardinality(Busy) - 1
          /\ r \notin Busy => Cardinality(Busy') = Cardinality(Busy)
      BY <1>5, <2>1
    <2>3. QED BY <1>2, <1>4, <1>6, <1>8, <2>2
  <1>9. QED BY <1>7, <1>8

\* A step that adds no use.
LEMMA UsesLast ==
    ASSUME Shape, RowInv, UsesInv, NEW r \in Requests, NEW label, NEW a, Moved(r, label, a),
           a.mapping.uses \in Uses, \A i \in DOMAIN maps' : maps'[i].uses \in Uses,
           ops' \in ops..MaxOps, (label \in Importing => pc[r] \in Importing) \/ ops' = ops + 1
    PROVE  UsesInv'
  <1>1. Uses' \subseteq Uses
    <2>1. \A q \in Requests : arg'[q].mapping.uses \in Uses
      BY DEF Moved, Uses
    <2>2. QED BY <2>1 DEF Uses
  <1>2. ops \in Nat /\ ops' \in Nat /\ ops <= ops'
    BY ConstantsAssumption DEF RowInv, RowsTyped
  <1>3. /\ IsFiniteSet(Busy') /\ Cardinality(Busy) \in Nat /\ Cardinality(Busy') \in Nat
        /\ Cardinality(Busy') <= Cardinality(Busy) + 1
        /\ (label \in Importing => pc[r] \in Importing) => Cardinality(Busy') <= Cardinality(Busy)
    BY BusyMoves DEF UsesInv
  <1>4. ASSUME NEW x \in Uses PROVE Fits(x)'
    <2>1. x \in Nat /\ x + Cardinality(Busy) <= ops
      BY UsesTyped DEF UsesInv, Fits
    <2>2. x + Cardinality(Busy)' <= ops'
      BY <1>2, <1>3, <2>1
    <2>3. QED BY <2>2 DEF Fits
  <1>5. QED BY <1>1, <1>3, <1>4 DEF UsesInv

LEMMA SavedUses ==
    ASSUME Shape, NEW i \in 0..Len(maps), NEW m \in MapRow, m.uses \in Uses, maps' = Saved(i, m)
    PROVE  \A j \in DOMAIN maps' : maps'[j].uses \in Uses
  <1>0. maps \in Seq(MapRow) /\ Len(maps) \in Nat /\ DOMAIN maps = 1..Len(maps)
    BY FilesTyped DEF Shape
  <1>1. CASE i = 0
    <2>1. maps' = Append(maps, m)
      BY <1>1 DEF Saved
    <2>2. /\ DOMAIN maps' = 1..(Len(maps) + 1) /\ maps'[Len(maps) + 1] = m
          /\ \A j \in DOMAIN maps : maps'[j] = maps[j]
      BY <1>0, <2>1
    <2>3. \A j \in DOMAIN maps' : j \in DOMAIN maps \/ j = Len(maps) + 1
      BY <1>0, <2>2
    <2>4. QED BY <2>2, <2>3 DEF Uses
  <1>2. CASE i # 0
    <2>1. maps' = [maps EXCEPT ![i] = m]
      BY <1>2 DEF Saved
    <2>2. QED BY <2>1 DEF Uses
  <1>3. QED BY <1>1, <1>2

LEMMA OldUses ==
    /\ maps' = maps \/ maps' = Demoted => \A j \in DOMAIN maps' : maps'[j].uses \in Uses
    /\ \A r \in Requests : arg[r].mapping.uses \in Uses
    /\ \A i \in DOMAIN maps : maps[i].uses \in Uses
    /\ NoArg.mapping.uses \in Uses
    /\ \A d, rules, c : Mapping(d, rules, c).uses \in Uses
  <1>1. \A i \in DOMAIN maps : maps[i].uses \in Uses
    BY DEF Uses
  <1>2. maps' = Demoted => \A j \in DOMAIN maps' : maps'[j].uses \in Uses
    <2> SUFFICES ASSUME maps' = Demoted, NEW j \in DOMAIN maps PROVE maps'[j].uses \in Uses
      BY DEF Demoted
    <2>1. maps'[j] = [maps[j] EXCEPT !.isDefault = FALSE]
      BY DEF Demoted
    <2>2. maps'[j].uses = maps[j].uses
      BY <2>1
    <2>3. QED BY <1>1, <2>2
  <1>3. \A d, rules, c : Mapping(d, rules, c).uses \in Uses
    BY DEF Mapping, Uses
  <1>4. NoArg.mapping.uses \in Uses
    BY <1>3 DEF NoArg
  <1>5. \A r \in Requests : arg[r].mapping.uses \in Uses
    BY DEF Uses
  <1>6. QED BY <1>1, <1>2, <1>3, <1>4, <1>5

LEMMA StartUses ==
    ASSUME Shape, RowInv, UsesInv, NEW r \in Requests, NEW label, NEW a, NEW K,
           Start(r, label, a, K), Shared(label) \subseteq K, K \subseteq DOMAIN Writers,
           a.mapping.uses \in Uses, \A i \in DOMAIN maps' : maps'[i].uses \in Uses
    PROVE  UsesInv'
  <1>1. Moved(r, label, a) /\ ops' = ops + 1 /\ ops' \in ops..MaxOps
    BY StartsMoves
  <1>2. QED BY <1>1, UsesLast

LEMMA BeginUses ==
    ASSUME Shape, RowInv, UsesInv, NEW r \in Requests, NEW label, NEW a, Begin(r, label, a),
           a.mapping.uses \in Uses, \A i \in DOMAIN maps' : maps'[i].uses \in Uses
    PROVE  UsesInv'
  <1>1. Start(r, label, a, Shared(label)) /\ Shared(label) \subseteq DOMAIN Writers
    BY DEF Begin, Shared
  <1>2. QED BY <1>1, StartUses

LEMMA GotoUses ==
    ASSUME Shape, RowInv, UsesInv, NEW r \in Requests, NEW label, NEW a, Goto(r, label, a),
           a.mapping.uses \in Uses, \A i \in DOMAIN maps' : maps'[i].uses \in Uses,
           \A k \in DOMAIN Writers : label \in Writers[k] => pc[r] \in Writers[k]
    PROVE  UsesInv'
  <1>1. Moved(r, label, a) /\ ops' \in ops..MaxOps
    BY GotoesMoves
  <1>2. label \in Importing => pc[r] \in Importing
    BY WritersAre DEF Importing
  <1>3. QED BY <1>1, <1>2, UsesLast

LEMMA FinishUses ==
    ASSUME Shape, RowInv, UsesInv, NEW r \in Requests, Finish(r),
           \A i \in DOMAIN maps' : maps'[i].uses \in Uses
    PROVE  UsesInv'
  <1>1. \A k \in DOMAIN Writers : "idle" \notin Writers[k]
    BY WritersAre
  <1>2. Goto(r, "idle", NoArg) /\ NoArg.mapping.uses \in Uses
    BY OldUses DEF Finish
  <1>3. QED BY <1>1, <1>2, GotoUses

LEMMA ConfigUses ==
    ASSUME Shape, RowInv, UsesInv, NEW r \in Requests,
           \/ \E n \in FileNames : ConfigRead(r, n)
           \/ ConfigResave(r) \/ ConfigRetire(r) \/ ConfigInsert(r)
    PROVE  UsesInv'
  <1>0. \A i \in DOMAIN maps' : maps'[i].uses \in Uses
    BY OldUses DEF ConfigRead, ConfigResave, ConfigRetire, ConfigInsert, tables
  <1>1. ASSUME NEW n \in FileNames, ConfigRead(r, n) PROVE UsesInv'
    <2>1. \E label \in {"retire", "resave"} : \E a :
             Begin(r, label, a) /\ a.mapping = NoArg.mapping
      <3>1. [NoArg EXCEPT !.name = n].mapping = NoArg.mapping
        BY DEF NoArg
      <3>2. \A i \in DOMAIN files :
               [NoArg EXCEPT !.file = i, !.active = files[i].active].mapping = NoArg.mapping
        BY DEF NoArg
      <3>3. QED BY <1>1, <3>1, <3>2 DEF ConfigRead
    <2>2. QED BY <1>0, <2>1, OldUses, BeginUses
  <1>2. CASE Finish(r)
    BY <1>0, <1>2, FinishUses
  <1>3. CASE ConfigRetire(r)
    <2>1. /\ Goto(r, "file", arg[r]) /\ arg[r].mapping.uses \in Uses
          /\ \A k \in DOMAIN Writers : "file" \in Writers[k] => pc[r] \in Writers[k]
      BY <1>3, WritersAre, OldUses DEF ConfigRetire
    <2>2. QED BY <1>0, <2>1, GotoUses
  <1>4. QED BY <1>1, <1>2, <1>3 DEF ConfigResave, ConfigInsert

LEMMA MappingUses ==
    ASSUME Shape, RowInv, UsesInv, NEW r \in Requests,
           \/ \E c \in Configs, d \in BOOLEAN :
                 MappingCreate(r, c, d)
                 \/ \E i \in DOMAIN maps, j \in 0..Len(maps) : MappingRead(r, i, j, c, d)
           \/ MappingDemote(r) \/ MappingSave(r)
    PROVE  UsesInv'
  <1>1. ASSUME NEW c \in Configs, NEW d \in BOOLEAN, MappingCreate(r, c, d) PROVE UsesInv'
    <2>1. \A i \in DOMAIN maps' : maps'[i].uses \in Uses
      BY <1>1, OldUses DEF MappingCreate
    <2>2. PICK a : a = [NoArg EXCEPT !.mapping = Mapping(d, NoRules, c)]
      OBVIOUS
    <2>3. a.mapping.uses \in Uses
      BY <2>2, OldUses DEF NoArg
    <2>4. Begin(r, "map", a)
      BY <1>1, <2>2 DEF MappingCreate
    <2>5. QED BY <2>1, <2>3, <2>4, BeginUses
  <1>2. ASSUME NEW c \in Configs, NEW d \in BOOLEAN, NEW i \in DOMAIN maps,
               NEW j \in 0..Len(maps), MappingRead(r, i, j, c, d)
        PROVE  UsesInv'
    <2>1. \A k \in DOMAIN maps' : maps'[k].uses \in Uses
      BY <1>2, OldUses DEF MappingRead, tables
    <2>2. PICK a : a = ReadArg(i, j, c, d)
      OBVIOUS
    <2>3. PICK m : m = [maps[i] EXCEPT !.config = c, !.isDefault = d]
      OBVIOUS
    <2>4. m.uses = maps[i].uses
      BY <2>3, FilesTyped DEF MapRow
    <2>5. a.mapping = m
      BY <2>2, <2>3 DEF ReadArg, NoArg
    <2>6. a.mapping.uses \in Uses
      BY <2>4, <2>5, OldUses
    <2>7. \E label \in {"demote", "map"}, K \in SUBSET DOMAIN Writers :
             Start(r, label, a, K) /\ Shared(label) \subseteq K
      BY <1>2, <2>2, ReadStarts
    <2>8. QED BY <2>1, <2>6, <2>7, StartUses
  <1>3. CASE MappingDemote(r)
    <2>1. /\ Goto(r, "map", arg[r]) /\ arg[r].mapping.uses \in Uses
          /\ \A j \in DOMAIN maps' : maps'[j].uses \in Uses
          /\ \A k \in DOMAIN Writers : "map" \in Writers[k] => pc[r] \in Writers[k]
      BY <1>3, WritersAre, OldUses DEF MappingDemote
    <2>2. QED BY <2>1, GotoUses
  <1>4. CASE MappingSave(r)
    <2>1. /\ arg[r].map \in 0..Len(maps) /\ arg[r].mapping \in MapRow
          /\ arg[r].mapping.uses \in Uses /\ maps' = Saved(arg[r].map, arg[r].mapping) /\ Finish(r)
      BY <1>4, OldUses DEF MappingSave, Shape, ArgOK
    <2>2. QED BY <2>1, SavedUses, FinishUses
  <1>5. QED BY <1>1, <1>2, <1>3, <1>4

LEMMA ImportUses ==
    ASSUME Shape, RowInv, UsesInv, NEW r \in Requests,
           \/ \E s \in Sheets, f \in 0..Len(files) : ImportRead(r, s, f)
           \/ ImportRemap(r) \/ ImportCount(r) \/ ImportUpsert(r) \/ ImportStamp(r)
    PROVE  UsesInv'
  <1>0. arg[r].mapping.uses \in Uses /\ DOMAIN arg[r] = DOMAIN NoArg
    BY OldUses DEF Shape, ArgOK
  <1>1. ASSUME NEW sheet \in Sheets, NEW file \in 0..Len(files), ImportRead(r, sheet, file)
        PROVE  UsesInv'
    <2>1. PICK i \in IF Defaults = {} THEN {0} ELSE Defaults :
          \E label \in {"remap", "count"} :
             LET m == InHand(sheet, i)
                 recs == Records(sheet, m.rules, m.config)
             IN  Begin(r, label, [NoArg EXCEPT !.file = file, !.map = i, !.mapping = m,
                                               !.recs = recs, !.batch = ops + 1])
      BY <1>1 DEF ImportRead
    <2>2. PICK m : m = InHand(sheet, i)
      OBVIOUS
    <2>3. m.uses \in Uses
      <3> DEFINE read == IF i = 0 THEN Mapping(TRUE, NoRules, DefaultColumnMapping) ELSE maps[i]
      <3>1. read.uses \in Uses /\ read \in MapRow
        BY OldUses, FilesTyped, MappingTyped DEF Defaults
      <3>2. m \in {read, [read EXCEPT !.rules = GenerateNormalizationRules(sheet[1])]}
        BY <2>2 DEF InHand
      <3> HIDE DEF read
      <3>3. [read EXCEPT !.rules = GenerateNormalizationRules(sheet[1])].uses = read.uses
        BY <3>1 DEF MapRow
      <3>4. QED BY <3>1, <3>2, <3>3
    <2>4. PICK a : a = [NoArg EXCEPT !.file = file, !.map = i, !.mapping = m,
                                     !.recs = Records(sheet, m.rules, m.config), !.batch = ops + 1]
      OBVIOUS
    <2>5. a.mapping.uses \in Uses
      BY <2>3, <2>4 DEF NoArg
    <2>6. PICK label \in {"remap", "count"} : Begin(r, label, a)
      BY <2>1, <2>2, <2>4
    <2>7. \A j \in DOMAIN maps' : maps'[j].uses \in Uses
      BY <1>1, OldUses DEF ImportRead, tables
    <2>8. QED BY <2>5, <2>6, <2>7, BeginUses
  <1>2. CASE ImportRemap(r)
    <2>1. /\ arg[r].map \in 0..Len(maps) /\ arg[r].mapping \in MapRow
          /\ maps' = Saved(arg[r].map, arg[r].mapping)
      BY <1>2 DEF ImportRemap, Shape, ArgOK
    <2>2. \A j \in DOMAIN maps' : maps'[j].uses \in Uses
      BY <1>0, <2>1, SavedUses
    <2>3. CASE Finish(r)
      BY <2>2, <2>3, FinishUses
    <2>4. ASSUME Goto(r, "count", IF arg[r].map = 0 THEN [arg[r] EXCEPT !.map = Len(maps')] ELSE arg[r])
          PROVE  UsesInv'
      <3>1. PICK a : a = IF arg[r].map = 0 THEN [arg[r] EXCEPT !.map = Len(maps')] ELSE arg[r]
        OBVIOUS
      <3>2. a.mapping.uses \in Uses /\ Goto(r, "count", a)
        BY <1>0, <2>4, <3>1, NoArgFields
      <3>3. \A k \in DOMAIN Writers : "count" \in Writers[k] => pc[r] \in Writers[k]
        BY <1>2, WritersAre DEF ImportRemap
      <3>4. QED BY <2>2, <3>2, <3>3, GotoUses
    <2>5. QED BY <1>2, <2>3, <2>4 DEF ImportRemap
  <1>3. ASSUME NEW here \in {"count", "upsert"}, NEW next \in {"upsert", "use"}, NEW a,
               pc[r] \in {"count", "upsert"}, maps' = maps,
               DOMAIN a = DOMAIN NoArg, a.mapping = arg[r].mapping, NextChunk(r, here, next, a)
        PROVE  UsesInv'
    <2>1. PICK label \in {here, next} : \E v : Goto(r, label, [a EXCEPT !.done = v])
      BY <1>3 DEF NextChunk
    <2>2. PICK v : Goto(r, label, [a EXCEPT !.done = v])
      BY <2>1
    <2>3. PICK b : b = [a EXCEPT !.done = v]
      OBVIOUS
    <2>4. [a EXCEPT !.done = v].mapping = a.mapping
      BY <1>3, NoArgFields
    <2>5. b.mapping.uses \in Uses /\ Goto(r, label, b)
      BY <1>0, <1>3, <2>2, <2>3, <2>4
    <2>6. \A k \in DOMAIN Writers : label \in Writers[k] => pc[r] \in Writers[k]
      BY <1>3, WritersAre
    <2>7. \A j \in DOMAIN maps' : maps'[j].uses \in Uses
      BY <1>3, OldUses
    <2>8. QED BY <2>5, <2>6, <2>7, GotoUses
  <1>4. CASE ImportCount(r)
    <2>1. PICK a : a = [arg[r] EXCEPT !.existing = @ + Cardinality(Known(Chunk(arg[r])))]
      OBVIOUS
    <2>2. DOMAIN a = DOMAIN NoArg /\ a.mapping = arg[r].mapping
      BY <1>0, <2>1, NoArgFields
    <2>3. NextChunk(r, "count", "upsert", a) /\ pc[r] \in {"count", "upsert"} /\ maps' = maps
      BY <1>4, <2>1 DEF ImportCount, tables
    <2>4. QED BY <1>3, <2>2, <2>3
  <1>5. CASE ImportUpsert(r)
    <2>1. maps' = maps /\ pc[r] \in {"count", "upsert"}
      BY <1>5 DEF ImportUpsert
    <2>2. CASE Finish(r)
      BY <2>1, <2>2, OldUses, FinishUses
    <2>3. ASSUME NextChunk(r, "upsert", "use", [arg[r] EXCEPT !.fresh = @ + Len(rows') - Len(rows)])
          PROVE  UsesInv'
      <3>1. PICK a : a = [arg[r] EXCEPT !.fresh = @ + Len(rows') - Len(rows)]
        OBVIOUS
      <3>2. DOMAIN a = DOMAIN NoArg /\ a.mapping = arg[r].mapping
        BY <1>0, <3>1, NoArgFields
      <3>3. NextChunk(r, "upsert", "use", a)
        BY <2>3, <3>1
      <3>4. QED BY <1>3, <2>1, <3>2, <3>3
    <2>4. QED BY <1>5, <2>2, <2>3 DEF ImportUpsert
  <1>6. CASE ImportStamp(r)
    BY <1>6, OldUses, FinishUses DEF ImportStamp
  <1>7. QED BY <1>1, <1>2, <1>4, <1>5, <1>6

\* The import that adds its use has none left to add.
LEMMA UseUses ==
    ASSUME Shape, RowInv, UsesInv, NEW r \in Requests, ImportUse(r)
    PROVE  UsesInv'
  <1>0. pc[r] \in Importing /\ ops' = ops /\ ops \in Nat
    BY DEF ImportUse, Importing, Finish, Goto, RowInv, RowsTyped
  <1>1. \A k \in DOMAIN Writers : "stamp" \notin Writers[k] /\ "idle" \notin Writers[k]
    BY WritersAre
  <1>2. PICK label, a :
          label \in {"stamp", "idle"} /\ Goto(r, label, a) /\ (a = arg[r] \/ a = NoArg)
    BY DEF ImportUse, Finish
  <1>3. Moved(r, label, a) /\ label \notin Importing /\ a.mapping.uses \in Uses
    BY <1>1, <1>2, GotoMoves, OldUses DEF Importing
  <1>4. ASSUME NEW i \in DOMAIN maps' PROVE \E x \in Uses : maps'[i].uses \in {x, x + 1}
    <2>1. DOMAIN maps' = DOMAIN maps
      BY DEF ImportUse
    <2>2. maps[i].uses \in Uses
      BY <2>1, OldUses
    <2>3. maps'[i].uses \in {maps[i].uses, maps[i].uses + 1}
      <3>1. maps' = [maps EXCEPT ![arg[r].map].uses = @ + 1]
        BY DEF ImportUse
      <3>2. maps[i] \in MapRow
        BY <2>1, FilesTyped
      <3>3. CASE i = arg[r].map
        <4>1. maps'[i] = [maps[i] EXCEPT !.uses = maps[i].uses + 1]
          BY <2>1, <3>1, <3>3
        <4>2. QED BY <3>2, <4>1 DEF MapRow
      <3>4. CASE i # arg[r].map
        BY <2>1, <3>1, <3>4
      <3>5. QED BY <3>3, <3>4
    <2>4. QED BY <2>2, <2>3
  <1>5. ASSUME NEW y \in Uses' PROVE \E x \in Uses : y \in {x, x + 1}
    <2>1. \A q \in Requests : arg'[q].mapping.uses \in Uses
      BY <1>3, OldUses DEF Moved
    <2>2. 0 \in Uses
      BY DEF Uses
    <2>3. QED BY <1>4, <2>1, <2>2 DEF Uses
  <1>6. /\ IsFiniteSet(Busy') /\ Cardinality(Busy) \in Nat /\ Cardinality(Busy') \in Nat
        /\ Cardinality(Busy') + 1 = Cardinality(Busy)
    BY <1>0, <1>3, BusyMoves DEF UsesInv
  <1>7. ASSUME NEW y \in Uses' PROVE Fits(y)'
    <2>1. PICK x \in Uses : y \in {x, x + 1}
      BY <1>5
    <2>2. x \in Nat /\ x + Cardinality(Busy) <= ops
      BY UsesTyped DEF UsesInv, Fits
    <2>3. y + Cardinality(Busy)' <= ops'
      BY <1>0, <1>6, <2>1, <2>2
    <2>4. QED BY <2>3 DEF Fits
  <1>8. QED BY <1>6, <1>7 DEF UsesInv

LEMMA OtherUses ==
    ASSUME Shape, RowInv, UsesInv,
           \/ \E r \in Requests : SyncRead(r) \/ SyncSave(r) \/ Fault(r)
           \/ \E i \in DOMAIN rows, f \in Fields, v \in Edits : Edit(i, f, v)
           \/ UNCHANGED vars
    PROVE  UsesInv'
  <1>0. \A j \in DOMAIN maps' : maps'[j].uses \in Uses
    BY OldUses DEF SyncRead, SyncSave, Fault, Edit, tables, vars
  <1>1. ASSUME NEW r \in Requests, SyncRead(r) PROVE UsesInv'
    <2>1. PICK a : a = [NoArg EXCEPT !.found = (sync # "none")]
      OBVIOUS
    <2>2. a.mapping.uses \in Uses /\ Begin(r, "sync", a)
      BY <1>1, <2>1, OldUses DEF NoArg, SyncRead
    <2>3. QED BY <1>0, <2>2, BeginUses
  <1>2. ASSUME NEW r \in Requests, SyncSave(r) PROVE UsesInv'
    BY <1>0, <1>2, FinishUses DEF SyncSave
  <1>3. ASSUME NEW r \in Requests, Fault(r) PROVE UsesInv'
    <2>1. /\ UNCHANGED <<ops, crossed>>
          /\ pc' = [pc EXCEPT ![r] = "idle"] /\ arg' = [arg EXCEPT ![r] = NoArg]
      BY <1>3 DEF Fault
    <2>2. Moved(r, "idle", NoArg)
      BY <2>1, WritersAre DEF Moved, Shape
    <2>3. ops' \in ops..MaxOps
      BY <2>1, ConstantsAssumption DEF RowInv, RowsTyped
    <2>4. "idle" \notin Importing /\ NoArg.mapping.uses \in Uses
      BY OldUses DEF Importing
    <2>5. QED BY <1>0, <2>2, <2>3, <2>4, UsesLast
  <1>4. ASSUME UNCHANGED <<pc, arg, maps>>, ops' \in {ops, ops + 1} PROVE UsesInv'
    <2>1. Busy' = Busy /\ Uses' = Uses
      BY <1>4 DEF Busy, Uses
    <2>2. Cardinality(Busy) \in Nat /\ ops \in Nat
      BY FS_CardinalityType DEF UsesInv, RowInv, RowsTyped
    <2>3. ASSUME NEW x \in Uses PROVE Fits(x)'
      <3>1. x \in Nat /\ x + Cardinality(Busy) <= ops
        BY UsesTyped DEF UsesInv, Fits
      <3>2. x + Cardinality(Busy) <= ops'
        BY <1>4, <2>2, <3>1
      <3>3. QED BY <2>1, <3>2 DEF Fits
    <2>4. QED BY <2>1, <2>3 DEF UsesInv
  <1>5. QED BY <1>1, <1>2, <1>3, <1>4 DEF Edit, vars

LEMMA InitUsesInv == Init => UsesInv
  <1> SUFFICES ASSUME Init PROVE UsesInv
    OBVIOUS
  <1>1. Busy = {}
    BY DEF Init, Busy, Importing
  <1>2. IsFiniteSet(Busy) /\ Cardinality(Busy) = 0
    BY <1>1, FS_EmptySet
  <1>3. \A i \in DOMAIN maps : maps[i].uses = 0
    BY DEF Init, Mapping
  <1>4. \A r \in Requests : arg[r].mapping.uses = 0
    BY DEF Init, NoArg, Mapping
  <1>5. \A x \in Uses : x = 0
    BY <1>3, <1>4 DEF Uses
  <1>6. QED BY <1>2, <1>5 DEF UsesInv, Fits, Init

LEMMA StepUsesInv == IInv /\ RowInv /\ UsesInv /\ [Next]_vars => UsesInv'
  <1> SUFFICES ASSUME Shape, RowInv, UsesInv, [Next]_vars PROVE UsesInv'
    BY DEF IInv
  <1>1. ASSUME NEW r \in Requests, Step(r) PROVE UsesInv'
    BY <1>1, ConfigUses, MappingUses, ImportUses, UseUses, OtherUses DEF Step
  <1>2. QED BY <1>1, ConfigUses, MappingUses, ImportUses, OtherUses DEF Next

\* Every table, request and counter of the schedule keeps its type: an argument points at
\* stored rows, the records in hand have a work order, and no mapping is used more often than
\* there were requests.
THEOREM ScheduleTypes == Spec => []TypeOK
  <1>1. ASSUME IInv, RowInv, UsesInv PROVE TypeOK
    <2>0. Shape /\ RowsTyped /\ ops \in 0..MaxOps /\ MaxOps \in Nat
      BY <1>1, ConstantsAssumption DEF IInv, RowInv, RowsTyped
    <2>1. \A x \in Uses : x \in 0..MaxOps
      <3>1. Cardinality(Busy) \in Nat
        BY <1>1, FS_CardinalityType DEF UsesInv
      <3>2. QED BY <1>1, <2>0, <3>1, UsesTyped DEF UsesInv, Fits
    <2>2. \A rules \in KnownRules : DOMAIN rules \subseteq Headers
      <3>1. \A s \in Sheets : Columns(s[1]) \subseteq Headers
        <4> SUFFICES ASSUME NEW s \in Sheets PROVE Columns(s[1]) \subseteq Headers
          OBVIOUS
        <4>1. 1 \in DOMAIN s
          BY SheetsAre
        <4>2. s[1] \in SheetRows
          BY <4>1 DEF SheetRows
        <4>3. QED BY <4>2 DEF Headers
      <3>2. QED BY <3>1 DEF KnownRules, NoRules, Rules, GenerateNormalizationRules
    <2>3. \A m \in MapRow : m.uses \in Uses => IsMapping(m)
      BY <2>1, <2>2 DEF MapRow, IsMapping
    <2>4. \A i \in DOMAIN maps : IsMapping(maps[i])
      BY <2>0, <2>3, FilesTyped, OldUses
    <2>5. \A r \in Requests : IsMapping(arg[r].mapping)
      BY <2>0, <2>3, OldUses DEF Shape, ArgOK
    <2>6. \A i \in DOMAIN files : files[i] \in [name : FileNames, active : BOOLEAN, synced : BOOLEAN]
      BY <2>0, FilesTyped DEF File
    <2>7. \A rec \in Record : IsRecord(rec)
      BY RecordFields DEF IsRecord, Data
    <2>8. \A i \in DOMAIN rows :
             IsRecord(rows[i]) /\ rows[i].batch \in 1..MaxOps /\ rows[i].edited \in BOOLEAN
      <3>1. \A i \in DOMAIN rows : rows[i] \in StoredRow
        BY <2>0, LenProperties DEF RowsTyped
      <3>2. QED BY <3>1, StoredFields DEF IsRecord, Data
    <2>9. ASSUME NEW r \in Requests
          PROVE  /\ arg[r].file \in 0..Len(files) /\ arg[r].map \in 0..Len(maps)
                 /\ IsMapping(arg[r].mapping)
                 /\ \A i \in DOMAIN arg[r].recs : IsRecord(arg[r].recs[i])
                 /\ arg[r].done \in 0..Len(arg[r].recs) /\ arg[r].batch \in 0..MaxOps
                 /\ arg[r].existing \in Nat /\ arg[r].fresh \in Nat
      <3>1. /\ arg[r].recs \in Seq(Record) /\ arg[r].done \in 0..Len(arg[r].recs)
            /\ arg[r].batch \in 0..ops /\ arg[r].existing \in Nat /\ arg[r].fresh \in Nat
        BY <2>0 DEF RowsTyped, RecsOK
      <3>2. \A i \in DOMAIN arg[r].recs : IsRecord(arg[r].recs[i])
        BY <2>7, <3>1, RecsAre
      <3>3. arg[r].batch \in 0..MaxOps
        BY <2>0, <3>1
      <3>4. arg[r].file \in 0..Len(files) /\ arg[r].map \in 0..Len(maps)
        BY <2>0 DEF Shape, ArgOK
      <3>5. QED BY <2>5, <3>1, <3>2, <3>3, <3>4
    <2>10. QED BY <2>0, <2>4, <2>6, <2>8, <2>9 DEF TypeOK, RowsTyped
  <1>2. Spec => [](IInv /\ RowInv /\ UsesInv)
    BY InitIInv, StepIInv, InitRowInv, StepRowInv, InitUsesInv, StepUsesInv, PTL DEF Spec
  <1>3. QED BY <1>1, <1>2, PTL
================================================================================
