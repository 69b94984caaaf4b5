---------------------------- MODULE ScheduleColumns ----------------------------
(***************************************************************************)
(* How an imported sheet's columns become the fields of a schedule row:    *)
(* utils/schedule-normalizer.ts and utils/column-mapping.ts.               *)
(*                                                                         *)
(* A column header is its words and the style that writes them: "title"    *)
(* (Due Date), "dash" (Due-Date), "snake" (due_date), "pascal" (DueDate)   *)
(* or "camel" (dueDate); one lower-case word is "camel".  A row of a sheet *)
(* is the sequence of its non-empty cells, as XLSX reads them.             *)
(* Of the fifteen fields four are kept: the three that have a fallback,    *)
(* and woNumber for those that have none.                                  *)
(***************************************************************************)
EXTENDS Naturals, Sequences, FiniteSetsExt, SequencesExt

Absent == "absent"          \* undefined or null
Fields == {"woId", "woNumber", "dueDate", "releaseDate"}
Rescued == {"dueDate", "releaseDate"}

Header(style, words) == [style |-> style, words |-> words]
Camel(words) == Header("camel", words)
Snake(words) == Header("snake", words)
NoHeader == Header("camel", <<>>)

\* The two spellings of the work order's id that are matched before any splitting.
IsWoId(h) ==
    h.style \in {"title", "snake"} /\ h.words \in {<<"work", "order", "id">>, <<"wo", "id">>}

NormalizeColumnName(h) == IF IsWoId(h) THEN Camel(<<"wo", "id">>) ELSE Camel(h.words)

\* The rules an older release generated: as now, in snake case.
OldRule(h) == IF IsWoId(h) THEN Snake(<<"wo", "id">>) ELSE Snake(h.words)
HasUnderscore(name) == name.style = "snake" /\ Len(name.words) > 1

Columns(row) == {row[i].col : i \in DOMAIN row}
Rules(row, Rule(_)) == [h \in Columns(row) |-> Rule(h)]
NoRules == [h \in {} |-> NoHeader]
GenerateNormalizationRules(row) == Rules(row, NormalizeColumnName)

\* The cell of the last column with the given name: later keys overwrite.
ApplyNormalization(row, rules) ==
    LET Name(h) == IF h \in DOMAIN rules THEN rules[h] ELSE NormalizeColumnName(h)
        Named(n) == {i \in DOMAIN row : Name(row[i].col) = n}
    IN  [n \in {Name(h) : h \in Columns(row)} |-> row[Max(Named(n))].cell]

-------------------------------------------------------------------------------
\* A mapping's configuration: for some fields, the names to look for in turn.
DefaultColumnMapping ==
    [woId |-> <<Camel(<<"wo", "id">>), Snake(<<"wo", "id">>),
                Camel(<<"work", "order", "id">>), Snake(<<"work", "order", "id">>),
                Camel(<<"workorderid">>), Camel(<<"wo">>), Camel(<<"id">>)>>,
     woNumber |-> <<Camel(<<"wo", "number">>), Snake(<<"wo", "number">>),
                    Camel(<<"work", "order", "number">>),
                    Snake(<<"work", "order", "number">>), Snake(<<"wo", "num">>)>>,
     dueDate |-> <<Camel(<<"due", "date">>), Snake(<<"due", "date">>),
                   Camel(<<"duedate">>), Camel(<<"due">>), Snake(<<"required", "date">>)>>,
     releaseDate |-> <<Camel(<<"release", "date">>), Snake(<<"release", "date">>),
                       Camel(<<"releasedate">>), Camel(<<"release">>),
                       Snake(<<"start", "date">>)>>]

\* What CreateColumnMappingDto documents names a "sourceColumn", which is never read.
DocumentedMapping == [f \in Fields |-> <<NoHeader>>]

ApplyColumnMapping(normalized, config) ==
    [f \in Fields |->
        LET first == IF f \in DOMAIN config
                       THEN SelectInSeq(config[f], LAMBDA n : n \in DOMAIN normalized)
                       ELSE 0
        IN  IF first = 0 THEN Absent ELSE normalized[config[f][first]]]

ColumnAliases ==
    [woId |-> <<Camel(<<"wo", "id">>), Snake(<<"wo", "id">>), Snake(<<"work", "order", "id">>),
                Camel(<<"workorderid">>), Camel(<<"wo">>), Camel(<<"id">>),
                Snake(<<"order", "id">>), Snake(<<"work", "order">>)>>,
     dueDate |-> <<Camel(<<"due", "date">>), Snake(<<"due", "date">>), Camel(<<"duedate">>),
                   Camel(<<"due">>), Snake(<<"required", "date">>)>>,
     releaseDate |-> <<Camel(<<"release", "date">>), Snake(<<"release", "date">>),
                       Camel(<<"releasedate">>), Camel(<<"release">>),
                       Snake(<<"start", "date">>)>>]

\* The first alias that heads a column, else the first column that normalises to one.
FindColumnValue(row, f) ==
    LET aliases == ColumnAliases[f]
        IsAlias(name) == \E i \in DOMAIN aliases : aliases[i] = name
        exact == SelectInSeq(aliases, LAMBDA a : a \in Columns(row))
        found == IF exact # 0
                   THEN SelectInSeq(row, LAMBDA c : c.col = aliases[exact])
                   ELSE SelectInSeq(row, LAMBDA c : IsAlias(NormalizeColumnName(c.col)))
    IN  IF found = 0 THEN Absent ELSE row[found].cell

\* *(Mutant)* Only woId falls back to the sheet's own row.
NoDateFallback(row, mapped) ==
    [mapped EXCEPT !.woId = IF @ = Absent THEN FindColumnValue(row, "woId") ELSE @]

TransformToScheduleData(row, mapped) ==
    [f \in Fields |-> IF mapped[f] = Absent /\ f \in Rescued \cup {"woId"}
                        THEN FindColumnValue(row, f) ELSE mapped[f]]

\* *(Mutant)* No row is skipped.
SkipNothing(sheet, rules, config) ==
    [i \in DOMAIN sheet |->
        [raw |-> sheet[i],
         data |-> TransformToScheduleData(sheet[i],
                     ApplyColumnMapping(ApplyNormalization(sheet[i], rules), config))]]

\* The elements of s whose positions are in I, in their order.
Picked(s, I) ==
    LET Nth(k) == CHOOSE i \in I : Cardinality({j \in I : j <= i}) = k
    IN  [k \in 1..Cardinality(I) |-> s[Nth(k)]]

\* The records of a sheet: its rows without a work order id are skipped.
Records(sheet, rules, config) ==
    LET recs == [i \in DOMAIN sheet |->
                   [raw |-> sheet[i],
                    data |-> TransformToScheduleData(sheet[i],
                                ApplyColumnMapping(ApplyNormalization(sheet[i], rules), config))]]
    IN  Picked(recs, {i \in DOMAIN sheet : recs[i].data.woId # Absent})
===============================================================================
