------------------------------ MODULE MCSchedule ------------------------------
\* Schedule with sheets for TLC.
EXTENDS Schedule

Symmetry == Permutations(Requests) \cup Permutations(FileNames)

Cell1(h, v) == [col |-> h, cell |-> v]
WorkOrder == Header("title", <<"work", "order", "id">>)
DueDate == Header("title", <<"due", "date">>)

\* A work order listed twice, in two chunks; a row without one; and one listed twice in
\* the second chunk, under other spellings, with a single due date.
MCSheets == {
    << <<Cell1(WorkOrder, "w1"), Cell1(DueDate, "d1")>>, <<Cell1(WorkOrder, "w2")>>,
       <<Cell1(WorkOrder, "w2"), Cell1(Snake(<<"wo", "num">>), "d1")>> >>,
    << <<Cell1(Camel(<<"wo">>), "w2"), Cell1(Header("pascal", <<"release", "date">>), "d1")>>,
       <<Cell1(DueDate, "d1")>> >>,
    << <<Cell1(Snake(<<"wo", "id">>), "w1")>>, <<Cell1(Snake(<<"wo", "id">>), "w2")>>,
       <<Cell1(Snake(<<"wo", "id">>), "w1"), Cell1(Camel(<<"due">>), "d1")>>,
       <<Cell1(Snake(<<"wo", "id">>), "w1")>> >> }

MCConfigs == {DocumentedMapping, [woId |-> <<Camel(<<"wo", "id">>), Camel(<<"wo">>)>>]}
===============================================================================
