------------------------------ MODULE Departments ------------------------------
(***************************************************************************)
(* DepartmentsService behind its controller's routes: departments with     *)
(* their filter settings, and the OEE settings of a department, of which   *)
(* one is meant to be in force at a time.                                  *)
(***************************************************************************)
EXTENDS ResponseCache

CONSTANTS
    Names,      \* names of departments
    Dates,      \* dates from which settings take effect
    MaxDepts    \* bound on departments

Open == 0       \* no effectiveTo

ASSUME DepartmentsAssumption ==
    Names # {} /\ Dates \subseteq Nat \ {Open} /\ MaxDepts \in Nat

VARIABLES
    depts,      \* the departments, with whether their filter settings are stored
    oee,        \* department_oee_settings
    irregular   \* history: departments whose settings were written by two requests
                \* at once, or entered out of order of their dates

deptTables == <<depts, oee, irregular>>

DeptOK ==
    /\ depts \in Seq([name : Names, active : BOOLEAN, filters : BOOLEAN])
    /\ oee \in Seq([dept : Nat, from : Dates, to : Dates \cup {Open}, archived : BOOLEAN])
    /\ \A s \in DOMAIN oee : oee[s].dept \in DOMAIN depts
    /\ irregular \subseteq DOMAIN depts

DeptInit ==
    /\ depts = <<[name |-> CHOOSE n \in Names : TRUE, active |-> TRUE, filters |-> TRUE]>>
    /\ oee = <<>>
    /\ irregular = {}

-------------------------------------------------------------------------------
\* What a read of the key shows: a department, or those that are active.
Dept(i) == <<"department", i>>
AllDepts == <<"departments", 0>>
DeptKeys == {AllDepts} \cup {Dept(i) : i \in DOMAIN depts}
DeptView(k) ==
    IF k = AllDepts THEN {{<<i, depts[i]>> : i \in {j \in DOMAIN depts : depts[j].active}}}
    ELSE {<<k[2], depts[k[2]]>>}

\* createDepartment: the department, then its filter settings.
DeptCreate(r, name) ==
    LET i == Len(depts) + 1
        a == [Route({AllDepts}) EXCEPT !.row = i]
    IN
    /\ i <= MaxDepts
    /\ depts' = Append(depts, [name |-> name, active |-> TRUE, filters |-> FALSE])
    /\ Begin(r, "filters", a)
    /\ UNCHANGED <<oee, irregular>>

DeptFilters(r) ==
    /\ pc[r] = "filters"
    /\ depts' = [depts EXCEPT ![arg[r].row].filters = TRUE]
    /\ Goto(r, "reread", arg[r])
    /\ UNCHANGED <<oee, irregular>>

\* updateDepartment, of a name or of isActive, and deleteDepartment, which clears
\* isActive.
DeptRead(r, i, label, v) ==
    /\ Begin(r, label, [Route({AllDepts, Dept(i)}) EXCEPT !.row = i, !.loaded = v])
    /\ UNCHANGED deptTables

DeptWrite(r) ==
    LET a == arg[r] IN
    /\ \/ /\ pc[r] = "rename"
          /\ depts' = [depts EXCEPT ![a.row].name = a.loaded]
          /\ Goto(r, "reread", a)
       \/ /\ pc[r] = "activate"
          /\ depts' = [depts EXCEPT ![a.row].active = a.loaded]
          /\ Goto(r, "reread", a)
       \/ /\ pc[r] = "delete"
          /\ depts' = [depts EXCEPT ![a.row].active = FALSE]
          /\ Goto(r, "evict", a)
    /\ UNCHANGED <<oee, irregular>>

-------------------------------------------------------------------------------
Kept(i) == {s \in DOMAIN oee : oee[s].dept = i /\ ~oee[s].archived}

\* A null condition is left out of a query, so that getCurrentOeeSetting finds the
\* latest setting also when it has been closed.
CurrentSettings(i) == {s \in Kept(i) : \A t \in Kept(i) : oee[t].from <= oee[s].from}

OeeSteps == {"close", "insert", "archive"}
OeeBusy(i) == \E q \in Requests : pc[q] \in OeeSteps /\ arg[q].other = i

\* createOeeSetting closes the current setting and inserts the next.
OeeRead(r, i, from) ==
    LET a == [Route({Dept(i)}) EXCEPT !.other = i, !.loaded = <<from>>] IN
    /\ IF CurrentSettings(i) = {} THEN Begin(r, "insert", a)
       ELSE \E s \in CurrentSettings(i) :
               Begin(r, "close", [a EXCEPT !.row = s, !.loaded = <<from, [oee[s] EXCEPT !.to = from]>>])
    /\ irregular' = IF OeeBusy(i) \/ \E s \in Kept(i) : from <= oee[s].from
                      THEN irregular \cup {i} ELSE irregular
    /\ UNCHANGED <<depts, oee>>

\* *(Mutant)* The current setting stays open.
CloseNothing(r) ==
    /\ pc[r] = "close"
    /\ Goto(r, "insert", arg[r])
    /\ UNCHANGED deptTables

\* save writes back all of the row that was loaded.
OeeClose(r) ==
    /\ pc[r] = "close"
    /\ oee' = [oee EXCEPT ![arg[r].row] = arg[r].loaded[2]]
    /\ Goto(r, "insert", arg[r])
    /\ UNCHANGED <<depts, irregular>>

OeeInsert(r) ==
    /\ pc[r] = "insert"
    /\ oee' = Append(oee, [dept |-> arg[r].other, from |-> arg[r].loaded[1], to |-> Open,
                           archived |-> FALSE])
    /\ Goto(r, "evict", arg[r])
    /\ UNCHANGED <<depts, irregular>>

OeeArchiveRead(r, s) ==
    LET i == oee[s].dept IN
    /\ Begin(r, "archive", [Route({Dept(i)}) EXCEPT !.row = s, !.other = i,
                               !.loaded = [oee[s] EXCEPT !.archived = TRUE]])
    /\ irregular' = IF OeeBusy(i) THEN irregular \cup {i} ELSE irregular
    /\ UNCHANGED <<depts, oee>>

OeeArchive(r) ==
    /\ pc[r] = "archive"
    /\ oee' = [oee EXCEPT ![arg[r].row] = arg[r].loaded]
    /\ Goto(r, "evict", arg[r])
    /\ UNCHANGED <<depts, irregular>>

DeptStep(r) ==
    \/ DeptFilters(r) \/ DeptWrite(r)
    \/ Reread(r, TRUE) /\ UNCHANGED deptTables
    \/ OeeClose(r) \/ OeeInsert(r) \/ OeeArchive(r)

DeptRequest(r) ==
    \/ \E n \in Names : DeptCreate(r, n)
    \/ \E i \in DOMAIN depts :
          \/ \E n \in Names : DeptRead(r, i, "rename", n)
          \/ \E b \in BOOLEAN : DeptRead(r, i, "activate", b)
          \/ DeptRead(r, i, "delete", "")
          \/ \E from \in Dates : OeeRead(r, i, from)
    \/ \E s \in DOMAIN oee : OeeArchiveRead(r, s)

-------------------------------------------------------------------------------
\* No two settings of a department that are not archived are in force on one day,
\* as long as settings are entered in the order of their dates, one at a time: the
\* one that createOeeSetting finds and closes is the one that was open.
InForce(s, day) == oee[s].from <= day /\ (oee[s].to = Open \/ day < oee[s].to)
OneSettingInForce ==
    \A i \in DOMAIN depts \ irregular : \A s, t \in Kept(i) : \A day \in Dates :
        InForce(s, day) /\ InForce(t, day) => s = t
===============================================================================
