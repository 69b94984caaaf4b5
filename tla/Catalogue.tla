------------------------------ MODULE Catalogue --------------------------------
(***************************************************************************)
(* The catalogues of companies: rows behind routes that differ in whether  *)
(* their answers are cached, how a row is changed, and how it is removed.  *)
(* DBService, which the services extend, changes a row by saving all of    *)
(* what it has loaded; others update the given columns.  Of the columns,   *)
(* which are many, a label and a flag are kept; a request changes one.     *)
(***************************************************************************)
EXTENDS ResponseCache

\* cached: "items" (the lists "all" and "active", and single rows), "list" (one list),
\* "current" (the caller's company) or "none"; change: "update" the columns, "find" the row first, or
\* "save" it; remove: "delete" the row, "stamp" it deleted, clear its "flag", or "none".
Resource(cached, change, remove) == [cached |-> cached, change |-> change, remove |-> remove]

Operators == Resource("items", "update", "delete")
Equipment == Resource("items", "update", "delete")
Locations == Resource("list", "find", "none")
Company == Resource("current", "save", "none")
DowntimeCategories == Resource("none", "save", "stamp")
DowntimeReasons == Resource("none", "save", "delete")
Rejections == Resource("none", "find", "flag")
Plans == Resource("none", "save", "stamp")

Catalogues == [operators |-> Operators, equipment |-> Equipment, locations |-> Locations,
               companies |-> Company, categories |-> DowntimeCategories, reasons |-> DowntimeReasons,
               rejections |-> Rejections, plans |-> Plans]

CONSTANTS
    Owners,     \* numbers of companies
    Labels,     \* labels, the codes of plans
    MaxItems    \* bound on rows

ASSUME CatalogueAssumption ==
    /\ IsFiniteSet(Owners) /\ Owners = 1..Cardinality(Owners) /\ 1 \in Owners
    /\ IsFiniteSet(Labels) /\ Cardinality(Labels) >= Cardinality(Owners)
    /\ MaxItems \in Nat

VARIABLES
    resource,   \* the catalogue that the requests of a behaviour are for
    items,      \* its rows
    mixed       \* history: rows that were written while a request had them loaded

catalogueTables == <<resource, items, mixed>>

CatalogueOK ==
    /\ resource \in DOMAIN Catalogues
    /\ items \in Seq([owner : Owners, label : Labels, flag : BOOLEAN, there : BOOLEAN])
    /\ mixed \subseteq DOMAIN items

\* Each company has a row, with a label of its own: a plan's code is unique.
CatalogueInit ==
    /\ resource \in DOMAIN Catalogues
    /\ LET label == CHOOSE f \in [Owners -> Labels] : \A o, p \in Owners : f[o] = f[p] => o = p
       IN  items = [o \in Owners |-> [owner |-> o, label |-> label[o], flag |-> TRUE, there |-> TRUE]]
    /\ mixed = {}

Its == Catalogues[resource]
Present == {i \in DOMAIN items : items[i].there}

-------------------------------------------------------------------------------
\* What reads of the keys show.  Lists and "companies:current:{{user.companyId}}" are
\* keys for the callers of all companies; "all" shows rows of all of them, but of
\* locations those in use at the caller's.
Item(i) == <<"item", i>>
AllItems == <<"all items", 0>>
ActiveItems == <<"active items", 0>>
CurrentCompany == <<"current company", 0>>
CatalogueKeys ==
    CASE Its.cached = "items" -> {AllItems, ActiveItems} \cup {Item(i) : i \in DOMAIN items}
      [] Its.cached = "list" -> {AllItems}
      [] Its.cached = "current" -> {CurrentCompany}
      [] OTHER -> {}
List(I) == {{<<i, items[i]>> : i \in I}}
ActiveOf(o) == {i \in Present : items[i].flag /\ items[i].owner = o}
CatalogueViews(k) ==
    CASE k = ActiveItems \/ Its.cached = "list" -> {List(ActiveOf(o)) : o \in Owners}
      [] k = AllItems -> {List(Present)}
      [] k = CurrentCompany -> {{<<i, items[i]>>} : i \in Present}
      [] OTHER -> {{<<i, items[i]>> : i \in {k[2]} \cap Present}}

\* The keys that the routes of a row are to evict: never the active ones, and
\* "companies:current:{{id}}" is no key of any answer.
Evicted(i) == CatalogueKeys \cap {AllItems, Item(i)}

\* A request about row i begins; a save of the row that is on its way will undo it.
About(r, label, a) ==
    /\ Begin(r, label, a)
    /\ mixed' = IF \E q \in Requests : pc[q] = "save" /\ arg[q].row = a.row
                  THEN mixed \cup {a.row} ELSE mixed
    /\ UNCHANGED resource

-------------------------------------------------------------------------------
\* The unique indexes: the codes of plans, those of deleted ones too, and of the
\* locations of a company.
Taken(row, i) ==
    \E j \in DOMAIN items \ {i} :
        /\ items[j].label = row.label
        /\ resource = "plans" \/ (resource = "locations" /\ items[j].owner = row.owner)

\* A location's manager may then be invited (Invitations).
ItemCreate(r, o, label) ==
    LET row == [owner |-> o, label |-> label, flag |-> TRUE, there |-> TRUE] IN
    /\ resource \notin {"companies", "plans"}
    /\ Len(items) < MaxItems
    /\ ~Taken(row, 0)
    /\ items' = Append(items, row)
    /\ Begin(r, "evict", Route(CatalogueKeys \cap {AllItems}))
    /\ UNCHANGED <<resource, mixed>>

\* A plan's code is looked up before it is stored.
PlanFind(r, code) ==
    /\ resource = "plans"
    /\ \A i \in Present : items[i].label # code
    /\ Begin(r, "plan", [NoArg EXCEPT !.loaded = code])
    /\ UNCHANGED catalogueTables

PlanInsert(r) ==
    LET row == [owner |-> 1, label |-> arg[r].loaded, flag |-> TRUE, there |-> TRUE] IN
    /\ pc[r] = "plan"
    /\ items' = IF Len(items) = MaxItems \/ Taken(row, 0) THEN items ELSE Append(items, row)
    /\ Finish(r)
    /\ UNCHANGED <<resource, mixed>>

-------------------------------------------------------------------------------
\* The columns are updated first; then the row is read for the answer.
ItemUpdate(r, i, f, v) ==
    LET a == [Route(Evicted(i)) EXCEPT !.row = i, !.other = f] IN
    /\ Its.change = "update"
    /\ items' = IF items[i].there THEN [items EXCEPT ![i][f] = v] ELSE items
    /\ About(r, "reread", a)

\* SettingsService and LocationsService find the row, update it, and find it again
\* unless they clear the flag of a setting that is deleted.
SettingFind(r, i, f, v) ==
    /\ Its.change = "find"
    /\ About(r, "setting", [Route(Evicted(i)) EXCEPT !.row = i, !.other = f, !.loaded = v])
    /\ UNCHANGED items

SettingUpdate(r) ==
    LET a == arg[r]
        row == [items[a.row] EXCEPT ![a.other] = a.loaded]
    IN
    /\ pc[r] = "setting"
    /\ IF Taken(row, a.row) THEN Finish(r) /\ UNCHANGED items
       ELSE /\ items' = [items EXCEPT ![a.row] = row]
            /\ Goto(r, "evict", a)
    /\ UNCHANGED <<resource, mixed>>

\* updatePlan looks up a code that is new to the plan.
CodeFree(i, code) == code # items[i].label => \A j \in Present : items[j].label # code

\* DBService.update, and updatePlan.
ItemFind(r, i, f, v) ==
    /\ Its.change = "save"
    /\ items[i].there
    /\ (resource = "plans" /\ f = "label") => CodeFree(i, v)
    /\ About(r, "save", [Route(Evicted(i)) EXCEPT !.row = i, !.other = f,
                            !.loaded = [items[i] EXCEPT ![f] = v]])
    /\ UNCHANGED items

\* save writes all of the row as it was loaded: it takes back what others have written,
\* and a removal.
ItemSave(r) ==
    LET a == arg[r] IN
    /\ pc[r] = "save"
    /\ IF Taken(a.loaded, a.row) THEN Finish(r) /\ UNCHANGED items
       ELSE /\ items' = [items EXCEPT ![a.row] = a.loaded]
            /\ Goto(r, "evict", a)
    /\ UNCHANGED <<resource, mixed>>

\* Of a row that is gone, a delete answers that there is none.
ItemRemove(r, i) ==
    LET a == [Route(Evicted(i)) EXCEPT !.row = i, !.other = "there"] IN
    /\ Its.remove \in {"delete", "stamp"}
    /\ items[i].there
    /\ items' = [items EXCEPT ![i].there = FALSE]
    /\ About(r, "evict", a)

CatalogueStep(r) ==
    \/ PlanInsert(r) \/ SettingUpdate(r) \/ ItemSave(r)
    \/ Reread(r, items[arg[r].row].there) /\ UNCHANGED catalogueTables

CatalogueRequest(r) ==
    \/ \E code \in Labels : PlanFind(r, code)
    \/ \E o \in Owners, label \in Labels : ItemCreate(r, o, label)
    \/ \E i \in DOMAIN items :
          \/ ItemRemove(r, i)
          \/ \E label \in Labels :
                \/ ItemUpdate(r, i, "label", label)
                \/ SettingFind(r, i, "label", label)
                \/ ItemFind(r, i, "label", label)
          \/ \E flag \in BOOLEAN :
                \/ ItemUpdate(r, i, "flag", flag)
                \/ SettingFind(r, i, "flag", flag)
                \/ ItemFind(r, i, "flag", flag)

-------------------------------------------------------------------------------
\* A row changes, or comes back, only as the request asks whose statement it is,
\* except that the save of a loaded row also takes back what was written since.
ColumnsKept ==
    \A i \in DOMAIN items : \A f \in {"label", "flag", "there"} :
        items'[i][f] # items[i][f] =>
            \/ i \in mixed
            \/ \E r \in Requests :
                  LET a == IF pc[r] = "idle" THEN arg'[r] ELSE arg[r]
                  IN  pc'[r] # pc[r] /\ a.row = i /\ a.other = f
===============================================================================
