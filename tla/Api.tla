---------------------------------- MODULE Api ----------------------------------
(***************************************************************************)
(* The services behind the one interceptor, most with cached answers.      *)
(* Their tables and keys are apart, so that the requests of one behaviour  *)
(* are those of one service: "part" says which.                            *)
(***************************************************************************)
EXTENDS Departments, Sessions, Production, Catalogue, References

VARIABLES
    part,       \* the service that the requests of a behaviour are for
    shown       \* history: when the database last showed an answer that is stored or on its way

tables == <<deptTables, userTables, sessionTables, floorTables, catalogueTables,
            referenceTables>>
vars == <<requestVars, tables, part, shown>>

Parts == {"departments", "users", "sessions", "production", "catalogue", "references"}

Keys == CASE part = "departments" -> DeptKeys
          [] part = "users" -> UserKeys
          [] part = "production" -> FloorKeys
          [] part = "catalogue" -> CatalogueKeys
          [] OTHER -> {}

\* What a read of the key can show now.
Views(k) == CASE part = "departments" -> {DeptView(k)}
              [] part = "users" -> UserViews(k)
              [] part = "production" -> {FloorView(k)}
              [] part = "catalogue" -> CatalogueViews(k)

\* The answers that are stored, or that a GET has read and will store.
Answers ==
    {<<k, cache[k].value>> : k \in DOMAIN cache} \cup
    {<<arg[r].key, arg[r].value>> : r \in {q \in Requests : pc[q] = "fill"}}

TypeOK ==
    /\ DeptOK /\ UserOK /\ SessionOK /\ OrderOK /\ CatalogueOK /\ ReferenceOK
    /\ part \in Parts
    /\ DOMAIN cache \subseteq Keys
    /\ \A k \in DOMAIN cache :
          /\ Cardinality(cache[k].value) = 1
          /\ cache[k].delay \in 0..MaxTime /\ cache[k].expires \in 0..(MaxTime + Ttl)
    /\ \A r \in Requests : pc[r] = "fill" => arg[r].key \in Keys /\ Cardinality(arg[r].value) = 1
    /\ ops \in 0..MaxOps
    /\ faults \in 0..MaxFaults
    /\ now \in 0..MaxTime
    /\ shown \in [Answers -> 0..MaxTime]

Init ==
    /\ CacheInit /\ DeptInit /\ UserInit /\ SessionInit /\ FloorInit /\ CatalogueInit
    /\ ReferenceInit
    /\ part \in Parts
    /\ part # "production" => orders = <<>>
    /\ part # "catalogue" => resource = "operators"
    /\ part # "references" => present = Row("companies")
    /\ shown = <<>>

CacheStep(r) ==
    /\ \/ pc[r] = "read" /\ \E v \in Views(arg[r].key) : Read(r, v)
       \/ Fill(r)
       \/ Evict(r)
    /\ UNCHANGED tables

Request(r) ==
    \/ /\ part = "departments" /\ (DeptStep(r) \/ DeptRequest(r))
       /\ UNCHANGED <<userTables, sessionTables, floorTables, catalogueTables, referenceTables>>
    \/ /\ part = "users" /\ (UserStep(r) \/ UserRequest(r))
       /\ UNCHANGED <<deptTables, sessionTables, floorTables, catalogueTables, referenceTables>>
    \/ /\ part = "sessions" /\ (SessionStep(r) \/ SessionRequest(r))
       /\ UNCHANGED <<deptTables, floorTables, catalogueTables, referenceTables>>
    \/ /\ part = "production" /\ (FloorStep(r) \/ FloorRequest(r))
       /\ UNCHANGED <<deptTables, userTables, sessionTables, catalogueTables, referenceTables>>
    \/ /\ part = "catalogue" /\ (CatalogueStep(r) \/ CatalogueRequest(r))
       /\ UNCHANGED <<deptTables, userTables, sessionTables, floorTables, referenceTables>>
    \/ /\ part = "references" /\ (RowDelete(r) \/ ReferenceRequest(r))
       /\ UNCHANGED <<deptTables, userTables, sessionTables, floorTables, catalogueTables>>

Interceptor ==
    /\ \/ \E r \in Requests : Fail(r) \/ \E k \in Keys : Get(r, k)
       \/ Restart
       \/ Tick
    /\ UNCHANGED tables

\* What the database shows after the step, it shows now.
Show == shown' = [x \in Answers' |-> IF x[2] \in Views(x[1])' THEN now' ELSE shown[x]]

Next ==
    /\ \/ Interceptor
       \/ \E r \in Requests : CacheStep(r) \/ Request(r)
    /\ UNCHANGED part
    /\ Show

Spec == Init /\ [][Next]_vars

-------------------------------------------------------------------------------
\* An answer that is served was what the database showed at most its time to live ago,
\* or longer only by the time that its GET took from reading it to storing it.  That is
\* all that bounds how stale it is: no write takes it back, and what a GET stores may be
\* out of date already.
AnswersExpire ==
    \A k \in DOMAIN cache :
        Served(k) => now - shown[<<k, cache[k].value>>] <= Ttl + cache[k].delay

\* As CacheEvict's comment has it, the entries of the keys that a route names are removed
\* when it has been called.
EvictedKeysGo ==
    [][\A r \in Requests : Evict(r) => \A k \in arg[r].evicts : (~Served(k))']_vars

\* A request that reads a row and writes it later loses nothing that another has
\* written in between, unless the two overlapped; and one that deletes a row takes
\* no row of another service along.
NothingLost == [][PreferencesKept /\ EndsKept /\ ColumnsKept /\ RowsKept]_vars
===============================================================================
