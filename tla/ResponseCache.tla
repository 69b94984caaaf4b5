----------------------------- MODULE ResponseCache -----------------------------
(***************************************************************************)
(* CacheInterceptor, which every route passes: a GET marked @Cacheable is  *)
(* answered from the cache or stores its handler's answer, a route marked  *)
(* @CacheEvict is to drop keys after its handler has succeeded.            *)
(*                                                                         *)
(* A key is a pair of its kind and what its placeholders stand for; what   *)
(* is stored is a set of one answer, a row or a list of them, and {} when  *)
(* the handler finds nothing and throws.  The modules of the services      *)
(* put their handlers between the interceptor's steps.  Hits change        *)
(* nothing and are left out, and so do requests with disableCache, which   *)
(* pass the interceptor by: nothing is dropped for the others either.  The *)
(* text of keys is left out too.                                           *)
(***************************************************************************)
EXTENDS Integers, Sequences, FiniteSets

CONSTANTS
    Requests,   \* request handlers that can be active at once
    Ttl,        \* the time to live that a route gives its answers
    MaxOps,     \* bound on requests in a behaviour
    MaxFaults,  \* bound on restarts and failing calls in a behaviour
    MaxTime     \* bound on the clock

ASSUME BoundsAssumption == {Ttl, MaxOps, MaxFaults, MaxTime} \subseteq Nat

VARIABLES
    cache,      \* the stored answers, a function of their keys
    pc,         \* pc[r]: the await request r is at
    arg,        \* arg[r]: what it works on
    ops,        \* requests so far
    faults,     \* faults so far
    now         \* the clock

requestVars == <<cache, pc, arg, ops, faults, now>>

\* key, value, read: what a GET reads and stores, and when it was read; evicts: the keys
\* that the route names; row, other and loaded: the handler's own variables.
NoArg == [key |-> <<"none", 0>>, value |-> {}, read |-> 0, evicts |-> {},
          row |-> 0, other |-> 0, loaded |-> <<>>]

CacheInit ==
    /\ cache = <<>>
    /\ pc = [r \in Requests |-> "idle"]
    /\ arg = [r \in Requests |-> NoArg]
    /\ ops = 0
    /\ faults = 0
    /\ now = 0

-------------------------------------------------------------------------------
Enter(r, label, a) ==
    /\ pc[r] = "idle"
    /\ ops < MaxOps
    /\ ops' = ops + 1
    /\ pc' = [pc EXCEPT ![r] = label]
    /\ arg' = [arg EXCEPT ![r] = a]
    /\ UNCHANGED <<faults, now>>

Begin(r, label, a) == Enter(r, label, a) /\ UNCHANGED cache

Goto(r, label, a) ==
    /\ pc' = [pc EXCEPT ![r] = label]
    /\ arg' = [arg EXCEPT ![r] = a]
    /\ UNCHANGED <<cache, ops, faults, now>>

Finish(r) == Goto(r, "idle", NoArg)

\* A request of a route that is to evict the keys.
Route(keys) == [NoArg EXCEPT !.evicts = keys]

-------------------------------------------------------------------------------
\* An answer is served until its time to live is over.
Served(k) == k \in DOMAIN cache /\ now <= cache[k].expires

\* Looking for it drops an answer that has expired.
Get(r, k) ==
    /\ ~Served(k)
    /\ cache' = [j \in DOMAIN cache \ {k} |-> cache[j]]
    /\ Enter(r, "read", [NoArg EXCEPT !.key = k])

\* *(Mutant)* The answer of a handler that found nothing is stored too.
ReadNothing(r, v) ==
    /\ pc[r] = "read"
    /\ Goto(r, "fill", [arg[r] EXCEPT !.value = v, !.read = now])

\* The handler finds v, or throws.
Read(r, v) ==
    /\ pc[r] = "read"
    /\ IF v = {} THEN Finish(r) ELSE Goto(r, "fill", [arg[r] EXCEPT !.value = v, !.read = now])

\* *(Mutant)* The answer never expires.
EntryForever(a) == [value |-> a.value, delay |-> now - a.read, expires |-> now + MaxTime]

\* What is stored, with the time that it took since it was read.
Entry(a) == [value |-> a.value, delay |-> now - a.read, expires |-> now + Ttl]

Fill(r) ==
    /\ pc[r] = "fill"
    /\ cache' = [k \in DOMAIN cache \cup {arg[r].key} |->
                    IF k = arg[r].key THEN Entry(arg[r]) ELSE cache[k]]
    /\ pc' = [pc EXCEPT ![r] = "idle"]
    /\ arg' = [arg EXCEPT ![r] = NoArg]
    /\ UNCHANGED <<ops, faults, now>>

\* The handler reads the written row again for its answer, or throws without it.
Reread(r, exists) ==
    /\ pc[r] = "reread"
    /\ IF exists THEN Goto(r, "evict", arg[r]) ELSE Finish(r)

\* The keys of the store, a Map, come as an iterator, which has no filter: the error is
\* caught and logged, and nothing is dropped.
Evict(r) == pc[r] = "evict" /\ Finish(r)

\* A call of the request throws.
Fail(r) ==
    /\ pc[r] # "idle"
    /\ faults < MaxFaults
    /\ faults' = faults + 1
    /\ pc' = [pc EXCEPT ![r] = "idle"]
    /\ arg' = [arg EXCEPT ![r] = NoArg]
    /\ UNCHANGED <<cache, ops, now>>

\* The cache is in the memory of the process.
Restart ==
    /\ faults < MaxFaults
    /\ faults' = faults + 1
    /\ cache' = <<>>
    /\ pc' = [r \in Requests |-> "idle"]
    /\ arg' = [r \in Requests |-> NoArg]
    /\ UNCHANGED <<ops, now>>

\* Time passes.
Tick ==
    /\ now < MaxTime
    /\ now' = now + 1
    /\ UNCHANGED <<cache, pc, arg, ops, faults>>
===============================================================================
