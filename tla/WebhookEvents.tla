----------------------------- MODULE WebhookEvents -----------------------------
(***************************************************************************)
(* The idempotency ledger of the Stripe webhook: WebhookService            *)
(* (shouldProcessEvent, markEventCompleted, markEventFailed) driven by     *)
(* WebhooksController (handleStripeWebhook, processEventAsync).            *)
(*                                                                         *)
(* A delivery is one HTTP request that carries one event.  Stripe delivers *)
(* at least once, in any order, so several deliveries may carry the same   *)
(* event and run at the same time.  Every await of the code is a step of   *)
(* its own: the ledger row is read by one step and written by a later one. *)
(***************************************************************************)
EXTENDS Naturals, FiniteSets

CONSTANTS
    Events,      \* Stripe event ids
    Deliveries,  \* webhook requests; each carries one event and ends
    MaxFaults    \* bound: crashes and failing database calls in a behaviour

ASSUME MaxFaultsAssumption == MaxFaults \in Nat

VARIABLES
    row,      \* row[e]: the webhook_events row of e, its status and attempts
    stale,    \* events whose row was last updated over five minutes ago
    pc,       \* pc[d]: the await delivery d is at
    ev,       \* ev[d]: the event delivery d carries, chosen once by Stripe
    seen,     \* seen[d]: processingAttempts of the entity d has loaded
    acked,    \* events Stripe has got a 200 for
    faults,   \* faults so far
    ran,      \* history: completed runs of the event's handler
    granted,  \* history: deliveries that were told to process the event
    reopened, \* history: events marked failed, or whose lock grew stale
    dropped   \* history: events whose granted delivery died with its process

vars == <<row, stale, pc, ev, seen, acked, faults, ran, granted, reopened, dropped>>

Status == {"absent", "processing", "completed", "failed"}

\* A granted delivery: shouldProcessEvent has returned true for it.
Granted == {"ready", "run", "complete", "fail"}
InFlight == {"lookup", "insert", "save"} \cup Granted
Pc == {"idle", "done"} \cup InFlight

Owners(e) == {d \in Deliveries : ev[d] = e /\ pc[d] \in Granted}

TypeOK ==
    /\ row \in [Events -> [status : Status, attempts : Nat]]
    /\ stale \in SUBSET Events
    /\ pc \in [Deliveries -> Pc]
    /\ ev \in [Deliveries -> Events]
    /\ seen \in [Deliveries -> Nat]
    /\ acked \in SUBSET Events
    /\ faults \in 0..MaxFaults
    /\ ran \in [Events -> Nat]
    /\ granted \in [Events -> Nat]
    /\ reopened \in SUBSET Events
    /\ dropped \in SUBSET Events

Init ==
    /\ row = [e \in Events |-> [status |-> "absent", attempts |-> 0]]
    /\ stale = {}
    /\ pc = [d \in Deliveries |-> "idle"]
    /\ ev \in [Deliveries -> Events]
    /\ seen = [d \in Deliveries |-> 0]
    /\ acked = {}
    /\ faults = 0
    /\ ran = [e \in Events |-> 0]
    /\ granted = [e \in Events |-> 0]
    /\ reopened = {}
    /\ dropped = {}

-------------------------------------------------------------------------------
\* Helpers: a delivery moves on, a row is written.

Goto(d, label) == pc' = [pc EXCEPT ![d] = label]

\* A TypeORM write of the row of e.  It bumps updatedAt, so the lock is fresh
\* again, unless save() finds no column that differs and sends no UPDATE.
Write(e, new) ==
    /\ row' = [row EXCEPT ![e] = new]
    /\ stale' = IF new = row[e] THEN stale ELSE stale \ {e}

Grant(d, e) ==
    /\ granted' = [granted EXCEPT ![e] = @ + 1]
    /\ Goto(d, "ready")

\* The request ends with a 200.
Acknowledge(d, label) ==
    /\ Goto(d, label)
    /\ acked' = acked \cup {ev[d]}

Fault ==
    /\ faults < MaxFaults
    /\ faults' = faults + 1

-------------------------------------------------------------------------------
\* (Mutant) A controller that answers 200 before it consults the ledger.
DeliverAckedEarly(d) ==
    /\ pc[d] = "idle"
    /\ Acknowledge(d, "lookup")
    /\ UNCHANGED <<row, stale, ev, seen, faults, ran, granted, reopened, dropped>>

\* handleStripeWebhook: the request arrives and its signature is verified.
Deliver(d) ==
    /\ pc[d] = "idle"
    /\ Goto(d, "lookup")
    /\ UNCHANGED <<row, stale, ev, seen, acked, faults, ran, granted, reopened, dropped>>

\* The row is completed, or another delivery holds a lock that is still fresh.
AlreadyHandled(e) ==
    \/ row[e].status = "completed"
    \/ row[e].status = "processing" /\ e \notin stale

\* (Mutant) A lookup without the early return on COMPLETED.
LookupIgnoringCompleted(d) ==
    LET e == ev[d] IN
    /\ pc[d] = "lookup"
    /\ \/ /\ row[e].status = "absent"
          /\ Goto(d, "insert")
          /\ UNCHANGED <<seen, acked>>
       \/ /\ row[e].status = "processing" /\ e \notin stale
          /\ Acknowledge(d, "done")
          /\ UNCHANGED seen
       \/ /\ row[e].status \in {"failed", "completed"} \/ e \in stale
          /\ seen' = [seen EXCEPT ![d] = row[e].attempts]
          /\ Goto(d, "save")
          /\ UNCHANGED acked
    /\ UNCHANGED <<row, stale, ev, faults, ran, granted, reopened, dropped>>

\* shouldProcessEvent, up to its first write: findOne and the early returns.
Lookup(d) ==
    LET e == ev[d] IN
    /\ pc[d] = "lookup"
    /\ \/ /\ row[e].status = "absent"
          /\ Goto(d, "insert")
          /\ UNCHANGED <<seen, acked>>
       \/ /\ AlreadyHandled(e)
          /\ Acknowledge(d, "done")
          /\ UNCHANGED seen
       \/ /\ row[e].status # "absent"
          /\ ~AlreadyHandled(e)
          /\ seen' = [seen EXCEPT ![d] = row[e].attempts]
          /\ Goto(d, "save")
          /\ UNCHANGED acked
    /\ UNCHANGED <<row, stale, ev, faults, ran, granted, reopened, dropped>>

\* The retry branch: the loaded entity is saved, whatever the row is by now.
SaveRetry(d) ==
    LET e == ev[d] IN
    /\ pc[d] = "save"
    /\ Write(e, [status |-> "processing", attempts |-> seen[d] + 1])
    /\ Grant(d, e)
    /\ UNCHANGED <<ev, seen, acked, faults, ran, reopened, dropped>>

\* (Mutant) An insert that takes a unique violation for success.
InsertIgnoringConflict(d) ==
    LET e == ev[d] IN
    /\ pc[d] = "insert"
    /\ Write(e, [status |-> "processing", attempts |-> 1])
    /\ Grant(d, e)
    /\ UNCHANGED <<ev, seen, acked, faults, ran, reopened, dropped>>

\* (Mutant) An insert that leaves status to the column's default.
InsertDefaultStatus(d) ==
    LET e == ev[d] IN
    /\ pc[d] = "insert"
    /\ row[e].status = "absent"
    /\ Write(e, [status |-> "received", attempts |-> 1])
    /\ Grant(d, e)
    /\ UNCHANGED <<ev, seen, acked, faults, ran, reopened, dropped>>

\* The creation branch: eventId is unique, and a violation (23505) means that
\* another delivery has created the row, so this one is skipped.
Insert(d) ==
    LET e == ev[d] IN
    /\ pc[d] = "insert"
    /\ \/ /\ row[e].status = "absent"
          /\ Write(e, [status |-> "processing", attempts |-> 1])
          /\ Grant(d, e)
          /\ UNCHANGED acked
       \/ /\ row[e].status # "absent"
          /\ Acknowledge(d, "done")
          /\ UNCHANGED <<row, stale, granted>>
    /\ UNCHANGED <<ev, seen, faults, ran, reopened, dropped>>

\* handleStripeWebhook schedules processEventAsync and answers 200.
Respond(d) ==
    /\ pc[d] = "ready"
    /\ Acknowledge(d, "run")
    /\ UNCHANGED <<row, stale, ev, seen, faults, ran, granted, reopened, dropped>>

\* The handler of the event's type, run to its end or to an exception.
HandlerReturns(d) ==
    /\ pc[d] = "run"
    /\ ran' = [ran EXCEPT ![ev[d]] = @ + 1]
    /\ Goto(d, "complete")
    /\ UNCHANGED <<row, stale, ev, seen, acked, faults, granted, reopened, dropped>>

HandlerThrows(d) ==
    /\ pc[d] = "run"
    /\ Goto(d, "fail")
    /\ UNCHANGED <<row, stale, ev, seen, acked, faults, ran, granted, reopened, dropped>>

MarkCompleted(d) ==
    LET e == ev[d] IN
    /\ pc[d] = "complete"
    /\ row' = [row EXCEPT ![e].status = "completed"]
    /\ stale' = stale \ {e}
    /\ Goto(d, "done")
    /\ UNCHANGED <<ev, seen, acked, faults, ran, granted, reopened, dropped>>

\* (Mutant) The failing path without its write: the row is left as it is.
MarkFailedForgotten(d) ==
    /\ pc[d] = "fail"
    /\ Goto(d, "done")
    /\ UNCHANGED <<row, stale, ev, seen, acked, faults, ran, granted, reopened, dropped>>

MarkFailed(d) ==
    LET e == ev[d] IN
    /\ pc[d] = "fail"
    /\ row' = [row EXCEPT ![e].status = "failed"]
    /\ stale' = stale \ {e}
    /\ reopened' = reopened \cup {e}
    /\ Goto(d, "done")
    /\ UNCHANGED <<ev, seen, acked, faults, ran, granted, dropped>>

-------------------------------------------------------------------------------
\* Time and faults.

\* Five minutes pass after the last write of a PROCESSING row.
LockGrowsStale(e) ==
    /\ row[e].status = "processing"
    /\ e \notin stale
    /\ stale' = stale \cup {e}
    /\ reopened' = reopened \cup {e}
    /\ UNCHANGED <<row, pc, ev, seen, acked, faults, ran, granted, dropped>>

\* A database call of shouldProcessEvent throws: the request answers 500.
RequestFails(d) ==
    /\ pc[d] \in {"lookup", "insert", "save"}
    /\ Fault
    /\ Goto(d, "done")
    /\ UNCHANGED <<row, stale, ev, seen, acked, ran, granted, reopened, dropped>>

\* markEventCompleted throws: the catch block takes it for a handler's error.
MarkCompletedFails(d) ==
    /\ pc[d] = "complete"
    /\ Fault
    /\ Goto(d, "fail")
    /\ UNCHANGED <<row, stale, ev, seen, acked, ran, granted, reopened, dropped>>

\* The process that serves the deliveries in S dies.  It also does when
\* markEventFailed throws, for nothing catches that rejection.
Crash(S) ==
    /\ Fault
    /\ pc' = [d \in Deliveries |-> IF d \in S THEN "done" ELSE pc[d]]
    /\ dropped' = dropped \cup {ev[d] : d \in {x \in S : pc[x] \in Granted}}
    /\ UNCHANGED <<row, stale, ev, seen, acked, ran, granted, reopened>>

-------------------------------------------------------------------------------
Step(d) ==
    \/ Lookup(d) \/ Insert(d) \/ SaveRetry(d) \/ Respond(d)
    \/ HandlerReturns(d) \/ HandlerThrows(d)
    \/ MarkCompleted(d) \/ MarkFailed(d)

Next ==
    \/ \E d \in Deliveries :
          Deliver(d) \/ Step(d) \/ RequestFails(d) \/ MarkCompletedFails(d)
    \/ \E e \in Events : LockGrowsStale(e)
    \/ \E S \in SUBSET {d \in Deliveries : pc[d] \in InFlight} : S # {} /\ Crash(S)

Spec == Init /\ [][Next]_vars

\* A pending await is eventually resolved by the event loop; nothing obliges
\* Stripe to deliver, the clock to reach a timeout or a process to crash.
FairSpec == Spec /\ \A d \in Deliveries : WF_vars(Step(d))

-------------------------------------------------------------------------------
\* Until an event is marked failed or its lock grows stale, at most one
\* delivery is let through shouldProcessEvent and its handler runs at most once.
\* It is what the unique eventId and the PROCESSING lock are for.
OnceUntilReopened ==
    \A e \in Events \ reopened :
        /\ ran[e] <= 1
        /\ \A d1, d2 \in Owners(e) : d1 = d2

\* A row says COMPLETED only if some delivery ran the handler to its end: a
\* handler that threw is never recorded as done, which would end all retries.
CompletedMeansProcessed ==
    \A e \in Events : row[e].status = "completed" => ran[e] > 0

\* Stripe stops redelivering an event only once the event is on record, whatever
\* fails between the ledger's write and the answer.
AckedIsRecorded ==
    \A e \in acked : row[e].status # "absent"

\* processingAttempts never exceeds the number of deliveries let through.  Two
\* retries that load the same row save the same number, so it can fall behind.
AttemptsNeverOvercount ==
    \A e \in Events : row[e].attempts <= granted[e]

\* Without a failure or a stale lock, COMPLETED is final: no late write of
\* another delivery takes it back and reopens the event.
CompletedIsFinal ==
    [][\A e \in Events :
          (row[e].status = "completed" /\ e \notin reopened)
              => row'[e].status = "completed"]_vars

\* An event whose row says PROCESSING is eventually COMPLETED or FAILED, unless
\* the process that was handling it died: nothing else leaves it locked.
ProcessingSettles ==
    \A e \in Events :
        row[e].status = "processing"
            ~> (row[e].status \in {"completed", "failed"} \/ e \in dropped)

\* The controller's comment: the ledger processes each event only once.
ProcessedOnlyOnce ==
    \A e \in Events : ran[e] <= 1

\* The ledger implements the lease of EventLease.
Lease == INSTANCE EventLease WITH
    phase <- [e \in Events |-> IF row[e].status = "absent" THEN "new"
                               ELSE IF e \in reopened THEN "open" ELSE "leased"],
    ran <- ran

\* Every step of the ledger is a step of the lease or changes neither the
\* lease nor the run count.
ImplementsLease == Lease!Spec
===============================================================================
