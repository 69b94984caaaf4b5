-------------------------- MODULE WebhookEventsProofs --------------------------
(***************************************************************************)
(* Theorems about WebhookEvents, for every set of events and deliveries    *)
(* and every number of faults.  Liveness (ProcessingSettles) is left to    *)
(* TLC.                                                                    *)
(*                                                                         *)
(* OnceUntilReopened is not inductive: it says nothing of the row, and it  *)
(* is the row that keeps a second delivery out.  LeaseInv ties the two     *)
(* together: as long as an event is not reopened its lock is fresh, no     *)
(* delivery is about to save a retry, and a granted delivery has the row   *)
(* PROCESSING to itself.                                                   *)
(***************************************************************************)
EXTENDS WebhookEvents, TLAPS

\* The state of an event that has not been opened for a retry.
Leased(e) ==
    /\ e \notin stale
    /\ row[e].status # "failed"
    /\ ran[e] <= 1
    /\ \A d \in Deliveries : ev[d] = e =>
          /\ pc[d] # "save"
          /\ pc[d] \in Granted => row[e].status = "processing"
          /\ pc[d] \in {"ready", "run"} => ran[e] = 0
    /\ \A d1, d2 \in Owners(e) : d1 = d2

LeaseInv == \A e \in Events \ reopened : Leased(e)

\* What the row owes to the deliveries, reopened or not.
RecordInv ==
    /\ \A e \in Events : row[e].status = "absent" =>
          e \notin reopened /\ e \notin acked /\ ran[e] = 0
    /\ \A d \in Deliveries :
          pc[d] \in Granted \cup {"save"} => row[ev[d]].status # "absent"

\* Completion is recorded by a delivery whose handler has returned.
CompletionInv ==
    /\ CompletedMeansProcessed
    /\ \A d \in Deliveries : pc[d] = "complete" => ran[ev[d]] > 0

\* A loaded entity's count is one the row once had.
AttemptsInv ==
    /\ AttemptsNeverOvercount
    /\ \A d \in Deliveries : pc[d] = "save" => seen[d] <= granted[ev[d]]

IInv == TypeOK /\ LeaseInv /\ RecordInv /\ CompletionInv /\ AttemptsInv
-------------------------------------------------------------------------------
\* Types are preserved by every step.
LEMMA TypeStep ==
    ASSUME TypeOK, [Next]_vars
    PROVE  TypeOK'
  <1>1. ASSUME NEW d \in Deliveries, Deliver(d) PROVE TypeOK'
    BY <1>1, MaxFaultsAssumption DEF Deliver, Goto, TypeOK, Pc, InFlight, Granted, Status
  <1>2. ASSUME NEW d \in Deliveries, Lookup(d) PROVE TypeOK'
    BY <1>2, MaxFaultsAssumption DEF Lookup, Goto, Acknowledge, TypeOK, Pc, InFlight, Granted, Status
  <1>3. ASSUME NEW d \in Deliveries, Insert(d) PROVE TypeOK'
    <2>1. CASE row[ev[d]].status = "absent"
      <3>1. /\ row' = [row EXCEPT ![ev[d]] = [status |-> "processing", attempts |-> 1]]
            /\ stale' \in {stale, stale \ {ev[d]}}
            /\ granted' = [granted EXCEPT ![ev[d]] = @ + 1]
            /\ pc' = [pc EXCEPT ![d] = "ready"]
            /\ UNCHANGED <<ev, seen, acked, faults, ran, reopened, dropped>>
        BY <1>3, <2>1 DEF Insert, Write, Grant, Goto
      <3>2. QED BY <2>1, <3>1, MaxFaultsAssumption DEF TypeOK, Pc, InFlight, Granted, Status
    <2>2. CASE row[ev[d]].status # "absent"
      BY <1>3, <2>2, MaxFaultsAssumption DEF Insert, Acknowledge, Goto, TypeOK, Pc, InFlight, Granted, Status
    <2>3. QED BY <2>1, <2>2
  <1>4. ASSUME NEW d \in Deliveries, SaveRetry(d) PROVE TypeOK'
    BY <1>4, MaxFaultsAssumption DEF SaveRetry, Goto, Write, Grant, TypeOK, Pc, InFlight, Granted, Status
  <1>5. ASSUME NEW d \in Deliveries, Respond(d) PROVE TypeOK'
    BY <1>5, MaxFaultsAssumption DEF Respond, Goto, Acknowledge, TypeOK, Pc, InFlight, Granted, Status
  <1>6. ASSUME NEW d \in Deliveries, HandlerReturns(d) PROVE TypeOK'
    BY <1>6, MaxFaultsAssumption DEF HandlerReturns, Goto, TypeOK, Pc, InFlight, Granted, Status
  <1>7. ASSUME NEW d \in Deliveries, HandlerThrows(d) PROVE TypeOK'
    BY <1>7, MaxFaultsAssumption DEF HandlerThrows, Goto, TypeOK, Pc, InFlight, Granted, Status
  <1>8. ASSUME NEW d \in Deliveries, MarkCompleted(d) PROVE TypeOK'
    BY <1>8, MaxFaultsAssumption DEF MarkCompleted, Goto, TypeOK, Pc, InFlight, Granted, Status
  <1>9. ASSUME NEW d \in Deliveries, MarkFailed(d) PROVE TypeOK'
    BY <1>9, MaxFaultsAssumption DEF MarkFailed, Goto, TypeOK, Pc, InFlight, Granted, Status
  <1>10. ASSUME NEW d \in Deliveries, RequestFails(d) PROVE TypeOK'
    BY <1>10, MaxFaultsAssumption DEF RequestFails, Goto, Fault, TypeOK, Pc, InFlight, Granted, Status
  <1>11. ASSUME NEW d \in Deliveries, MarkCompletedFails(d) PROVE TypeOK'
    BY <1>11, MaxFaultsAssumption DEF MarkCompletedFails, Goto, Fault, TypeOK, Pc, InFlight, Granted, Status
  <1>12. ASSUME NEW e \in Events, LockGrowsStale(e) PROVE TypeOK'
    BY <1>12, MaxFaultsAssumption DEF LockGrowsStale, TypeOK, Pc, InFlight, Granted, Status
  <1>13. ASSUME NEW S \in SUBSET {d \in Deliveries : pc[d] \in InFlight}, Crash(S)
        PROVE TypeOK'
    BY <1>13, MaxFaultsAssumption DEF Crash, Fault, TypeOK, Pc, InFlight, Granted, Status
  <1>14. CASE UNCHANGED vars
    BY <1>14, MaxFaultsAssumption DEF vars, TypeOK, Pc, InFlight, Granted, Status
  <1>15. QED BY <1>1, <1>2, <1>3, <1>4, <1>5, <1>6, <1>7, <1>8, <1>9, <1>10, <1>11, <1>12, <1>13, <1>14 DEF Next, Step

\* The row of an event, once inserted, stays, and so do the counts behind it.
LEMMA RecordStep ==
    ASSUME TypeOK, RecordInv, [Next]_vars
    PROVE  RecordInv'
  <1>1. ASSUME NEW d \in Deliveries, Deliver(d) PROVE RecordInv'
    BY <1>1 DEF Deliver, Goto, TypeOK, RecordInv, Granted, AlreadyHandled
  <1>2. ASSUME NEW d \in Deliveries, Lookup(d) PROVE RecordInv'
    BY <1>2 DEF Lookup, Goto, Acknowledge, TypeOK, RecordInv, Granted, AlreadyHandled
  <1>3. ASSUME NEW d \in Deliveries, Insert(d) PROVE RecordInv'
    BY <1>3 DEF Insert, Goto, Write, Grant, Acknowledge, TypeOK, RecordInv, Granted, AlreadyHandled
  <1>4. ASSUME NEW d \in Deliveries, SaveRetry(d) PROVE RecordInv'
    BY <1>4 DEF SaveRetry, Goto, Write, Grant, TypeOK, RecordInv, Granted, AlreadyHandled
  <1>5. ASSUME NEW d \in Deliveries, Respond(d) PROVE RecordInv'
    BY <1>5 DEF Respond, Goto, Acknowledge, TypeOK, RecordInv, Granted, AlreadyHandled
  <1>6. ASSUME NEW d \in Deliveries, HandlerReturns(d) PROVE RecordInv'
    BY <1>6 DEF HandlerReturns, Goto, TypeOK, RecordInv, Granted, AlreadyHandled
  <1>7. ASSUME NEW d \in Deliveries, HandlerThrows(d) PROVE RecordInv'
    BY <1>7 DEF HandlerThrows, Goto, TypeOK, RecordInv, Granted, AlreadyHandled
  <1>8. ASSUME NEW d \in Deliveries, MarkCompleted(d) PROVE RecordInv'
    BY <1>8 DEF MarkCompleted, Goto, TypeOK, RecordInv, Granted, AlreadyHandled
  <1>9. ASSUME NEW d \in Deliveries, MarkFailed(d) PROVE RecordInv'
    BY <1>9 DEF MarkFailed, Goto, TypeOK, RecordInv, Granted, AlreadyHandled
  <1>10. ASSUME NEW d \in Deliveries, RequestFails(d) PROVE RecordInv'
    BY <1>10 DEF RequestFails, Goto, Fault, TypeOK, RecordInv, Granted, AlreadyHandled
  <1>11. ASSUME NEW d \in Deliveries, MarkCompletedFails(d) PROVE RecordInv'
    BY <1>11 DEF MarkCompletedFails, Goto, Fault, TypeOK, RecordInv, Granted, AlreadyHandled
  <1>12. ASSUME NEW e \in Events, LockGrowsStale(e) PROVE RecordInv'
    BY <1>12 DEF LockGrowsStale, TypeOK, RecordInv, Granted, AlreadyHandled
  <1>13. ASSUME NEW S \in SUBSET {d \in Deliveries : pc[d] \in InFlight}, Crash(S)
        PROVE RecordInv'
    BY <1>13 DEF Crash, Fault, TypeOK, RecordInv, Granted, AlreadyHandled
  <1>14. CASE UNCHANGED vars
    BY <1>14 DEF vars, TypeOK, RecordInv, Granted, AlreadyHandled
  <1>15. QED BY <1>1, <1>2, <1>3, <1>4, <1>5, <1>6, <1>7, <1>8, <1>9, <1>10, <1>11, <1>12, <1>13, <1>14 DEF Next, Step

LEMMA CompletionStep ==
    ASSUME TypeOK, CompletionInv, [Next]_vars
    PROVE  CompletionInv'
  <1>1. ASSUME NEW d \in Deliveries, Deliver(d) PROVE CompletionInv'
    BY <1>1 DEF Deliver, Goto, TypeOK, CompletionInv, CompletedMeansProcessed
  <1>2. ASSUME NEW d \in Deliveries, Lookup(d) PROVE CompletionInv'
    BY <1>2 DEF Lookup, Goto, Acknowledge, TypeOK, CompletionInv, CompletedMeansProcessed
  <1>3. ASSUME NEW d \in Deliveries, Insert(d) PROVE CompletionInv'
    BY <1>3 DEF Insert, Goto, Write, Grant, Acknowledge, TypeOK, CompletionInv, CompletedMeansProcessed
  <1>4. ASSUME NEW d \in Deliveries, SaveRetry(d) PROVE CompletionInv'
    BY <1>4 DEF SaveRetry, Goto, Write, Grant, TypeOK, CompletionInv, CompletedMeansProcessed
  <1>5. ASSUME NEW d \in Deliveries, Respond(d) PROVE CompletionInv'
    BY <1>5 DEF Respond, Goto, Acknowledge, TypeOK, CompletionInv, CompletedMeansProcessed
  <1>6. ASSUME NEW d \in Deliveries, HandlerReturns(d) PROVE CompletionInv'
    BY <1>6 DEF HandlerReturns, Goto, TypeOK, CompletionInv, CompletedMeansProcessed
  <1>7. ASSUME NEW d \in Deliveries, HandlerThrows(d) PROVE CompletionInv'
    BY <1>7 DEF HandlerThrows, Goto, TypeOK, CompletionInv, CompletedMeansProcessed
  <1>8. ASSUME NEW d \in Deliveries, MarkCompleted(d) PROVE CompletionInv'
    BY <1>8 DEF MarkCompleted, Goto, TypeOK, CompletionInv, CompletedMeansProcessed
  <1>9. ASSUME NEW d \in Deliveries, MarkFailed(d) PROVE CompletionInv'
    BY <1>9 DEF MarkFailed, Goto, TypeOK, CompletionInv, CompletedMeansProcessed
  <1>10. ASSUME NEW d \in Deliveries, RequestFails(d) PROVE CompletionInv'
    BY <1>10 DEF RequestFails, Goto, Fault, TypeOK, CompletionInv, CompletedMeansProcessed
  <1>11. ASSUME NEW d \in Deliveries, MarkCompletedFails(d) PROVE CompletionInv'
    BY <1>11 DEF MarkCompletedFails, Goto, Fault, TypeOK, CompletionInv, CompletedMeansProcessed
  <1>12. ASSUME NEW e \in Events, LockGrowsStale(e) PROVE CompletionInv'
    BY <1>12 DEF LockGrowsStale, TypeOK, CompletionInv, CompletedMeansProcessed
  <1>13. ASSUME NEW S \in SUBSET {d \in Deliveries : pc[d] \in InFlight}, Crash(S)
        PROVE CompletionInv'
    BY <1>13 DEF Crash, Fault, TypeOK, CompletionInv, CompletedMeansProcessed
  <1>14. CASE UNCHANGED vars
    BY <1>14 DEF vars, TypeOK, CompletionInv, CompletedMeansProcessed
  <1>15. QED BY <1>1, <1>2, <1>3, <1>4, <1>5, <1>6, <1>7, <1>8, <1>9, <1>10, <1>11, <1>12, <1>13, <1>14 DEF Next, Step

LEMMA AttemptsStep ==
    ASSUME TypeOK, RecordInv, AttemptsInv, [Next]_vars
    PROVE  AttemptsInv'
  <1>1. ASSUME NEW d \in Deliveries, Deliver(d) PROVE AttemptsInv'
    BY <1>1 DEF Deliver, Goto, TypeOK, AttemptsInv, AttemptsNeverOvercount
  <1>2. ASSUME NEW d \in Deliveries, Lookup(d) PROVE AttemptsInv'
    BY <1>2 DEF Lookup, Goto, Acknowledge, TypeOK, AttemptsInv, AttemptsNeverOvercount
  <1>3. ASSUME NEW d \in Deliveries, Insert(d) PROVE AttemptsInv'
    <2>1. CASE row[ev[d]].status = "absent"
      <3>1. /\ row' = [row EXCEPT ![ev[d]] = [status |-> "processing", attempts |-> 1]]
            /\ stale' \in {stale, stale \ {ev[d]}}
            /\ granted' = [granted EXCEPT ![ev[d]] = @ + 1]
            /\ pc' = [pc EXCEPT ![d] = "ready"]
            /\ UNCHANGED <<ev, seen, acked, faults, ran, reopened, dropped>>
        BY <1>3, <2>1 DEF Insert, Write, Grant, Goto
      <3>2. QED BY <2>1, <3>1 DEF TypeOK, AttemptsInv, AttemptsNeverOvercount
    <2>2. CASE row[ev[d]].status # "absent"
      BY <1>3, <2>2 DEF Insert, Acknowledge, Goto, TypeOK, AttemptsInv, AttemptsNeverOvercount
    <2>3. QED BY <2>1, <2>2
  <1>4. ASSUME NEW d \in Deliveries, SaveRetry(d) PROVE AttemptsInv'
    BY <1>4 DEF SaveRetry, Goto, Write, Grant, TypeOK, AttemptsInv, AttemptsNeverOvercount
  <1>5. ASSUME NEW d \in Deliveries, Respond(d) PROVE AttemptsInv'
    BY <1>5 DEF Respond, Goto, Acknowledge, TypeOK, AttemptsInv, AttemptsNeverOvercount
  <1>6. ASSUME NEW d \in Deliveries, HandlerReturns(d) PROVE AttemptsInv'
    BY <1>6 DEF HandlerReturns, Goto, TypeOK, AttemptsInv, AttemptsNeverOvercount
  <1>7. ASSUME NEW d \in Deliveries, HandlerThrows(d) PROVE AttemptsInv'
    BY <1>7 DEF HandlerThrows, Goto, TypeOK, AttemptsInv, AttemptsNeverOvercount
  <1>8. ASSUME NEW d \in Deliveries, MarkCompleted(d) PROVE AttemptsInv'
    BY <1>8 DEF MarkCompleted, Goto, TypeOK, AttemptsInv, AttemptsNeverOvercount
  <1>9. ASSUME NEW d \in Deliveries, MarkFailed(d) PROVE AttemptsInv'
    BY <1>9 DEF MarkFailed, Goto, TypeOK, AttemptsInv, AttemptsNeverOvercount
  <1>10. ASSUME NEW d \in Deliveries, RequestFails(d) PROVE AttemptsInv'
    BY <1>10 DEF RequestFails, Goto, Fault, TypeOK, AttemptsInv, AttemptsNeverOvercount
  <1>11. ASSUME NEW d \in Deliveries, MarkCompletedFails(d) PROVE AttemptsInv'
    BY <1>11 DEF MarkCompletedFails, Goto, Fault, TypeOK, AttemptsInv, AttemptsNeverOvercount
  <1>12. ASSUME NEW e \in Events, LockGrowsStale(e) PROVE AttemptsInv'
    BY <1>12 DEF LockGrowsStale, TypeOK, AttemptsInv, AttemptsNeverOvercount
  <1>13. ASSUME NEW S \in SUBSET {d \in Deliveries : pc[d] \in InFlight}, Crash(S)
        PROVE AttemptsInv'
    BY <1>13 DEF Crash, Fault, TypeOK, AttemptsInv, AttemptsNeverOvercount
  <1>14. CASE UNCHANGED vars
    BY <1>14 DEF vars, TypeOK, AttemptsInv, AttemptsNeverOvercount
  <1>15. QED BY <1>1, <1>2, <1>3, <1>4, <1>5, <1>6, <1>7, <1>8, <1>9, <1>10, <1>11, <1>12, <1>13, <1>14 DEF Next, Step

LEMMA LeaseStep ==
    ASSUME TypeOK, RecordInv, LeaseInv, [Next]_vars
    PROVE  LeaseInv'
  <1>1. ASSUME NEW d \in Deliveries, Deliver(d) PROVE LeaseInv'
    BY <1>1 DEF Deliver, Goto, TypeOK, RecordInv, LeaseInv, Leased, Owners, Granted, AlreadyHandled
  <1>2. ASSUME NEW d \in Deliveries, Lookup(d) PROVE LeaseInv'
    BY <1>2 DEF Lookup, Goto, Acknowledge, TypeOK, Status, RecordInv, LeaseInv, Leased, Owners, Granted, AlreadyHandled
  <1>3. ASSUME NEW d \in Deliveries, Insert(d) PROVE LeaseInv'
    BY <1>3 DEF Insert, Goto, Write, Grant, Acknowledge, TypeOK, RecordInv, LeaseInv, Leased, Owners, Granted, AlreadyHandled
  <1>4. ASSUME NEW d \in Deliveries, SaveRetry(d) PROVE LeaseInv'
    BY <1>4 DEF SaveRetry, Goto, Write, Grant, TypeOK, RecordInv, LeaseInv, Leased, Owners, Granted, AlreadyHandled
  <1>5. ASSUME NEW d \in Deliveries, Respond(d) PROVE LeaseInv'
    BY <1>5 DEF Respond, Goto, Acknowledge, TypeOK, RecordInv, LeaseInv, Leased, Owners, Granted, AlreadyHandled
  <1>6. ASSUME NEW d \in Deliveries, HandlerReturns(d) PROVE LeaseInv'
    BY <1>6 DEF HandlerReturns, Goto, TypeOK, RecordInv, LeaseInv, Leased, Owners, Granted, AlreadyHandled
  <1>7. ASSUME NEW d \in Deliveries, HandlerThrows(d) PROVE LeaseInv'
    BY <1>7 DEF HandlerThrows, Goto, TypeOK, RecordInv, LeaseInv, Leased, Owners, Granted, AlreadyHandled
  <1>8. ASSUME NEW d \in Deliveries, MarkCompleted(d) PROVE LeaseInv'
    BY <1>8 DEF MarkCompleted, Goto, TypeOK, RecordInv, LeaseInv, Leased, Owners, Granted, AlreadyHandled
  <1>9. ASSUME NEW d \in Deliveries, MarkFailed(d) PROVE LeaseInv'
    BY <1>9 DEF MarkFailed, Goto, TypeOK, RecordInv, LeaseInv, Leased, Owners, Granted, AlreadyHandled
  <1>10. ASSUME NEW d \in Deliveries, RequestFails(d) PROVE LeaseInv'
    BY <1>10 DEF RequestFails, Goto, Fault, TypeOK, RecordInv, LeaseInv, Leased, Owners, Granted, AlreadyHandled
  <1>11. ASSUME NEW d \in Deliveries, MarkCompletedFails(d) PROVE LeaseInv'
    BY <1>11 DEF MarkCompletedFails, Goto, Fault, TypeOK, RecordInv, LeaseInv, Leased, Owners, Granted, AlreadyHandled
  <1>12. ASSUME NEW e \in Events, LockGrowsStale(e) PROVE LeaseInv'
    BY <1>12 DEF LockGrowsStale, TypeOK, RecordInv, LeaseInv, Leased, Owners, Granted, AlreadyHandled
  <1>13. ASSUME NEW S \in SUBSET {d \in Deliveries : pc[d] \in InFlight}, Crash(S)
        PROVE LeaseInv'
    BY <1>13 DEF Crash, Fault, TypeOK, RecordInv, LeaseInv, Leased, Owners, Granted, AlreadyHandled
  <1>14. CASE UNCHANGED vars
    BY <1>14 DEF vars, TypeOK, RecordInv, LeaseInv, Leased, Owners, Granted, AlreadyHandled
  <1>15. QED BY <1>1, <1>2, <1>3, <1>4, <1>5, <1>6, <1>7, <1>8, <1>9, <1>10, <1>11, <1>12, <1>13, <1>14 DEF Next, Step

LEMMA InitIInv == Init => IInv
  BY MaxFaultsAssumption
     DEF Init, IInv, TypeOK, Pc, InFlight, Granted, Status, LeaseInv, Leased, Owners,
         RecordInv, CompletionInv, CompletedMeansProcessed, AttemptsInv, AttemptsNeverOvercount

LEMMA StepIInv == IInv /\ [Next]_vars => IInv'
  BY TypeStep, RecordStep, CompletionStep, AttemptsStep, LeaseStep DEF IInv

LEMMA SpecIInv == Spec => []IInv
  BY InitIInv, StepIInv, PTL DEF Spec

-------------------------------------------------------------------------------
\* Every variable keeps its type.
THEOREM TypeCorrect == Spec => []TypeOK
  <1>1. IInv => TypeOK
    BY DEF IInv
  <1>2. QED BY <1>1, SpecIInv, PTL

\* Two deliveries of an event never both run its handler, and it never runs
\* twice, before the event is marked failed or its lock grows stale.
THEOREM LeaseIsExclusive == Spec => []OnceUntilReopened
  <1>1. IInv => OnceUntilReopened
    BY DEF IInv, LeaseInv, Leased, OnceUntilReopened
  <1>2. QED BY <1>1, SpecIInv, PTL

\* COMPLETED is only ever written after a run of the handler.
THEOREM CompletionIsEarned == Spec => []CompletedMeansProcessed
  <1>1. IInv => CompletedMeansProcessed
    BY DEF IInv, CompletionInv
  <1>2. QED BY <1>1, SpecIInv, PTL

\* An event Stripe will not redeliver has a row.
THEOREM AckIsBacked == Spec => []AckedIsRecorded
  <1>1. IInv => AckedIsRecorded
    BY DEF IInv, TypeOK, RecordInv, AckedIsRecorded
  <1>2. QED BY <1>1, SpecIInv, PTL

\* processingAttempts is a lower bound of the deliveries let through.
THEOREM AttemptsBounded == Spec => []AttemptsNeverOvercount
  <1>1. IInv => AttemptsNeverOvercount
    BY DEF IInv, AttemptsInv
  <1>2. QED BY <1>1, SpecIInv, PTL

\* A COMPLETED row that was never reopened stays COMPLETED.
THEOREM CompletionIsFinal == Spec => CompletedIsFinal
  <1> DEFINE Stays == \A e \in Events :
                        (row[e].status = "completed" /\ e \notin reopened)
                            => row'[e].status = "completed"
  <1>1. ASSUME IInv, [Next]_vars PROVE Stays
    <2> SUFFICES ASSUME NEW e \in Events, row[e].status = "completed", e \notin reopened
                 PROVE  row'[e].status = "completed"
      OBVIOUS
    <2>1. TypeOK /\ Leased(e)
      BY <1>1 DEF IInv, LeaseInv
    <2>2. \A d \in Deliveries : ev[d] = e => pc[d] # "save" /\ pc[d] \notin Granted
      BY <2>1 DEF Leased
    <2>3. ASSUME NEW d \in Deliveries, Step(d) PROVE row'[e].status = "completed"
      BY <2>1, <2>2, <2>3
         DEF Step, Lookup, Insert, SaveRetry, Respond, HandlerReturns, HandlerThrows,
             MarkCompleted, MarkFailed, Write, TypeOK, Granted
    <2>4. ASSUME NEW d \in Deliveries, Deliver(d) \/ RequestFails(d) \/ MarkCompletedFails(d)
          PROVE  row'[e].status = "completed"
      BY <2>4 DEF Deliver, RequestFails, MarkCompletedFails
    <2>5. ASSUME NEW x \in Events, LockGrowsStale(x) PROVE row'[e].status = "completed"
      BY <2>5 DEF LockGrowsStale
    <2>6. ASSUME NEW S, Crash(S) PROVE row'[e].status = "completed"
      BY <2>6 DEF Crash
    <2>7. CASE UNCHANGED vars
      BY <2>7 DEF vars
    <2>8. QED BY <1>1, <2>3, <2>4, <2>5, <2>6, <2>7 DEF Next
  <1>2. IInv /\ [Next]_vars => [Stays]_vars
    BY <1>1
  <1>3. QED BY <1>2, SpecIInv, PTL DEF Spec, CompletedIsFinal

-------------------------------------------------------------------------------
\* A write of the ledger seen as a step of the lease.
LEMMA LeaseStepRefines ==
    ASSUME IInv, [Next]_vars
    PROVE  [Lease!Next]_(Lease!vars)
  <1> USE DEF Lease!Next, Lease!vars, Lease!Lease, Lease!Open, Lease!Finish
  <1>0. TypeOK /\ LeaseInv /\ RecordInv
    BY DEF IInv
  <1>1. ASSUME NEW d \in Deliveries, Insert(d) PROVE [Lease!Next]_(Lease!vars)
    <2>1. CASE row[ev[d]].status = "absent"
      <3>1. /\ row' = [row EXCEPT ![ev[d]] = [status |-> "processing", attempts |-> 1]]
            /\ UNCHANGED <<ran, reopened>>
        BY <1>1, <2>1 DEF Insert, Write
      <3>2. ev[d] \in Events \ reopened
        BY <1>0, <2>1 DEF TypeOK, RecordInv
      <3>3. Lease!Lease(ev[d])
        BY <1>0, <2>1, <3>1, <3>2 DEF TypeOK
      <3>4. QED BY <3>2, <3>3
    <2>2. CASE row[ev[d]].status # "absent"
      BY <1>1, <2>2 DEF Insert
    <2>3. QED BY <2>1, <2>2
  <1>2. ASSUME NEW d \in Deliveries, SaveRetry(d) PROVE [Lease!Next]_(Lease!vars)
    <2>1. row[ev[d]].status # "absent"
      BY <1>0, <1>2 DEF SaveRetry, RecordInv
    <2>2. /\ row' = [row EXCEPT ![ev[d]] = [status |-> "processing", attempts |-> seen[d] + 1]]
          /\ UNCHANGED <<ran, reopened>>
      BY <1>2 DEF SaveRetry, Write
    <2>3. \A e \in Events : (row'[e].status = "absent") <=> (row[e].status = "absent")
      BY <1>0, <2>1, <2>2 DEF TypeOK
    <2>4. QED BY <2>2, <2>3
  <1>3. ASSUME NEW d \in Deliveries, HandlerReturns(d) PROVE [Lease!Next]_(Lease!vars)
    <2>1. ev[d] \in Events /\ row[ev[d]].status # "absent" /\ pc[d] = "run"
      BY <1>0, <1>3 DEF HandlerReturns, TypeOK, RecordInv, Granted
    <2>2. ev[d] \notin reopened => ran[ev[d]] = 0
      BY <1>0, <2>1 DEF LeaseInv, Leased
    <2>3. Lease!Finish(ev[d])
      BY <1>3, <2>1, <2>2 DEF HandlerReturns
    <2>4. QED BY <2>1, <2>3
  <1>4. ASSUME NEW d \in Deliveries, MarkCompleted(d) PROVE [Lease!Next]_(Lease!vars)
    <2>1. row[ev[d]].status # "absent" /\ ev[d] \in Events
      BY <1>0, <1>4 DEF MarkCompleted, TypeOK, RecordInv, Granted
    <2>2. \A e \in Events : (row'[e].status = "absent") <=> (row[e].status = "absent")
      BY <1>0, <1>4, <2>1 DEF MarkCompleted, TypeOK
    <2>3. QED BY <1>4, <2>2 DEF MarkCompleted
  <1>5. ASSUME NEW d \in Deliveries, MarkFailed(d) PROVE [Lease!Next]_(Lease!vars)
    <2>1. row[ev[d]].status # "absent" /\ ev[d] \in Events
      BY <1>0, <1>5 DEF MarkFailed, TypeOK, RecordInv, Granted
    <2>2. \A e \in Events : (row'[e].status = "absent") <=> (row[e].status = "absent")
      BY <1>0, <1>5, <2>1 DEF MarkFailed, TypeOK
    <2>3. ran' = ran /\ reopened' = reopened \cup {ev[d]}
      BY <1>5 DEF MarkFailed
    <2>4. CASE ev[d] \in reopened
      BY <2>2, <2>3, <2>4
    <2>5. CASE ev[d] \notin reopened
      <3>1. Lease!Open(ev[d])
        BY <2>1, <2>2, <2>3, <2>5
      <3>2. QED BY <2>1, <3>1
    <2>6. QED BY <2>4, <2>5
  <1>6. ASSUME NEW e \in Events, LockGrowsStale(e) PROVE [Lease!Next]_(Lease!vars)
    <2>1. CASE e \in reopened
      BY <1>6, <2>1 DEF LockGrowsStale
    <2>2. CASE e \notin reopened
      <3>1. Lease!Open(e)
        BY <1>6, <2>2 DEF LockGrowsStale
      <3>2. QED BY <3>1
    <2>3. QED BY <2>1, <2>2
  <1>7. ASSUME NEW d \in Deliveries,
               \/ Deliver(d) \/ Lookup(d) \/ Respond(d) \/ HandlerThrows(d)
               \/ RequestFails(d) \/ MarkCompletedFails(d)
        PROVE  [Lease!Next]_(Lease!vars)
    BY <1>7 DEF Deliver, Lookup, Respond, HandlerThrows, RequestFails, MarkCompletedFails
  <1>8. ASSUME NEW S, Crash(S) PROVE [Lease!Next]_(Lease!vars)
    BY <1>8 DEF Crash
  <1>9. CASE UNCHANGED vars
    BY <1>9 DEF vars
  <1>10. QED
    BY <1>1, <1>2, <1>3, <1>4, <1>5, <1>6, <1>7, <1>8, <1>9 DEF Next, Step

\* The ledger implements EventLease: insertion takes the lease, a failure or a
\* stale lock opens it, and nothing else lets a handler run again.
THEOREM LedgerImplementsLease == Spec => ImplementsLease
  <1>1. Init => Lease!Init
    BY DEF Init, Lease!Init
  <1>2. IInv /\ [Next]_vars => [Lease!Next]_(Lease!vars)
    BY LeaseStepRefines
  <1>3. QED BY <1>1, <1>2, SpecIInv, PTL DEF Spec, ImplementsLease, Lease!Spec
===============================================================================
