----------------------------- MODULE BillingProofs -----------------------------
(***************************************************************************)
(* Theorems about Billing: the ledger and the handlers of a checkout, for  *)
(* any sets of events, deliveries and Stripe subscriptions.                *)
(*                                                                         *)
(* The argument ties the two components together.  As long as a checkout's *)
(* event is not opened for a retry, the ledger leases it to one delivery   *)
(* (LedgerInv), and until that delivery's handler has inserted its row     *)
(* there is none (RowsInv).  A delivery whose handler has returned, and a  *)
(* row that says COMPLETED, stand for a payment on the books (BooksInv),   *)
(* for a handler keeps the row it has inserted to its end (HandlersInv).   *)
(***************************************************************************)
EXTENDS Billing, FiniteSetTheorems, TLAPS

Procs == Deliveries \cup Api

\* The rows, what the handlers have loaded, and the ledger's variables.
Typed == subs \in Seq(Subs!Row) /\ loc \in [Procs -> Subs!Local]

LedgerTyped ==
    /\ row \in [Events -> [status : Ledger!Status, attempts : Nat]]
    /\ pc \in [Deliveries -> Ledger!Pc]
    /\ ev \in [Deliveries -> Events]
    /\ seen \in [Deliveries -> Nat]

\* The ledger's promise about an event that was not opened for a retry.
Leased(e) ==
    /\ e \notin stale
    /\ row[e].status # "failed"
    /\ \A d \in Deliveries : ev[d] = e =>
          /\ pc[d] # "save"
          /\ pc[d] \in Ledger!Granted => row[e].status = "processing"
    /\ \A d1, d2 \in Ledger!Owners(e) : d1 = d2

LedgerInv == LedgerTyped /\ \A e \in Events \ reopened : Leased(e)

Inserted == {"checkout_company", "checkout_txn"}
Checkout == {"checkout_insert"} \cup Inserted

\* A delivery runs the handler of its event's type, for its event's subject.
HandlerOK(d) ==
    /\ loc[d].pc # "idle" => pc[d] = "run"
    /\ Kind[ev[d]] = "checkout" => loc[d].pc \in {"idle"} \cup Checkout
    /\ loc[d].pc \in Checkout => Kind[ev[d]] = "checkout" /\ loc[d].sid = Subject[ev[d]]
    /\ loc[d].pc \in Inserted =>
          loc[d].row \in DOMAIN subs /\ subs[loc[d].row].stripe = loc[d].sid

HandlersInv == \A d \in Deliveries : HandlerOK(d)

\* The event's payment is on the books.
OnBooks(e) ==
    \E r \in DOMAIN subs : subs[r].stripe = Subject[e] /\ <<"subscription_payment", r>> \in txns

Processed(e) ==
    row[e].status = "completed" \/ \E d \in Deliveries : ev[d] = e /\ pc[d] = "complete"

BooksInv == \A e \in Events : Kind[e] = "checkout" /\ Processed(e) => OnBooks(e)

\* No handler of the event has inserted a row yet.
Before(d) == pc[d] = "ready" \/ (pc[d] = "run" /\ loc[d].pc \in {"idle", "checkout_insert"})
Fresh(e) == row[e].status = "absent" \/ \E d \in Deliveries : ev[d] = e /\ Before(d)

RowsInv ==
    /\ \A e \in Events \ reopened :
          Kind[e] = "checkout" /\ Fresh(e) => Subs!RowsOf(Subject[e]) = {}
    /\ \A s \in StripeIds : CheckoutsOf(s) \cap reopened = {} =>
          \A q, r \in Subs!RowsOf(s) : q = r

BillingInv == HandlersInv /\ BooksInv /\ RowsInv
IInv == Typed /\ LedgerInv /\ BillingInv
-------------------------------------------------------------------------------
\* The ledger's steps.
LEMMA LedgerNext ==
    ASSUME [Next]_vars
    PROVE  [Ledger!Next]_(Ledger!vars)
  <1>1. ASSUME NEW d \in Deliveries,
               \/ Receive(d) \/ LedgerStep(d) \/ HandlerFindsNothing(d) \/ HandlerEnds(d)
               \/ HandlerFails(d)
        PROVE  Ledger!Next
    BY <1>1 DEF Receive, LedgerStep, HandlerFindsNothing, HandlerEnds, HandlerFails, Ledger!Next,
       Ledger!Step
  <1>2. ASSUME NEW e \in Events, LockGrowsStale(e) PROVE Ledger!Next
    BY <1>2 DEF LockGrowsStale, Ledger!Next
  <1>3. ASSUME NEW S \in SUBSET {d \in Deliveries : pc[d] \in Ledger!InFlight}, S # {}, Crash(S)
        PROVE  Ledger!Next
    BY <1>3 DEF Crash, Ledger!Next
  <1>4. ASSUME UNCHANGED ledgerVars PROVE UNCHANGED Ledger!vars
    BY <1>4 DEF ledgerVars, Ledger!vars
  <1>5. QED
    BY <1>1, <1>2, <1>3, <1>4 DEF Next, HandlerBegins, HandlerGoesOn, ApiStep, StripeStep, vars

\* The ledger is driven only as its own module allows, so what is proved of
\* WebhookEvents holds of it next to the handlers and the company's requests
\* (webhooks.controller.ts, processEventAsync).
THEOREM BillingKeepsLedger == Spec => Ledger!Spec
  <1>1. Init => Ledger!Init
    BY DEF Init
  <1>2. [Next]_vars => [Ledger!Next]_(Ledger!vars)
    BY LedgerNext
  <1>3. QED BY <1>1, <1>2, PTL DEF Spec, Ledger!Spec

LEMMA LedgerTypeStep ==
    ASSUME LedgerTyped, [Ledger!Next]_(Ledger!vars)
    PROVE  LedgerTyped'
  <1> USE DEF LedgerTyped, Ledger!Pc, Ledger!InFlight, Ledger!Granted, Ledger!Status
  <1>1. ASSUME NEW d \in Deliveries, Ledger!Insert(d) PROVE LedgerTyped'
    <2>1. CASE row[ev[d]].status = "absent"
      <3>1. /\ row' = [row EXCEPT ![ev[d]] = [status |-> "processing", attempts |-> 1]]
            /\ pc' = [pc EXCEPT ![d] = "ready"] /\ UNCHANGED <<ev, seen>>
        BY <1>1, <2>1 DEF Ledger!Insert, Ledger!Write, Ledger!Grant, Ledger!Goto
      <3>2. QED BY <3>1
    <2>2. CASE row[ev[d]].status # "absent"
      BY <1>1, <2>2 DEF Ledger!Insert, Ledger!Acknowledge, Ledger!Goto
    <2>3. QED BY <2>1, <2>2
  <1>2. ASSUME NEW d \in Deliveries,
               \/ Ledger!Deliver(d) \/ Ledger!Respond(d) \/ Ledger!HandlerReturns(d)
               \/ Ledger!HandlerThrows(d) \/ Ledger!RequestFails(d) \/ Ledger!MarkCompletedFails(d)
        PROVE  LedgerTyped'
    BY <1>2 DEF Ledger!Deliver, Ledger!Respond, Ledger!HandlerReturns, Ledger!HandlerThrows,
       Ledger!RequestFails, Ledger!MarkCompletedFails, Ledger!Goto, Ledger!Acknowledge
  <1>3. ASSUME NEW d \in Deliveries, Ledger!Lookup(d) PROVE LedgerTyped'
    BY <1>3 DEF Ledger!Lookup, Ledger!Goto, Ledger!Acknowledge
  <1>4. ASSUME NEW d \in Deliveries, Ledger!SaveRetry(d) PROVE LedgerTyped'
    <2>1. /\ row' = [row EXCEPT ![ev[d]] = [status |-> "processing", attempts |-> seen[d] + 1]]
          /\ pc' = [pc EXCEPT ![d] = "ready"] /\ UNCHANGED <<ev, seen>>
      BY <1>4 DEF Ledger!SaveRetry, Ledger!Write, Ledger!Grant, Ledger!Goto
    <2>2. QED BY <2>1
  <1>5. ASSUME NEW d \in Deliveries, Ledger!MarkCompleted(d) \/ Ledger!MarkFailed(d)
        PROVE  LedgerTyped'
    BY <1>5 DEF Ledger!MarkCompleted, Ledger!MarkFailed, Ledger!Goto
  <1>6. ASSUME NEW S, Ledger!Crash(S) PROVE LedgerTyped'
    BY <1>6 DEF Ledger!Crash
  <1>7. ASSUME UNCHANGED <<row, pc, ev, seen>> PROVE LedgerTyped'
    BY <1>7
  <1>8. QED
    BY <1>1, <1>2, <1>3, <1>4, <1>5, <1>6, <1>7
       DEF Ledger!Next, Ledger!Step, Ledger!LockGrowsStale, Ledger!vars

LEMMA LeaseStep ==
    ASSUME LedgerInv, [Ledger!Next]_(Ledger!vars)
    PROVE  LedgerInv'
  <1> DEFINE Kept == \A e \in Events \ reopened' : Leased(e)'
  <1> USE DEF LedgerInv, LedgerTyped, Leased, Ledger!Owners, Ledger!Granted
  <1>1. ASSUME NEW d \in Deliveries, Ledger!Insert(d) PROVE Kept
    BY <1>1 DEF Ledger!Insert, Ledger!Write, Ledger!Grant, Ledger!Acknowledge, Ledger!Goto
  <1>2. ASSUME NEW d \in Deliveries,
               \/ Ledger!Deliver(d) \/ Ledger!Respond(d) \/ Ledger!HandlerReturns(d)
               \/ Ledger!HandlerThrows(d) \/ Ledger!RequestFails(d) \/ Ledger!MarkCompletedFails(d)
        PROVE  Kept
    <2>1. /\ UNCHANGED <<row, stale, ev, reopened>>
          /\ \E label \in Ledger!Pc \ {"save"} :
                /\ pc' = [pc EXCEPT ![d] = label]
                /\ label \in Ledger!Granted => pc[d] \in Ledger!Granted
      BY <1>2 DEF Ledger!Deliver, Ledger!Respond, Ledger!HandlerReturns, Ledger!HandlerThrows,
         Ledger!RequestFails, Ledger!MarkCompletedFails, Ledger!Goto, Ledger!Acknowledge, Ledger!Pc,
         Ledger!InFlight
    <2>2. QED BY <2>1
  <1>3. ASSUME NEW d \in Deliveries, Ledger!Lookup(d) PROVE Kept
    BY <1>3 DEF Ledger!Lookup, Ledger!Goto, Ledger!Acknowledge, Ledger!AlreadyHandled, Ledger!Status
  <1>4. ASSUME NEW d \in Deliveries, Ledger!SaveRetry(d) PROVE Kept
    <2>1. /\ row' = [row EXCEPT ![ev[d]] = [status |-> "processing", attempts |-> seen[d] + 1]]
          /\ pc' = [pc EXCEPT ![d] = "ready"] /\ UNCHANGED <<ev, reopened>>
          /\ stale' \subseteq stale /\ pc[d] = "save"
      BY <1>4 DEF Ledger!SaveRetry, Ledger!Write, Ledger!Grant, Ledger!Goto
    <2>2. QED BY <2>1
  <1>5. ASSUME NEW d \in Deliveries, Ledger!MarkCompleted(d) \/ Ledger!MarkFailed(d)
        PROVE  Kept
    BY <1>5 DEF Ledger!MarkCompleted, Ledger!MarkFailed, Ledger!Goto
  <1>6. ASSUME NEW S, Ledger!Crash(S) PROVE Kept
    BY <1>6 DEF Ledger!Crash
  <1>7. ASSUME NEW e \in Events, Ledger!LockGrowsStale(e) PROVE Kept
    BY <1>7 DEF Ledger!LockGrowsStale
  <1>8. ASSUME UNCHANGED Ledger!vars PROVE Kept
    BY <1>8 DEF Ledger!vars
  <1>9. Kept
    BY <1>1, <1>2, <1>3, <1>4, <1>5, <1>6, <1>7, <1>8 DEF Ledger!Next, Ledger!Step
  <1>10. QED BY <1>9, LedgerTypeStep
-------------------------------------------------------------------------------
\* What the handlers' statements do to the rows.  Rows are only ever added.
Quiet ==
    /\ DOMAIN subs' = DOMAIN subs
    /\ \A r \in DOMAIN subs : subs'[r].stripe = subs[r].stripe
    /\ txns \subseteq txns'

\* The other handlers and requests stand where they stood.
Elsewhere(p) == \A q \in Procs \ {p} : loc'[q] = loc[q]

LEMMA RowsTyped ==
    ASSUME Typed
    PROVE  /\ Len(subs) \in Nat /\ DOMAIN subs = 1..Len(subs)
           /\ \A r \in DOMAIN subs :
                 /\ subs[r] \in Subs!Row /\ subs[r].status \in Subs!Status
                 /\ subs[r].stripe \in StripeIds \cup {NoStripe}
  <1>1. subs \in Seq(Subs!Row)
    BY DEF Typed
  <1>2. Len(subs) \in Nat /\ DOMAIN subs = 1..Len(subs) /\ \A r \in DOMAIN subs : subs[r] \in Subs!Row
    BY <1>1
  <1>3. QED BY <1>2 DEF Subs!Row

LEMMA SavesQuietly ==
    ASSUME Typed, NEW p \in Procs, NEW st \in Subs!Status, Subs!SaveLoaded(p, st), UNCHANGED txns
    PROVE  subs' \in Seq(Subs!Row) /\ Quiet
  <1> DEFINE n == loc[p].row
  <1>1. subs' = [subs EXCEPT ![n].status = st]
    BY DEF Subs!SaveLoaded
  <1>2. CASE n \in DOMAIN subs
    <2> DEFINE new == [subs[n] EXCEPT !.status = st]
    <2>1. new \in Subs!Row /\ new.stripe = subs[n].stripe
      BY <1>2, RowsTyped DEF Subs!Row
    <2>2. subs' = [subs EXCEPT ![n] = new]
      BY <1>1
    <2> HIDE DEF new, n
    <2>3. subs' \in [1..Len(subs) -> Subs!Row]
      BY <1>2, <2>1, <2>2, RowsTyped
    <2>4. subs' \in Seq(Subs!Row) /\ DOMAIN subs' = DOMAIN subs
      BY <2>3, RowsTyped
    <2>5. \A r \in DOMAIN subs : subs'[r].stripe = subs[r].stripe
      BY <1>2, <2>1, <2>2, RowsTyped
    <2>6. QED BY <2>4, <2>5 DEF Quiet
  <1>3. CASE n \notin DOMAIN subs
    <2> HIDE DEF n
    <2>1. DOMAIN subs' = DOMAIN subs /\ \A r \in DOMAIN subs : subs'[r] = subs[r]
      BY <1>1, <1>3
    <2>2. subs' \in [1..Len(subs) -> Subs!Row]
      <3>1. subs' = [r \in 1..Len(subs) |-> subs'[r]]
        BY <1>1, RowsTyped
      <3>2. QED BY <2>1, <3>1, RowsTyped
    <2>3. subs' \in Seq(Subs!Row)
      BY <2>2, RowsTyped
    <2>4. QED BY <2>1, <2>3 DEF Quiet
  <1>4. QED BY <1>2, <1>3

LEMMA ExpiresQuietly ==
    ASSUME Typed, NEW p \in Procs, NEW s \in StripeIds, Subs!CheckoutExpire(p, s)
    PROVE  subs' \in Seq(Subs!Row) /\ Quiet
  <1>1. \A q \in DOMAIN subs : /\ [subs[q] EXCEPT !.status = "expired"] \in Subs!Row
                               /\ [subs[q] EXCEPT !.status = "expired"].stripe = subs[q].stripe
    BY RowsTyped DEF Subs!Row, Subs!Status
  <1>2. DOMAIN subs' = DOMAIN subs
        /\ \A q \in DOMAIN subs : subs'[q] = IF q \in Subs!ActiveRows
                                               THEN [subs[q] EXCEPT !.status = "expired"]
                                               ELSE subs[q]
    BY DEF Subs!CheckoutExpire
  <1>3. subs' \in [1..Len(subs) -> Subs!Row]
    <2>1. \A q \in 1..Len(subs) : subs'[q] \in Subs!Row
      BY <1>1, <1>2, RowsTyped
    <2>2. subs' = [q \in 1..Len(subs) |-> subs'[q]]
      BY <1>2, RowsTyped DEF Subs!CheckoutExpire
    <2>3. QED BY <2>1, <2>2
  <1>4. subs' \in Seq(Subs!Row)
    BY <1>3, RowsTyped
  <1>5. \A q \in DOMAIN subs : subs'[q].stripe = subs[q].stripe
    BY <1>1, <1>2
  <1>6. QED BY <1>2, <1>4, <1>5 DEF Quiet, Subs!CheckoutExpire

\* A handler inserts the row n of Stripe subscription s.
Adds(n, s) ==
    /\ DOMAIN subs' = DOMAIN subs \cup {n} /\ n \notin DOMAIN subs
    /\ \A r \in DOMAIN subs : subs'[r] = subs[r]
    /\ subs'[n].stripe = s

LEMMA InsertAdds ==
    ASSUME Typed, NEW s \in StripeIds \cup {NoStripe}, Subs!Insert(s)
    PROVE  subs' \in Seq(Subs!Row) /\ Len(subs) + 1 \in Nat /\ Adds(Len(subs) + 1, s)
  <1> DEFINE new == [status |-> "active", stripe |-> s]
  <1>1. subs \in Seq(Subs!Row) /\ new \in Subs!Row /\ subs' = Append(subs, new)
    BY DEF Typed, Subs!Insert, Subs!Row, Subs!Status
  <1>2. new.stripe = s
    OBVIOUS
  <1> HIDE DEF new
  <1>3. Len(subs) \in Nat /\ DOMAIN subs = 1..Len(subs)
    BY <1>1
  <1>4. subs' \in Seq(Subs!Row) /\ DOMAIN subs' = 1..(Len(subs) + 1)
    BY <1>1
  <1>5. (\A r \in DOMAIN subs : subs'[r] = subs[r]) /\ subs'[Len(subs) + 1] = new
    BY <1>1
  <1>6. QED BY <1>2, <1>3, <1>4, <1>5 DEF Adds

-------------------------------------------------------------------------------
\* Where the handlers' statements leave their handler.
LEMMA Moves ==
    ASSUME Typed, NEW p \in Procs
    PROVE  /\ \A l \in Subs!Local : Subs!Become(p, l) =>
                 loc' \in [Procs -> Subs!Local] /\ Elsewhere(p) /\ loc'[p] = l
           /\ \A label \in Subs!Pc : Subs!Goto(p, label) =>
                 /\ loc' \in [Procs -> Subs!Local] /\ Elsewhere(p)
                 /\ loc'[p].pc = label /\ loc'[p].row = loc[p].row /\ loc'[p].sid = loc[p].sid
  <1>1. loc \in [Procs -> Subs!Local] /\ loc[p] \in Subs!Local
    BY DEF Typed
  <1>2. ASSUME NEW l \in Subs!Local, Subs!Become(p, l)
        PROVE  loc' \in [Procs -> Subs!Local] /\ Elsewhere(p) /\ loc'[p] = l
    BY <1>1, <1>2 DEF Subs!Become, Elsewhere
  <1>3. ASSUME NEW label \in Subs!Pc, Subs!Goto(p, label)
        PROVE  /\ loc' \in [Procs -> Subs!Local] /\ Elsewhere(p)
               /\ loc'[p].pc = label /\ loc'[p].row = loc[p].row /\ loc'[p].sid = loc[p].sid
    <2> DEFINE l == [loc[p] EXCEPT !.pc = label]
    <2>1. l \in Subs!Local /\ l.pc = label /\ l.row = loc[p].row /\ l.sid = loc[p].sid
      BY <1>1 DEF Subs!Local
    <2>2. Subs!Become(p, l)
      BY <1>3 DEF Subs!Goto, Subs!Become
    <2> HIDE DEF l
    <2>3. QED BY <1>2, <2>1, <2>2
  <1>4. QED BY <1>2, <1>3

LEMMA IdleTyped == Subs!Idle \in Subs!Local /\ Subs!Idle.pc = "idle"
  BY DEF Subs!Idle, Subs!Local, Subs!Pc, Subs!Status

\* An operation that has come to its end, or was cut short.
Leaves(p) == loc' \in [Procs -> Subs!Local] /\ Elsewhere(p) /\ loc'[p].pc = "idle"

LEMMA EndLeaves ==
    ASSUME Typed, NEW p \in Procs, Subs!End(p)
    PROVE  Leaves(p)
  BY Moves, IdleTyped DEF Subs!End, Leaves

\* A row that is loaded.
LEMMA LoadMoves ==
    ASSUME Typed, NEW p \in Procs, NEW r \in DOMAIN subs, NEW label \in Subs!Pc,
           Subs!Load(p, r, label)
    PROVE  loc' \in [Procs -> Subs!Local] /\ Elsewhere(p) /\ loc'[p].pc = label
  <1> DEFINE l == [Subs!Idle EXCEPT !.pc = label, !.row = r, !.loaded = subs[r].status,
                                    !.sid = subs[r].stripe]
  <1>1. r \in Nat /\ subs[r].status \in Subs!Status /\ subs[r].stripe \in StripeIds \cup {NoStripe}
    BY RowsTyped
  <1>2. l \in Subs!Local /\ l.pc = label
    BY <1>1 DEF Subs!Idle, Subs!Local
  <1>3. Subs!Become(p, l)
    BY DEF Subs!Load
  <1> HIDE DEF l
  <1>4. QED BY <1>2, <1>3, Moves
-------------------------------------------------------------------------------
\* What each kind of step does.
Loads == {"paid_save", "failed_save", "deleted_save"}

LEMMA BeginsMove ==
    ASSUME Typed, LedgerTyped, NEW d \in Deliveries, HandlerBegins(d)
    PROVE  /\ Typed' /\ Quiet /\ Elsewhere(d) /\ UNCHANGED ledgerVars
           /\ pc[d] = "run" /\ loc[d].pc = "idle"
           /\ \/ /\ Kind[ev[d]] = "checkout"
                 /\ loc'[d].pc = "checkout_insert" /\ loc'[d].sid = Subject[ev[d]]
              \/ Kind[ev[d]] # "checkout" /\ loc'[d].pc \in Loads
  <1> DEFINE e == ev[d]
  <1>0. e \in Events /\ Subject[e] \in StripeIds /\ d \in Procs /\ loc \in [Procs -> Subs!Local]
    BY EventsAssumption DEF LedgerTyped, Typed, Procs
  <1>1. CASE Kind[e] = "checkout" /\ Subs!CheckoutExpire(d, Subject[e])
    <2> DEFINE l == [Subs!Idle EXCEPT !.pc = "checkout_insert", !.sid = Subject[e]]
    <2>1. l \in Subs!Local /\ l.pc = "checkout_insert" /\ l.sid = Subject[e]
      BY <1>0 DEF Subs!Idle, Subs!Local, Subs!Pc, Subs!Status
    <2>2. Subs!Become(d, l) /\ loc[d].pc = "idle"
      BY <1>1 DEF Subs!CheckoutExpire, Subs!Begin
    <2> HIDE DEF l
    <2>3. loc' \in [Procs -> Subs!Local] /\ Elsewhere(d) /\ loc'[d] = l
      BY <1>0, <2>1, <2>2, Moves
    <2>4. subs' \in Seq(Subs!Row) /\ Quiet
      BY <1>0, <1>1, ExpiresQuietly
    <2>5. QED BY <1>1, <2>1, <2>2, <2>3, <2>4 DEF Typed, HandlerBegins, Handling
  <1>2. ASSUME NEW label \in Loads, Subs!ReadByStripeId(d, Subject[e], label), Kind[e] # "checkout"
        PROVE  /\ Typed' /\ Quiet /\ Elsewhere(d)
               /\ loc[d].pc = "idle" /\ loc'[d].pc \in Loads
    <2>1. PICK r \in Subs!RowsOf(Subject[e]) : Subs!Load(d, r, label)
      BY <1>2 DEF Subs!ReadByStripeId
    <2>2. r \in DOMAIN subs /\ label \in Subs!Pc
      BY DEF Subs!RowsOf, Loads, Subs!Pc
    <2>3. loc' \in [Procs -> Subs!Local] /\ Elsewhere(d) /\ loc'[d].pc = label
      BY <1>0, <2>1, <2>2, LoadMoves
    <2>4. UNCHANGED <<subs, txns>> /\ loc[d].pc = "idle"
      BY <1>2 DEF Subs!ReadByStripeId, Subs!Begin
    <2>5. QED BY <2>3, <2>4 DEF Typed, Quiet
  <1>3. \/ Kind[e] = "checkout" /\ Subs!CheckoutExpire(d, Subject[e])
        \/ Kind[e] # "checkout" /\ \E label \in Loads : Subs!ReadByStripeId(d, Subject[e], label)
    BY DEF HandlerBegins, Subs!PaidRead, Subs!FailedRead, Subs!DeletedRead, Loads
  <1>4. pc[d] = "run" /\ UNCHANGED ledgerVars
    BY DEF HandlerBegins, Handling
  <1>5. QED BY <1>1, <1>2, <1>3, <1>4

LEMMA GoesOnMoves ==
    ASSUME Typed, NEW d \in Deliveries, HandlerGoesOn(d)
    PROVE  /\ Typed' /\ Elsewhere(d) /\ UNCHANGED ledgerVars
           /\ \/ /\ loc[d].pc = "checkout_insert" /\ loc'[d].pc = "checkout_company"
                 /\ loc'[d].sid = loc[d].sid /\ UNCHANGED txns
                 /\ loc'[d].row = Len(subs) + 1 /\ Adds(Len(subs) + 1, loc[d].sid)
              \/ /\ Quiet /\ loc[d].pc = "checkout_company" /\ loc'[d].pc = "checkout_txn"
                 /\ loc'[d].sid = loc[d].sid /\ loc'[d].row = loc[d].row
              \/ /\ Quiet /\ loc[d].pc \in Loads
                 /\ loc'[d].pc \notin Checkout \cup {"idle"}
  <1>0. /\ d \in Procs /\ loc[d] \in Subs!Local /\ loc[d].loaded \in Subs!Status
        /\ loc[d].sid \in StripeIds \cup {NoStripe}
    BY DEF Typed, Procs, Subs!Local
  <1>1. CASE Subs!CheckoutInsert(d)
    <2> DEFINE l == [loc[d] EXCEPT !.pc = "checkout_company", !.row = Len(subs) + 1]
    <2>1. subs' \in Seq(Subs!Row) /\ Len(subs) + 1 \in Nat /\ Adds(Len(subs) + 1, loc[d].sid)
      BY <1>0, <1>1, InsertAdds DEF Subs!CheckoutInsert
    <2>2. /\ l \in Subs!Local /\ l.pc = "checkout_company" /\ l.row = Len(subs) + 1
          /\ l.sid = loc[d].sid
      BY <1>0, <2>1 DEF Subs!Local, Subs!Pc
    <2>3. Subs!Become(d, l) /\ loc[d].pc = "checkout_insert" /\ UNCHANGED txns
      BY <1>1 DEF Subs!CheckoutInsert, Subs!At
    <2> HIDE DEF l
    <2>4. loc' \in [Procs -> Subs!Local] /\ Elsewhere(d) /\ loc'[d] = l
      BY <1>0, <2>2, <2>3, Moves
    <2>5. QED BY <2>1, <2>2, <2>3, <2>4 DEF Typed, HandlerGoesOn
  <1>2. CASE Subs!CheckoutCompany(d)
    <2>1. Subs!Goto(d, "checkout_txn") /\ loc[d].pc = "checkout_company" /\ UNCHANGED <<subs, txns>>
      BY <1>2 DEF Subs!CheckoutCompany, Subs!At
    <2>2. "checkout_txn" \in Subs!Pc
      BY DEF Subs!Pc
    <2>3. /\ loc' \in [Procs -> Subs!Local] /\ Elsewhere(d) /\ loc'[d].pc = "checkout_txn"
          /\ loc'[d].row = loc[d].row /\ loc'[d].sid = loc[d].sid
      BY <1>0, <2>1, <2>2, Moves
    <2>4. QED BY <2>1, <2>3 DEF Typed, Quiet, HandlerGoesOn
  <1>3. CASE Subs!PaidSave(d) \/ Subs!FailedSave(d) \/ Subs!DeletedSave(d)
    <2>1. /\ \E st \in Subs!Status : Subs!SaveLoaded(d, st)
          /\ loc[d].pc \in Loads /\ UNCHANGED txns
          /\ \E label \in {"paid_txn", "failed_company", "deleted_company"} : Subs!Goto(d, label)
      BY <1>0, <1>3 DEF Subs!PaidSave, Subs!FailedSave, Subs!DeletedSave, Subs!At, Loads,
         Subs!Status
    <2>2. subs' \in Seq(Subs!Row) /\ Quiet
      BY <1>0, <2>1, SavesQuietly
    <2>3. PICK label \in {"paid_txn", "failed_company", "deleted_company"} : Subs!Goto(d, label)
      BY <2>1
    <2>4. label \in Subs!Pc /\ label \notin Checkout \cup {"idle"}
      BY DEF Subs!Pc, Checkout, Inserted
    <2>5. loc' \in [Procs -> Subs!Local] /\ Elsewhere(d) /\ loc'[d].pc = label
      BY <1>0, <2>3, <2>4, Moves
    <2>6. QED BY <2>1, <2>2, <2>4, <2>5 DEF Typed, HandlerGoesOn
  <1>4. QED BY <1>1, <1>2, <1>3 DEF HandlerGoesOn

LEMMA EndsMoves ==
    ASSUME Typed, NEW d \in Deliveries, HandlerEnds(d)
    PROVE  /\ Typed' /\ Quiet /\ Leaves(d) /\ UNCHANGED subs
           /\ \/ /\ loc[d].pc = "checkout_txn"
                 /\ <<"subscription_payment", loc[d].row>> \in txns'
              \/ loc[d].pc \notin {"idle"} \cup Checkout
  <1>0. d \in Procs
    BY DEF Procs
  <1>1. Subs!End(d) /\ UNCHANGED subs /\ txns \subseteq txns'
    BY DEF HandlerEnds, Subs!CheckoutTransaction, Subs!PaidTransaction, Subs!FailedCompany,
       Subs!DeletedCompany, Subs!Record
  <1>2. Leaves(d)
    BY <1>0, <1>1, EndLeaves
  <1>3. \/ loc[d].pc = "checkout_txn" /\ <<"subscription_payment", loc[d].row>> \in txns'
        \/ loc[d].pc \notin {"idle"} \cup Checkout
    BY DEF HandlerEnds, Subs!CheckoutTransaction, Subs!PaidTransaction, Subs!FailedCompany,
       Subs!DeletedCompany, Subs!At, Subs!Record, Checkout, Inserted
  <1>4. QED BY <1>1, <1>2, <1>3 DEF Quiet, Typed, Leaves

LEMMA FailsMoves ==
    ASSUME Typed, NEW d \in Deliveries, HandlerFails(d)
    PROVE  Typed' /\ Quiet /\ Leaves(d)
  <1>0. d \in Procs /\ loc \in [Procs -> Subs!Local]
    BY DEF Procs, Typed
  <1>1. CASE Subs!Throws(d)
    <2>1. Subs!End(d) /\ UNCHANGED <<subs, txns>>
      BY <1>1 DEF Subs!Throws
    <2>2. Leaves(d)
      BY <1>0, <2>1, EndLeaves
    <2>3. QED BY <2>1, <2>2 DEF Quiet, Typed, Leaves
  <1>2. CASE loc[d] = Subs!Idle /\ UNCHANGED subsVars
    BY <1>0, <1>2, IdleTyped DEF subsVars, Quiet, Typed, Leaves, Elsewhere
  <1>3. QED BY <1>1, <1>2 DEF HandlerFails

\* cancelSubscription inserts no row.
LEMMA ApiMoves ==
    ASSUME Typed, NEW p \in Api, ApiStep(p)
    PROVE  Typed' /\ Quiet /\ Elsewhere(p) /\ UNCHANGED ledgerVars
  <1>0. p \in Procs /\ UNCHANGED ledgerVars
    BY DEF Procs, ApiStep
  <1>1. CASE Subs!CancelRead(p)
    <2>1. PICK r \in DOMAIN subs, label \in {"cancel_save", "cancel_stripe"} : Subs!Load(p, r, label)
      BY <1>1 DEF Subs!CancelRead, Subs!ActiveRows
    <2>2. label \in Subs!Pc
      BY DEF Subs!Pc
    <2>3. loc' \in [Procs -> Subs!Local] /\ Elsewhere(p)
      BY <1>0, <2>1, <2>2, LoadMoves
    <2>4. QED BY <1>0, <1>1, <2>3 DEF Subs!CancelRead, Typed, Quiet
  <1>2. ASSUME \/ Subs!End(p)
               \/ \E label \in {"cancel_save", "cancel_company", "cancel_txn"} : Subs!Goto(p, label)
        PROVE  loc' \in [Procs -> Subs!Local] /\ Elsewhere(p)
    <2>1. \A label \in {"cancel_save", "cancel_company", "cancel_txn"} : label \in Subs!Pc
      BY DEF Subs!Pc
    <2>2. QED BY <1>0, <1>2, <2>1, EndLeaves, Moves DEF Leaves
  <1>3. CASE Subs!CancelSave(p)
    <2>1. subs' \in Seq(Subs!Row) /\ Quiet
      <3>1. "canceled" \in Subs!Status
        BY DEF Subs!Status
      <3>2. QED BY <1>0, <1>3, <3>1, SavesQuietly DEF Subs!CancelSave
    <2>2. QED BY <1>0, <1>2, <1>3, <2>1 DEF Subs!CancelSave, Typed
  <1>4. CASE Subs!CancelStripe(p) \/ Subs!CancelCompany(p) \/ Subs!CancelTransaction(p)
    <2>1. UNCHANGED subs /\ txns \subseteq txns'
      BY <1>4 DEF Subs!CancelStripe, Subs!CancelCompany, Subs!CancelTransaction, Subs!Record
    <2>2. loc' \in [Procs -> Subs!Local] /\ Elsewhere(p)
      BY <1>2, <1>4 DEF Subs!CancelStripe, Subs!CancelCompany, Subs!CancelTransaction
    <2>3. QED BY <1>0, <2>1, <2>2 DEF Typed, Quiet
  <1>5. QED BY <1>1, <1>3, <1>4 DEF ApiStep
-------------------------------------------------------------------------------
\* What survives a step that only rewrites rows.
LEMMA QuietKeeps ==
    ASSUME Quiet
    PROVE  /\ \A s : Subs!RowsOf(s)' = Subs!RowsOf(s)
           /\ \A e : OnBooks(e) => OnBooks(e)'
  <1>1. \A s : Subs!RowsOf(s)' = Subs!RowsOf(s)
    BY DEF Quiet, Subs!RowsOf
  <1>2. \A e : OnBooks(e) => OnBooks(e)'
    BY DEF Quiet, OnBooks
  <1>3. QED BY <1>1, <1>2

\* A handler that stands where it stood.
LEMMA HandlerStands ==
    ASSUME NEW d \in Deliveries, HandlerOK(d), loc'[d] = loc[d], ev'[d] = ev[d],
           pc'[d] = pc[d] \/ pc[d] # "run",
           Quiet \/ \E n, s : Adds(n, s)
    PROVE  HandlerOK(d)'
  BY DEF HandlerOK, Quiet, Adds, Checkout, Inserted

\* A step of one handler, or of another request, that leaves the ledger alone.
LEMMA QuietMove ==
    ASSUME BillingInv, NEW p \in Procs, Quiet, Elsewhere(p), UNCHANGED ledgerVars,
           p \in Deliveries => HandlerOK(p)' /\ (Before(p)' => Before(p))
    PROVE  BillingInv'
  <1>1. /\ UNCHANGED <<pc, ev, row, reopened>>
        /\ \A q \in Deliveries : q # p => loc'[q] = loc[q]
    BY DEF ledgerVars, Elsewhere, Procs
  <1>2. HandlersInv'
    BY <1>1, HandlerStands DEF BillingInv, HandlersInv
  <1>3. BooksInv'
    BY <1>1, QuietKeeps DEF BillingInv, BooksInv, Processed
  <1>4. \A q \in Deliveries : Before(q)' => Before(q)
    BY <1>1 DEF Before
  <1>5. \A e \in Events : Fresh(e)' => Fresh(e)
    BY <1>1, <1>4 DEF Fresh
  <1>6. RowsInv'
    BY <1>1, <1>5, QuietKeeps DEF BillingInv, RowsInv, CheckoutsOf
  <1>7. QED BY <1>2, <1>3, <1>6 DEF BillingInv

\* A handler that ends, one way or the other.
LEMMA EndMove ==
    ASSUME BillingInv, LedgerTyped, NEW d \in Deliveries, Quiet, Leaves(d),
           NEW label \in {"complete", "fail"}, pc' = [pc EXCEPT ![d] = label],
           UNCHANGED <<ev, row, reopened>>,
           label = "complete" /\ Kind[ev[d]] = "checkout" => OnBooks(ev[d])'
    PROVE  BillingInv'
  <1>1. /\ \A q \in Deliveries : q # d => loc'[q] = loc[q] /\ pc'[q] = pc[q]
        /\ loc'[d].pc = "idle" /\ pc'[d] = label
    BY DEF Leaves, Elsewhere, Procs, LedgerTyped
  <1>2. HandlersInv'
    <2>1. HandlerOK(d)'
      BY <1>1 DEF HandlerOK, Checkout, Inserted
    <2>2. QED BY <1>1, <2>1, HandlerStands DEF BillingInv, HandlersInv
  <1>3. BooksInv'
    BY <1>1, QuietKeeps DEF BillingInv, BooksInv, Processed
  <1>4. \A q \in Deliveries : Before(q)' => Before(q)
    BY <1>1 DEF Before
  <1>5. \A e \in Events : Fresh(e)' => Fresh(e)
    BY <1>4 DEF Fresh
  <1>6. RowsInv'
    BY <1>5, QuietKeeps DEF BillingInv, RowsInv, CheckoutsOf
  <1>7. QED BY <1>2, <1>3, <1>6 DEF BillingInv

\* The row that the leased handler inserts is the only one of its checkout.
LEMMA AddMove ==
    ASSUME BillingInv, LedgerTyped, LedgerInv, NEW d \in Deliveries, NEW n, Adds(n, loc[d].sid),
           loc[d].pc = "checkout_insert", loc'[d].pc = "checkout_company",
           loc'[d].sid = loc[d].sid, loc'[d].row = n,
           Elsewhere(d), UNCHANGED txns, UNCHANGED ledgerVars
    PROVE  BillingInv'
  <1>a. PICK c : c = ev[d]
    OBVIOUS
  <1>b. PICK t : t = Subject[c]
    OBVIOUS
  <1>1. /\ UNCHANGED <<pc, ev, row, reopened>>
        /\ \A q \in Deliveries : q # d => loc'[q] = loc[q]
    BY DEF ledgerVars, Elsewhere, Procs
  <1>2. /\ pc[d] = "run" /\ Kind[c] = "checkout" /\ loc[d].sid = t /\ c \in Events /\ Before(d)
        /\ t \in StripeIds
    BY <1>a, <1>b, EventsAssumption
       DEF BillingInv, HandlersInv, HandlerOK, Checkout, Before, LedgerTyped
  <1>3. HandlersInv'
    <2>1. HandlerOK(d)'
      BY <1>1, <1>2, <1>a, <1>b DEF HandlerOK, Checkout, Inserted, Adds
    <2>2. QED BY <1>1, <2>1, HandlerStands DEF BillingInv, HandlersInv
  <1>4. BooksInv'
    <2>1. \A e : OnBooks(e) => OnBooks(e)'
      BY DEF OnBooks, Adds
    <2>2. QED BY <1>1, <2>1 DEF BillingInv, BooksInv, Processed
  <1>5. \A s : /\ s # t => Subs!RowsOf(s)' = Subs!RowsOf(s)
               /\ s = t => Subs!RowsOf(s)' = Subs!RowsOf(s) \cup {n}
    BY <1>2 DEF Adds, Subs!RowsOf
  <1>6. ~Before(d)' /\ \A q \in Deliveries : Before(q)' => Before(q)
    BY <1>1, <1>2 DEF Before
  <1>7. \A e \in Events : Fresh(e)' => Fresh(e)
    BY <1>1, <1>6 DEF Fresh
  <1>8. ASSUME c \notin reopened PROVE ~Fresh(c)' /\ Subs!RowsOf(t) = {}
    <2>1. Leased(c)
      BY <1>2, <1>8 DEF LedgerInv
    <2>2. row[c].status # "absent"
      BY <1>2, <1>a, <2>1 DEF Leased, Ledger!Granted
    <2>3. \A q \in Deliveries : ev[q] = c /\ Before(q) => q = d
      BY <1>2, <1>a, <2>1 DEF Leased, Ledger!Owners, Ledger!Granted, Before
    <2>4. ~Fresh(c)'
      BY <1>1, <1>6, <1>a, <2>2, <2>3 DEF Fresh
    <2>5. Fresh(c)
      BY <1>2, <1>a DEF Fresh
    <2>6. QED BY <1>2, <1>8, <1>b, <2>4, <2>5 DEF BillingInv, RowsInv
  <1>9. \A e \in Events : Kind[e] = "checkout" /\ Subject[e] = t => e = c
    BY <1>2, <1>b, EventsAssumption
  <1>10. RowsInv'
    <2>1. \A e \in Events \ reopened :
             Kind[e] = "checkout" /\ Fresh(e)' => Subs!RowsOf(Subject[e])' = {}
      <3>1. SUFFICES ASSUME NEW e \in Events \ reopened, Kind[e] = "checkout", Fresh(e)'
                     PROVE  Subs!RowsOf(Subject[e])' = {}
        OBVIOUS
      <3>2. Subs!RowsOf(Subject[e]) = {} /\ Subject[e] # t
        BY <1>7, <1>8, <1>9, <3>1 DEF BillingInv, RowsInv
      <3>3. PICK s : s = Subject[e]
        OBVIOUS
      <3>4. Subs!RowsOf(s)' = Subs!RowsOf(s)
        BY <1>5, <3>2, <3>3
      <3>5. QED BY <3>2, <3>3, <3>4 DEF Subs!RowsOf
    <2>2. \A s \in StripeIds : CheckoutsOf(s) \cap reopened = {} =>
             \A q, r \in Subs!RowsOf(s)' : q = r
      <3>1. SUFFICES ASSUME NEW s \in StripeIds, CheckoutsOf(s) \cap reopened = {},
                            NEW q \in Subs!RowsOf(s)', NEW r \in Subs!RowsOf(s)'
                     PROVE  q = r
        OBVIOUS
      <3>2. CASE s # t
        BY <1>5, <3>1, <3>2 DEF BillingInv, RowsInv
      <3>3. CASE s = t
        <4>1. c \notin reopened
          BY <1>2, <1>b, <3>1, <3>3 DEF CheckoutsOf
        <4>2. QED BY <1>5, <1>8, <3>1, <3>3, <4>1
      <3>4. QED BY <3>2, <3>3
    <2>3. QED BY <1>1, <2>1, <2>2 DEF RowsInv, CheckoutsOf
  <1>11. QED BY <1>3, <1>4, <1>10 DEF BillingInv
-------------------------------------------------------------------------------
\* The ledger's own steps leave the handlers alone.
LedgerOnly ==
    /\ UNCHANGED subsVars
    /\ \/ \E d \in Deliveries :
             \/ Ledger!Deliver(d) \/ Ledger!Lookup(d) \/ Ledger!Insert(d) \/ Ledger!SaveRetry(d)
             \/ Ledger!Respond(d) \/ Ledger!MarkCompleted(d) \/ Ledger!MarkFailed(d)
             \/ Ledger!RequestFails(d) \/ Ledger!MarkCompletedFails(d)
       \/ \E e \in Events : Ledger!LockGrowsStale(e)

LEMMA LedgerOnlyMove ==
    ASSUME BillingInv, LedgerInv, LedgerOnly
    PROVE  BillingInv'
  <1>0. /\ UNCHANGED <<subs, txns, loc>> /\ LedgerTyped /\ Quiet
        /\ \A d \in Deliveries : loc[d].pc # "idle" => pc[d] = "run"
    BY DEF LedgerOnly, subsVars, LedgerInv, Quiet, BillingInv, HandlersInv, HandlerOK
  <1>1. /\ ev' = ev /\ reopened \subseteq reopened'
        /\ \A d \in Deliveries : pc[d] = "run" => pc'[d] = "run"
    BY <1>0 DEF LedgerOnly, LedgerTyped, Ledger!Deliver, Ledger!Lookup, Ledger!Insert,
       Ledger!SaveRetry, Ledger!Respond, Ledger!MarkCompleted, Ledger!MarkFailed,
       Ledger!RequestFails, Ledger!MarkCompletedFails, Ledger!LockGrowsStale, Ledger!Goto,
       Ledger!Acknowledge, Ledger!Grant
  <1>2. HandlersInv'
    BY <1>0, <1>1 DEF BillingInv, HandlersInv, HandlerOK
  <1>3. \A e \in Events : Processed(e)' => Processed(e)
    <2>1. ASSUME NEW d \in Deliveries, Ledger!Insert(d) \/ Ledger!SaveRetry(d)
          PROVE  \A e \in Events : Processed(e)' => Processed(e)
      <3>1. \A e \in Events : row'[e] = row[e] \/ row'[e].status = "processing"
        BY <1>0, <2>1 DEF LedgerTyped, Ledger!Insert, Ledger!SaveRetry, Ledger!Write
      <3>2. \A q \in Deliveries : pc'[q] = "complete" => pc[q] = "complete"
        BY <1>0, <2>1 DEF LedgerTyped, Ledger!Insert, Ledger!SaveRetry, Ledger!Grant,
           Ledger!Acknowledge, Ledger!Goto
      <3>3. QED BY <1>1, <3>1, <3>2 DEF Processed
    <2>2. ASSUME NEW d \in Deliveries, Ledger!MarkCompleted(d) \/ Ledger!MarkFailed(d)
          PROVE  \A e \in Events : Processed(e)' => Processed(e)
      BY <1>0, <2>2 DEF LedgerTyped, Ledger!MarkCompleted, Ledger!MarkFailed, Ledger!Goto, Processed
    <2>3. ASSUME NEW d \in Deliveries,
                 \/ Ledger!Deliver(d) \/ Ledger!Lookup(d) \/ Ledger!Respond(d)
                 \/ Ledger!RequestFails(d) \/ Ledger!MarkCompletedFails(d)
          PROVE  \A e \in Events : Processed(e)' => Processed(e)
      BY <1>0, <2>3 DEF LedgerTyped, Ledger!Deliver, Ledger!Lookup, Ledger!Respond,
         Ledger!RequestFails, Ledger!MarkCompletedFails, Ledger!Goto, Ledger!Acknowledge, Processed
    <2>4. ASSUME NEW e \in Events, Ledger!LockGrowsStale(e)
          PROVE  \A f \in Events : Processed(f)' => Processed(f)
      BY <2>4 DEF Ledger!LockGrowsStale, Processed
    <2>5. QED BY <2>1, <2>2, <2>3, <2>4 DEF LedgerOnly
  <1>4. BooksInv'
    BY <1>0, <1>3, QuietKeeps DEF BillingInv, BooksInv
  <1>5. \A e \in Events \ reopened' : Fresh(e)' => Fresh(e)
    <2>0. SUFFICES ASSUME NEW e \in Events, e \notin reopened', Fresh(e)' PROVE Fresh(e)
      OBVIOUS
    <2>1. \A d \in Deliveries : ev[d] = e => pc[d] # "save"
      BY <1>1, <2>0 DEF LedgerInv, Leased
    <2>2. ASSUME NEW d \in Deliveries, Ledger!Insert(d) PROVE Fresh(e)
      <3>1. CASE ev[d] = e /\ row[e].status = "absent"
        BY <3>1 DEF Fresh
      <3>2. CASE ev[d] # e \/ row[e].status # "absent"
        <4>1. row'[e] = row[e]
          BY <1>0, <2>2, <3>2 DEF LedgerTyped, Ledger!Insert, Ledger!Write
        <4>2. \A q \in Deliveries : ev[q] = e /\ Before(q)' => Before(q)
          BY <1>0, <2>2, <3>2 DEF LedgerTyped, Ledger!Insert, Ledger!Grant,
             Ledger!Acknowledge, Ledger!Goto, Before
        <4>3. QED BY <1>1, <2>0, <4>1, <4>2 DEF Fresh
      <3>3. QED BY <3>1, <3>2
    <2>3. ASSUME NEW d \in Deliveries, Ledger!SaveRetry(d) PROVE Fresh(e)
      <3>1. ev[d] # e
        BY <2>1, <2>3 DEF Ledger!SaveRetry
      <3>2. row'[e] = row[e]
        BY <1>0, <2>3, <3>1 DEF LedgerTyped, Ledger!SaveRetry, Ledger!Write
      <3>3. \A q \in Deliveries : ev[q] = e /\ Before(q)' => Before(q)
        BY <1>0, <2>3, <3>1 DEF LedgerTyped, Ledger!SaveRetry, Ledger!Grant, Ledger!Goto, Before
      <3>4. QED BY <1>1, <2>0, <3>2, <3>3 DEF Fresh
    <2>4. ASSUME NEW d \in Deliveries,
                 \/ Ledger!Deliver(d) \/ Ledger!Lookup(d) \/ Ledger!Respond(d)
                 \/ Ledger!MarkCompleted(d) \/ Ledger!MarkFailed(d)
                 \/ Ledger!RequestFails(d) \/ Ledger!MarkCompletedFails(d)
          PROVE  Fresh(e)
      <3>1. row'[e].status = "absent" => row[e].status = "absent"
        BY <1>0, <2>4 DEF LedgerTyped, Ledger!Deliver, Ledger!Lookup, Ledger!Respond,
           Ledger!MarkCompleted, Ledger!MarkFailed, Ledger!RequestFails, Ledger!MarkCompletedFails
      <3>2. \A q \in Deliveries : Before(q)' => Before(q)
        BY <1>0, <2>4 DEF LedgerTyped, Ledger!Deliver, Ledger!Lookup, Ledger!Respond,
           Ledger!MarkCompleted, Ledger!MarkFailed, Ledger!RequestFails,
           Ledger!MarkCompletedFails, Ledger!Goto, Ledger!Acknowledge, Before
      <3>3. QED BY <1>1, <2>0, <3>1, <3>2 DEF Fresh
    <2>5. ASSUME NEW f \in Events, Ledger!LockGrowsStale(f) PROVE Fresh(e)
      BY <1>0, <2>0, <2>5 DEF Ledger!LockGrowsStale, Fresh, Before
    <2>6. QED BY <2>2, <2>3, <2>4, <2>5 DEF LedgerOnly
  <1>6. RowsInv'
    BY <1>0, <1>1, <1>5, QuietKeeps DEF BillingInv, RowsInv, CheckoutsOf
  <1>7. QED BY <1>2, <1>4, <1>6 DEF BillingInv

LEMMA CrashMove ==
    ASSUME Typed, BillingInv, LedgerInv, NEW S, Crash(S)
    PROVE  Typed' /\ BillingInv'
  <1>1. /\ UNCHANGED <<ev, row, reopened, subs, txns>> /\ Quiet
        /\ pc' = [d \in Deliveries |-> IF d \in S THEN "done" ELSE pc[d]]
        /\ loc' = [p \in Procs |-> IF p \in S THEN Subs!Idle ELSE loc[p]]
    BY DEF Crash, Ledger!Crash, Quiet, Typed
  <1>2. Typed'
    BY <1>1, IdleTyped DEF Typed
  <1>3. \A d \in Deliveries : \/ loc'[d] = loc[d] /\ pc'[d] = pc[d]
                              \/ loc'[d].pc = "idle" /\ pc'[d] = "done"
    BY <1>1, IdleTyped DEF Procs
  <1>4. HandlersInv'
    BY <1>1, <1>3 DEF BillingInv, HandlersInv, HandlerOK, Checkout, Inserted
  <1>5. BooksInv'
    BY <1>1, <1>3, QuietKeeps DEF BillingInv, BooksInv, Processed
  <1>6. \A e \in Events : Fresh(e)' => Fresh(e)
    BY <1>1, <1>3 DEF Fresh, Before
  <1>7. RowsInv'
    BY <1>1, <1>6, QuietKeeps DEF BillingInv, RowsInv, CheckoutsOf
  <1>8. QED BY <1>2, <1>4, <1>5, <1>7 DEF BillingInv

LEMMA StepIInv ==
    ASSUME IInv, [Next]_vars
    PROVE  IInv'
  <1>0. Typed /\ LedgerInv /\ LedgerTyped /\ BillingInv /\ LedgerInv'
    BY LedgerNext, LeaseStep DEF IInv, LedgerInv
  <1> DEFINE Done == Typed' /\ BillingInv'
  <1>1. ASSUME NEW d \in Deliveries, HandlerBegins(d) PROVE Done
    <2>1. d \in Procs /\ HandlerOK(d)
      BY <1>0 DEF Procs, BillingInv, HandlersInv
    <2>2. UNCHANGED <<pc, ev>>
      BY <1>0, <1>1, BeginsMove DEF ledgerVars
    <2>3. HandlerOK(d)' /\ (Before(d)' => Before(d))
      BY <1>0, <1>1, <2>2, BeginsMove DEF HandlerOK, Before, Checkout, Inserted, Loads
    <2>4. QED BY <1>0, <1>1, <2>1, <2>3, BeginsMove, QuietMove
  <1>2. ASSUME NEW d \in Deliveries, HandlerGoesOn(d) PROVE Done
    <2>0. /\ d \in Procs /\ HandlerOK(d) /\ UNCHANGED ledgerVars /\ UNCHANGED <<pc, ev>>
          /\ Typed' /\ Elsewhere(d)
      BY <1>0, <1>2, GoesOnMoves DEF Procs, BillingInv, HandlersInv, ledgerVars
    <2>1. CASE /\ loc[d].pc = "checkout_insert" /\ loc'[d].pc = "checkout_company"
               /\ loc'[d].sid = loc[d].sid /\ UNCHANGED txns
               /\ loc'[d].row = Len(subs) + 1 /\ Adds(Len(subs) + 1, loc[d].sid)
      <3>1. PICK n : n = Len(subs) + 1
        OBVIOUS
      <3>2. Adds(n, loc[d].sid) /\ loc'[d].row = n
        BY <2>1, <3>1
      <3>3. QED BY <1>0, <2>0, <2>1, <3>2, AddMove
    <2>2. CASE /\ Quiet /\ loc[d].pc = "checkout_company" /\ loc'[d].pc = "checkout_txn"
               /\ loc'[d].sid = loc[d].sid /\ loc'[d].row = loc[d].row
      <3>1. HandlerOK(d)' /\ ~Before(d)'
        BY <2>0, <2>2 DEF HandlerOK, Before, Checkout, Inserted, Quiet
      <3>2. QED BY <1>0, <2>0, <2>2, <3>1, QuietMove
    <2>3. CASE Quiet /\ loc[d].pc \in Loads /\ loc'[d].pc \notin Checkout \cup {"idle"}
      <3>1. HandlerOK(d)' /\ ~Before(d)'
        BY <2>0, <2>3 DEF HandlerOK, Before, Checkout, Inserted, Loads
      <3>2. QED BY <1>0, <2>0, <2>3, <3>1, QuietMove
    <2>4. QED BY <1>0, <1>2, <2>1, <2>2, <2>3, GoesOnMoves
  <1>3. ASSUME NEW d \in Deliveries, HandlerEnds(d) PROVE Done
    <2>1. pc' = [pc EXCEPT ![d] = "complete"] /\ UNCHANGED <<ev, row, reopened>>
      BY <1>3 DEF HandlerEnds, Ledger!HandlerReturns, Ledger!Goto
    <2>2. HandlerOK(d) /\ Typed' /\ Quiet /\ Leaves(d) /\ UNCHANGED subs
      BY <1>0, <1>3, EndsMoves DEF BillingInv, HandlersInv
    <2>3. ASSUME Kind[ev[d]] = "checkout" PROVE OnBooks(ev[d])'
      <3>1. loc[d].pc = "checkout_txn" /\ <<"subscription_payment", loc[d].row>> \in txns'
        BY <1>0, <1>3, <2>2, <2>3, EndsMoves DEF HandlerOK
      <3>2. loc[d].row \in DOMAIN subs /\ subs[loc[d].row].stripe = Subject[ev[d]]
        BY <2>2, <3>1 DEF HandlerOK, Checkout, Inserted
      <3>3. QED BY <2>1, <2>2, <3>1, <3>2 DEF OnBooks
    <2>4. QED BY <1>0, <2>1, <2>2, <2>3, EndMove
  <1>4. ASSUME NEW d \in Deliveries, HandlerFails(d) PROVE Done
    <2>1. pc' = [pc EXCEPT ![d] = "fail"] /\ UNCHANGED <<ev, row, reopened>>
      BY <1>4 DEF HandlerFails, Ledger!HandlerThrows, Ledger!Goto
    <2>2. QED BY <1>0, <1>4, <2>1, FailsMoves, EndMove
  <1>5. ASSUME NEW d \in Deliveries, HandlerFindsNothing(d) PROVE Done
    <2>1. /\ pc' = [pc EXCEPT ![d] = "complete"] /\ UNCHANGED <<ev, row, reopened>>
          /\ loc[d] = Subs!Idle /\ Kind[ev[d]] # "checkout"
          /\ UNCHANGED <<subs, txns, loc>>
      BY <1>5 DEF HandlerFindsNothing, Ledger!HandlerReturns, Ledger!Goto, subsVars
    <2>2. Typed' /\ Quiet /\ Leaves(d)
      BY <1>0, <2>1, IdleTyped DEF Typed, Quiet, Leaves, Elsewhere
    <2>3. QED BY <1>0, <2>1, <2>2, EndMove
  <1>6. ASSUME NEW d \in Deliveries, Receive(d) \/ LedgerStep(d) PROVE Done
    <2>1. LedgerOnly
      BY <1>6 DEF Receive, LedgerStep, LedgerOnly
    <2>2. QED BY <1>0, <2>1, LedgerOnlyMove DEF LedgerOnly, subsVars, Typed
  <1>7. ASSUME NEW e \in Events, LockGrowsStale(e) PROVE Done
    <2>1. LedgerOnly
      BY <1>7 DEF LockGrowsStale, LedgerOnly
    <2>2. QED BY <1>0, <2>1, LedgerOnlyMove DEF LedgerOnly, subsVars, Typed
  <1>8. ASSUME NEW S, Crash(S) PROVE Done
    BY <1>0, <1>8, CrashMove
  <1>9. ASSUME NEW p \in Api, ApiStep(p) PROVE Done
    <2>1. p \in Procs /\ p \notin Deliveries
      BY EventsAssumption DEF Procs
    <2>2. QED BY <1>0, <1>9, <2>1, ApiMoves, QuietMove
  <1>10. ASSUME UNCHANGED <<ledgerVars, subs, txns, loc>> PROVE Done
    <2>1. Typed' /\ Quiet
      BY <1>0, <1>10 DEF Typed, Quiet
    <2>2. UNCHANGED <<pc, ev, row, reopened>>
      BY <1>10 DEF ledgerVars
    <2>3. HandlersInv'
      BY <1>0, <1>10, <2>1, <2>2, HandlerStands DEF BillingInv, HandlersInv
    <2>4. BooksInv' /\ RowsInv'
      BY <1>0, <1>10, <2>1, <2>2, QuietKeeps
         DEF BillingInv, BooksInv, Processed, RowsInv, Fresh, Before, CheckoutsOf
    <2>5. QED BY <2>1, <2>3, <2>4 DEF BillingInv
  <1>11. ASSUME NEW s \in StripeIds, StripeStep(s) PROVE Done
    BY <1>10, <1>11 DEF StripeStep, Subs!StripePays, Subs!StripeCancels
  <1>12. ASSUME UNCHANGED vars PROVE Done
    <2>1. UNCHANGED <<ledgerVars, subs, txns, loc>>
      BY <1>12 DEF vars, subsVars, ledgerVars
    <2>2. QED BY <1>10, <2>1
  <1>13. Done
    BY <1>1, <1>2, <1>3, <1>4, <1>5, <1>6, <1>7, <1>8, <1>9, <1>11, <1>12 DEF Next
  <1>14. QED BY <1>0, <1>13 DEF IInv

LEMMA InitIInv == Init => IInv
  <1> SUFFICES ASSUME Init PROVE IInv
    OBVIOUS
  <1>1. Typed
    BY IdleTyped DEF Init, Typed, Procs
  <1>2. LedgerTyped
    BY DEF Init, Ledger!Init, LedgerTyped, Ledger!Status, Ledger!Pc
  <1>3. LedgerInv
    BY <1>2 DEF LedgerInv, Leased, Init, Ledger!Init, Ledger!Owners, Ledger!Granted
  <1>4. HandlersInv
    BY IdleTyped DEF HandlersInv, HandlerOK, Init, Checkout, Inserted
  <1>5. BooksInv
    BY DEF BooksInv, Processed, Init, Ledger!Init
  <1>6. RowsInv
    BY DEF RowsInv, Init, Subs!RowsOf
  <1>7. QED BY <1>1, <1>3, <1>4, <1>5, <1>6 DEF IInv, BillingInv

LEMMA SpecIInv == Spec => []IInv
  BY InitIInv, StepIInv, PTL DEF Spec

\* A duplicated delivery never creates a second subscription, for any number of
\* deliveries, requests and faults, before the event is opened for a retry
\* (webhooks.controller.ts, subscriptions.service.ts).
THEOREM OneRowForACheckout == Spec => []OneRowPerCheckout
  <1>1. IInv => OneRowPerCheckout
    <2>1. SUFFICES ASSUME IInv, NEW s \in StripeIds, CheckoutsOf(s) \cap reopened = {}
                   PROVE  Cardinality(Subs!RowsOf(s)) <= 1
      BY DEF OneRowPerCheckout
    <2>2. \A q, r \in Subs!RowsOf(s) : q = r
      BY <2>1 DEF IInv, BillingInv, RowsInv
    <2>3. CASE Subs!RowsOf(s) = {}
      BY <2>3, FS_EmptySet
    <2>4. ASSUME NEW r \in Subs!RowsOf(s) PROVE Cardinality(Subs!RowsOf(s)) <= 1
      <3>1. Subs!RowsOf(s) = {r}
        BY <2>2, <2>4
      <3>2. QED BY <3>1, FS_Singleton
    <2>5. QED BY <2>3, <2>4
  <1>2. QED BY <1>1, SpecIInv, PTL

\* A checkout whose event is COMPLETED has its row and its payment on record,
\* whatever failed and was retried before (webhooks.controller.ts).
THEOREM CompletedCheckoutIsRecorded == Spec => []CompletedCheckoutIsOnBooks
  <1>1. IInv => CompletedCheckoutIsOnBooks
    <2>1. SUFFICES ASSUME IInv, NEW e \in Events, Kind[e] = "checkout", row[e].status = "completed"
                   PROVE  Subs!RowsOf(Subject[e]) # {} /\ Recorded("subscription_payment", Subject[e])
      BY DEF CompletedCheckoutIsOnBooks
    <2>2. PICK r \in DOMAIN subs :
             subs[r].stripe = Subject[e] /\ <<"subscription_payment", r>> \in txns
      BY <2>1 DEF IInv, BillingInv, BooksInv, Processed, OnBooks
    <2>3. QED BY <2>2 DEF Subs!RowsOf, Recorded
  <1>2. QED BY <1>1, SpecIInv, PTL

===============================================================================
