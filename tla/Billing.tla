-------------------------------- MODULE Billing --------------------------------
(***************************************************************************)
(* The webhook ledger and the subscription state together: processEventAsync*)
(* runs the handlers of SubscriptionsService on the events WebhookEvents   *)
(* lets through, next to the company's own API requests.                   *)
(*                                                                         *)
(* A delivery that the ledger has granted runs its handler await by await  *)
(* in Subscriptions; the ledger's HandlerReturns and HandlerThrows are the *)
(* handler's last step and its error.                                      *)
(***************************************************************************)
EXTENDS Naturals, Sequences, FiniteSets

CONSTANTS
    Events, Deliveries, MaxFaults,  \* as in WebhookEvents
    StripeIds, NoStripe, MaxOps,    \* as in Subscriptions
    Api,                            \* cancelSubscription requests of the company
    Kind,                           \* Kind[e]: the event's type
    Subject                         \* Subject[e]: the Stripe subscription it is about

ASSUME EventsAssumption ==
    /\ Kind \in [Events -> {"checkout", "paid", "failed", "deleted"}]
    /\ Subject \in [Events -> StripeIds]
    \* Stripe reports the completion of a checkout session by one event.
    /\ \A e, f \in Events :
          Kind[e] = "checkout" /\ Kind[f] = "checkout" /\ Subject[e] = Subject[f] => e = f
    /\ Api \cap Deliveries = {}

VARIABLES
    row, stale, pc, ev, seen, acked, faults, ran, granted, reopened, dropped,
    subs, company, txns, stripe, customers, loc, ops, cut

Ledger == INSTANCE WebhookEvents

Subs == INSTANCE Subscriptions WITH
    Procs <- Deliveries \cup Api,
    MaxConcurrent <- Cardinality(Deliveries) + Cardinality(Api)

ledgerVars == <<row, stale, pc, ev, seen, acked, faults, ran, granted, reopened, dropped>>
subsVars == <<subs, company, txns, stripe, customers, loc, ops, cut>>
vars == <<ledgerVars, subsVars>>

\* The company has opened a checkout session for every Stripe subscription
\* (createCheckoutSession, at rest since) and none is paid yet.
Init ==
    /\ Ledger!Init
    /\ subs = <<>>
    /\ company = [usedTrial |-> FALSE, status |-> "trial", customer |-> 1]
    /\ txns = {}
    /\ stripe = [s \in StripeIds |-> [state |-> "session", customer |-> 1]]
    /\ customers = 1
    /\ loc = [p \in Deliveries \cup Api |-> Subs!Idle]
    /\ ops = 0
    /\ cut = FALSE

-------------------------------------------------------------------------------
\* Stripe emits the event only after what it reports.
Emitted(e) ==
    IF Kind[e] = "deleted" THEN stripe[Subject[e]].state = "canceled"
                           ELSE Subs!Paid(Subject[e])

Receive(d) ==
    /\ Emitted(ev[d])
    /\ Ledger!Deliver(d)
    /\ UNCHANGED subsVars

\* shouldProcessEvent, the answer, markEventCompleted and markEventFailed.
LedgerStep(d) ==
    /\ \/ Ledger!Lookup(d) \/ Ledger!Insert(d) \/ Ledger!SaveRetry(d) \/ Ledger!Respond(d)
       \/ Ledger!MarkCompleted(d) \/ Ledger!MarkFailed(d)
       \/ Ledger!RequestFails(d) \/ Ledger!MarkCompletedFails(d)
    /\ UNCHANGED subsVars

LockGrowsStale(e) == Ledger!LockGrowsStale(e) /\ UNCHANGED subsVars

-------------------------------------------------------------------------------
\* processEventAsync.

Handling(d) == pc[d] = "run"

\* The switch over event.type: the handler's first await.
HandlerBegins(d) ==
    LET e == ev[d] IN
    /\ Handling(d)
    /\ \/ Kind[e] = "checkout" /\ Subs!CheckoutExpire(d, Subject[e])
       \/ Kind[e] = "paid" /\ Subs!PaidRead(d, Subject[e])
       \/ Kind[e] = "failed" /\ Subs!FailedRead(d, Subject[e])
       \/ Kind[e] = "deleted" /\ Subs!DeletedRead(d, Subject[e])
    /\ UNCHANGED ledgerVars

\* No row has the event's Stripe id: the handler warns and returns, and the
\* event is completed without effect.
HandlerFindsNothing(d) ==
    /\ Handling(d)
    /\ loc[d] = Subs!Idle
    /\ Kind[ev[d]] # "checkout"
    /\ Subs!RowsOf(Subject[ev[d]]) = {}
    /\ Ledger!HandlerReturns(d)
    /\ UNCHANGED subsVars

HandlerGoesOn(d) ==
    /\ \/ Subs!CheckoutInsert(d) \/ Subs!CheckoutCompany(d)
       \/ Subs!PaidSave(d) \/ Subs!FailedSave(d) \/ Subs!DeletedSave(d)
    /\ UNCHANGED ledgerVars

HandlerEnds(d) ==
    /\ \/ Subs!CheckoutTransaction(d) \/ Subs!PaidTransaction(d)
       \/ Subs!FailedCompany(d) \/ Subs!DeletedCompany(d)
    /\ Ledger!HandlerReturns(d)

\* (Mutant) An error inside the handler that does not reach processEventAsync.
HandlerFailsSilently(d) ==
    /\ Subs!Throws(d)
    /\ Ledger!HandlerReturns(d)

\* An await of the handler throws, its first one included.
HandlerFails(d) ==
    /\ \/ Subs!Throws(d)
       \/ loc[d] = Subs!Idle /\ UNCHANGED subsVars
    /\ Ledger!HandlerThrows(d)

\* A server process dies with the deliveries in S and their handlers.
Crash(S) ==
    /\ Ledger!Crash(S)
    /\ loc' = [p \in DOMAIN loc |-> IF p \in S THEN Subs!Idle ELSE loc[p]]
    /\ cut' = TRUE
    /\ UNCHANGED <<subs, company, txns, stripe, customers, ops>>

-------------------------------------------------------------------------------
\* The company's users cancel their subscription.
ApiStep(p) ==
    /\ \/ Subs!CancelRead(p) \/ Subs!CancelStripe(p) \/ Subs!CancelSave(p)
       \/ Subs!CancelCompany(p) \/ Subs!CancelTransaction(p)
    /\ UNCHANGED ledgerVars

StripeStep(s) ==
    /\ Subs!StripePays(s) \/ Subs!StripeCancels(s)
    /\ UNCHANGED ledgerVars

Next ==
    \/ \E d \in Deliveries :
          \/ Receive(d) \/ LedgerStep(d)
          \/ HandlerBegins(d) \/ HandlerFindsNothing(d) \/ HandlerGoesOn(d)
          \/ HandlerEnds(d) \/ HandlerFails(d)
    \/ \E e \in Events : LockGrowsStale(e)
    \/ \E S \in SUBSET {d \in Deliveries : pc[d] \in Ledger!InFlight} : S # {} /\ Crash(S)
    \/ \E p \in Api : ApiStep(p)
    \/ \E s \in StripeIds : StripeStep(s)

Spec == Init /\ [][Next]_vars

-------------------------------------------------------------------------------
CheckoutsOf(s) == {e \in Events : Kind[e] = "checkout" /\ Subject[e] = s}
Recorded(type, s) == \E t \in txns : t[1] = type /\ subs[t[2]].stripe = s

\* A checkout that was never opened for a retry has at most one subscription
\* row and no row that its handler did not insert: the ledger is what keeps a
\* duplicated delivery from creating a second subscription.
OneRowPerCheckout ==
    \A s \in StripeIds :
        CheckoutsOf(s) \cap reopened = {} => Cardinality(Subs!RowsOf(s)) <= 1

\* A checkout event that the ledger shows as COMPLETED has left a subscription
\* row, and its payment is on the books, whatever failed and was retried before.
CompletedCheckoutIsOnBooks ==
    \A e \in Events :
        (Kind[e] = "checkout" /\ row[e].status = "completed")
            => /\ Subs!RowsOf(Subject[e]) # {}
               /\ Recorded("subscription_payment", Subject[e])
===============================================================================
