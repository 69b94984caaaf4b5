----------------------------- MODULE Subscriptions -----------------------------
(***************************************************************************)
(* The subscription state of one company: SubscriptionsService, as its API *)
(* routes and the Stripe webhook handlers drive it.  A company's rows are  *)
(* reached only through its own id and its own Stripe ids, so companies do *)
(* not interact and one is enough.                                         *)
(*                                                                         *)
(* No method opens a transaction: every await is a step of its own, other  *)
(* requests run in between, and an await that throws leaves the earlier    *)
(* steps done.  save() of a loaded entity writes back every column that    *)
(* differs from the row, so it undoes what others wrote since the load.    *)
(* Plans, prices, tiers and dates are left out; no property tells them     *)
(* apart.                                                                  *)
(***************************************************************************)
EXTENDS Naturals, Sequences, FiniteSets

CONSTANTS
    Procs,          \* requests and webhook handlers that may run at a time
    StripeIds,      \* Stripe subscriptions of the company's checkouts
    NoStripe,       \* the stripeSubscriptionId of a free trial
    MaxConcurrent,  \* bound: operations in progress at a time
    MaxOps          \* bound: operations begun in a behaviour

ASSUME ConstantsAssumption ==
    /\ NoStripe \notin StripeIds
    /\ IsFiniteSet(Procs)
    /\ MaxConcurrent \in Nat
    /\ MaxOps \in Nat

VARIABLES
    subs,     \* the subscriptions rows, oldest createdAt first
    company,  \* the company row: hasUsedFreeTrial, subscriptionStatus, stripeCustomerId
    txns,     \* the transactions written: <<type, row>>
    stripe,   \* stripe[s]: what Stripe knows of s
    customers,\* Stripe customers created for the company
    loc,      \* loc[p]: the await p is at and the entity it has loaded
    ops,      \* operations begun so far
    cut       \* history: an operation was cut short by an error

vars == <<subs, company, txns, stripe, customers, loc, ops, cut>>

Status == {"active", "expired", "canceled", "past_due"}
Row == [status : Status, stripe : StripeIds \cup {NoStripe}]

TxnType == {"trial_started", "subscription_payment", "subscription_renewed",
            "plan_changed", "trial_ended"}

\* Customers are numbered in creation order; 0 is an unset stripeCustomerId.
Company == [usedTrial : BOOLEAN, status : {"trial"} \cup Status, customer : Nat]

StripeState == [state : {"none", "session", "active", "canceled"}, customer : Nat]

Pc == {"idle",
       "trial_subs", "trial_insert", "trial_company", "trial_txn",
       "session_customer", "session_company", "session_create",
       "checkout_insert", "checkout_company", "checkout_txn",
       "paid_save", "paid_txn", "failed_save", "failed_company",
       "deleted_save", "deleted_company",
       "cancel_stripe", "cancel_save", "cancel_company", "cancel_txn",
       "plan_company", "plan_stripe", "plan_save", "plan_txn"}

\* row is 0 until the operation has loaded or inserted a row.
Local == [pc : Pc, row : Nat, loaded : Status, sid : StripeIds \cup {NoStripe},
          customer : Nat]

Idle == [pc |-> "idle", row |-> 0, loaded |-> "active", sid |-> NoStripe, customer |-> 0]

TypeOK ==
    /\ subs \in Seq(Row)
    /\ company \in Company
    /\ txns \in SUBSET (TxnType \X Nat)
    /\ stripe \in [StripeIds -> StripeState]
    /\ customers \in Nat
    /\ loc \in [Procs -> Local]
    /\ \A p \in Procs : loc[p].row \in 0..Len(subs)
    /\ ops \in 0..MaxOps
    /\ cut \in BOOLEAN

\* A registered company: AuthService.register gives it a trial status, no row.
Init ==
    /\ subs = <<>>
    /\ company = [usedTrial |-> FALSE, status |-> "trial", customer |-> 0]
    /\ txns = {}
    /\ stripe = [s \in StripeIds |-> [state |-> "none", customer |-> 0]]
    /\ customers = 0
    /\ loc = [p \in Procs |-> Idle]
    /\ ops = 0
    /\ cut = FALSE

-------------------------------------------------------------------------------
\* Helpers.

Busy == {p \in Procs : loc[p].pc # "idle"}

\* p takes up a new operation, whose first await is the caller's own step.
Begin(p) ==
    /\ loc[p].pc = "idle"
    /\ Cardinality(Busy) < MaxConcurrent
    /\ ops < MaxOps
    /\ ops' = ops + 1

At(p, label) == loc[p].pc = label /\ UNCHANGED ops

Become(p, l) == loc' = [loc EXCEPT ![p] = l]
Goto(p, label) == loc' = [loc EXCEPT ![p].pc = label]
End(p) == Become(p, Idle)

\* p has loaded row r and goes on at label.
Load(p, r, label) ==
    Become(p, [Idle EXCEPT !.pc = label, !.row = r, !.loaded = subs[r].status,
                           !.sid = subs[r].stripe])

\* A new ACTIVE row for Stripe subscription s.
Insert(s) == subs' = Append(subs, [status |-> "active", stripe |-> s])

\* save() of the entity p has loaded, with its status set to st.
SaveLoaded(p, st) == subs' = [subs EXCEPT ![loc[p].row].status = st]

Record(type, r) == txns' = txns \cup {<<type, r>>}

ActiveRows == {r \in DOMAIN subs : subs[r].status = "active"}
RowsOf(s) == {r \in DOMAIN subs : subs[r].stripe = s}

\* getCurrentSubscription: the ACTIVE row with the newest createdAt.
IsCurrent(r) == r \in ActiveRows /\ \A q \in ActiveRows : q <= r

-------------------------------------------------------------------------------
\* startFreeTrial.

TrialReadCompany(p) ==
    /\ Begin(p)
    /\ ~company.usedTrial
    /\ Goto(p, "trial_subs")
    /\ UNCHANGED <<subs, company, txns, stripe, customers, cut>>

TrialReadCurrent(p) ==
    /\ At(p, "trial_subs")
    /\ IF ActiveRows = {} THEN Goto(p, "trial_insert") ELSE End(p)
    /\ UNCHANGED <<subs, company, txns, stripe, customers, cut>>

TrialInsert(p) ==
    /\ At(p, "trial_insert")
    /\ Insert(NoStripe)
    /\ Become(p, [Idle EXCEPT !.pc = "trial_company", !.row = Len(subs) + 1])
    /\ UNCHANGED <<company, txns, stripe, customers, cut>>

\* (Mutant) A trial that forgets hasUsedFreeTrial.
TrialCompanyForgetsFlag(p) ==
    /\ At(p, "trial_company")
    /\ company' = [company EXCEPT !.status = "active"]
    /\ Goto(p, "trial_txn")
    /\ UNCHANGED <<subs, txns, stripe, customers, cut>>

TrialCompany(p) ==
    /\ At(p, "trial_company")
    /\ company' = [company EXCEPT !.usedTrial = TRUE, !.status = "active"]
    /\ Goto(p, "trial_txn")
    /\ UNCHANGED <<subs, txns, stripe, customers, cut>>

TrialTransaction(p) ==
    /\ At(p, "trial_txn")
    /\ Record("trial_started", loc[p].row)
    /\ End(p)
    /\ UNCHANGED <<subs, company, stripe, customers, cut>>

-------------------------------------------------------------------------------
\* createCheckoutSession: the company is read and, the first time, gets a
\* Stripe customer.

\* The company entity is loaded; its customer is the one the session is for.
LoadCustomer(p) ==
    Become(p, [Idle EXCEPT !.customer = company.customer,
                  !.pc = IF company.customer = 0 THEN "session_customer"
                                                 ELSE "session_create"])

SessionReadCompany(p) ==
    /\ Begin(p)
    /\ LoadCustomer(p)
    /\ UNCHANGED <<subs, company, txns, stripe, customers, cut>>

SessionCustomer(p) ==
    /\ At(p, "session_customer")
    /\ customers' = customers + 1
    /\ Become(p, [loc[p] EXCEPT !.customer = customers + 1, !.pc = "session_company"])
    /\ UNCHANGED <<subs, company, txns, stripe, cut>>

\* (Mutant) The new customer's id is not stored.
SessionCompanyForgotten(p) ==
    /\ At(p, "session_company")
    /\ Goto(p, "session_create")
    /\ UNCHANGED <<subs, company, txns, stripe, customers, cut>>

SessionCompany(p) ==
    /\ At(p, "session_company")
    /\ company' = [company EXCEPT !.customer = loc[p].customer]
    /\ Goto(p, "session_create")
    /\ UNCHANGED <<subs, txns, stripe, customers, cut>>

SessionCreate(p) ==
    /\ At(p, "session_create")
    /\ \E s \in StripeIds :
          /\ stripe[s].state = "none"
          /\ stripe' = [stripe EXCEPT ![s] = [state |-> "session",
                                              customer |-> loc[p].customer]]
    /\ End(p)
    /\ UNCHANGED <<subs, company, txns, customers, cut>>

-------------------------------------------------------------------------------
\* handleCheckoutCompleted(s).

\* Stripe has emitted events about s once its session is paid.
Paid(s) == stripe[s].state \in {"active", "canceled"}

\* (Mutant) A checkout that leaves the earlier subscription active.
CheckoutKeepsOld(p, s) ==
    /\ Begin(p)
    /\ Paid(s)
    /\ Become(p, [Idle EXCEPT !.pc = "checkout_insert", !.sid = s])
    /\ UNCHANGED <<subs, company, txns, stripe, customers, cut>>

CheckoutExpire(p, s) ==
    /\ Begin(p)
    /\ Paid(s)
    /\ subs' = [r \in DOMAIN subs |-> IF r \in ActiveRows
                                      THEN [subs[r] EXCEPT !.status = "expired"]
                                      ELSE subs[r]]
    /\ Become(p, [Idle EXCEPT !.pc = "checkout_insert", !.sid = s])
    /\ UNCHANGED <<company, txns, stripe, customers, cut>>

\* The Stripe subscription is fetched, for its billing date, and the row saved.
CheckoutInsert(p) ==
    /\ At(p, "checkout_insert")
    /\ Insert(loc[p].sid)
    /\ Become(p, [loc[p] EXCEPT !.pc = "checkout_company", !.row = Len(subs) + 1])
    /\ UNCHANGED <<company, txns, stripe, customers, cut>>

CheckoutCompany(p) ==
    /\ At(p, "checkout_company")
    /\ company' = [company EXCEPT !.status = "active"]
    /\ Goto(p, "checkout_txn")
    /\ UNCHANGED <<subs, txns, stripe, customers, cut>>

CheckoutTransaction(p) ==
    /\ At(p, "checkout_txn")
    /\ Record("subscription_payment", loc[p].row)
    /\ End(p)
    /\ UNCHANGED <<subs, company, stripe, customers, cut>>

-------------------------------------------------------------------------------
\* handlePaymentSucceeded, handlePaymentFailed, handleSubscriptionDeleted.
\* findOne by Stripe id has no order: with several rows it may return any.
\* Without one the handler returns at once and changes nothing.

ReadByStripeId(p, s, label) ==
    /\ Begin(p)
    /\ \E r \in RowsOf(s) : Load(p, r, label)
    /\ UNCHANGED <<subs, company, txns, stripe, customers, cut>>

PaidRead(p, s) == Paid(s) /\ ReadByStripeId(p, s, "paid_save")

\* (Mutant) A payment that reactivates the subscription whatever became of it.
PaidSaveReactivates(p) ==
    /\ At(p, "paid_save")
    /\ SaveLoaded(p, "active")
    /\ Goto(p, "paid_txn")
    /\ UNCHANGED <<company, txns, stripe, customers, cut>>

\* Only nextBillingDate is meant to change, but the loaded status goes with it.
PaidSave(p) ==
    /\ At(p, "paid_save")
    /\ SaveLoaded(p, loc[p].loaded)
    /\ Goto(p, "paid_txn")
    /\ UNCHANGED <<company, txns, stripe, customers, cut>>

PaidTransaction(p) ==
    /\ At(p, "paid_txn")
    /\ Record("subscription_renewed", loc[p].row)
    /\ End(p)
    /\ UNCHANGED <<subs, company, stripe, customers, cut>>

FailedRead(p, s) == Paid(s) /\ ReadByStripeId(p, s, "failed_save")

\* (Mutant) The row takes Stripe's own name for the state.
FailedSaveUnpaid(p) ==
    /\ At(p, "failed_save")
    /\ SaveLoaded(p, "unpaid")
    /\ Goto(p, "failed_company")
    /\ UNCHANGED <<company, txns, stripe, customers, cut>>

FailedSave(p) ==
    /\ At(p, "failed_save")
    /\ SaveLoaded(p, "past_due")
    /\ Goto(p, "failed_company")
    /\ UNCHANGED <<company, txns, stripe, customers, cut>>

\* (Mutant) A failed payment that is not carried over to the company.
FailedCompanyForgotten(p) ==
    /\ At(p, "failed_company")
    /\ End(p)
    /\ UNCHANGED <<subs, company, txns, stripe, customers, cut>>

FailedCompany(p) ==
    /\ At(p, "failed_company")
    /\ company' = [company EXCEPT !.status = "past_due"]
    /\ End(p)
    /\ UNCHANGED <<subs, txns, stripe, customers, cut>>

DeletedRead(p, s) ==
    /\ stripe[s].state = "canceled"
    /\ ReadByStripeId(p, s, "deleted_save")

DeletedSave(p) ==
    /\ At(p, "deleted_save")
    /\ SaveLoaded(p, "canceled")
    /\ Goto(p, "deleted_company")
    /\ UNCHANGED <<company, txns, stripe, customers, cut>>

DeletedCompany(p) ==
    /\ At(p, "deleted_company")
    /\ company' = [company EXCEPT !.status = "canceled"]
    /\ End(p)
    /\ UNCHANGED <<subs, txns, stripe, customers, cut>>

-------------------------------------------------------------------------------
\* cancelSubscription.

\* (Mutant) A cancellation that does not tell Stripe.
CancelReadLocalOnly(p) ==
    /\ Begin(p)
    /\ \E r \in ActiveRows : IsCurrent(r) /\ Load(p, r, "cancel_save")
    /\ UNCHANGED <<subs, company, txns, stripe, customers, cut>>

CancelRead(p) ==
    /\ Begin(p)
    /\ \E r \in ActiveRows :
          /\ IsCurrent(r)
          /\ Load(p, r, IF subs[r].stripe = NoStripe THEN "cancel_save" ELSE "cancel_stripe")
    /\ UNCHANGED <<subs, company, txns, stripe, customers, cut>>

\* Stripe refuses to cancel what it has canceled; the request then fails.
CancelStripe(p) ==
    LET s == loc[p].sid IN
    /\ At(p, "cancel_stripe")
    /\ \/ /\ stripe[s].state = "active"
          /\ stripe' = [stripe EXCEPT ![s].state = "canceled"]
          /\ Goto(p, "cancel_save")
          /\ UNCHANGED cut
       \/ /\ stripe[s].state = "canceled"
          /\ End(p)
          /\ cut' = TRUE
          /\ UNCHANGED stripe
    /\ UNCHANGED <<subs, company, txns, customers>>

CancelSave(p) ==
    /\ At(p, "cancel_save")
    /\ SaveLoaded(p, "canceled")
    /\ Goto(p, "cancel_company")
    /\ UNCHANGED <<company, txns, stripe, customers, cut>>

CancelCompany(p) ==
    /\ At(p, "cancel_company")
    /\ company' = [company EXCEPT !.status = "canceled"]
    /\ Goto(p, "cancel_txn")
    /\ UNCHANGED <<subs, txns, stripe, customers, cut>>

\* The transaction of every cancellation, paid ones too, is a TRIAL_ENDED.
CancelTransaction(p) ==
    /\ At(p, "cancel_txn")
    /\ Record("trial_ended", loc[p].row)
    /\ End(p)
    /\ UNCHANGED <<subs, company, stripe, customers, cut>>

-------------------------------------------------------------------------------
\* changePlan: a trial goes to checkout, a paid subscription is updated.

PlanRead(p) ==
    /\ Begin(p)
    /\ \E r \in ActiveRows :
          /\ IsCurrent(r)
          /\ Load(p, r, IF subs[r].stripe = NoStripe THEN "plan_company" ELSE "plan_stripe")
    /\ UNCHANGED <<subs, company, txns, stripe, customers, cut>>

PlanReadCompany(p) ==
    /\ At(p, "plan_company")
    /\ LoadCustomer(p)
    /\ UNCHANGED <<subs, company, txns, stripe, customers, cut>>

\* Stripe refuses to change a canceled subscription.
PlanStripe(p) ==
    LET s == loc[p].sid IN
    /\ At(p, "plan_stripe")
    /\ \/ /\ stripe[s].state = "active"
          /\ Goto(p, "plan_save")
          /\ UNCHANGED cut
       \/ /\ stripe[s].state = "canceled"
          /\ End(p)
          /\ cut' = TRUE
    /\ UNCHANGED <<subs, company, txns, stripe, customers>>

PlanSave(p) ==
    /\ At(p, "plan_save")
    /\ SaveLoaded(p, loc[p].loaded)
    /\ Goto(p, "plan_txn")
    /\ UNCHANGED <<company, txns, stripe, customers, cut>>

\* The company's tier and limits, which are left out, are written before.
PlanTransaction(p) ==
    /\ At(p, "plan_txn")
    /\ Record("plan_changed", loc[p].row)
    /\ End(p)
    /\ UNCHANGED <<subs, company, stripe, customers, cut>>

-------------------------------------------------------------------------------
\* Stripe, and errors.

\* The user pays a checkout session.
StripePays(s) ==
    /\ stripe[s].state = "session"
    /\ stripe' = [stripe EXCEPT ![s].state = "active"]
    /\ UNCHANGED <<subs, company, txns, customers, loc, ops, cut>>

\* Stripe ends a subscription of its own accord (dunning, the billing portal).
StripeCancels(s) ==
    /\ stripe[s].state = "active"
    /\ stripe' = [stripe EXCEPT ![s].state = "canceled"]
    /\ UNCHANGED <<subs, company, txns, customers, loc, ops, cut>>

\* The await p is at throws, or the process dies there.
Throws(p) ==
    /\ p \in Busy
    /\ End(p)
    /\ cut' = TRUE
    /\ UNCHANGED <<subs, company, txns, stripe, customers, ops>>

Next ==
    \/ \E p \in Procs :
          \/ TrialReadCompany(p) \/ TrialReadCurrent(p) \/ TrialInsert(p)
          \/ TrialCompany(p) \/ TrialTransaction(p)
          \/ SessionReadCompany(p) \/ SessionCustomer(p) \/ SessionCompany(p)
          \/ SessionCreate(p)
          \/ CheckoutInsert(p) \/ CheckoutCompany(p) \/ CheckoutTransaction(p)
          \/ PaidSave(p) \/ PaidTransaction(p)
          \/ FailedSave(p) \/ FailedCompany(p)
          \/ DeletedSave(p) \/ DeletedCompany(p)
          \/ CancelRead(p) \/ CancelStripe(p) \/ CancelSave(p) \/ CancelCompany(p)
          \/ CancelTransaction(p)
          \/ PlanRead(p) \/ PlanReadCompany(p) \/ PlanStripe(p) \/ PlanSave(p)
          \/ PlanTransaction(p)
          \/ Throws(p)
    \/ \E p \in Procs, s \in StripeIds :
          CheckoutExpire(p, s) \/ PaidRead(p, s) \/ FailedRead(p, s) \/ DeletedRead(p, s)
    \/ \E s \in StripeIds : StripePays(s) \/ StripeCancels(s)

Spec == Init /\ [][Next]_vars

-------------------------------------------------------------------------------
\* What holds however the operations overlap, fail and repeat.

\* A paid subscription the application shows as canceled is canceled at Stripe:
\* cancelSubscription tells Stripe first and handleSubscriptionDeleted is told
\* by it, so no customer is billed for a subscription shown as canceled.
CanceledStopsBilling ==
    \A r \in DOMAIN subs :
        (subs[r].status = "canceled" /\ subs[r].stripe # NoStripe)
            => stripe[subs[r].stripe].state = "canceled"

\* A trial on the books has used up hasUsedFreeTrial and belongs to a trial row;
\* payments, renewals and plan changes belong to rows Stripe bills.
BooksMatchRows ==
    \A t \in txns :
        LET r == t[2] IN
        /\ r \in DOMAIN subs
        /\ t[1] = "trial_started" => company.usedTrial /\ subs[r].stripe = NoStripe
        /\ t[1] \in {"subscription_payment", "subscription_renewed", "plan_changed"}
              => subs[r].stripe # NoStripe

-------------------------------------------------------------------------------
\* What holds when operations do not overlap (MaxConcurrent = 1), though they
\* may fail at any await, repeat and come in any order.

\* getCurrentSubscription and SubscriptionGuard expect at most one ACTIVE row.
AtMostOneActive == Cardinality(ActiveRows) <= 1

\* A row that has left ACTIVE never gets back to it, not by a late event and
\* not by a replayed one.
EndedStaysEnded ==
    [][\A r \in DOMAIN subs :
          subs[r].status # "active" => subs'[r].status # "active"]_vars

\* Between operations that all ran to their end, a company shown as active has
\* an ACTIVE row behind it.
ActiveCompanyHasRow ==
    (Busy = {} /\ ~cut /\ company.status = "active") => ActiveRows # {}

\* Every checkout bills the customer the company has on file, the one the
\* billing portal opens.
SessionsBillCustomerOnFile ==
    \A s \in StripeIds :
        stripe[s].state # "none" => stripe[s].customer = company.customer

-------------------------------------------------------------------------------
\* startFreeTrial's refusal speaks of "the one-time free trial".
TrialRows == {r \in DOMAIN subs : subs[r].stripe = NoStripe}
OneTrialPerCompany == Cardinality(TrialRows) <= 1
===============================================================================
