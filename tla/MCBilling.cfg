\* One Stripe subscription and an event of each type about it; three deliveries,
\* each of any of these events, next to the company's own cancelSubscription.
SPECIFICATION Spec
CONSTANTS
    s1 = s1
    checkout = checkout
    paid = paid
    failed = failed
    deleted = deleted
    Events = {checkout, paid, failed, deleted}
    StripeIds = {s1}
    Kind <- MCKind
    Subject <- MCSubject
    Deliveries = {d1, d2, d3}
    Api = {u1}
    NoStripe = NoStripe
    MaxFaults = 1
    MaxOps = 3
INVARIANTS
    OneRowPerCheckout
    CompletedCheckoutIsOnBooks
SYMMETRY Symmetry
CHECK_DEADLOCK FALSE
