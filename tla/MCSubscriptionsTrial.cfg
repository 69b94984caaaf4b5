\* Two concurrent requests to start the free trial.
SPECIFICATION Spec
CONSTANTS
    Procs = {p1, p2}
    StripeIds = {s1, s2}
    NoStripe = NoStripe
    MaxConcurrent = 2
    MaxOps = 2
INVARIANTS
    OneTrialPerCompany

CHECK_DEADLOCK FALSE
