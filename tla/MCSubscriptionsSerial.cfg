\* Operations that do not overlap: seven of them, any of which may fail midway.
SPECIFICATION Spec
CONSTANTS
    Procs = {p1}
    StripeIds = {s1, s2}
    NoStripe = NoStripe
    MaxConcurrent = 1
    MaxOps = 7
INVARIANTS
    AtMostOneActive
    ActiveCompanyHasRow
    SessionsBillCustomerOnFile
PROPERTIES
    EndedStaysEnded
CHECK_DEADLOCK FALSE
