\* Three operations at a time, any interleaving of their awaits.
SPECIFICATION Spec
CONSTANTS
    Procs = {p1, p2, p3}
    StripeIds = {s1, s2}
    NoStripe = NoStripe
    MaxConcurrent = 3
    MaxOps = 5
INVARIANTS
    TypeOK
    CanceledStopsBilling
    BooksMatchRows
SYMMETRY Symmetry
CHECK_DEADLOCK FALSE
