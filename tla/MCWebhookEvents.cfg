\* Two events and three deliveries: two of one event race while the third
\* delivers the other event, or a third retry of the first.
SPECIFICATION FairSpec
CONSTANTS
    Events = {e1, e2}
    Deliveries = {d1, d2, d3}
    MaxFaults = 1
INVARIANTS
    TypeOK
    OnceUntilReopened
    AckedIsRecorded
PROPERTIES
    CompletedIsFinal
    ImplementsLease
    ProcessingSettles
CHECK_DEADLOCK FALSE
