\* One event, delivered again after its handler has failed or its lock is stale.
SPECIFICATION Spec
CONSTANTS
    Events = {e1}
    Deliveries = {d1, d2, d3}
    MaxFaults = 0
INVARIANTS
    ProcessedOnlyOnce
CHECK_DEADLOCK FALSE
