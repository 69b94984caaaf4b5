\* A registration's own code and the codes of two resends that overlap.
SPECIFICATION Spec
CONSTANTS
    Users = {u1}
    Requests = {r1, r2}
    Cooldown = 1
    Lifetime = 2
    MaxTime = 2
    MaxOps = 3
    MaxFaults = 0
INVARIANTS
    OnlyLatestCodeValid
CHECK_DEADLOCK FALSE
