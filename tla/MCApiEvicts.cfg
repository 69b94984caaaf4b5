\* One request at a time, no failure.
SPECIFICATION MCSpec
CONSTANTS
    Requests = {r1}
    MaxOps = 2
    MaxFaults = 0
    Names = {"d1", "d2"}
    Dates = {1, 2, 3}
    MaxDepts = 2
    UserIds = {1, 2}
    Profiles = {"p1", "p2"}
    PrefKeys = {"k1", "k2"}
    PrefValues = {"on"}
    AccessLife = 2
    RefreshLife = 3
    Ttl = 1
    MaxTime = 2
    Numbers <- MCNumbers
    Uuids <- MCUuids
    Times = {1, 2}
    MaxOrders = 2
    MaxSegments = 2
    Owners = {1, 2}
    Labels = {"l1", "l2"}
    MaxItems = 3
PROPERTIES
    EvictedKeysGo
CHECK_DEADLOCK FALSE
