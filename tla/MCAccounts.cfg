\* Two addresses, two requests at a time.  A code outlives the cooldown by one
\* unit, so that an old code can be live when the next one may be made.
SPECIFICATION FairSpec
CONSTANTS
    Users = {u1, u2}
    Requests = {r1, r2}
    Cooldown = 1
    Lifetime = 2
    MaxTime = 2
    MaxOps = 4
    MaxFaults = 1
INVARIANTS
    TypeOK
    OnlyNewestCodeIsLive
    CodesAreCooledDown
    VerifiedByOwnCode
PROPERTIES
    RegisteredUserIsMailed
CHECK_DEADLOCK FALSE
