\* Two companies and a location that invite one address, two requests at a time.
SPECIFICATION FairSpec
CONSTANTS
    Emails = {e1}
    Companies = {c1, c2}
    Locations = {l1}
    Requests = {r1, r2}
    Lifetime = 1
    MaxTime = 1
    MaxOps = 4
    MaxFaults = 1
INVARIANTS
    TypeOK
    AcceptedIsMember
    OneLiveInvitation
PROPERTIES
    ImplementsMembership
    RevokedIsNotAccepted
    RequestsEnd
CHECK_DEADLOCK FALSE
