SPECIFICATION FairSpec
CONSTANTS
    r1 = r1
    r2 = r2
    r3 = r3
    r4 = r4
    slow = slow
    fast = fast
    Requests <- ThreeRequests
    Keys <- TwoKeys
    TTL <- TwoTTL
    NONE = NONE
    MaxTime = 1
    MaxReloads = 1
    MaxDrops = 1
INVARIANTS
    SingleFlight
    ReplyMatchesKey
    WaitersHaveSource
    StaleOnlyFromInFlight
    OncePerLifetime
PROPERTIES
    EveryWaiterAnswered

CHECK_DEADLOCK FALSE
