SPECIFICATION FairSpec
CONSTANTS
    r1 = r1
    r2 = r2
    r3 = r3
    r4 = r4
    slow = slow
    fast = fast
    Requests <- ThreeRequests
    Keys <- OneKey
    TTL <- OneTTL
    NONE = NONE
    MaxTime = 1
    MaxReloads = 0
    MaxDrops = 1
PROPERTIES
    FollowerTakesOver
CHECK_DEADLOCK FALSE
