SPECIFICATION Spec
CONSTANTS
    r1 = r1
    r2 = r2
    r3 = r3
    r4 = r4
    slow = slow
    fast = fast
    Requests <- ThreeRequests
    Keys <- OneKey
    TTL <- OneTTL
    NONE = NONE
    MaxTime = 1
    MaxReloads = 1
    MaxDrops = 0
INVARIANTS
    CoalesceOntoOne
CHECK_DEADLOCK FALSE
