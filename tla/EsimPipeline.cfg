SPECIFICATION PartsSpec
CONSTANTS
    list1 = list1
    list2 = list2
    look = look
    eid = eid
    foreign = foreign
    load1 = load1
    load2 = load2
    delete = delete
    Ops <- MCOps
    Named <- MCNamed
    Action <- MCAction
    ProfileCount <- MCProfileCount
    MaxProfiles = 1
    NONE = NONE
    Overlapping <- MCOverlapping
    MaxStarts = 2
    MaxLost = 1
    i1 = i1
    i2 = i2
    i3 = i3
    i4 = i4
    Intents <- MCIntents
    Kind <- MCKind
    Overlap = FALSE
    Known = {iccid, name}
    UnknownOneByte = {other}
    UnknownTwoBytes = {otherTwoBytes}
    Sizes = {8}
    MaxElements = 3
    MAX_ITERATIONS = 2
    Processes = {s1, s2, s3, s4, s5}
    MaxForsaken = 1
    NoProcess = NoProcess
INVARIANTS
    ResultFitsRequest
    OnlyOwnEvents
    DownloadEndsOnce
    ProtectedKept
    ReadsAllFields
    OneServer
PROPERTIES
    EveryOperationReported
    ServerComesBack
CHECK_DEADLOCK FALSE
