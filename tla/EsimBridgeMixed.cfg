SPECIFICATION Spec
CONSTANTS
    q1 = q1
    d1 = d1
    s1 = s1
    Requests <- OneOfEach
    Kind <- KindOneOfEach
    Replies <- RepliesOneOfEach
    NONE = NONE
    RequestTTL = 1
    MaxStored = 3
    Capacity = 1
    MaxTime = 0
    MaxReplies = 1
    MaxCuts = 1
    MaxFailures = 1
    MaxHangups = 0
INVARIANTS
    NoOrphanAcceptance
PROPERTIES
    TimeoutMeansUnanswered
CHECK_DEADLOCK FALSE
