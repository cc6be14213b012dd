SPECIFICATION FairSpec
CONSTANTS
    q1 = q1
    d1 = d1
    s1 = s1
    Requests <- GetterAndDownload
    Kind <- KindGetterAndDownload
    Replies <- RepliesGetterAndDownload
    NONE = NONE
    RequestTTL = 0
    MaxStored = 1
    Capacity = 2
    MaxTime = 1
    MaxReplies = 2
    MaxCuts = 1
    MaxFailures = 0
    MaxHangups = 1
INVARIANTS
    NoFinalMissed
    StatusHasFinal
PROPERTIES
    FinalEventStable
    EveryHandlerEnds
CHECK_DEADLOCK FALSE
