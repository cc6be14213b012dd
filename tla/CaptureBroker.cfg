SPECIFICATION FairSpec
CONSTANTS
    Agents = {a1, a2}
    Frames = {frame}
    NONE = NONE
    TIMEOUT = TIMEOUT
    MaxGeneration = 2
INVARIANTS
    ReturnsNewerFrame
    WakesEverySleeper
    TimeoutMissesNothing
PROPERTIES
    EveryCallReturns

