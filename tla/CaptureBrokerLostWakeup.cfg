SPECIFICATION Spec
CONSTANTS
    Agents = {a1, a2}
    Frames = {frame}
    NONE = NONE
    TIMEOUT = TIMEOUT
    MaxGeneration = 2
INVARIANTS
    NoSleepOverFrame
