SPECIFICATION USpec
CONSTANTS
    Runs <- MCRuns
    Frames <- MCRuns
    NONE = NONE
    NoRun = NONE
    Silence = Silence
    TTL = 2
    MaxImages = 1
    MaxTime = 2
    MaxReloads = 1
    MaxLosses = 2
    Convs = {c1, c2}
    Texts = {q1}
    Answers = {a1, Silence}
INVARIANTS
    AgentHearsConversation
PROPERTIES
    PictureIsUsed
SYMMETRY Symmetry
CHECK_DEADLOCK FALSE
