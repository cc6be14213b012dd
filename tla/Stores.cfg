SPECIFICATION PartsSpec
CONSTANTS
    Runs = {r1, r2, r3}
    Frames = {f1, f2}
    TTL = 2
    MaxImages = 1
    MaxTime = 3
    NONE = NONE
    c1 = c1
    c2 = c2
    NoRun = NONE
    Silence = Silence
    Convs = {c1, c2}
    Texts = {q1, q2}
    Answers = {a1, Silence}
    Recent = 1
    MaxRuns = 3
    MaxLogTime = 2
    MaxLosses = 1
    Memories = {m1}
    Unknown = Unknown
    Assets = {jpg1}
    Thumbs = 2
    Body = Body
    Absent = NONE
    MaxFaults = 3
    Ids = {k1, k2}
    Cards <- MCCards
    Batches <- MCBatches
    Nothing = NONE
    PageSize = 1
    MaxContactsTime = 2
    MaxWrites = 3
    MaxMishaps = 1
INVARIANTS
    StoresTyped
    BoundedByOneMore
    ExchangesKept
    CompleteMeansUploaded
    RowsHaveFiles
    PortalAgrees
    CopyFollows
    ResetKept
PROPERTIES
    ImplementsRunImages
SYMMETRY Symmetry
CHECK_DEADLOCK FALSE
