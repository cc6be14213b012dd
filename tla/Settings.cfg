SPECIFICATION Spec
CONSTANTS
    None = None
    Empty = Empty
    Blank = Blank
    BuiltIn = BuiltIn
    Malformed = Malformed
    On = On
    Relative = Relative
    m1 = m1
    m2 = m2
    key1 = key1
    custom = custom
    absolute = absolute
    off = off
    name1 = name1
    logs = logs
    Values <- MCValues
    Requests <- MCRequests
    Defaults <- MCDefaults
    Files <- MCFiles
    Locals <- MCLocals
    Android = TRUE
    MaxI64 = 1
    MaxUpdates = 2
    MaxCrashes = 2
INVARIANTS
    SettingsInForce
    NoOldAnswers
    SurvivesRestart
    RefusesOnlyUnsound
PROPERTIES
    BackupLosesLast
CHECK_DEADLOCK FALSE
