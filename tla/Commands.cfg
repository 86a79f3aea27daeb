SPECIFICATION MCSpec
CHECK_DEADLOCK FALSE
CONSTANTS
    MaxPending = 2
    HasTimeout = TRUE
    Detaches = TRUE
    Cancels = TRUE
    MaxChunks = 4
    Limit = 1
    FileFails = TRUE
    MaxFound = 3
    MaxMatches = 2
    Installers = {i1, i2}
INVARIANTS ReportedOnce OutputKept NothingLeftBehind
PROPERTY TimeoutEnds
