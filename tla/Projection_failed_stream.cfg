SPECIFICATION Spec
CHECK_DEADLOCK FALSE
CONSTANTS
    MaxRuns = 1
    MaxTurns = 1
    MaxMessages = 4
    MaxCalls = 1
    MaxChunks = 1
    MaxCauses = 0
    Raises = TRUE
INVARIANT ProjectsFailure
