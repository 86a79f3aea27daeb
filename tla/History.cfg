SPECIFICATION MCSpec
CHECK_DEADLOCK FALSE
CONSTANTS
    MaxLogs = 3
    MaxEvents = 5
    MaxTotal = 6
    MaxKeep = 3
    MaxInput = 4
    Null = Null
INVARIANTS HistoryReadBack WireFaithful
PROPERTY HistorySteps
