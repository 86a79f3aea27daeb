SPECIFICATION MCSpec
CHECK_DEADLOCK FALSE
CONSTANTS
    N = 3
    Modes = {"sequential", "parallel", "length"}
    Updating = {2}
    MaxUpdates = 1
    Models = {"m", "n"}
    Adapters = {"A", "B"}
    Supplies <- MCSupplies
    Requests = {"q"}
    MaxCalls = 3
    MaxChunks = 2
INVARIANTS BatchOrdered LlmServes
PROPERTIES ImplementsContract AbortFreezes BatchSettles RunSettles
