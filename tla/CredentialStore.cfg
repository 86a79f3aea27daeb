SPECIFICATION Spec
CHECK_DEADLOCK FALSE
SYMMETRY Symmetry
CONSTANTS
    Ops = {o1, o2, o3}
    Kinds = {"refresh", "logout"}
    Signals = {"none", "live"}
    None = None
    Cancels = TRUE
INVARIANTS RefreshIsolated ToldAbortedNeverCommits ChainPruned
