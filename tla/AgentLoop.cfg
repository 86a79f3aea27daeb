SPECIFICATION Spec
CONSTANTS
    MaxSent = 2
    TurnPolicy = "ONE_AT_A_TIME"
    StepPolicy = "ALL"
    Callers = {c1, c2}
    Calls = {t1, t2}
    PumpWhileActive = TRUE
    HonoursAbort = FALSE
SYMMETRY Symmetry
INVARIANTS TypeOK RunExclusive VisibleStateOwned ReturnedRunClosed InputInOrder
PROPERTY InputKept
