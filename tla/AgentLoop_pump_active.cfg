SPECIFICATION Spec
CONSTANTS
    MaxSent = 1
    TurnPolicy = "ONE_AT_A_TIME"
    StepPolicy = "ALL"
    Callers = {c1, c2}
    Calls = {t1}
    PumpWhileActive = TRUE
    HonoursAbort = FALSE
SYMMETRY Symmetry
INVARIANT InputConserved
