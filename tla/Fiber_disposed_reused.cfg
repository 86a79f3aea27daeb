SPECIFICATION Spec
CHECK_DEADLOCK FALSE
CONSTANTS
    Tasks = {t1, t2}
    MaxEffects = 1
    MaxLists = 3
    LateEffects = FALSE
    Cancels = FALSE
PROPERTY DisposedIsTerminal
