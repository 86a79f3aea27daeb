SPECIFICATION MCSpec
CHECK_DEADLOCK FALSE
CONSTANTS
    None = None
    t1 = t1
    t2 = t2
INVARIANTS Consistent EffectsUndone DispatchFaithful AgentsOwnTheirTools
PROPERTY DisposedIsFinal
