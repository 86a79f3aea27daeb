SPECIFICATION MCSpec
CHECK_DEADLOCK FALSE
CONSTANTS
    None = None
    Conns = {k1, k2}
    Idle = FALSE
    Cancels = TRUE
    Milli = 2
    Minimum = 4
    Increment = 6
    Intervals = {1, 5, 9}
    Expiries = {0, 1, 15, 21}
    Slice = 5
    MaxDelay = 3
    MaxSlow = 2
INVARIANT AuthSafe
PROPERTIES PolitePolls AuthEnds
