SPECIFICATION Spec
CHECK_DEADLOCK FALSE
CONSTANTS
    MaxLogs = 1
    MaxEvents = 6
    MaxTotal = 6
    MaxKeep = 4
PROPERTY CompactKeepsLast
