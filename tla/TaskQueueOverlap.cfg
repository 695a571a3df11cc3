CONSTANTS
    Tasks = {1, 2}
    Keys = {k1, k2}
    NoKey = NoKey
    Capacity = 2
    Weight <- MCWeight
    Learns <- MCLearns
    Priorities = {0}
    MaxPriority = 1
    MaxClicks = 1
    MaxCrashes = 1
    Overlap = TRUE
    WritesMayFail = FALSE
SPECIFICATION Spec
INVARIANT NoLockPanic
CHECK_DEADLOCK FALSE
