CONSTANTS
    Tasks = {1, 2}
    Keys = {k1, k2}
    NoKey = NoKey
    Capacity = 2
    Weight <- MCEncodes
    Learns <- MCTopRenditions
    Priorities = {0}
    MaxPriority = 0
    MaxClicks = 0
    MaxCrashes = 0
    Overlap = FALSE
    WritesMayFail = FALSE
SPECIFICATION Spec
SYMMETRY MCSymmetry
INVARIANT OverbookedByOne
CHECK_DEADLOCK FALSE
