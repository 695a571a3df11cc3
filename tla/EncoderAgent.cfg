CONSTANTS
    j1 = j1
    j2 = j2
    Jobs = {j1, j2}
    MaxRuns = 2
    MaxFaults = 2
SPECIFICATION FairSpec
INVARIANTS
    CollectedIsWhole
    NothingLeftBehind
PROPERTIES
    RequestEnds
CHECK_DEADLOCK FALSE
