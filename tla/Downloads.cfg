CONSTANTS
    h1 = h1
    h2 = h2
    f1 = f1
    f2 = f2
    f3 = f3
    Downloads = {h1, h2}
    Histories <- MCHistories
    Edited = {h1}
    Videos = {f1, f2, f3}
    Source <- MCSource
    IdleTimeout = 1
    MaxClicks = 2
    MaxFaults = 1
SPECIFICATION FairSpec
INVARIANTS
    IngestedOnceComplete
    StateIsTrue
PROPERTIES
    AutoTrashSpares
    AutoImportHappens
CHECK_DEADLOCK FALSE
