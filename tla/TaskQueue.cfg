CONSTANTS
    Tasks = {1, 2}
    Keys = {k1, k2}
    NoKey = NoKey
    Capacity = 2
    Weight <- MCWeight
    Learns <- MCLearns
    Priorities = {0}
    MaxPriority = 1
    MaxClicks = 1
    MaxCrashes = 1
    Overlap = FALSE
    WritesMayFail = FALSE
SPECIFICATION FairSpec
INVARIANTS
    NoLockPanic
    AdmittedByOne
    RunningHasOwner
    BudgetIsSum
PROPERTIES
    DueTaskIsTaken
    CompletedNeverFails
    KilledIsNotRetried
    ImplementsContract
CHECK_DEADLOCK FALSE
