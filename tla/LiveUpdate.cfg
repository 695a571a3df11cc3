CONSTANTS
    p1 = p1
    t1 = t1
    u1 = u1
    r1 = r1
    Pages = {p1}
    Tasks = {t1}
    Uploads = {u1}
    Reencoder = r1
    Capacity = 2
    MaxRuns = 3
SPECIFICATION FairSpec
INVARIANTS
    StaleHasEvent
    DoneIsClosed
PROPERTIES
    PageCatchesUp
CHECK_DEADLOCK FALSE
