SPECIFICATION Spec
CONSTANTS
    s1 = s1
    d1 = d1
    n1 = n1
    n2 = n2
    n3 = n3
    e1 = e1
    e2 = e2
    v0 = v0
    l1 = l1
    c1 = c1
    m1 = m1
    a1 = a1
    a2 = a2
    v1 = v1
    v2 = v2
    NoRow = NoRow
    Series = {s1}
    Movies = {}
    SeriesEditions = {d1}
    MovieEditions = {}
    Seasons = {n1}
    Episodes = {e1}
    Videos = {v0}
    Downloads = {l1}
    Collections = {}
    Parent <- MCParent
    Source <- MCSource
    Number <- MCNumber
    Firsts <- OnlySeries
    FirstTarget <- MCTarget
    Encodable = {}
    MaxRoots = 2
    StaleClicks = {}
INVARIANTS
    TrashCanBePurged
CHECK_DEADLOCK FALSE
