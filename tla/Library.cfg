SPECIFICATION Spec
CONSTANTS
    s1 = s1
    d1 = d1
    n1 = n1
    n2 = n2
    n3 = n3
    e1 = e1
    e2 = e2
    v0 = v0
    l1 = l1
    c1 = c1
    m1 = m1
    a1 = a1
    a2 = a2
    v1 = v1
    v2 = v2
    NoRow = NoRow
    Series = {s1}
    Movies = {m1}
    SeriesEditions = {d1}
    MovieEditions = {a1, a2}
    Seasons = {n1, n3}
    Episodes = {e1, e2}
    Videos = {v0, v1, v2}
    Downloads = {l1}
    Collections = {c1}
    Parent <- MCParent
    Source <- MCSource
    Number <- MCNumber
    Firsts <- SeriesAndMovie
    FirstTarget <- MCTarget
    Encodable = {v1, v2}
    MaxRoots = 2
    StaleClicks <- MCClicks
INVARIANTS
    TrashMirrorsRows
    NothingLost
    OneDefaultEdition
    OneActiveVideo
PROPERTIES
    NoDanglingJunction
    ParentsStayAbove
    SharedIsSpared
CHECK_DEADLOCK FALSE
