SPECIFICATION Spec
CONSTANTS
    m1 = m1
    a1 = a1
    a2 = a2
    a3 = a3
    m2 = m2
    b1 = b1
    b2 = b2
    c1 = c1
    NoRow = NoRow
    Movies = {m1, m2}
    Series = {}
    Collections = {c1}
    SeriesEditions = {}
    MovieEditions = {a1, a2, a3, b1, b2}
    Parent <- MCParent
    Slugs <- MCSlugs
    EditionSlugs <- MCEditionSlugs
    Titles <- MCTitles
    TitlesOf <- MCTitlesOf
    NoTitle = ""
    Labels <- MCLabels
    DefaultLabel = "Default Edition"
    CopyOf <- MCCopyOf
    TitleSlugs <- MCTitleSlugs
    LabelSlugs <- MCLabelSlugs
    Libraries <- MCLibraries
    StaleClicks = {}
SYMMETRY Symmetry
INVARIANTS
    AddressesAreTrue
PROPERTIES
    OldAddressesLead
CHECK_DEADLOCK FALSE
