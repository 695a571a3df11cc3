CONSTANTS
    v1 = v1
    v2 = v2
    e1 = e1
    e2 = e2
    film = film
    copy = copy
    Videos = {v1, v2}
    Episodes = {e1, e2}
    Contents = {film, copy}
    NoContent = NoContent
    Probe <- MCProbe
    File <- MCFile
    Replaced <- MCReplaced
    FirstLinks <- MCFirstLinks
    Capacity <- MCCapacity
    Presets = {slow, fast}
    slow = slow
    fast = fast
    Imports <- MCImports
    NoPreset = NoPreset
    MaxGen = 4
    MaxClicks = 1
    MaxFaults = 1
    Overtakes = FALSE
    PresetReplays = FALSE
    Backlog = FALSE
SPECIFICATION FairSpec
INVARIANTS
    TypeOK
    PlayableIsComplete
    NothingStranded
    EncodeHasStats
    PresetsMatch
    OneSource
    OneLadder
    LadderIsSound
PROPERTIES
    MergeKeepsEpisodes
    EverythingIsMade
CHECK_DEADLOCK FALSE
