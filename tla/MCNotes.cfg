SPECIFICATION MCSpec
CONSTANTS
    Handles = {h1, h2, h3, h4, h5}
    Lent = Lent
    None = None
    a = a
    b = b
    MaxTags = 4
    NoRef = NoRef
    Ids <- MCIds
    Notes <- MCTagLists
    Others <- MCOthers
    Types = {"Counts", "Zap", "ZapUnverified", "odd"}
    Known = {"Counts", "Reaction", "Zap", "ZapUnverified"}
    Capacities = {0, 1, 2, 4, 5}
    Slack = 1
    MaxEntries = 5
    CountBound = 4
    NoIndex = NoIndex
SYMMETRY Symmetry
CONSTRAINT OneOrigin
INVARIANTS
    NotesTypeOK
    OwnersAreAlone
    DanglesOnlyBehindSource
    NothingLeaks
    BuildsAsAsked
    RolesAreRight
    OneRolePerTag
    RoundTrip
    WithinBuffer
    EntryAtInBounds
    IterationComplete
CHECK_DEADLOCK FALSE
