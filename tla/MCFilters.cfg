SPECIFICATION MCSpec
CONSTANTS
    Ids = {id}
    Strs = {str}
    Ints = {n1, n2}
    Closure = closure
    Types = {"tags", "search", "since", "limit", "custom"}
    Caps = {2, 3, 5}
    DefaultCap = 3
    MaxFields = 4
    Handles = {h1, h2, h3, h4, h5}
    Boxes = {c1, c2}
    NoBox = NoBox
INVARIANTS
    FilterTypeOK
    GettersAgree
    MemoryTypeOK
    NoDoubleFree
    LiveFiltersIntact
    ClosuresAccountedFor
PROPERTIES
    SettersKeepTheRest
    SettersNeverPanic
CHECK_DEADLOCK FALSE
