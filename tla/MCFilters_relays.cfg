SPECIFICATION FieldSpec
CONSTANTS
    Ids = {id}
    Strs = {str}
    Ints = {n1}
    Closure = closure
    Types = {"relays", "limit"}
    Caps = {4}
    DefaultCap = 4
    MaxFields = 3
PROPERTIES
    RelayAssertHolds
CHECK_DEADLOCK FALSE
