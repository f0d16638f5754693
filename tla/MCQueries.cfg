SPECIFICATION Spec
CONSTANTS
    Threads = {r1}
    Notes = {n1, n2, n3}
    Ops = {"count", "all", "any", "find_map", "search", "query", "get"}
    Limits = {0, 1, 2}
INVARIANTS
    QueryTypeOK
    AnswersAreRight
    ShortCircuits
    CursorInCall
SYMMETRY NoteSymmetry
CHECK_DEADLOCK FALSE
