SPECIFICATION Spec
CONSTANTS
    Handles = {h1, h2, h3, h4, h5}
    Boxes = {c1, c2}
    NoBox = NoBox
INVARIANTS
    TrampolineFindsClosure
CHECK_DEADLOCK FALSE
