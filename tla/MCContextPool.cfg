SPECIFICATION Spec
CONSTANTS
    Requests = {r1, r2}
    Pooled = {c1, c2}
    None = None
    MaxHelpers = 1
SYMMETRY Symmetry
INVARIANTS
    Exclusive
    OwnData
    MapsSafe
PROPERTIES
    CopyApart
CHECK_DEADLOCK FALSE
