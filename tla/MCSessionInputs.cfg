SPECIFICATION Spec
CONSTANTS
    Calls = {c1, c2}
    Sessions = {s1, s2}
    Bound = {}
    Faults = {"refused", "unacknowledged", "timeout", "crash", "lag"}
    Panel = {"remove"}
    MaxItems = 2
    MaxOps = 5
    MaxEdits = 1
    None = None
SYMMETRY Symmetry
INVARIANTS
    TypeOK
    InputRunsAtMostOnce
PROPERTY
    ImplementsKeptInputs
CHECK_DEADLOCK FALSE
