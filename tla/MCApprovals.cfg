SPECIFICATION Spec
CONSTANTS
    Waits = {w1, w2}
    Calls = {c1, c2}
    MaxCards = 1
    MaxLapsed = 1
    MaxReceipts = 2
    MaxStates = 2
    MaxSends = 4
    None = None
SYMMETRY Alike
INVARIANTS
    TypeOK
    ReceiptsAreTrue
    GrantLeavesReceipt
    LapsedIsOver
