CONSTANTS
    c1 = c1
    c2 = c2
    m1 = m1
    a1 = a1
    a2 = a2
    e1 = e1
    e2 = e2
    e3 = e3
    p1 = p1
    None = None
    Connections = {c1, c2}
    Readers = {c2}
    Matters = {m1}
    AppendIds = {a1, a2}
    EventIds = {e1, e2, e3}
    Prints = {p1}
    MaxStreamEvents = 2
    MaxBatch = 2
    MaxUncertain = 1
    Faults = {"io", "unknown", "boundary", "crash"}
SPECIFICATION Spec
SYMMETRY Symmetry
INVARIANTS
    TypeOK
    LedgerTilesStream
    AnswersMatchLedger
PROPERTIES
    ImplementsLog
