SPECIFICATION Spec
CONSTANTS
    MaxRevisions = 2
    MaxAttempts = 1
    MaxGenerations = 1
    Sends = {s1}
    Controls = {}
    Selects = {p1}
    RunScopes = {"session.prompt"}
    Faults = {"return"}
    MaxFaults = 1
    None = None
INVARIANTS
    ClosedByItsOwnTurn
