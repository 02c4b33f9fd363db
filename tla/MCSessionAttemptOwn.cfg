SPECIFICATION FairSpec
CONSTANTS
    MaxRevisions = 3
    MaxAttempts = 2
    MaxGenerations = 1
    Sends = {s1, s2}
    Controls = {}
    Selects = {p1}
    RunScopes = {"session.prompt", "session.approval"}
    Faults = {"io", "commit", "thrown", "crash"}
    MaxFaults = 1
    None = None
INVARIANTS
    ClosedByItsOwnTurn
    WorkIsTheActiveAttempts
PROPERTY
    EndedTurnIsClosed
