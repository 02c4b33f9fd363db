SPECIFICATION Spec
CONSTANTS
    MaxRevisions = 3
    MaxAttempts = 2
    MaxGenerations = 1
    Sends = {s1}
    Controls = {c1}
    Selects = {p1}
    RunScopes = {"session.prompt", "session.approval"}
    Faults = {"broken", "slow", "return", "io", "commit", "port", "refused", "thrown",
              "invalidate", "crash"}
    MaxFaults = 1
    None = None
INVARIANTS
    TypeOK
    AnswersAreTrue
PROPERTY
    RevisionOnlyWhenNeeded
