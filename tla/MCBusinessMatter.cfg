SPECIFICATION Spec
CONSTANTS
    Revisions = {r1, r2}
    Scopes = {s1}
    Decisions = {d1, d2}
    Attempts = {a1, a2}
    Artifacts = {f1, f2}
    Receipts = {c1, c2}
    Roles = {owner, other}
    Responsible = owner
    MaxTime = 1
    None = None
SYMMETRY Symmetry
CHECK_DEADLOCK FALSE
INVARIANTS
    RunningIsTheActiveAttempt
    GatedWorkWasApproved
    CompletedIffAccepted
PROPERTIES
    HistoryIsKept
    ImplementsApprovalGate
