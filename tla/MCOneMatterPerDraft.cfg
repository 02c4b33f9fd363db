CONSTANTS
    Contents = {f1}
    Keys = {k1, k2}
    Cards = {c1, c2}
    MaxRecords = 2
    MaxFaults = 0
    MaxCrashes = 1
    None = None
SPECIFICATION Spec
CHECK_DEADLOCK FALSE
INVARIANT
    OneMatterPerDraft
