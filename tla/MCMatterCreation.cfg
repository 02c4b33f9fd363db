CONSTANTS
    Contents = {f1, f2}
    Keys = {k1, k2}
    Cards = {c1, c2}
    MaxRecords = 1
    MaxFaults = 2
    MaxCrashes = 1
    None = None
SPECIFICATION FairSpec
CHECK_DEADLOCK FALSE
INVARIANTS
    TypeOK
    MatterIsWhatWasConfirmed
    DraftIsTrue
    NothingCreatedIsForgotten
PROPERTIES
    UnknownIsSettled
