SPECIFICATION FairSpec
CONSTANTS
    Calls = {c1}
    Sessions = {s1}
    Bound = {}
    Faults = {}
    Panel = {}
    MaxItems = 3
    MaxOps = 8
    MaxEdits = 1
    None = None
INVARIANTS
    ConsumedWasTaken
    InboxFollowsList
PROPERTY
    UnpausedListDrains
CHECK_DEADLOCK FALSE
