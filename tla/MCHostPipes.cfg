SPECIFICATION FairSpec
CONSTANTS
    MaxStreams = 3
    MaxSent = 2
    MaxChunks = 1
    PipeSize = 1
    Uploads = {1}
    Troubled = {1}
    Ending = {1, 3}
INVARIANTS
    TypeOK
    NoRaceIsFatal
    PausedForAReason
PROPERTIES
    EveryFetchEnds
    StopEnds
    ImplementsExchange
CHECK_DEADLOCK FALSE
