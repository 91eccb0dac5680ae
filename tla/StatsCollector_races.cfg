SPECIFICATION Spec
CONSTANTS
    handshake = handshake
    timer = timer
    Requesters <- BothThreads
    HasTables = FALSE
    StatsReqSkip = 0
    Parts = 2
    ThreadsInterleave = TRUE
    MayReorder = TRUE
    Unreadable = TRUE
    MaxRounds = 2
    MaxPops = 1
    MaxOnWire = 2
INVARIANTS
    PublishedOnce
    ItemsOnce
SYMMETRY Symmetry
CHECK_DEADLOCK FALSE
