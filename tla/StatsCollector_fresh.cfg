SPECIFICATION Spec
CONSTANTS
    handshake = handshake
    timer = timer
    Requesters <- OneThread
    HasTables = FALSE
    StatsReqSkip = 1
    Parts = 2
    ThreadsInterleave = TRUE
    MayReorder = FALSE
    Unreadable = FALSE
    MaxRounds = 2
    MaxPops = 0
    MaxOnWire = 2
INVARIANTS
    CompleteLists
CHECK_DEADLOCK FALSE
