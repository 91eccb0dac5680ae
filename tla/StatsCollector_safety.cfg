SPECIFICATION FairSpec
CONSTANTS
    handshake = handshake
    timer = timer
    Requesters <- OneThread
    HasTables = TRUE
    StatsReqSkip = 1
    Parts = 2
    ThreadsInterleave = FALSE
    MayReorder = FALSE
    Unreadable = FALSE
    MaxRounds = 2
    MaxPops = 1
    MaxOnWire = 2
INVARIANTS
    TypeOK
    CompleteLists
    AssemblyInv
PROPERTIES
    NeverStuck
    ImplementsRounds
CHECK_DEADLOCK FALSE
