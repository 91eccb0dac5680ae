SPECIFICATION Spec
CONSTANTS
    OFPVID_PRESENT = 4
    AddressBits = 3
    IntBits = 3
    FlowDicts <- CanonicalDicts
    Foreign <- OtherEntries
    MaxFlows = 2
INVARIANTS
    TypeOK
    CollectedKeepsId
    AddedAgainIsTheSame
    MatchIdIsTheEntry
    DictKeepsFlow
PROPERTIES
    StrictDeleteRemoves
CHECK_DEADLOCK FALSE
