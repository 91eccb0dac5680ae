SPECIFICATION Spec
CONSTANTS
    p1 = p1
    p2 = p2
    Ports <- TwoPorts
    OFPP_LOCAL = p2
    States = {1, 4}
    KnownPorts <- LocalKnown
    MaxChanges = 2
    MaxTasks = 1
    MultiPart = FALSE
    MaxReplies = 2
    MaxLosses = 1
    ThreadsInterleave = FALSE
INVARIANTS
    TypeOK
    StatusNeverLate
    InterfacesFollowPorts
    EventsTellTheState
PROPERTIES
    NoStaleUpdate
CHECK_DEADLOCK FALSE
