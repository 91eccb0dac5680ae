SPECIFICATION Spec
CONSTANTS
    p1 = p1
    p2 = p2
    Ports <- OnePort
    OFPP_LOCAL = p2
    States = {1, 4}
    KnownPorts <- NoneOrKnown
    MaxChanges = 2
    MaxTasks = 1
    MultiPart = FALSE
    MaxReplies = 1
    MaxLosses = 0
    ThreadsInterleave = TRUE
PROPERTIES
    NoStaleUpdate
CHECK_DEADLOCK FALSE
