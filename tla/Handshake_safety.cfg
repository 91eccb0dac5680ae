SPECIFICATION Spec
CONSTANTS
    MaxPackets = 4
    MaxRaises = 1
    DuplicateDpid = TRUE
    SendFeaturesRequestOnEcho = TRUE
INVARIANTS
    TypeOK
    NoDispatchBeforeHandshake
    NothingLost
    HelloFirst
    OnlyDeferredReordered
    ConnectionInv
PROPERTIES
    ImplementsPhases
CHECK_DEADLOCK FALSE
