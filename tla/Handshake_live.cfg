SPECIFICATION FairSpec
CONSTANTS
    MaxPackets = 3
    MaxRaises = 1
    DuplicateDpid = TRUE
    SendFeaturesRequestOnEcho = FALSE
PROPERTIES
    DeferredDispatched
    FirstPacketAnswered
CHECK_DEADLOCK FALSE
