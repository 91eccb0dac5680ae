SPECIFICATION FairSpec
CONSTANTS
    MaxPackets = 2
    MaxRaises = 1
    DuplicateDpid = FALSE
    SendFeaturesRequestOnEcho = FALSE
PROPERTIES
    ReplyEndsHandshake
CHECK_DEADLOCK FALSE
