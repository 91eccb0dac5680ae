SPECIFICATION Spec
CONSTANTS
    ALL_OPENFLOW_VERSIONS <- AllVersions
    Units <- SmallUnits
    MaxUnits = 4
INVARIANTS
    TypeOK
    EachPacketOnce
PROPERTIES
    NoPacketLeftBehind
CHECK_DEADLOCK FALSE
