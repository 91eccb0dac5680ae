SPECIFICATION Spec
CONSTANTS
    OPENFLOW_VERSIONS <- SeveralSupported
    SwitchVersions <- AllVersions
    ExtraElements <- Elements
INVARIANTS
    TypeOK
    HighestCommonVersion
    HeaderVersionRespected
    BitmapReadBack
PROPERTIES
    AlwaysAnswered
