SPECIFICATION Spec
CONSTANTS
    OPENFLOW_VERSIONS <- Supported
    SwitchVersions <- AllVersions
    ExtraElements <- Elements
INVARIANTS
    AgreedOnAnnouncedVersion
