SPECIFICATION Spec
CONSTANTS
    src = src
    NoParent = NoParent
    NoRoot = NoRoot
    None = None
    NoCatalog = NoCatalog
    Sources <- MCSources
    Sessions <- MCSessions
    EventIds <- MCEventIds
    Contents <- MCContents
    InvalidContents = {}
    UnfoldableContents = {}
    Offered <- MCPlainEvent
    Policies <- MCPolicies
    ContentKeys <- MCContentKeys
    Retentions <- MCKeep
    MaxStarts = 1
    MaxCommands = 1
PROPERTIES
    RebuildIsClean
