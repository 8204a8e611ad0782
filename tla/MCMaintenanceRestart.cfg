SPECIFICATION Spec
CONSTANTS
    src = src
    NoParent = NoParent
    NoRoot = NoRoot
    None = None
    NoCatalog = NoCatalog
    Sources <- MCSources
    Sessions <- MCSessions
    EventIds <- MCEventIds
    Contents <- MCContents
    InvalidContents = {}
    UnfoldableContents = {}
    Offered <- MCOneEvent
    Policies <- MCStandard
    ContentKeys <- MCContentKeys
    Retentions <- MCKeep
    MaxStarts = 2
    MaxCommands = 0
INVARIANTS
    MirrorImports
