SPECIFICATION Spec
CONSTANTS
    src = src
    NoParent = NoParent
    NoRoot = NoRoot
    None = None
    NoCatalog = NoCatalog
    Sources <- MCSources
    Sessions <- MCSessions
    EventIds <- MCEventIds
    Contents <- MCContents
    InvalidContents = {}
    UnfoldableContents = {}
    Offered <- MCOffered
    Policies <- MCPolicies
    ContentKeys <- MCContentKeys
    Retentions <- MCRetentions
    MaxStarts = 2
    MaxCommands = 1
INVARIANTS
    ServedIsClean
    HealthyIsTrue
PROPERTIES
    NoOrphans
    RetentionIsMinimal
