SPECIFICATION Spec
CONSTANTS
    s1 = s1
    a = a
    c = c
    e1 = e1
    e2 = e2
    e3 = e3
    e4 = e4
    e5 = e5
    NoParent = NoParent
    NoRoot = NoRoot
    Sources <- MCSources
    Sessions <- MCSessions
    EventIds <- MCEventIds
    Contents <- MCContents
    InvalidContents <- MCInvalid
    UnfoldableContents = {}
    Offered <- MCOffered
    Renames <- MCRenames
    Summary <- MCSummary
    Unstorable <- MCUnstorable
    MirrorOn = TRUE
    Faults = {"insert", "append", "checkpoint", "files", "remove"}
    MaxCrashes = 1
    MaxFaults = 1
INVARIANTS
    AckedIsDurable
    ConfirmedStaysDeleted
    IdleAgrees
PROPERTIES
    CatalogCommits
    RestartRepairs
