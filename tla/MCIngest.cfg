SPECIFICATION Spec
CONSTANTS
    s1 = s1
    s2 = s2
    a = a
    b = b
    c = c
    plain = plain
    other = other
    bad = bad
    broken = broken
    NoParent = NoParent
    NoRoot = NoRoot
    Sources <- MCSources
    Sessions <- MCSessions
    EventIds <- MCEventIds
    Contents <- MCContents
    InvalidContents <- MCInvalid
    UnfoldableContents <- MCUnfoldable
    Offered <- MCOffered
INVARIANTS
    MatchesRebuild
    AlwaysLoads
PROPERTIES
    ReportsEveryChange
    DeltasStartFromPublished
    DeleteLeavesNoOrphan
    ImplementsCatalogLog
