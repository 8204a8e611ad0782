SPECIFICATION FeedSpec
CONSTANTS
    src = src
    NoParent = NoParent
    NoRoot = NoRoot
    None = None
    Sources <- MCSources
    Sessions <- MCSessions
    EventIds <- MCEventIds
    Contents <- MCContents
    InvalidContents = {}
    UnfoldableContents <- MCUnfoldable
    Offered <- MCOffered
    MaxTokens <- MCMaxTokens
INVARIANTS
    ViewIsTheSnapshot
    CheckpointIsRestorable
    SubtreeUsageIsSum
PROPERTIES
    FinishedStaysFinished
