SPECIFICATION FairSpec
CONSTANTS
    Runtimes = {"pi", "dsh"}
    Log <- MCLog
    Existing = 2
    Mapped <- MCMapped
    Broken <- MCBroken
    NoState = NoState
    MaxLines = 2
    MaxQueue = 4
    MaxEdits = 2
    MaxCrashes = 1
    MaxFailures = 1
INVARIANTS
    CommittedIsStored
    SkippedIsSent
PROPERTIES
    EverythingArrives
