SPECIFICATION FairSpec
CONSTANTS
    p1 = p1
    p2 = p2
    NoActivation = NoActivation
    NoId = NoId
    IsSubagent = FALSE
    Agents <- MCAgents
    NoMapping <- NoMappingOf
    MapRecord <- MapRecordOf
    NoState = NoState
    MaxLines = 2
    MaxFailures = 1
INVARIANTS
    CursorBehindStored
    RereadGivesTheSame
    WaitingCallsAreCommitted
PROPERTIES
    EveryLineArrives
