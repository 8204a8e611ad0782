SPECIFICATION Spec
CONSTANTS
    codex = codex
    Watchers <- MCWatchers
    NoPid = NoPid
    NoToken = NoToken
    Free = Free
    MaxServes = 3
INVARIANTS
    NoStrays
    RepairAlone
    TokensAgree
PROPERTIES
    CommandsEnd
