SPECIFICATION Spec
CONSTANTS
    codex = codex
    Watchers <- MCWatchers
    NoPid = NoPid
    NoToken = NoToken
    Free = Free
    MaxServes = 2
INVARIANTS
    WatchersAttach
