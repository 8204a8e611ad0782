SPECIFICATION PluginSpec
CONSTANTS
    root = root
    child = child
    Sessions = {root, child}
    Order <- MCOrder
    Log <- MCLog
    Start <- MCStart
    Persisted <- MCPersisted
    EventsOf <- MCEventsOf
    Announced <- MCAnnounced
    Unmappable <- MCUnmappable
    QueueLimit = 2
    MaxFacts = 3
    MaxRestarts = 1
    MaxFailures = 1
INVARIANTS
    ReplayIsSafe
CHECK_DEADLOCK FALSE
