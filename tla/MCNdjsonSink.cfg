SPECIFICATION FairSpec
CONSTANTS
    e1 = e1
    e2 = e2
    e3 = e3
    Events <- MCEvents
    Rejected = {e2}
    MaxQueue = 3
    MaxInFlight = 2
    MaxWrites = 3
    MaxWires = 2
INVARIANTS
    IdleMeansStored
PROPERTIES
    ImplementsAckedSink
    Delivers
