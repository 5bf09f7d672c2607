SPECIFICATION FairSpec
CONSTANTS
    c1 = c1
    c2 = c2
    Client <- TwoClients
    MaxCalls = 2
    MaxWaits = 1
    MaxStarts = 2
    Sinks = {"File"}
    Overlaps <- NoOverlap
INVARIANTS
    LoggerInv
    StopDrains
    FileComplete
PROPERTIES
    IdleMeansDelivered
    WaiterReturns
    PushedArrives
    StopReturns
CHECK_DEADLOCK FALSE
