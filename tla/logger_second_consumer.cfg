SPECIFICATION Spec
CONSTANTS
    c1 = c1
    c2 = c2
    Client <- TwoClients
    MaxCalls = 1
    MaxWaits = 0
    MaxStarts = 1
    Sinks = {}
    Overlaps <- OverlapFlush
INVARIANTS
    SingleConsumer
CHECK_DEADLOCK FALSE
