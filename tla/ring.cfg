SPECIFICATION FairSpec
CONSTANTS
    p1 = p1
    p2 = p2
    p3 = p3
    Producer <- ThreeProducers
    Capacity = 2
    MaxCalls = 1
    MaxClears = 1
INVARIANTS
    RingInv
    NoDataRace
PROPERTIES
    EmptyMeansEmpty
    RefusalExplained
    FalseOnlyBehindGap
    ImplementsChannel
    CallsReturnAndDrain
