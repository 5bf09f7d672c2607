SPECIFICATION FairSpec
CONSTANTS
    p1 = p1
    p2 = p2
    n1 = n1
    n2 = n2
    n3 = n3
    n4 = n4
    NULL = NULL
    Producer <- TwoProducers
    Node <- FourNodes
    MaxCalls = 2
INVARIANTS
    QueueInv
PROPERTIES
    FalseOnlyBehindGap
    ImplementsChannel
    AcceptedArrives
