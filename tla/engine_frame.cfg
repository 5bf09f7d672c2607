SPECIFICATION Spec
CONSTANTS
    t1 = t1
    t2 = t2
    Engine = Engine
    NoEvent = NoEvent
    NoControl = NoControl
    Thread <- Threads
    KeyThread = {t1}
    Button = {0}
    Capacity = 2
    MaxPosts = 1
    MaxPackets = 2
    MaxRuns = 2
INVARIANTS
    TypeOK
    LevelsAgree
    CurrentFrameIsLast
PROPERTIES
    EdgesCoverLevels
    ShutdownStops
    PostedReachesFrame
CHECK_DEADLOCK FALSE
