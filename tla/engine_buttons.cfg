SPECIFICATION Spec
CONSTANTS
    t1 = t1
    t2 = t2
    Engine = Engine
    NoEvent = NoEvent
    NoControl = NoControl
    Thread = {t1}
    KeyThread = {t1}
    Button <- Buttons
    Capacity = 2
    MaxPosts = 1
    MaxPackets = 2
    MaxRuns = 1
INVARIANTS
    ButtonHeldState
CHECK_DEADLOCK FALSE
