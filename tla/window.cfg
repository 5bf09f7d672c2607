SPECIFICATION FairSpec
CONSTANTS
    Type = {"Close", "Resize"}
    MaxMessages = 4
    Capacity = 4
    Raw = Raw
    MaxListeners = 2
    MaxSubscribes = 3
    MaxResets = 1
    MaxDepth = 2
INVARIANTS
    WindowInv
PROPERTIES
    ImplementsChannel
    CloseEndsLoop
    PublishReaches
CHECK_DEADLOCK FALSE
