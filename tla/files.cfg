SPECIFICATION AllSpec
CONSTANTS
    c1 = c1
    c2 = c2
    Client = {c1, c2}
    Worker = Worker
    Path <- Paths
    Cwd = 0
    Up <- Tree
    Old = Old
    New = New
    Failures = {"size", "read", "write", "find"}
    MaxCalls = 1
    Letter = {"a"}
    MaxPath = 4
INVARIANTS
    FilesInv
    PathLaws
PROPERTIES
    ReadIsWhole
    AloneDoesAll
    CallbackOnce
CHECK_DEADLOCK FALSE
