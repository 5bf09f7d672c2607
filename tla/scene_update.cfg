SPECIFICATION FrameSpec
CONSTANTS
    root = root
    child = child
    grandchild = grandchild
    NoParent = NoParent
    Node <- ThreeNodes
    Parent <- Chain
    Local = {1, 3}
    Modulus = 3
    Object <- Objects
    Primitive <- Primitives
    Pipeline <- Pipelines
    Bounds <- Spheres
    Eye = 3
    Near = 2
    Far = 8
    Grain = 2
    Stray <- Strays
    ObjectRoom = 3
    VisibleRoom = 5
    DrawRoom = 4
    PassRoom = 1
    PipeRange = 2
    MaterialRange = 4
    DepthRange = 2
    WordRange = 3
INVARIANTS
    UpdateEnsuresTwoLevels
    MissesOnlyFromAbove
    UpdateSettles
    FrameDrawsScene
