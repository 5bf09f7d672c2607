SPECIFICATION Spec
CONSTANTS
    root = root
    child = child
    grandchild = grandchild
    NoParent = NoParent
    Node <- ThreeNodes
    Parent <- Chain
    Local = {"a", "b"}
    Modulus = 3
INVARIANTS
    UpdateEnsures
