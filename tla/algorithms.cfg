SPECIFICATION AlgoSpec
CONSTANTS
    r1 = r1
    r2 = r2
    s1 = s1
    Value <- Values
    Garbage = 0
    F <- Flip
    Map <- Maps
    Keep <- Keeps
    Lists <- OpLists
    Root = {r1, r2}
    Base <- Bases
    Room <- Rooms
    Size = 4
    SliceName = {s1}
    Word = 16
    MaxOverflow = 1
INVARIANTS
    BufferInv
    
