SPECIFICATION LSpec
CONSTANTS
    Elems = {v, w, x, y, z}
    Nodes = {n1, n2, n3, n4, n5}
    Null = Null
    MaxIndex = 5
SYMMETRY MCSymmetry
INVARIANTS
    LinksAgree
    WalkArrives
    OneOwner
PROPERTIES
    ImplementsList
CHECK_DEADLOCK FALSE
