SPECIFICATION CarefulSpec
CONSTANTS
    a = a
    b = b
    c = c
    d = d
    Keys = {a, b, c, d}
    Values = {v1, v2}
    Hash <- Colliding
    Null = Null
    Blocks = {1, 2, 3, 4, 5, 6}
    Calloc <- MCCalloc
    Capacities <- MCCapacities
    MaxCapacity = 8
SYMMETRY MCSymmetry
INVARIANTS
    OneEntryPerKey
PROPERTIES
    ImplementsMap
CHECK_DEADLOCK FALSE
