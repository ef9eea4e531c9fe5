SPECIFICATION FairSpec
CONSTANTS
    a = a
    b = b
    c = c
    Keys = {a, b, c}
    Values = {v1, v2}
    Hash <- Colliding
    Null = Null
    Blocks = {1, 2, 3, 4, 5, 6}
    Calloc <- MCCalloc
    Capacities <- MCCapacities
    MaxCapacity = 8
INVARIANTS
    LenCountsLive
    ProbeChains
    RehashHasRoom
    EntriesAllocated
PROPERTIES
    AddIsSeen
    CallsReturn
CHECK_DEADLOCK FALSE
