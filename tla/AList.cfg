SPECIFICATION ASpec
CONSTANTS
    Elems = {x, y, z}
    Junk = Junk
    Capacities <- MCCapacities
    MaxCapacity = 6
    MaxIndex = 4
INVARIANTS
    InBounds
    OneOwner
PROPERTIES
    ImplementsList
CHECK_DEADLOCK FALSE
