SPECIFICATION Spec
CONSTANTS
    a = a
    b = b
    c = c
    u = u
    v = v
    Paths = {a, b, c}
    Buffers = {u, v}
    Contents <- MCContents
    Null = Null
    Directories <- Files
    Argvs <- Plain
INVARIANTS
    KeepsFirst
    OnlyDuplicates
CHECK_DEADLOCK FALSE
