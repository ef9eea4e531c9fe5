SPECIFICATION AllSpec
CONSTANTS
    CageSize = 4
    Short = 8
    x = x
    y = y
    Row = 3
    ByteValues = {x, y}
    Files <- MCFiles
    Junk = Junk
    Ids = {1, 2}
    Chars = {x, y}
    Lists <- MCLists
    Absent = Absent
    Majors = 3
    Minors = 4
    Patches = 4
    Block = 4
    Word = 32
    ByteBits = 2
    Updates = {1, 2, 3, 5, 11}
    MaxTotal = 40
    MaxFaults = 2
    AddressBits = 5
    WordOr <- MCOr
    ByteRange = 8
    ByteXor <- MCXor
    Blocks = {b1, b2}
    Null = Null
    Capacities = {0, 1, 3}
    Lengths = {0, 1, 2, 5}
    MaxCapacity = 8
INVARIANTS
    RegionsApart
    HashesMessage
    DumpReadsBack
    RoundTrip
    HostsOfNetwork
    RoundsPermute
PROPERTIES
    ReturnsInside
    FinalEnds
    ImplementsLottery
    NextIsNext
CHECK_DEADLOCK FALSE
