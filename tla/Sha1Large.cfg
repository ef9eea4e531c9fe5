SPECIFICATION HSpec
CONSTANTS
    Block = 4
    Word = 32
    ByteBits = 2
    Updates = {16, 17}
    MaxTotal = 40
INVARIANTS
    HashesMessage
CHECK_DEADLOCK FALSE
