SPECIFICATION FairSpec
CONSTANTS
    whole = whole
    split = split
    Clients = {whole, split}
    Null = Null
    Pieces <- MCPieces
    Backlog = 1
    MaxMessages = 2
INVARIANTS
    NoMutualWait
    InStep
PROPERTIES
    Answered
    NextServed
CHECK_DEADLOCK FALSE
