SPECIFICATION Spec
CONSTANTS
    whole = whole
    split = split
    Clients = {whole, split}
    Null = Null
    Pieces <- MCPieces
    Backlog = 1
    MaxMessages = 1
INVARIANTS
    RunsUntilStopped
CHECK_DEADLOCK FALSE
