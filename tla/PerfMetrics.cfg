SPECIFICATION FairSpec
CONSTANTS
    NumCpus = 3
    NumTests = 3
    Junk = Junk
INVARIANTS
    SlotsSafe
    TotalsAreOfTheirTest
PROPERTIES
    Ends
CHECK_DEADLOCK FALSE
