SPECIFICATION FairSpec
CONSTANTS
    TotalRows = 5
    BatchRows = 3
    MaxCancels = 2
INVARIANTS
    TypeOK
    NeverDrains
    CleanEndIsComplete
    CloseErrorOnlyAtEnd
    ClosedForGood
PROPERTIES
    Released
