SPECIFICATION Spec
CONSTANTS
    Columns = {"a", "p"}
    Values = {0, 1}
    Expressions <- MCExpressions
    Depth <- MCDepth
    Scans <- MCScans
    MaxLength = 4
INVARIANTS
    TypeOK
    FilterIsExact
    RaisesOnlyForFragments
    StatementIsMeant
    PlannedAsRead
