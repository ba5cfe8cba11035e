SPECIFICATION Spec
CONSTANTS
    MaxRows = 5
    TableRows = {0, 1, 7, 8}
INVARIANTS
    TypeOK
    EveryRowOnce
    WithinLimits
