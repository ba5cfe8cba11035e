SPECIFICATION Spec
CONSTANTS
    MaxRows = 2
    TableRows = {0, 1, 3}
    Inputs <- Writes
    MaxRequests = 4
INVARIANTS
    ValidatedBeforeFirstLoad
