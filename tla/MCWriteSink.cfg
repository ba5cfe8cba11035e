SPECIFICATION FairSpec
CONSTANTS
    MaxRows = 2
    TableRows = {0, 1, 3}
    Inputs <- Writes
    MaxRequests = 4
INVARIANTS
    TypeOK
    SummaryIsExact
    StoredIsReportedPrefix
PROPERTIES
    WriteEnds
