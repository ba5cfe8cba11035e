SPECIFICATION Spec
CONSTANTS
    Tables <- MCTables
    Alterations <- MCAlterations
    Data <- MCData
INVARIANTS
    TypeOK
    EndsCleanly
    MetadataIsTrue
    SentHasColumns
    AcceptsWhatFits
