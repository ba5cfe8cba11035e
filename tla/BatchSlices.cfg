SPECIFICATION FairSpec
CONSTANTS
    BatchRows = 7
    BatchSizes = {0, 1, 6, 9}
INVARIANTS
    TypeOK
    SlicesTile
    LargestThatFits
PROPERTIES
    SlicingEnds
