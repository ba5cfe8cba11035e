SPECIFICATION Spec
CONSTANTS
    Tablets = {1, 2, 3}
    Slots = {1}
    Limits = {0, 1, 2}
    TargetTasks = 2
INVARIANTS
    TypeOK
    NothingMissing
    LimitCanBeFilled
    NoRowTwice
    CountIsCurrent
    OnlyPlannedTablets
