SPECIFICATION Spec
CONSTANTS
    Object = {1}
    Feed = {f1}
    Run = {r1, r2}
    PageSize = 2
    Fine = 1
    Grace = 1
    CommitDelay = 0
    MaxTime = 4
    Overlap = TRUE
SYMMETRY Symmetry
INVARIANTS SavedIsRead
CHECK_DEADLOCK FALSE
