SPECIFICATION Spec
CONSTANTS
    Exec = {e1}
    Batches = 2
    Attempts = 2
    MaxRetries = 0
    Faults = TRUE
    StaleRuns = FALSE
INVARIANTS ReadyIsPinned PinnedIsAccounted
CHECK_DEADLOCK FALSE
