SPECIFICATION Spec
CONSTANTS
    Exec = {e1}
    Batches = 1
    Attempts = 1
    MaxRetries = 1
    Faults = FALSE
    StaleRuns = TRUE
INVARIANT ReadyIsPinned
CHECK_DEADLOCK FALSE
