SPECIFICATION Spec
CONSTANTS
    Exec = {e1}
    Batches = 1
    Attempts = 1
    MaxRetries = 0
    Faults = FALSE
    StaleRuns = FALSE
INVARIANT NoOrphan
CHECK_DEADLOCK FALSE
