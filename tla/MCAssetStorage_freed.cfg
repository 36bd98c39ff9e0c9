SPECIFICATION FairSpec
CONSTANTS
    Exec = {e1}
    Batches = 1
    Attempts = 1
    MaxRetries = 1
    Faults = TRUE
    StaleRuns = FALSE
PROPERTIES ReadyIsKept DeletedIsFreed ReleasedIsForgotten
CHECK_DEADLOCK FALSE
