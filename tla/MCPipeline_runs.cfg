SPECIFICATION Spec
CONSTANTS
    Exec = {e1, e2}
    Attempts = 2
    Stalls = 1
    MaxRetries = 1
    MaxFaults = 1
SYMMETRY Symmetry
CONSTRAINT UntilLateMark
INVARIANTS TypeOK FailedCanRetry RunIsDriven UploadHasOutput
PROPERTY ReadyIsFinal
CHECK_DEADLOCK FALSE
