SPECIFICATION Spec
CONSTANTS
    Process = {p1, p2}
    Upload = {u1, u2}
    MaxFaults = 0
    LockLapses = TRUE
    PinStalls = FALSE
INVARIANT PinnedSlabsKept
CHECK_DEADLOCK FALSE
