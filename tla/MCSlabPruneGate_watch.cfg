SPECIFICATION NamedSpec
CONSTANTS
    Process = {p1, p2}
    Upload = {u1, u2}
    MaxFaults = 1
    LockLapses = FALSE
    PinStalls = FALSE
INVARIANTS PinnedSlabsKept PruneIsAlone LeaseBlockedPrunes
PROPERTIES WantedIsServed GarbageIsPruned ImplementsSlabStore
CHECK_DEADLOCK FALSE
