SPECIFICATION AllSpec
CONSTANTS
    User = {a, b}
    Provider = {a, b}
    Tx = {a, b}
    None = None
    Session = {s1, s2}
    MaxUses = 2
    MaxPasswords = 2
    MaxRemovals = 1
    Delivery = {d1, d2}
    Event = d1
    Attempts = 2
    MaxOpen = 1
    MaxRotations = 1
    MaxFaults = 1
    StateTTL = 1
    OwnerTTL = 2
    UnclaimedTTL = 1
    QueryTime = 1
    MaxTime = 3
    MaxVersions = 2
    MaxRetries = 0
SYMMETRY Symmetry
INVARIANTS
    AllTypeOK SessionsEnd LinksAreCounted DeliveriesAreTold CacheIsFresh
    CardsAreTrue QueueIsServed InventoryIsRight ObjectsAreKept
    SyncIsComplete SavedIsRead StallNeedsAPage
    SegmentsComeOnce NothingLeaks SharesLast ShutdownDrains
PROPERTIES AdminStays WayInStays
CHECK_DEADLOCK FALSE
