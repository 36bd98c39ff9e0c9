SPECIFICATION AllSpec
CONSTANTS
    Request = {r1, r2}
    Sizes = {0, 2, 3}
    MaxBuffered = 2
    Chunk = 2
    MaxByte = 2
    MaxUploadFaults = 1
    Delivery = {d1, d2}
    Event = d1
    Execution = {e1, e2}
    None = None
    MaxOpen = 1
    Attempts = 2
    MaxRotations = 0
    MaxDeliveryFaults = 1
INVARIANTS AllTypeOK GatewayIsExact FinishedIsKept
PROPERTIES UploadEnds SourceGoes DeliveryEnds
CHECK_DEADLOCK FALSE
