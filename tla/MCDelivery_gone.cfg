SPECIFICATION Spec
CONSTANTS
    Request = {r1}
    Sizes = {2}
    MaxBuffered = 1
    Chunk = 1
    MaxByte = 1
INVARIANT GoneIsNoticed
CHECK_DEADLOCK FALSE
