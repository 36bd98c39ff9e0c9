SPECIFICATION Spec
CONSTANTS
    Upload = {u1, u2, u3}
    SameFile = {u1}
    TooLarge = {u2}
INVARIANT QueueIsServed
CHECK_DEADLOCK FALSE
