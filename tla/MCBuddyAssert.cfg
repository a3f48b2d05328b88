\* A block that was handed out is given back.
CONSTANTS
    Level = 3
    MaxOrder = 4
    Pow2 <- MCPow2
    Requests = {1, 2, 3}
    Returned = {1, 2, 3}
    MaxHeld = 2
SPECIFICATION Spec
INVARIANT FreeAssertHolds
CHECK_DEADLOCK FALSE
