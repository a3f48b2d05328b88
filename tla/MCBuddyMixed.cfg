\* Requests of different sizes, given back in any order, in a pool of eight
\* pages.
CONSTANTS
    Level = 3
    MaxOrder = 4
    Pow2 <- MCPow2
    Requests = {1, 2, 3, 9}
    Returned = {1, 2, 3}
    MaxHeld = 2
SPECIFICATION Spec
INVARIANTS TypeOK SizesFit
CHECK_DEADLOCK FALSE
