\* Every request rounds up to two pages, in a pool of sixteen.
CONSTANTS
    Level = 4
    MaxOrder = 5
    Pow2 <- MCPow2
    Requests = {2}
    Returned = {2}
    MaxHeld = 2
SPECIFICATION FairSpec
INVARIANTS NoOverlap TreeConsistent Coalesced FreeAssertHolds
PROPERTIES ImplementsPromise CallsReturn
