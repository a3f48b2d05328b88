\* Three slabs of the first cache or one of the second beside two of the
\* first; the allocator runs out of pages at each point where it asks.
CONSTANTS
    NPages = 3
    Caches <- MCCaches
    InSlabIndex = 0
    DescCache <- MCDescCache
    SlabPages <- MCSlabPages
    Objs <- MCObjs
    MaxEmptySlabs = 2
    Releases = {"SOFT"}
    MaxHeld <- MCFewHeld
SPECIFICATION FairSpec
INVARIANTS ListsMatchCounts ObjectsAccounted PagesStay
PROPERTIES OnlyFailedFillLoses HonestRefusal AllocReturns
