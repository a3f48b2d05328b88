\* Two slabs of the second cache, empty at the same time.
CONSTANTS
    NPages = 5
    Caches <- MCCaches
    InSlabIndex = 0
    DescCache <- MCDescCache
    SlabPages <- MCSlabPages
    Objs <- MCObjs
    MaxEmptySlabs = 1
    Releases = {}
    MaxHeld <- MCManyHeld
SPECIFICATION Spec
INVARIANT PagesStay
