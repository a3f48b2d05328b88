\* Regions of two kinds, of which four exist at a time, over four pages.
CONSTANTS
    Vmas = {v1, v2, v3, v4}
    NULL = null
    Flags <- MCFlags
    PageSize = 2
    Top = 8
    MaxLoose = 1
SPECIFICATION FairSpec
INVARIANTS Sorted RangeAssertHolds PagesAccounted FaultsJudged
PROPERTY AddReturns
CHECK_DEADLOCK FALSE
