\* A restore while a listing is on its way.
SPECIFICATION BinSpec
CONSTANTS
    MaxId = 2
    PageSize = 2
    Depth = 0
    Hurried = FALSE
INVARIANT RestoredGone
