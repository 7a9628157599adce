\* Bulk deletion, saves of the details dialog and bulk download under fairness.
SPECIFICATION ScenesSpec
CONSTANTS
    p1 = p1
    p2 = p2
    v1 = v1
    v2 = v2
    f1 = f1
    f2 = f2
    s1 = s1
    Paths = {p1, p2}
    Views = {v1, v2}
    Lists <- TwoViews
    Kinds = {"bulk"}
    Slots = {s1}
    MaxClock = 1
    NoPath = NoPath
    NoView = NoView
    NoFile = NoFile
INVARIANTS DetailsSound
PROPERTIES BulkEnds SaveSettles BulkMovesOn
