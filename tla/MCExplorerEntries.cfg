\* Writes of rows, of the toolbar and of a selection, other clients, and
\* listings that are cancelled, late or lost.
SPECIFICATION ScenesSpec
CONSTANTS
    p1 = p1
    p2 = p2
    v1 = v1
    v2 = v2
    s1 = s1
    s2 = s2
    Paths = {p1, p2}
    Views = {v1, v2}
    Lists <- TwoViews
    Kinds <- AllKinds
    Slots = {s1, s2}
    MaxClock = 2
    NoPath = NoPath
    NoView = NoView
SYMMETRY Symmetry
INVARIANTS EntriesSound OwnWritesShown
PROPERTY DeletesShown
