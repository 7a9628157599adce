\* The window of rows, sort popovers, uploads, downloads and the recycle bin.
SPECIFICATION ScenesSpec
CONSTANTS
    MaxEntries = 45
    Step = 16
    s1 = s1
    s2 = s2
    f1 = f1
    f2 = f2
    n1 = n1
    Folders = {f1, f2}
    Names = {n1}
    Wanders = TRUE
    NoName = NoName
SYMMETRY Symmetry
INVARIANTS
    WindowFull RowUnderOffset PageSound
    AskedFirst PurgedGone
