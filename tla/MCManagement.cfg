\* Buckets and pins, sites, settings.
SPECIFICATION ScenesSpec
CONSTANTS
    A = A
    B = B
    r1 = r1
    r2 = r2
    c1 = c1
    c2 = c2
    Services = {A}
    MaxId = 2
    Names <- MCNames
    NameOf <- MCNameOf
    Searches = {"full", "search"}
    Matching = {"beta"}
    MaxCreates = 0
    OthersDelete = TRUE
    MaxTabs = 0
    MaxDeletes = 1
    StorageFails = FALSE
    NoName = NoName
    SiteIds = {"s1"}
    MaxBucket = 2
    Rests = {r1, r2}
    NoRest = NoRest
    Dialogs = {"create", "upload", "s1"}
    MaxChanges = 2
    Cached = TRUE
    Conns = {c1, c2}
    NoConn = NoConn
    Limits = {3, 6}
    OthersSave = TRUE
    Switches = TRUE
    MaxTests = 3
INVARIANTS
    ManagementSound DeletedUnpinned
    OwnWritesListed TestOfDraft
PROPERTIES PinsKept DraftKept
\* Edits of the settings end with the bound MaxTests, and visits of the bucket
\* page with the bound on them in Mount.
CHECK_DEADLOCK FALSE
