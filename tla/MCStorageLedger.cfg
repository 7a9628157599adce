\* The ledger, the reconciliation scan, paging, shared rate limits,
\* and the rows that name blobs.
SPECIFICATION ScenesSpec
CONSTANTS
    w1 = w1
    w2 = w2
    NoWorker = NoWorker
    Workers <- MCWorkers
    QuotaSettings <- MCQuotaSettings
    NumBlobs = 2
    MaxSize = 2
    BlobIds = {"blob"}
    Strays = {"stray"}
    MaxScans = 2
    Servers = {"A", "B"}
    Keys = {"x", "y"}
    NoKey = "none"
    Burst = 2
    Rate = 1
    TTL = 2
    Interval = 1
    MaxEntries = 1
    BatchSize = 1
    MaxTime = 4
    MaxGranted = 5
    Files = {"x", "y"}
    Marker = "marker"
    Calls = {1, 2}
    MaxBlobs = 3
    MaxGroups = 2
    EntryNames = {1, 2, 3, 4}
    Directories = {1}
    MaxEntrySize = 1
    Limit = 1
    MaxChanges = 2
INVARIANTS
    LedgerTypeOK LedgerBalanced CleanupTracked
    LiveFilesKept ReconciledTracked WalkComplete LimitsShared ReferencesMatch
PROPERTIES
    NeverOvercommits NoResurrection
SYMMETRY MCSymmetry
\* The walk ends, the clock of the limiter is bounded by MaxTime, and uploads
\* and deletions by MaxBlobs and MaxGroups.
CHECK_DEADLOCK FALSE
