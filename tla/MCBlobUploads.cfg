SPECIFICATION Spec
CONSTANTS
    u1 = u1
    u2 = u2
    w1 = w1
    w2 = w2
    k1 = k1
    k2 = k2
    NoWorker = NoWorker
    NoKey = NoKey
    NumBlobs = 2
    MaxSize = 2
    MaxContent = 1
    Chunk = 2
    MaxBatch = 2
    MaxFaults = 2
    CountFaults = TRUE
    Workers <- MCWorkers1
    Uploaders <- MCUploaders2
    Keys <- MCKeys2
    QuotaSettings <- MCQuota23
    Modes <- AllModes
    FaultKinds <- FaultsNoStall
SYMMETRY MCSymmetry
INVARIANTS
    FilesTracked QuotaRespected BytesCovered
