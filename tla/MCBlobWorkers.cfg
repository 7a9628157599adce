SPECIFICATION Spec
CONSTANTS
    u1 = u1
    u2 = u2
    w1 = w1
    w2 = w2
    k1 = k1
    k2 = k2
    NoWorker = NoWorker
    NoKey = NoKey
    NumBlobs = 2
    MaxSize = 2
    MaxContent = 1
    Chunk = 2
    MaxBatch = 1
    MaxFaults = 2
    CountFaults = TRUE
    Workers <- MCWorkers2
    Uploaders <- MCUploaders1
    Keys <- MCKeys1
    QuotaSettings <- MCQuota3
    Modes <- AllModes
    FaultKinds <- AllFaults
SYMMETRY MCSymmetry
INVARIANTS
    TypeOK
    ObjectsIntact
    AuditAccepts
PROPERTIES
    LedgerSpec
