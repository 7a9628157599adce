--------------------------- MODULE Reconciliation ---------------------------
(***************************************************************************)
(* The reconciliation scan of the storage root against the ledger, beside  *)
(* servers that upload, publish, abort, delete and clean up, and an        *)
(* operator who has orphans deleted.                                       *)
(*                                                                         *)
(* A blob has a path in staging/ and one in objects/, both fresh.  Strays  *)
(* are files that no row names, left by an older version or a crash.  The  *)
(* transactions of the servers are those of BlobLifecycle, told apart only *)
(* as far as the scan can see them; an upload renews its lease while its   *)
(* process lives.  Sizes, and the identity of the root, are left out.      *)
(***************************************************************************)
EXTENDS Naturals, FiniteSets

CONSTANTS
    BlobIds,     \* uploads
    Strays,    \* names of files without a row
    MaxScans   \* bound on the scans started

Namespaces == {"objects", "staging"}
Paths == Namespaces \X (BlobIds \cup Strays)
Object(b) == <<"objects", b>>
Staging(b) == <<"staging", b>>

ReconciliationAssumption == BlobIds \cap Strays = {} /\ MaxScans \in Nat

VARIABLES
    blobRow,        \* storage_blobs of each blob
    up,         \* how far its request has come
    deleting,   \* how far its cleanup job has come
    disk,       \* the managed files
    orphan,     \* storage_blobs of the orphans, by path
    reconciled, \* reconciled_at is set
    scan,       \* the step of the scan that holds the lock
    tracked,    \* trackedPaths
    toStat,     \* active rows whose file is still to be looked at
    toWalk,     \* paths that the walk has not passed yet
    files,      \* what it found
    scans

server == <<blobRow, up, deleting>>
scanned == <<tracked, toStat, toWalk, files>>
reconciliationVars == <<server, disk, orphan, reconciled, scan, scanned, scans>>

-----------------------------------------------------------------------------
(* The servers                                                             *)

\* The staging row is committed before anything is written.
CreateStaging(b) ==
    /\ blobRow[b] = "none"
    /\ blobRow' = [blobRow EXCEPT ![b] = "staging"]
    /\ up' = [up EXCEPT ![b] = "created"]
    /\ UNCHANGED <<deleting, disk, orphan, reconciled, scan, scanned, scans>>

OpenFile(b) ==
    /\ up[b] = "created"
    /\ disk' = disk \cup {Staging(b)}
    /\ up' = [up EXCEPT ![b] = "written"]
    /\ UNCHANGED <<blobRow, deleting, orphan, reconciled, scan, scanned, scans>>

\* Commit renames the file, if it is still there.
CommitFile(b) ==
    /\ up[b] = "written"
    /\ Staging(b) \in disk
    /\ disk' = (disk \ {Staging(b)}) \cup {Object(b)}
    /\ up' = [up EXCEPT ![b] = "renamed"]
    /\ UNCHANGED <<blobRow, deleting, orphan, reconciled, scan, scanned, scans>>

Publish(b) ==
    /\ up[b] = "renamed"
    /\ blobRow' = [blobRow EXCEPT ![b] = "active"]
    /\ up' = [up EXCEPT ![b] = "over"]
    /\ UNCHANGED <<deleting, disk, orphan, reconciled, scan, scanned, scans>>

\* An upload that fails deletes both files, and then its row.
AbortDelete(b) ==
    /\ up[b] \in {"created", "written", "renamed"}
    /\ disk' = disk \ {Staging(b), Object(b)}
    /\ up' = [up EXCEPT ![b] = "aborting"]
    /\ UNCHANGED <<blobRow, deleting, orphan, reconciled, scan, scanned, scans>>

AbortRelease(b) ==
    /\ up[b] = "aborting"
    /\ blobRow' = [blobRow EXCEPT ![b] = "gone"]
    /\ up' = [up EXCEPT ![b] = "over"]
    /\ UNCHANGED <<deleting, disk, orphan, reconciled, scan, scanned, scans>>

\* The process dies; the lease it renewed runs out.
UploaderCrashes(b) ==
    /\ up[b] \in {"created", "written", "renamed", "aborting"}
    /\ up' = [up EXCEPT ![b] = "dead"]
    /\ UNCHANGED <<blobRow, deleting, disk, orphan, reconciled, scan, scanned, scans>>

Expired(b) == blobRow[b] = "staging" /\ up[b] = "dead"

\* ExpireStagingForCleanup by a worker; the row keeps its staging path.
EnqueueExpiredStaging(b) ==
    /\ Expired(b)
    /\ blobRow' = [blobRow EXCEPT ![b] = "sealed"]
    /\ UNCHANGED <<up, deleting, disk, orphan, reconciled, scan, scanned, scans>>

\* The last reference to an object is purged.
ReleaseReferences(b) ==
    /\ blobRow[b] = "active"
    /\ blobRow' = [blobRow EXCEPT ![b] = "pending"]
    /\ UNCHANGED <<up, deleting, disk, orphan, reconciled, scan, scanned, scans>>

\* The cleanup worker: the staging path, the storage path, the row.
WorkerDeletesStaging(b) ==
    /\ blobRow[b] \in {"sealed", "pending"} /\ deleting[b] = "nothing"
    /\ disk' = IF blobRow[b] = "sealed" THEN disk \ {Staging(b)} ELSE disk
    /\ deleting' = [deleting EXCEPT ![b] = "staging"]
    /\ UNCHANGED <<blobRow, up, orphan, reconciled, scan, scanned, scans>>

WorkerDeletesStorage(b) ==
    /\ deleting[b] = "staging"
    /\ disk' = disk \ {Object(b)}
    /\ deleting' = [deleting EXCEPT ![b] = "both"]
    /\ UNCHANGED <<blobRow, up, orphan, reconciled, scan, scanned, scans>>

ServerCompletesCleanup(b) ==
    /\ deleting[b] = "both"
    /\ blobRow' = [blobRow EXCEPT ![b] = "gone"]
    /\ deleting' = [deleting EXCEPT ![b] = "nothing"]
    /\ UNCHANGED <<up, disk, orphan, reconciled, scan, scanned, scans>>

-----------------------------------------------------------------------------
(* Orphans                                                                 *)

\* The operator's command.
OperatorSchedulesCleanup(p) ==
    /\ orphan[p] = "orphaned"
    /\ orphan' = [orphan EXCEPT ![p] = "pending"]
    /\ UNCHANGED <<server, disk, reconciled, scan, scanned, scans>>

WorkerDeletesOrphan(p) ==
    /\ orphan[p] = "pending"
    /\ disk' = disk \ {p}
    /\ orphan' = [orphan EXCEPT ![p] = "deleted"]
    /\ UNCHANGED <<server, reconciled, scan, scanned, scans>>

CompleteOrphan(p) ==
    /\ orphan[p] = "deleted"
    /\ orphan' = [orphan EXCEPT ![p] = "none"]
    /\ UNCHANGED <<server, disk, reconciled, scan, scanned, scans>>

-----------------------------------------------------------------------------
(* The scan                                                                *)

\* The paths that the ledger names: ManagedPathExists, and ListAll.
StoragePaths ==
    {Object(b) : b \in {x \in BlobIds : blobRow[x] \notin {"none", "gone"}}}
    \cup {p \in Paths : orphan[p] # "none"}
StagingPaths == {Staging(b) : b \in {x \in BlobIds : blobRow[x] \in {"staging", "sealed"}}}
Managed == StoragePaths \cup StagingPaths

\* reconcileStorageIfNeeded and MarkReconciliationStarted: a start that finds
\* no mark, or the operator's command.
Start ==
    /\ scan = "idle"
    /\ scans < MaxScans
    /\ scans' = scans + 1
    /\ reconciled' = FALSE
    /\ scan' = "seal"
    /\ UNCHANGED <<server, disk, orphan, scanned>>

SealExpiredStaging ==
    /\ scan = "seal"
    /\ blobRow' = [b \in BlobIds |-> IF Expired(b) THEN "sealed" ELSE blobRow[b]]
    /\ scan' = "list"
    /\ UNCHANGED <<up, deleting, disk, orphan, reconciled, scanned, scans>>

ListAll ==
    /\ scan = "list"
    /\ tracked' = Managed
    /\ toStat' = {b \in BlobIds : blobRow[b] = "active"}
    /\ scan' = "stat"
    /\ UNCHANGED <<server, disk, orphan, reconciled, toWalk, files, scans>>

\* The scan is over; the lock is released.
Ended == scan' = "idle" /\ tracked' = {} /\ toStat' = {} /\ toWalk' = {} /\ files' = {}

\* A listed object without its file fails the scan at the end of the list,
\* although it may have been purged since.
StatActive(b) ==
    /\ scan = "stat" /\ b \in toStat
    /\ IF Object(b) \in disk
       THEN toStat' = toStat \ {b} /\ UNCHANGED <<scan, tracked, toWalk, files>>
       ELSE Ended
    /\ UNCHANGED <<server, disk, orphan, reconciled, scans>>

StartWalk_Mutant ==
    /\ scan = "stat" /\ toStat = {}
    /\ toWalk' = {p \in Paths : p[1] = "objects"}
    /\ scan' = "walk"
    /\ UNCHANGED <<server, disk, orphan, reconciled, tracked, toStat, files, scans>>

StartWalk ==
    /\ scan = "stat" /\ toStat = {}
    /\ toWalk' = Paths
    /\ scan' = "walk"
    /\ UNCHANGED <<server, disk, orphan, reconciled, tracked, toStat, files, scans>>

\* WalkManaged passes one path after the other, objects/ before staging/.
WalkManaged(p) ==
    /\ scan = "walk" /\ p \in toWalk
    /\ p[1] = "staging" => \A q \in toWalk : q[1] = "staging"
    /\ toWalk' = toWalk \ {p}
    /\ files' = files \cup ({p} \cap disk)
    /\ scan' = IF toWalk' = {} THEN "check" ELSE "walk"
    /\ UNCHANGED <<server, disk, orphan, reconciled, tracked, toStat, scans>>

\* A file that was not tracked when the rows were listed is looked up again.
CheckFile_Mutant(p) ==
    /\ scan = "check" /\ p \in files
    /\ IF p \in tracked
       THEN files' = files \ {p} /\ UNCHANGED <<scan, toWalk>>
       ELSE scan' = "register" /\ toWalk' = {p} /\ UNCHANGED files
    /\ UNCHANGED <<server, disk, orphan, reconciled, tracked, toStat, scans>>

CheckFile(p) ==
    /\ scan = "check" /\ p \in files
    /\ IF p \in tracked \cup Managed
       THEN files' = files \ {p} /\ UNCHANGED <<scan, toWalk>>
       ELSE scan' = "register" /\ toWalk' = {p} /\ UNCHANGED files
    /\ UNCHANGED <<server, disk, orphan, reconciled, tracked, toStat, scans>>

\* RegisterOrphan of the repository, for the one path in toWalk; a row with this storage path
\* refuses it, and the scan goes on.
ScanRegistersOrphan(p) ==
    /\ scan = "register" /\ toWalk = {p}
    /\ orphan' = IF p \in StoragePaths THEN orphan ELSE [orphan EXCEPT ![p] = "orphaned"]
    /\ files' = files \ {p}
    /\ toWalk' = {}
    /\ scan' = "check"
    /\ UNCHANGED <<server, disk, reconciled, tracked, toStat, scans>>

\* ValidateAndMarkReconciled.
MarkReconciled ==
    /\ scan = "check" /\ files = {}
    /\ reconciled' = TRUE
    /\ Ended
    /\ UNCHANGED <<server, disk, orphan, scans>>

\* A query fails, a file vanishes under the walk, or the process dies: what
\* was registered stays, the mark does not come back.
ScanFails ==
    /\ scan # "idle"
    /\ Ended
    /\ UNCHANGED <<server, disk, orphan, reconciled, scans>>

-----------------------------------------------------------------------------
ReconciliationInit ==
    /\ blobRow = [b \in BlobIds |-> "none"]
    /\ up = [b \in BlobIds |-> "none"]
    /\ deleting = [b \in BlobIds |-> "nothing"]
    /\ disk \in SUBSET (Namespaces \X Strays)
    /\ orphan = [p \in Paths |-> "none"]
    /\ reconciled = FALSE
    /\ scan = "idle"
    /\ tracked = {} /\ toStat = {} /\ toWalk = {} /\ files = {}
    /\ scans = 0

ServerNext ==
    \E b \in BlobIds :
        \/ CreateStaging(b) \/ OpenFile(b) \/ CommitFile(b) \/ Publish(b)
        \/ AbortDelete(b) \/ AbortRelease(b) \/ UploaderCrashes(b)
        \/ EnqueueExpiredStaging(b) \/ ReleaseReferences(b)
        \/ WorkerDeletesStaging(b) \/ WorkerDeletesStorage(b) \/ ServerCompletesCleanup(b)

OrphanNext ==
    \E p \in Paths :
        OperatorSchedulesCleanup(p) \/ WorkerDeletesOrphan(p) \/ CompleteOrphan(p)

ScanNext ==
    \/ Start \/ SealExpiredStaging \/ ListAll
    \/ \E b \in BlobIds : StatActive(b)
    \/ StartWalk
    \/ \E p \in Paths : WalkManaged(p) \/ CheckFile(p) \/ ScanRegistersOrphan(p)
    \/ MarkReconciled \/ ScanFails

ReconciliationNext == ServerNext \/ OrphanNext \/ ScanNext

ReconciliationSpec == ReconciliationInit /\ [][ReconciliationNext]_reconciliationVars

-----------------------------------------------------------------------------
(* Properties                                                              *)

\* Every variable has its type.
ReconciliationTypeOK ==
    /\ blobRow \in [BlobIds -> {"none", "staging", "sealed", "active", "pending", "gone"}]
    /\ up \in [BlobIds -> {"none", "created", "written", "renamed", "aborting", "dead", "over"}]
    /\ deleting \in [BlobIds -> {"nothing", "staging", "both"}]
    /\ disk \subseteq Paths
    /\ orphan \in [Paths -> {"none", "orphaned", "pending", "deleted"}]
    /\ reconciled \in BOOLEAN
    /\ scan \in {"idle", "seal", "list", "stat", "walk", "check", "register"}
    /\ tracked \subseteq Paths /\ toStat \subseteq BlobIds
    /\ toWalk \subseteq Paths /\ files \subseteq Paths

\* Whatever the scan takes for an orphan, and whatever the operator then has
\* deleted, an object keeps its file, and so does an upload that is going on
\* (reconcileLocked); all of it in states of the right types.
LiveFilesKept ==
    /\ ReconciliationTypeOK
    /\ \A b \in BlobIds :
          /\ blobRow[b] = "active" => Object(b) \in disk
          /\ up[b] = "written" => Staging(b) \in disk
          /\ up[b] = "renamed" => Object(b) \in disk

\* A reconciled root has no file that the ledger does not name, although
\* uploads, cleanups and scans that died half-way went on meanwhile
\* (ValidateAndMarkReconciled only looks at the tables).
ReconciledTracked == reconciled => disk \subseteq Managed
=============================================================================
