--------------------------- MODULE StorageLedger ---------------------------
(***************************************************************************)
(* The storage ledger of the backend: the tables storage_blobs,            *)
(* storage_cleanup_jobs and the one row of system_storage_quotas, and the  *)
(* transactions of the repository layer (internal/repository) that change  *)
(* them.  Every transaction locks the rows it reads (FOR UPDATE) before it *)
(* writes, so each one is one atomic step.  LedgerNext lets any caller     *)
(* issue any transaction at any time; module BlobLifecycle restricts it to *)
(* the calls the services make.                                            *)
(*                                                                         *)
(* Blob ids are UUIDs, never reused; here they are the numbers 1..NumBlobs *)
(* in the order the rows were inserted.  Clocks are abstracted to what the *)
(* SQL conditions compare: a lease is valid or expired, a cleanup job is   *)
(* due or backing off.                                                     *)
(***************************************************************************)
EXTENDS Integers

CONSTANTS
    NumBlobs,       \* bound on the blobs ever created
    Workers,        \* cleanup lease owners (one UUID per claim)
    NoWorker,       \* lease_owner IS NULL
    QuotaSettings   \* the values an administrator may give max_bytes

ASSUME LedgerAssumption ==
    /\ NumBlobs \in Nat
    /\ NoWorker \notin Workers
    /\ QuotaSettings \subseteq Nat

Blobs == 1..NumBlobs

VARIABLES
    row,        \* storage_blobs
    job,        \* storage_cleanup_jobs (unique per blob, ON DELETE CASCADE)
    used,       \* used_bytes
    reserved,   \* reserved_bytes
    maxBytes,   \* max_bytes
    issued      \* blob ids handed out so far

ledgerVars == <<row, job, used, reserved, maxBytes, issued>>

-----------------------------------------------------------------------------
(* Rows *)

Status == {"none", "staging", "active", "pending_delete", "orphaned"}
Lease  == {"none", "valid", "expired"}

Row == [status : Status, size : Nat, refs : Nat, staging : BOOLEAN, lease : Lease]
Job == [queued : BOOLEAN, owner : Workers \cup {NoWorker}, lease : Lease, due : BOOLEAN]

NoRow == [status |-> "none", size |-> 0, refs |-> 0, staging |-> FALSE, lease |-> "none"]
NoJob == [queued |-> FALSE, owner |-> NoWorker, lease |-> "none", due |-> FALSE]

\* A row as CreateStagingWithLease and createStagingBatch insert it.
StagingRow(n) ==
    [status |-> "staging", size |-> n, refs |-> 0, staging |-> TRUE, lease |-> "valid"]

\* A row as the reconciliation scan inserts it for a file without a row.
OrphanRow(n) ==
    [status |-> "orphaned", size |-> n, refs |-> 0, staging |-> FALSE, lease |-> "none"]

\* A job that any worker may claim at once.
FreshJob == [queued |-> TRUE, owner |-> NoWorker, lease |-> "none", due |-> TRUE]

-----------------------------------------------------------------------------
(* Sums over the blobs.  A recursive function, so that the module can be   *)
(* proved about.                                                           *)

Total(f) ==
    LET sum[i \in 0..NumBlobs] == IF i = 0 THEN 0 ELSE sum[i - 1] + f[i]
    IN  sum[NumBlobs]

SumOver(B, f) == Total([b \in Blobs |-> IF b \in B THEN f[b] ELSE 0])

SizeOf(B) == SumOver(B, [b \in Blobs |-> row[b].size])

\* The audit's classification of a row: what it adds to used_bytes and to
\* reserved_bytes.  A sealed upload keeps its staging path and stays reserved.
UsedPart(r) ==
    IF \/ r.status \in {"active", "orphaned"}
       \/ r.status = "pending_delete" /\ ~r.staging
    THEN r.size ELSE 0

ReservedPart(r) ==
    IF \/ r.status = "staging"
       \/ r.status = "pending_delete" /\ r.staging
    THEN r.size ELSE 0

-----------------------------------------------------------------------------
(* The quota *)

\* The WHERE clause of every reservation.
Fits_Mutant(n) == n <= maxBytes - used

Fits(n) ==
    /\ used <= maxBytes
    /\ reserved <= maxBytes - used
    /\ n <= maxBytes - used - reserved

\* UpdateMaxBytes refuses a limit below what is in use or reserved.
UpdateMaxBytes(m) ==
    /\ used <= m
    /\ reserved <= m
    /\ used + reserved <= m
    /\ maxBytes' = m
    /\ UNCHANGED <<row, job, used, reserved, issued>>

-----------------------------------------------------------------------------
(* Staging *)

NextBlobs(n) == (issued + 1)..(issued + n)

\* createStagingBatch: reserve the declared sizes and insert the rows.
\* CreateStagingWithLease is the case of one row of size 0, with no quota check.
CreateStagingBatch(n, size) ==
    LET total == SumOver(NextBlobs(n), size) IN
    /\ issued + n <= NumBlobs
    /\ total > 0 => Fits(total)
    /\ reserved' = reserved + total
    /\ row' = [b \in Blobs |-> IF b \in NextBlobs(n) THEN StagingRow(size[b]) ELSE row[b]]
    /\ issued' = issued + n
    /\ UNCHANGED <<job, used, maxBytes>>

\* RenewStagingLease fails unless every row of the batch is still staging.
CanRenewStaging(B) == \A b \in B : row[b].status = "staging"

RenewStagingLease(B) ==
    /\ CanRenewStaging(B)
    /\ row' = [b \in Blobs |-> IF b \in B THEN [row[b] EXCEPT !.lease = "valid"] ELSE row[b]]
    /\ UNCHANGED <<job, used, reserved, maxBytes, issued>>

\* Reserve: both the quota row and the blob row grow by n.
CanReserve(b, n) == row[b].status = "staging" /\ Fits(n)

Reserve(b, n) ==
    /\ CanReserve(b, n)
    /\ reserved' = reserved + n
    /\ row' = [row EXCEPT ![b].size = @ + n]
    /\ UNCHANGED <<job, used, maxBytes, issued>>

\* ReleaseStagingBatch: missing rows are skipped, a row in any other status
\* fails the whole batch, the deleted rows take their cleanup jobs with them.
Found(B) == {b \in B : row[b].status # "none"}

CanReleaseStaging(B) ==
    /\ \A b \in Found(B) : row[b].status = "staging"
    /\ SizeOf(Found(B)) <= reserved

ReleaseStagingBatch(B) ==
    /\ CanReleaseStaging(B)
    /\ reserved' = reserved - SizeOf(Found(B))
    /\ row' = [b \in Blobs |-> IF b \in B THEN NoRow ELSE row[b]]
    /\ job' = [b \in Blobs |-> IF b \in B THEN NoJob ELSE job[b]]
    /\ UNCHANGED <<used, maxBytes, issued>>

\* A row sealed for cleanup keeps its staging path and its reservation.
SealedRow(r) == [r EXCEPT !.status = "pending_delete", !.lease = "none"]

\* INSERT ... ON CONFLICT (blob_id) DO NOTHING.
EnqueuedJob(j) == IF j.queued THEN j ELSE FreshJob

Seal(B) ==
    /\ row' = [b \in Blobs |-> IF b \in B THEN SealedRow(row[b]) ELSE row[b]]
    /\ job' = [b \in Blobs |-> IF b \in B THEN EnqueuedJob(job[b]) ELSE job[b]]
    /\ UNCHANGED <<used, reserved, maxBytes, issued>>

\* expireStagingForCleanup.  The age limit on created_at is the lease duration
\* (main.go passes StagingTTLSeconds for both), so an expired lease implies it.
Expirable(r) == r.status = "staging" /\ r.lease # "valid"

ExpireStagingForCleanup(B) ==
    /\ B # {}
    /\ \A b \in B : Expirable(row[b])
    /\ Seal(B)

\* confirmPublishOutcome, the rolled-back case: SealStagingForCleanupBatch
\* and EnqueueCleanupBatch in one transaction.
CanSeal(B) == \A b \in B : row[b].status = "staging" /\ row[b].refs = 0

SealStagingForCleanupBatch(B) == CanSeal(B) /\ Seal(B)

\* EnqueueCleanupBatch alone (abortBatch); the foreign key needs every row.
CanEnqueue(B) == \A b \in B : row[b].status # "none"

EnqueueCleanupBatch(B) ==
    /\ CanEnqueue(B)
    /\ job' = [b \in Blobs |-> IF b \in B THEN EnqueuedJob(job[b]) ELSE job[b]]
    /\ UNCHANGED <<row, used, reserved, maxBytes, issued>>

-----------------------------------------------------------------------------
(* Publishing: ActivateStagingBatch, then ReleaseReferences, one transaction *)

CanActivate_Mutant(A, size) ==
    /\ \A b \in A : row[b].status # "none" /\ size[b] <= row[b].size
    /\ SizeOf(A) <= reserved

CanActivate(A, size) ==
    /\ \A b \in A : row[b].status = "staging" /\ size[b] <= row[b].size
    /\ SizeOf(A) <= reserved

ActivatedRow(n) ==
    [status |-> "active", size |-> n, refs |-> 1, staging |-> FALSE, lease |-> "none"]

CanRelease_Mutant(R) == \A b \in R : row[b].status # "none"

CanRelease(R) == \A b \in R : row[b].status = "active" /\ row[b].refs >= 1

ReleasedRow(r) ==
    [r EXCEPT !.refs = @ - 1,
              !.status = IF r.refs = 1 THEN "pending_delete" ELSE @]

\* The last reference queues a job; an old job is rearmed and loses its owner.
ReleasedJob_Mutant(r, j) == j

ReleasedJob(r, j) == IF r.refs = 1 THEN FreshJob ELSE j

PublishLedger(A, size, R) ==
    /\ CanActivate(A, size)
    /\ CanRelease(R)
    /\ reserved' = reserved - SizeOf(A)
    /\ used' = used + SumOver(A, size)
    /\ row' = [b \in Blobs |-> IF b \in A THEN ActivatedRow(size[b])
                               ELSE IF b \in R THEN ReleasedRow(row[b])
                               ELSE row[b]]
    /\ job' = [b \in Blobs |-> IF b \in R THEN ReleasedJob(row[b], job[b]) ELSE job[b]]
    /\ UNCHANGED <<maxBytes, issued>>

-----------------------------------------------------------------------------
(* Orphans *)

\* RegisterOrphan counts the file without looking at max_bytes.
RegisterOrphan(n) ==
    /\ issued < NumBlobs
    /\ issued' = issued + 1
    /\ row' = [row EXCEPT ![issued + 1] = OrphanRow(n)]
    /\ used' = used + n
    /\ UNCHANGED <<job, reserved, maxBytes>>

\* ScheduleOrphanCleanup: also rearms the job of a blob that is already pending.
ScheduleOrphanCleanup(b) ==
    /\ row[b].refs = 0
    /\ \/ row[b].status = "orphaned" /\ ~row[b].staging
       \/ row[b].status = "pending_delete"
    /\ row' = [row EXCEPT ![b].status = "pending_delete"]
    /\ job' = [job EXCEPT ![b] = FreshJob]
    /\ UNCHANGED <<used, reserved, maxBytes, issued>>

-----------------------------------------------------------------------------
(* Cleanup jobs *)

Claimable_Mutant(j) == j.queued /\ j.due /\ j.lease = "none"

Claimable(j) == j.queued /\ j.due /\ j.lease # "valid"

ClaimCleanupJob(b, w) ==
    /\ Claimable(job[b])
    /\ job' = [job EXCEPT ![b].owner = w, ![b].lease = "valid"]
    /\ UNCHANGED <<row, used, reserved, maxBytes, issued>>

\* The fence of every later statement of a claim: WHERE lease_owner = ?.
Owns(b, w) == job[b].queued /\ job[b].owner = w

RenewCleanupJobLease(b, w) ==
    /\ Owns(b, w)
    /\ job' = [job EXCEPT ![b].lease = "valid"]
    /\ UNCHANGED <<row, used, reserved, maxBytes, issued>>

FailCleanupJob(b, w) ==
    /\ Owns(b, w)
    /\ job' = [job EXCEPT ![b].owner = NoWorker, ![b].lease = "none", ![b].due = FALSE]
    /\ UNCHANGED <<row, used, reserved, maxBytes, issued>>

\* What the cleanup worker may not delete.
Referenced(r) == r.status = "active" \/ r.refs # 0

\* The counter CompleteCleanupJob charges: reserved_bytes if the row still has
\* its staging path.
ChargesReserved_Mutant(r) == r.status = "staging"

ChargesReserved(r) == r.staging

CanComplete(b, w) ==
    /\ Owns(b, w)
    /\ row[b].status # "none"
    /\ ~Referenced(row[b])
    /\ row[b].size <= IF ChargesReserved(row[b]) THEN reserved ELSE used

CompleteCleanupJob(b, w) ==
    /\ CanComplete(b, w)
    /\ IF ChargesReserved(row[b])
       THEN reserved' = reserved - row[b].size /\ used' = used
       ELSE used' = used - row[b].size /\ reserved' = reserved
    /\ row' = [row EXCEPT ![b] = NoRow]
    /\ job' = [job EXCEPT ![b] = NoJob]
    /\ UNCHANGED <<maxBytes, issued>>

-----------------------------------------------------------------------------
(* Time *)

StagingLeaseExpires(b) ==
    /\ row[b].lease = "valid"
    /\ row' = [row EXCEPT ![b].lease = "expired"]
    /\ UNCHANGED <<job, used, reserved, maxBytes, issued>>

JobLeaseExpires(b) ==
    /\ job[b].lease = "valid"
    /\ job' = [job EXCEPT ![b].lease = "expired"]
    /\ UNCHANGED <<row, used, reserved, maxBytes, issued>>

BackoffElapses(b) ==
    /\ job[b].queued
    /\ ~job[b].due
    /\ job' = [job EXCEPT ![b].due = TRUE]
    /\ UNCHANGED <<row, used, reserved, maxBytes, issued>>

-----------------------------------------------------------------------------
LedgerInit ==
    /\ row = [b \in Blobs |-> NoRow]
    /\ job = [b \in Blobs |-> NoJob]
    /\ used = 0
    /\ reserved = 0
    /\ maxBytes \in QuotaSettings
    /\ issued = 0

CONSTANT MaxSize    \* bound on the bytes one call reserves or declares

ASSUME SizeAssumption == MaxSize \in Nat

StagingStep ==
    \/ \E n \in 1..NumBlobs : \E size \in [NextBlobs(n) -> 0..MaxSize] : CreateStagingBatch(n, size)
    \/ \E b \in Blobs : \E n \in 1..MaxSize : Reserve(b, n)
    \/ \E B \in SUBSET Blobs :
          \/ RenewStagingLease(B)
          \/ ReleaseStagingBatch(B)
          \/ ExpireStagingForCleanup(B)
          \/ SealStagingForCleanupBatch(B)
          \/ EnqueueCleanupBatch(B)

PublishStep ==
    \E A \in SUBSET Blobs : \E R \in SUBSET (Blobs \ A) :
        \E size \in [A -> 0..MaxSize] : PublishLedger(A, size, R)

CleanupStep ==
    \E b \in Blobs :
        \/ ScheduleOrphanCleanup(b)
        \/ \E w \in Workers :
              \/ ClaimCleanupJob(b, w)
              \/ RenewCleanupJobLease(b, w)
              \/ FailCleanupJob(b, w)
              \/ CompleteCleanupJob(b, w)

TimeStep ==
    \E b \in Blobs : StagingLeaseExpires(b) \/ JobLeaseExpires(b) \/ BackoffElapses(b)

LedgerNext ==
    \/ \E m \in QuotaSettings : UpdateMaxBytes(m)
    \/ StagingStep
    \/ PublishStep
    \/ \E n \in 0..MaxSize : RegisterOrphan(n)
    \/ CleanupStep
    \/ TimeStep

LedgerSpec == LedgerInit /\ [][LedgerNext]_ledgerVars

-----------------------------------------------------------------------------
(* Properties *)

\* Type correctness of the ledger tables.
LedgerTypeOK ==
    /\ row \in [Blobs -> Row]
    /\ job \in [Blobs -> Job]
    /\ used \in Nat
    /\ reserved \in Nat
    /\ maxBytes \in Nat
    /\ issued \in 0..NumBlobs

\* The two counters always equal what the audit recomputes from the rows
\* (ValidateAndMarkReconciled): used_bytes is the sum over active, orphaned and
\* released blobs, reserved_bytes the sum over uploads, sealed ones included.
LedgerBalanced ==
    /\ used = Total([b \in Blobs |-> UsedPart(row[b])])
    /\ reserved = Total([b \in Blobs |-> ReservedPart(row[b])])

\* Whatever the callers do, a blob waiting for deletion is never stranded: it
\* has a cleanup job, no references and no staging lease, as the audit demands;
\* and no job outlives its row.
CleanupTracked ==
    \A b \in Blobs :
        /\ row[b].status = "pending_delete" =>
              job[b].queued /\ row[b].refs = 0 /\ row[b].lease = "none"
        /\ job[b].queued => row[b].status # "none"

\* Accounted bytes grow past max_bytes only by registering an orphan, whose
\* bytes are on the disk already: no reservation, activation or change of the
\* limit overcommits the quota.
NeverOvercommits ==
    [][ \/ used' + reserved' <= maxBytes'
        \/ used' + reserved' <= used + reserved /\ maxBytes' = maxBytes
        \/ \E b \in Blobs : row[b].status = "none" /\ row'[b].status = "orphaned"
      ]_ledgerVars

\* A blob condemned to deletion is never brought back, and a deleted blob's id
\* never returns, whichever transactions race.
NoResurrection ==
    [][ \A b \in Blobs :
          /\ row[b].status = "pending_delete" => row'[b].status \in {"pending_delete", "none"}
          /\ row[b].status = "none" /\ b <= issued => row'[b].status = "none"
      ]_ledgerVars
=============================================================================
