--------------------------- MODULE BlobLifecycle ---------------------------
(***************************************************************************)
(* The blob lifecycle: uploads that stage, publish or abort blobs          *)
(* (BlobLifecycleService), the cleanup workers that delete them            *)
(* (StorageCleanupWorker), the files both work on (LocalStorage) and the   *)
(* metadata that refers to blobs (object and recycle bin services), all    *)
(* sharing the ledger of module StorageLedger.                             *)
(*                                                                         *)
(* An uploader is one request.  It stages one blob of unknown size (Stage) *)
(* or a batch of blobs of declared sizes (StageKnownBatch), whose files    *)
(* are written by concurrent goroutines, while a heartbeat renews the      *)
(* staging lease.  A worker is one claim of RunOnce; several run at the    *)
(* same time, in one server or in several.                                 *)
(***************************************************************************)
EXTENDS StorageLedger

CONSTANTS
    Uploaders, Keys,
    NoKey,          \* a blob that is not in the recycle bin
    Chunk,          \* reservationChunk: stream reservations are rounded up to it
    MaxBatch,       \* bound on the blobs of one batch
    MaxContent,     \* bound on the bytes of one file
    Modes,          \* subset of {"stream", "known"}
    FaultKinds,     \* subset of {"crash", "io", "db", "ambiguous", "disconnect", "stall"}
    MaxFaults,      \* faults that may happen ...
    CountFaults     \* ... if they are counted; unboundedly many otherwise

ASSUME LifecycleAssumption ==
    /\ Chunk \in Nat \ {0}
    /\ NoKey \notin Keys
    /\ MaxBatch \in Nat
    /\ MaxContent \in Nat
    /\ Chunk <= MaxSize /\ MaxContent <= MaxSize
    /\ MaxFaults \in Nat
    /\ CountFaults \in BOOLEAN

VARIABLES
    objects,        \* objects: the blob a key refers to, or NoBlob
    bin,            \* recycle_bin_objects: the key a deleted blob had, or NoKey
    stagingFile,    \* bytes of the file under staging/, or Absent
    objectFile,     \* bytes of the file under objects/, or Absent
    up,             \* the uploaders
    part,           \* how far the upload of each blob is
    wk,             \* the workers
    faults          \* faults left

fileVars == <<stagingFile, objectFile>>
metaVars == <<objects, bin>>
upVars   == <<up, part>>
vars     == <<ledgerVars, fileVars, metaVars, upVars, wk, faults>>

NoBlob == 0
Absent == -1

IdleUp   == [pc |-> "idle", mode |-> "stream", blobs |-> {}, hb |-> "off", gone |-> FALSE]
NoPart   == [step |-> "none", content |-> 0, written |-> 0, granted |-> 0]
IdleWk   == [pc |-> "idle", blob |-> NoBlob, staging |-> FALSE, err |-> FALSE]

\* A fault of the given kind strikes.
Fault(kind) ==
    /\ kind \in FaultKinds
    /\ faults > 0
    /\ faults' = IF CountFaults THEN faults - 1 ELSE faults

-----------------------------------------------------------------------------
(* Helpers *)

RoundUp(n) == IF n = 0 THEN 0 ELSE ((n - 1) \div Chunk + 1) * Chunk

\* The requests still at work on a blob.
Uploading(b) == \E u \in Uploaders : b \in up[u].blobs

\* lease.ctx or batchCtx is cancelled: the client is gone, the heartbeat failed
\* or a sibling did.
Cancelled(u) ==
    \/ up[u].gone
    \/ up[u].hb = "failed"
    \/ \E b \in up[u].blobs : part[b].step = "failed"

\* Blob b of uploader u is at step s of its staging.
At(u, b, s) == up[u].pc = "staging" /\ b \in up[u].blobs /\ part[b].step = s

SetStep(b, s) == part' = [part EXCEPT ![b].step = s]

\* The request returns: its goroutines and its local state are gone.
Return(u) ==
    /\ up' = [up EXCEPT ![u] = IdleUp]
    /\ part' = [b \in Blobs |-> IF b \in up[u].blobs THEN NoPart ELSE part[b]]

-----------------------------------------------------------------------------
(* Staging *)

\* Stage creates one row of size 0, StageKnownBatch a batch that reserves the
\* declared sizes, an empty file counting one byte; both start the heartbeat.
Start(u, mode, n, content) ==
    /\ up[u].pc = "idle"
    /\ mode \in Modes
    /\ CreateStagingBatch(n, [b \in NextBlobs(n) |->
            IF mode = "stream" THEN 0 ELSE IF content[b] = 0 THEN 1 ELSE content[b]])
    /\ up' = [up EXCEPT ![u] = [pc |-> "staging", mode |-> mode, blobs |-> NextBlobs(n),
                                      hb |-> "on", gone |-> FALSE]]
    /\ part' = [b \in Blobs |->
            IF b \in NextBlobs(n)
            THEN [step |-> "queued", content |-> content[b], written |-> 0, granted |-> 0]
            ELSE part[b]]
    /\ UNCHANGED <<metaVars, fileVars, wk, faults>>

\* LocalStorage.Stage creates the file before it looks at the context.
OpenFile(u, b) ==
    /\ At(u, b, "queued")
    /\ stagingFile' = [stagingFile EXCEPT ![b] = 0]
    /\ SetStep(b, "writing")
    /\ UNCHANGED <<ledgerVars, metaVars, objectFile, up, wk, faults>>

\* reserveBeforeWrite, first attempt: a whole chunk.  When the quota refuses,
\* the exact size is tried in a second transaction.
NeedsGrant(u, b) ==
    /\ At(u, b, "writing")
    /\ up[u].mode = "stream"
    /\ ~Cancelled(u)
    /\ part[b].written < part[b].content
    /\ part[b].written = part[b].granted

ReserveRounded_Mutant(u, b) ==
    /\ NeedsGrant(u, b)
    /\ row[b].status = "staging"
    /\ part' = [part EXCEPT ![b].granted = RoundUp(part[b].written + 1)]
    /\ IF CanReserve(b, RoundUp(part[b].written + 1) - part[b].granted)
       THEN Reserve(b, RoundUp(part[b].written + 1) - part[b].granted)
       ELSE UNCHANGED ledgerVars
    /\ UNCHANGED <<metaVars, fileVars, up, wk, faults>>

ReserveRounded(u, b) ==
    LET delta == RoundUp(part[b].written + 1) - part[b].granted IN
    /\ NeedsGrant(u, b)
    /\ row[b].status = "staging"
    /\ \/ /\ Reserve(b, delta)
          /\ part' = [part EXCEPT ![b].granted = @ + delta]
       \/ /\ ~CanReserve(b, delta)
          /\ SetStep(b, "exact")
          /\ UNCHANGED ledgerVars
    /\ UNCHANGED <<metaVars, fileVars, up, wk, faults>>

ReserveExact(u, b) ==
    /\ At(u, b, "exact")
    /\ ~Cancelled(u)
    /\ Reserve(b, 1)
    /\ part' = [part EXCEPT ![b].granted = @ + 1, ![b].step = "writing"]
    /\ UNCHANGED <<metaVars, fileVars, up, wk, faults>>

\* One unit is written.  If a worker has unlinked the file, the bytes go to an
\* inode without a name.
WriteUnit_Mutant(u, b) ==
    /\ At(u, b, "writing")
    /\ ~Cancelled(u)
    /\ part[b].written <= part[b].content
    /\ part' = [part EXCEPT ![b].written = @ + 1]
    /\ stagingFile' = [stagingFile EXCEPT ![b] = IF @ = Absent THEN Absent ELSE @ + 1]
    /\ UNCHANGED <<ledgerVars, metaVars, objectFile, up, wk, faults>>

WriteUnit(u, b) ==
    /\ At(u, b, "writing")
    /\ ~Cancelled(u)
    /\ part[b].written < part[b].content
    /\ up[u].mode = "stream" => part[b].written < part[b].granted
    /\ part' = [part EXCEPT ![b].written = @ + 1]
    /\ stagingFile' = [stagingFile EXCEPT ![b] = IF @ = Absent THEN Absent ELSE @ + 1]
    /\ UNCHANGED <<ledgerVars, metaVars, objectFile, up, wk, faults>>

EndOfFile(u, b) ==
    /\ At(u, b, "writing")
    /\ ~Cancelled(u)
    /\ part[b].written = part[b].content
    /\ SetStep(b, "flushed")
    /\ UNCHANGED <<ledgerVars, metaVars, fileVars, up, wk, faults>>

\* An empty stream reserves one byte after the file is complete.
NeedsEmptyGrant(u, b) ==
    At(u, b, "flushed") /\ up[u].mode = "stream" /\ part[b].content = 0 /\ part[b].granted = 0

ReserveEmpty(u, b) ==
    /\ NeedsEmptyGrant(u, b)
    /\ ~Cancelled(u)
    /\ Reserve(b, 1)
    /\ part' = [part EXCEPT ![b].granted = 1]
    /\ UNCHANGED <<metaVars, fileVars, up, wk, faults>>

\* LocalStorage.Commit: an atomic rename, which fails if the file is gone.  It
\* does not look at the context.
CommitFile(u, b) ==
    /\ At(u, b, "flushed")
    /\ ~NeedsEmptyGrant(u, b)
    /\ IF stagingFile[b] = Absent
       THEN SetStep(b, "failed") /\ UNCHANGED fileVars
       ELSE /\ objectFile' = [objectFile EXCEPT ![b] = stagingFile[b]]
            /\ stagingFile' = [stagingFile EXCEPT ![b] = Absent]
            /\ SetStep(b, "renamed")
    /\ UNCHANGED <<ledgerVars, metaVars, up, wk, faults>>

\* Any error of staging one blob: the context is cancelled, the row is lost, the
\* quota is exhausted, or the reader, the disk or the database fails (closing
\* the reader of a batch item can fail after the rename).  LocalStorage.Stage
\* removes its unfinished file, a finished one stays for the abort.
StageFails(u, b) ==
    /\ \/ Cancelled(u) /\ (At(u, b, "writing") \/ At(u, b, "exact")) /\ UNCHANGED faults
       \/ (NeedsGrant(u, b) \/ NeedsEmptyGrant(u, b)) /\ row[b].status # "staging" /\ UNCHANGED faults
       \/ (At(u, b, "exact") \/ NeedsEmptyGrant(u, b)) /\ ~CanReserve(b, 1) /\ UNCHANGED faults
       \/ NeedsEmptyGrant(u, b) /\ Cancelled(u) /\ UNCHANGED faults
       \/ (\E s \in {"queued", "writing", "exact", "flushed"} : At(u, b, s)) /\ Fault("io")
       \/ At(u, b, "renamed") /\ up[u].mode = "known" /\ Fault("io")
    /\ stagingFile' = [stagingFile EXCEPT ![b] =
            IF part[b].step \in {"writing", "exact"} THEN Absent ELSE @]
    /\ SetStep(b, "failed")
    /\ UNCHANGED <<ledgerVars, metaVars, objectFile, up, wk>>

\* Every goroutine is done, no error, the lease still renewed.  The goroutines
\* of a batch whose client is gone leave the rest of the queue without an error.
FinishStaging(u) ==
    /\ up[u].pc = "staging"
    /\ \A b \in up[u].blobs :
          \/ part[b].step = "renamed"
          \/ part[b].step = "queued" /\ up[u].mode = "known" /\ up[u].gone
    /\ up[u].hb # "failed"
    /\ up' = [up EXCEPT ![u].pc = "staged"]
    /\ UNCHANGED <<ledgerVars, metaVars, fileVars, part, wk, faults>>

\* An error or a lost lease aborts the whole request; a batch first lets its
\* goroutines end, and those that have not started do not.
StartAbort(u) ==
    /\ \/ /\ up[u].pc = "staging"
          /\ up[u].hb = "failed" \/ \E b \in up[u].blobs : part[b].step = "failed"
          /\ \A b \in up[u].blobs : \/ part[b].step \in {"renamed", "failed"}
                                    \/ part[b].step = "queued" /\ up[u].mode = "known"
       \/ up[u].pc = "staged" /\ up[u].mode = "stream"    \* a later stream of the request failed
    /\ up' = [up EXCEPT ![u].pc = "abort", ![u].hb = "off"]
    /\ UNCHANGED <<ledgerVars, metaVars, fileVars, part, wk, faults>>

-----------------------------------------------------------------------------
(* The heartbeat and the client *)

HeartbeatRenews(u) ==
    /\ up[u].hb = "on"
    /\ ~up[u].gone
    /\ RenewStagingLease(up[u].blobs)
    /\ UNCHANGED <<metaVars, fileVars, upVars, wk, faults>>

HeartbeatFails(u) ==
    /\ up[u].hb = "on"
    /\ \/ (up[u].gone \/ ~CanRenewStaging(up[u].blobs)) /\ UNCHANGED faults
       \/ Fault("db")
    /\ up' = [up EXCEPT ![u].hb = "failed"]
    /\ UNCHANGED <<ledgerVars, metaVars, fileVars, part, wk>>

\* The client goes away: the context of the request is cancelled.
ClientDisconnects(u) ==
    /\ up[u].pc \in {"staging", "staged"}
    /\ ~up[u].gone
    /\ Fault("disconnect")
    /\ up' = [up EXCEPT ![u].gone = TRUE]
    /\ UNCHANGED <<ledgerVars, metaVars, fileVars, part, wk>>

-----------------------------------------------------------------------------
(* Aborting *)

\* abortBatch deletes both paths of each blob in turn; either deletion may fail.
Handled(b) == part[b].step \in {"deleted", "undeleted"}

AbortDelete_Mutant(u, b) ==
    /\ up[u].pc = "abort"
    /\ b \in up[u].blobs
    /\ ~Handled(b)
    /\ stagingFile' = [stagingFile EXCEPT ![b] = Absent]
    /\ SetStep(b, "deleted")
    /\ UNCHANGED <<ledgerVars, metaVars, objectFile, up, wk, faults>>

AbortDelete(u, b) ==
    /\ up[u].pc = "abort"
    /\ b \in up[u].blobs
    /\ ~Handled(b)
    /\ \A c \in up[u].blobs : c < b => Handled(c)
    /\ \E staging, storage \in BOOLEAN :     \* which of the two deletions succeed
          /\ stagingFile' = [stagingFile EXCEPT ![b] = IF staging THEN Absent ELSE @]
          /\ objectFile' = [objectFile EXCEPT ![b] = IF storage THEN Absent ELSE @]
          /\ IF staging /\ storage
             THEN SetStep(b, "deleted") /\ UNCHANGED faults
             ELSE SetStep(b, "undeleted") /\ Fault("io")
    /\ UNCHANGED <<ledgerVars, metaVars, up, wk>>

\* ReleaseStagingBatch for the blobs whose files are gone; whatever could not
\* be deleted or released gets a cleanup job next.
AbortRelease(u) ==
    LET deleted == {b \in up[u].blobs : part[b].step = "deleted"} IN
    /\ up[u].pc = "abort"
    /\ \A b \in up[u].blobs : Handled(b)
    /\ \/ /\ ReleaseStagingBatch(deleted)
          /\ IF deleted = up[u].blobs
             THEN Return(u)
             ELSE /\ up' = [up EXCEPT ![u].pc = "enqueue", ![u].blobs = @ \ deleted]
                  /\ part' = [b \in Blobs |-> IF b \in deleted THEN NoPart ELSE part[b]]
          /\ UNCHANGED faults
       \/ /\ (~CanReleaseStaging(deleted) /\ UNCHANGED faults) \/ Fault("db")
          /\ up' = [up EXCEPT ![u].pc = "enqueue"]
          /\ UNCHANGED <<ledgerVars, part>>
    /\ UNCHANGED <<metaVars, fileVars, wk>>

AbortEnqueue(u) ==
    /\ up[u].pc = "enqueue"
    /\ \/ EnqueueCleanupBatch(up[u].blobs) /\ UNCHANGED faults
       \/ UNCHANGED ledgerVars /\ ((~CanEnqueue(up[u].blobs) /\ UNCHANGED faults) \/ Fault("db"))
    /\ Return(u)
    /\ UNCHANGED <<metaVars, fileVars, wk>>

-----------------------------------------------------------------------------
(* Publishing *)

\* Publish gives up on a lost lease without touching the blobs.
PublishLeaseLost(u) ==
    /\ up[u].pc = "staged"
    /\ up[u].hb = "failed"
    /\ Return(u)
    /\ UNCHANGED <<ledgerVars, metaVars, fileVars, wk, faults>>

\* StagedBlob.Size, 0 for an item that was never staged.
StagedSize(B) == [b \in B |-> part[b].written]

\* The blobs the batch replaces under its keys.
Replaced_Mutant(target) == {}

Replaced(target) == {objects[target[b]] : b \in DOMAIN target} \ {NoBlob}

Targets(B) == {t \in [B -> Keys] : \A b, c \in B : t[b] = t[c] => b = c}

\* BeginTx fails on a cancelled context, the only thing that stops a batch with
\* skipped items.
CanBegin_Mutant(u) == TRUE

CanBegin(u) == ~up[u].gone

\* The transaction commits: the blobs are activated, the keys refer to them,
\* the replaced blobs lose their reference.  The server may not hear of it.
PublishCommits(u) ==
    /\ up[u].pc = "staged"
    /\ up[u].hb # "failed"
    /\ CanBegin(u)
    /\ \E target \in Targets(up[u].blobs) :
          /\ PublishLedger(up[u].blobs, StagedSize(up[u].blobs), Replaced(target))
          /\ objects' = [k \in Keys |->
                IF \E b \in up[u].blobs : target[b] = k
                THEN CHOOSE b \in up[u].blobs : target[b] = k
                ELSE objects[k]]
    /\ \/ Return(u) /\ UNCHANGED faults
       \/ /\ Fault("ambiguous")
          /\ up' = [up EXCEPT ![u].pc = "confirm"]
          /\ UNCHANGED part
    /\ UNCHANGED <<bin, fileVars, wk>>

\* The transaction rolls back: a blob is no longer staging, a key is taken and
\* may not be overwritten, the client is gone, or the database fails.
PublishRollsBack(u) ==
    /\ up[u].pc = "staged"
    /\ up[u].hb # "failed"
    /\ \/ ~CanActivate(up[u].blobs, StagedSize(up[u].blobs)) /\ UNCHANGED faults
       \/ (\E k \in Keys : objects[k] # NoBlob) /\ UNCHANGED faults
       \/ ~CanBegin(u) /\ UNCHANGED faults
       \/ Fault("db")
    /\ up' = [up EXCEPT ![u].pc = "confirm"]
    /\ UNCHANGED <<ledgerVars, metaVars, fileVars, part, wk>>

\* What confirmPublishOutcome takes for a rolled-back blob; a committed one, a
\* missing one and a mixed batch are left alone.
LooksRolledBack_Mutant(b) == row[b].status \in {"staging", "active"}

LooksRolledBack(b) == row[b].status = "staging" /\ row[b].staging /\ row[b].refs = 0

ConfirmPublishOutcome(u) ==
    /\ up[u].pc = "confirm"
    /\ \/ /\ \A b \in up[u].blobs : LooksRolledBack(b)
          /\ Seal(up[u].blobs)
          /\ UNCHANGED faults
       \/ /\ ((\E b \in up[u].blobs : ~LooksRolledBack(b)) /\ UNCHANGED faults) \/ Fault("db")
          /\ UNCHANGED ledgerVars
    /\ Return(u)
    /\ UNCHANGED <<metaVars, fileVars, wk>>

UploaderCrashes(u) ==
    /\ up[u].pc # "idle"
    /\ Fault("crash")
    /\ Return(u)
    /\ UNCHANGED <<ledgerVars, metaVars, fileVars, wk>>

-----------------------------------------------------------------------------
(* Objects and the recycle bin *)

\* ObjectService.Delete moves the row to the recycle bin, with its reference.
DeleteObject(k) ==
    /\ objects[k] # NoBlob
    /\ bin' = [bin EXCEPT ![objects[k]] = k]
    /\ objects' = [objects EXCEPT ![k] = NoBlob]
    /\ UNCHANGED <<ledgerVars, fileVars, upVars, wk, faults>>

\* restoreObject refuses a key that is taken.
RestoreObject(b) ==
    /\ bin[b] # NoKey
    /\ objects[bin[b]] = NoBlob
    /\ objects' = [objects EXCEPT ![bin[b]] = b]
    /\ bin' = [bin EXCEPT ![b] = NoKey]
    /\ UNCHANGED <<ledgerVars, fileVars, upVars, wk, faults>>

\* RecycleBinService.deleteObject: Publish without blobs.
PurgeObject(b) ==
    /\ bin[b] # NoKey
    /\ bin' = [bin EXCEPT ![b] = NoKey]
    /\ PublishLedger({}, StagedSize({}), {b})
    /\ UNCHANGED <<objects, fileVars, upVars, wk, faults>>

-----------------------------------------------------------------------------
(* The cleanup worker *)

\* RunOnce first seals every upload whose lease has expired.
EnqueueExpiredStaging ==
    /\ ExpireStagingForCleanup({b \in Blobs : Expirable(row[b])})
    /\ UNCHANGED <<metaVars, fileVars, upVars, wk, faults>>

Claim(w, b) ==
    /\ wk[w].pc = "idle"
    /\ ClaimCleanupJob(b, w)
    /\ wk' = [wk EXCEPT ![w] = [pc |-> "claimed", blob |-> b, staging |-> FALSE, err |-> FALSE]]
    /\ UNCHANGED <<metaVars, fileVars, upVars, faults>>

\* processClaimedJob renews the claim and loads the blob; a lost claim ends the
\* attempt, a referenced blob fails the job.
LoadClaimedJob(w) ==
    LET b == wk[w].blob IN
    /\ wk[w].pc = "claimed"
    /\ IF ~Owns(b, w)
       THEN wk' = [wk EXCEPT ![w] = IdleWk] /\ UNCHANGED ledgerVars
       ELSE IF Referenced(row[b])
       THEN wk' = [wk EXCEPT ![w] = IdleWk] /\ FailCleanupJob(b, w)
       ELSE /\ wk' = [wk EXCEPT ![w].pc = "staging", ![w].staging = row[b].staging]
            /\ RenewCleanupJobLease(b, w)
    /\ UNCHANGED <<metaVars, fileVars, upVars, faults>>

\* The staging path goes first: an upload that still renames its file moves it
\* from a path the worker has yet to delete to one it has yet to delete.
WorkerDeletesStaging(w) ==
    LET b == wk[w].blob IN
    /\ wk[w].pc = "staging"
    /\ \/ /\ stagingFile' = [stagingFile EXCEPT ![b] = IF wk[w].staging THEN Absent ELSE @]
          /\ wk' = [wk EXCEPT ![w].pc = "storage"]
          /\ UNCHANGED faults
       \/ /\ Fault("io")
          /\ wk' = [wk EXCEPT ![w].pc = "storage", ![w].err = TRUE]
          /\ UNCHANGED stagingFile
    /\ UNCHANGED <<ledgerVars, metaVars, objectFile, upVars>>

WorkerDeletesStorage(w) ==
    LET b == wk[w].blob IN
    /\ wk[w].pc = "storage"
    /\ \/ /\ objectFile' = [objectFile EXCEPT ![b] = Absent]
          /\ wk' = [wk EXCEPT ![w].pc = "finish"]
          /\ UNCHANGED faults
       \/ /\ Fault("io")
          /\ wk' = [wk EXCEPT ![w].pc = "finish", ![w].err = TRUE]
          /\ UNCHANGED objectFile
    /\ UNCHANGED <<ledgerVars, metaVars, stagingFile, upVars>>

\* renewCleanupLease, the goroutine that runs beside the deletions.
WorkerRenewsLease(w) ==
    /\ wk[w].pc \in {"staging", "storage"}
    /\ RenewCleanupJobLease(wk[w].blob, w)
    /\ UNCHANGED <<metaVars, fileVars, upVars, wk, faults>>

\* Completion and failure are fenced by the lease owner.
FinishJob(w) ==
    LET b == wk[w].blob IN
    /\ wk[w].pc = "finish"
    /\ IF wk[w].err
       THEN IF Owns(b, w) THEN FailCleanupJob(b, w) ELSE UNCHANGED ledgerVars
       ELSE IF CanComplete(b, w) THEN CompleteCleanupJob(b, w) ELSE UNCHANGED ledgerVars
    /\ wk' = [wk EXCEPT ![w] = IdleWk]
    /\ UNCHANGED <<metaVars, fileVars, upVars, faults>>

\* The process dies, or a statement of the claim fails for good.
WorkerCrashes(w) ==
    /\ wk[w].pc # "idle"
    /\ Fault("crash") \/ Fault("db")
    /\ wk' = [wk EXCEPT ![w] = IdleWk]
    /\ UNCHANGED <<ledgerVars, metaVars, fileVars, upVars>>

-----------------------------------------------------------------------------
(* Time.  A lease that its holder keeps alive expires only if the holder or *)
(* the database stalls for longer than the lease.                           *)

UploadLeaseExpires(b) ==
    /\ StagingLeaseExpires(b)
    /\ IF Uploading(b) THEN Fault("stall") ELSE UNCHANGED faults
    /\ UNCHANGED <<metaVars, fileVars, upVars, wk>>

ClaimLeaseExpires(b) ==
    /\ JobLeaseExpires(b)
    /\ IF \E w \in Workers : Owns(b, w) /\ wk[w].pc # "idle" /\ wk[w].blob = b
       THEN Fault("stall") ELSE UNCHANGED faults
    /\ UNCHANGED <<metaVars, fileVars, upVars, wk>>

RetryDue(b) ==
    /\ BackoffElapses(b)
    /\ UNCHANGED <<metaVars, fileVars, upVars, wk, faults>>

SetQuota(m) ==
    /\ UpdateMaxBytes(m)
    /\ UNCHANGED <<metaVars, fileVars, upVars, wk, faults>>

-----------------------------------------------------------------------------
Init ==
    /\ LedgerInit
    /\ objects = [k \in Keys |-> NoBlob]
    /\ bin = [b \in Blobs |-> NoKey]
    /\ stagingFile = [b \in Blobs |-> Absent]
    /\ objectFile = [b \in Blobs |-> Absent]
    /\ up = [u \in Uploaders |-> IdleUp]
    /\ part = [b \in Blobs |-> NoPart]
    /\ wk = [w \in Workers |-> IdleWk]
    /\ faults = MaxFaults

Starts(u) ==
    \/ \E content \in [NextBlobs(1) -> 0..MaxContent] : Start(u, "stream", 1, content)
    \/ \E n \in 1..MaxBatch : \E content \in [NextBlobs(n) -> 0..MaxContent] :
          Start(u, "known", n, content)

StagingOf(u, b) ==
    \/ OpenFile(u, b)
    \/ ReserveRounded(u, b)
    \/ ReserveExact(u, b)
    \/ WriteUnit(u, b)
    \/ EndOfFile(u, b)
    \/ ReserveEmpty(u, b)
    \/ CommitFile(u, b)
    \/ StageFails(u, b)
    \/ AbortDelete(u, b)

RequestStep(u) ==
    \/ \E b \in Blobs : StagingOf(u, b)
    \/ FinishStaging(u)
    \/ StartAbort(u)
    \/ AbortRelease(u)
    \/ AbortEnqueue(u)
    \/ PublishLeaseLost(u)
    \/ PublishCommits(u)
    \/ PublishRollsBack(u)
    \/ ConfirmPublishOutcome(u)

UploaderStep(u) ==
    \/ Starts(u)
    \/ RequestStep(u)
    \/ HeartbeatRenews(u)
    \/ HeartbeatFails(u)
    \/ ClientDisconnects(u)
    \/ UploaderCrashes(u)

MetadataStep ==
    \/ \E k \in Keys : DeleteObject(k)
    \/ \E b \in Blobs : RestoreObject(b) \/ PurgeObject(b)

WorkerStep(w) ==
    \/ \E b \in Blobs : Claim(w, b)
    \/ LoadClaimedJob(w)
    \/ WorkerDeletesStaging(w)
    \/ WorkerDeletesStorage(w)
    \/ FinishJob(w)

Environment ==
    \/ \E b \in Blobs : UploadLeaseExpires(b) \/ ClaimLeaseExpires(b) \/ RetryDue(b)
    \/ \E m \in QuotaSettings : SetQuota(m)

Next ==
    \/ \E u \in Uploaders : UploaderStep(u)
    \/ MetadataStep
    \/ EnqueueExpiredStaging
    \/ \E w \in Workers : WorkerStep(w) \/ WorkerRenewsLease(w) \/ WorkerCrashes(w)
    \/ Environment

Spec == Init /\ [][Next]_vars

\* The cleanup worker of a running server polls for ever, and time passes;
\* clients promise nothing, and faults only that they end.
Fairness ==
    /\ \A w \in Workers : WF_vars(WorkerStep(w) /\ UNCHANGED faults)
    /\ WF_vars(EnqueueExpiredStaging)
    /\ \A b \in Blobs :
          /\ WF_vars(UploadLeaseExpires(b) /\ UNCHANGED faults)
          /\ WF_vars(ClaimLeaseExpires(b) /\ UNCHANGED faults)
          /\ WF_vars(RetryDue(b))

FairSpec == Spec /\ Fairness

-----------------------------------------------------------------------------
(* Properties *)

UpState ==
    [pc : {"idle", "staging", "staged", "confirm", "abort", "enqueue"},
     mode : {"stream", "known"}, blobs : SUBSET Blobs, hb : {"off", "on", "failed"},
     gone : BOOLEAN]

PartState ==
    [step : {"none", "queued", "writing", "exact", "flushed", "renamed", "failed",
             "deleted", "undeleted"},
     content : 0..MaxContent, written : Nat, granted : Nat]

WkState ==
    [pc : {"idle", "claimed", "staging", "storage", "finish"},
     blob : Blobs \cup {NoBlob}, staging : BOOLEAN, err : BOOLEAN]

LifecycleTypes ==
    /\ objects \in [Keys -> Blobs \cup {NoBlob}]
    /\ bin \in [Blobs -> Keys \cup {NoKey}]
    /\ stagingFile \in [Blobs -> Nat \cup {Absent}]
    /\ objectFile \in [Blobs -> Nat \cup {Absent}]
    /\ up \in [Uploaders -> UpState]
    /\ part \in [Blobs -> PartState]
    /\ \A b \in Blobs : part[b].written <= part[b].content
    /\ wk \in [Workers -> WkState]
    /\ \A w \in Workers : wk[w].pc # "idle" => wk[w].blob \in Blobs
    /\ faults \in Nat

\* Type correctness; no file is written past its end, and a busy worker holds
\* a blob.
TypeOK == LedgerTypeOK /\ LifecycleTypes

\* The blobs metadata refers to.
InObjects(b) == \E k \in Keys : objects[k] = b
InBin(b)     == bin[b] # NoKey

\* No data is lost: whatever uploads, overwrites, deletions, stale workers,
\* crashes and unknown commits do, an object in a bucket or in the recycle bin
\* has its file, complete, under objects/.
ObjectsIntact ==
    \A b \in Blobs : (InObjects(b) \/ InBin(b)) => objectFile[b] = row[b].size /\ row[b].status = "active"

\* At any moment the structural part of the reconciliation audit
\* (ValidateAndMarkReconciled) would accept the ledger: an active blob has one
\* reference, no job and no staging path, every other blob has no reference.
AuditAccepts ==
    \A b \in Blobs :
        /\ row[b].status = "active" =>
              /\ InObjects(b) \/ InBin(b)
              /\ ~(InObjects(b) /\ InBin(b))
              /\ \A k, l \in Keys : objects[k] = b /\ objects[l] = b => k = l
              /\ row[b].refs = 1
              /\ ~job[b].queued /\ ~row[b].staging /\ row[b].lease = "none"
        /\ row[b].status # "active" => ~InObjects(b) /\ ~InBin(b) /\ row[b].refs = 0
        /\ row[b].status = "staging" => row[b].staging /\ row[b].lease # "none"

\* Used and reserved bytes together stay within the limit, which the limit's
\* own changes respect.
QuotaRespected == used + reserved <= maxBytes

\* Bytes are accounted before they reach the disk: the file of a blob never
\* holds more than its row has reserved or uses.
BytesCovered ==
    \A b \in Blobs : row[b].status # "none" =>
        stagingFile[b] <= row[b].size /\ objectFile[b] <= row[b].size

\* A managed file always has a ledger row, or a request that is still at work
\* on it.
FilesTracked ==
    \A b \in Blobs :
        (stagingFile[b] # Absent \/ objectFile[b] # Absent) =>
            row[b].status # "none" \/ Uploading(b)

\* Nothing is reserved or kept for ever: a blob that waits for deletion, and an
\* upload that nobody works on, are deleted and their bytes given back, however
\* many workers died on the way.
Reclaimed ==
    \A b \in Blobs :
        (\/ row[b].status = "pending_delete"
         \/ row[b].status = "staging" /\ ~Uploading(b)) ~> row[b].status = "none"
=============================================================================
