----------------------- MODULE BlobLifecycle_proofs -----------------------
(***************************************************************************)
(* The blob lifecycle implements the storage ledger: every step of a       *)
(* request, a worker or the environment is one ledger transaction or       *)
(* leaves the ledger alone.  The types of the lifecycle's own state are    *)
(* needed on the way, so the two are proved by one induction, and the      *)
(* ledger's theorems then hold of the lifecycle.                           *)
(*                                                                         *)
(* The second part is about safety: no data is lost, and nothing is stored *)
(* unaccounted, for any number of requests, workers and faults.            *)
(***************************************************************************)
EXTENDS BlobLifecycle, StorageLedger_proofs

LifecycleInv == LedgerInv /\ LifecycleTypes

\* What a rounded reservation asks for lies between one byte and one chunk.
LEMMA RoundUpStep ==
    ASSUME NEW n \in Nat
    PROVE  RoundUp(n + 1) - n \in 1..Chunk
<1>1. Chunk \in Nat /\ Chunk > 0
  BY LifecycleAssumption
<1> DEFINE q == n \div Chunk
<1>2. q \in Nat /\ q * Chunk <= n /\ n < q * Chunk + Chunk
  BY <1>1, SMTT(30)
<1>3. RoundUp(n + 1) = (q + 1) * Chunk
  BY <1>1 DEF RoundUp
<1>4. (q + 1) * Chunk = q * Chunk + Chunk /\ q * Chunk \in Nat
  BY <1>1, <1>2
<1> QED BY <1>1, <1>2, <1>3, <1>4

\* The ledger transactions of the staging steps.
LEMMA StartLedger ==
    ASSUME LifecycleInv, NEW u \in Uploaders, NEW mode, NEW n \in Nat \ {0},
           NEW content \in [NextBlobs(n) -> 0..MaxContent], Start(u, mode, n, content)
    PROVE  LedgerNext
<1> DEFINE size == [b \in NextBlobs(n) |->
              IF mode = "stream" THEN 0 ELSE IF content[b] = 0 THEN 1 ELSE content[b]]
<1>1. CreateStagingBatch(n, size)
  BY DEF Start
<1>2. /\ issued \in Nat /\ NumBlobs \in Nat /\ MaxSize \in Nat /\ MaxContent \in Nat
      /\ 1 <= MaxSize /\ MaxContent <= MaxSize
  BY LedgerAssumption, SizeAssumption, LifecycleAssumption DEF LifecycleInv, LedgerInv, LedgerTypeOK
<1>3. n \in 1..NumBlobs
  BY <1>1, <1>2 DEF CreateStagingBatch
<1>4. size \in [NextBlobs(n) -> 0..MaxSize]
  BY <1>2
<1> HIDE DEF size
<1> QED BY <1>1, <1>3, <1>4 DEF LedgerNext, StagingStep

\* Each of the three reservations of a stream is a Reserve of the ledger, or
\* the refused attempt that leaves it alone.
LEMMA ReserveLedger ==
    ASSUME LifecycleInv, NEW u \in Uploaders, NEW b \in Blobs,
           ReserveRounded(u, b) \/ ReserveExact(u, b) \/ ReserveEmpty(u, b)
    PROVE  [LedgerNext]_ledgerVars
<1>1. /\ MaxSize \in Nat /\ Chunk <= MaxSize /\ Chunk \in Nat \ {0}
      /\ part[b].written \in Nat /\ part[b].granted \in Nat
  BY SizeAssumption, LifecycleAssumption DEF LifecycleInv, LifecycleTypes, PartState
<1>2. ASSUME NEW n \in 1..MaxSize, Reserve(b, n) PROVE LedgerNext
  BY <1>2 DEF LedgerNext, StagingStep
<1>3. CASE ReserveRounded(u, b)
  <2> DEFINE delta == RoundUp(part[b].written + 1) - part[b].granted
  <2>1. part[b].written = part[b].granted
    BY <1>3 DEF ReserveRounded, NeedsGrant
  <2>2. delta \in 1..Chunk
    BY <1>1, <2>1, RoundUpStep
  <2>3. delta \in 1..MaxSize
    BY <1>1, <2>2
  <2>4. Reserve(b, delta) \/ UNCHANGED ledgerVars
    BY <1>3 DEF ReserveRounded
  <2> HIDE DEF delta
  <2> QED BY <1>2, <2>3, <2>4
<1>4. CASE ReserveExact(u, b) \/ ReserveEmpty(u, b)
  BY <1>1, <1>2, <1>4 DEF ReserveExact, ReserveEmpty
<1> QED BY <1>3, <1>4

\* Publishing: the activated and the released blobs are different ones, since
\* the first are staging and the second active.
LEMMA PublishCommitsLedger ==
    ASSUME LifecycleInv, NEW u \in Uploaders, PublishCommits(u)
    PROVE  LedgerNext
<1> DEFINE A == up[u].blobs
<1>1. PICK target \in Targets(A) : PublishLedger(A, StagedSize(A), Replaced(target))
  BY DEF PublishCommits
<1>2. A \in SUBSET Blobs
  BY DEF LifecycleInv, LifecycleTypes, UpState
<1>3. StagedSize(A) \in [A -> 0..MaxSize]
  <2>1. ASSUME NEW b \in A PROVE part[b].written \in 0..MaxSize
    BY <1>2, SizeAssumption, LifecycleAssumption DEF LifecycleInv, LifecycleTypes, PartState
  <2> QED BY <2>1 DEF StagedSize
<1>4. Replaced(target) \in SUBSET Blobs
  BY DEF Replaced, Targets, LifecycleInv, LifecycleTypes
<1>5. \A b \in A : row[b].status = "staging"
  BY <1>1 DEF PublishLedger, CanActivate
<1>6. \A b \in Replaced(target) : row[b].status = "active"
  BY <1>1 DEF PublishLedger, CanRelease
<1>7. Replaced(target) \in SUBSET (Blobs \ A)
  BY <1>4, <1>5, <1>6
<1> QED BY <1>1, <1>2, <1>3, <1>7 DEF LedgerNext, PublishStep

\* Purging an object from the recycle bin is a publication without blobs.
LEMMA PurgeLedger ==
    ASSUME NEW b \in Blobs, PurgeObject(b)
    PROVE  LedgerNext
<1>1. PublishLedger({}, StagedSize({}), {b})
  BY DEF PurgeObject
<1>2. StagedSize({}) \in [{} -> 0..MaxSize]
  BY DEF StagedSize
<1>3. {} \in SUBSET Blobs /\ {b} \in SUBSET (Blobs \ {})
  OBVIOUS
<1> QED BY <1>1, <1>2, <1>3 DEF LedgerNext, PublishStep

\* The transactions on a set of blobs of one request.
LEMMA BatchLedger ==
    ASSUME NEW B \in SUBSET Blobs,
           \/ RenewStagingLease(B) \/ ReleaseStagingBatch(B) \/ ExpireStagingForCleanup(B)
           \/ SealStagingForCleanupBatch(B) \/ EnqueueCleanupBatch(B)
    PROVE  LedgerNext
BY DEF LedgerNext, StagingStep

\* The transactions of a worker on its blob.
LEMMA WorkerLedger ==
    ASSUME NEW b \in Blobs, NEW w \in Workers,
           \/ ClaimCleanupJob(b, w) \/ RenewCleanupJobLease(b, w)
           \/ FailCleanupJob(b, w) \/ CompleteCleanupJob(b, w)
    PROVE  LedgerNext
BY DEF LedgerNext, CleanupStep

\* Every step of a request is a ledger transaction or leaves the ledger alone.
LEMMA UploaderLedger ==
    ASSUME LifecycleInv, NEW u \in Uploaders, UploaderStep(u)
    PROVE  [LedgerNext]_ledgerVars
<1>0. up[u].blobs \in SUBSET Blobs
  BY DEF LifecycleInv, LifecycleTypes, UpState
<1>1. CASE Starts(u)
  <2>1. 1 \in Nat \ {0} /\ \A n \in 1..MaxBatch : n \in Nat \ {0}
    BY LifecycleAssumption
  <2> QED BY <1>1, <2>1, StartLedger DEF Starts
<1>2. ASSUME NEW b \in Blobs, StagingOf(u, b) PROVE [LedgerNext]_ledgerVars
  <2>1. CASE ReserveRounded(u, b) \/ ReserveExact(u, b) \/ ReserveEmpty(u, b)
    BY <2>1, ReserveLedger
  <2>2. CASE OpenFile(u, b) \/ WriteUnit(u, b) \/ EndOfFile(u, b)
    BY <2>2 DEF OpenFile, WriteUnit, EndOfFile
  <2>3. CASE CommitFile(u, b) \/ StageFails(u, b) \/ AbortDelete(u, b)
    BY <2>3 DEF CommitFile, StageFails, AbortDelete
  <2> QED BY <1>2, <2>1, <2>2, <2>3 DEF StagingOf
<1>3. CASE FinishStaging(u) \/ StartAbort(u) \/ PublishLeaseLost(u) \/ PublishRollsBack(u)
  BY <1>3 DEF FinishStaging, StartAbort, PublishLeaseLost, PublishRollsBack
<1>4. CASE AbortRelease(u)
  <2> DEFINE deleted == {b \in up[u].blobs : part[b].step = "deleted"}
  <2>1. ReleaseStagingBatch(deleted) \/ UNCHANGED ledgerVars
    BY <1>4 DEF AbortRelease
  <2>2. deleted \in SUBSET Blobs
    BY <1>0
  <2> HIDE DEF deleted
  <2> QED BY <2>1, <2>2, BatchLedger
<1>5. CASE AbortEnqueue(u)
  <2>1. EnqueueCleanupBatch(up[u].blobs) \/ UNCHANGED ledgerVars
    BY <1>5 DEF AbortEnqueue
  <2> QED BY <1>0, <2>1, BatchLedger
<1>6. CASE PublishCommits(u)
  BY <1>6, PublishCommitsLedger
<1>7. CASE ConfirmPublishOutcome(u)
  <2>1. \/ (\A b \in up[u].blobs : LooksRolledBack(b)) /\ Seal(up[u].blobs)
        \/ UNCHANGED ledgerVars
    BY <1>7 DEF ConfirmPublishOutcome
  <2>2. (\A b \in up[u].blobs : LooksRolledBack(b)) => CanSeal(up[u].blobs)
    BY DEF LooksRolledBack, CanSeal
  <2> QED BY <1>0, <2>1, <2>2, BatchLedger DEF SealStagingForCleanupBatch
<1>8. CASE HeartbeatRenews(u)
  <2>1. RenewStagingLease(up[u].blobs)
    BY <1>8 DEF HeartbeatRenews
  <2> QED BY <1>0, <2>1, BatchLedger
<1>9. CASE HeartbeatFails(u) \/ ClientDisconnects(u) \/ UploaderCrashes(u)
  BY <1>9 DEF HeartbeatFails, ClientDisconnects, UploaderCrashes
<1> QED
  BY <1>1, <1>2, <1>3, <1>4, <1>5, <1>6, <1>7, <1>8, <1>9, UploaderStep(u)
     DEF UploaderStep, RequestStep

\* Likewise every step of a worker.
LEMMA WorkersLedger ==
    ASSUME LifecycleInv, NEW w \in Workers, WorkerStep(w) \/ WorkerRenewsLease(w) \/ WorkerCrashes(w)
    PROVE  [LedgerNext]_ledgerVars
<1>0. wk[w].pc # "idle" => wk[w].blob \in Blobs
  BY DEF LifecycleInv, LifecycleTypes
<1>1. ASSUME NEW b \in Blobs, Claim(w, b) PROVE LedgerNext
  <2>1. ClaimCleanupJob(b, w)
    BY <1>1 DEF Claim
  <2> QED BY <2>1, WorkerLedger
<1>2. CASE LoadClaimedJob(w)
  <2>1. /\ wk[w].pc = "claimed"
        /\ \/ FailCleanupJob(wk[w].blob, w) \/ RenewCleanupJobLease(wk[w].blob, w)
           \/ UNCHANGED ledgerVars
    BY <1>2 DEF LoadClaimedJob
  <2> QED BY <1>0, <2>1, WorkerLedger
<1>3. CASE WorkerDeletesStaging(w) \/ WorkerDeletesStorage(w) \/ WorkerCrashes(w)
  BY <1>3 DEF WorkerDeletesStaging, WorkerDeletesStorage, WorkerCrashes
<1>4. CASE FinishJob(w)
  <2>1. /\ wk[w].pc = "finish"
        /\ \/ FailCleanupJob(wk[w].blob, w) \/ CompleteCleanupJob(wk[w].blob, w)
           \/ UNCHANGED ledgerVars
    BY <1>4 DEF FinishJob
  <2> QED BY <1>0, <2>1, WorkerLedger
<1>5. CASE WorkerRenewsLease(w)
  <2>1. wk[w].pc \in {"staging", "storage"} /\ RenewCleanupJobLease(wk[w].blob, w)
    BY <1>5 DEF WorkerRenewsLease
  <2> QED BY <1>0, <2>1, WorkerLedger
<1> QED BY <1>1, <1>2, <1>3, <1>4, <1>5 DEF WorkerStep

\* The step simulation.
LEMMA StepLedger == LifecycleInv /\ [Next]_vars => [LedgerNext]_ledgerVars
<1> SUFFICES ASSUME LifecycleInv, [Next]_vars PROVE [LedgerNext]_ledgerVars
  OBVIOUS
<1>1. CASE UNCHANGED vars
  BY <1>1 DEF vars
<1>2. CASE MetadataStep
  <2>1. CASE \E k \in Keys : DeleteObject(k)
    BY <2>1 DEF DeleteObject
  <2>2. CASE \E b \in Blobs : RestoreObject(b)
    BY <2>2 DEF RestoreObject
  <2>3. CASE \E b \in Blobs : PurgeObject(b)
    BY <2>3, PurgeLedger
  <2> QED BY <1>2, <2>1, <2>2, <2>3 DEF MetadataStep
<1>3. CASE EnqueueExpiredStaging
  <2>1. ExpireStagingForCleanup({b \in Blobs : Expirable(row[b])})
    BY <1>3 DEF EnqueueExpiredStaging
  <2> QED BY <2>1, BatchLedger
<1>4. CASE Environment
  <2>1. ASSUME NEW b \in Blobs, UploadLeaseExpires(b) \/ ClaimLeaseExpires(b) \/ RetryDue(b)
        PROVE  LedgerNext
    <3>1. StagingLeaseExpires(b) \/ JobLeaseExpires(b) \/ BackoffElapses(b)
      BY <2>1 DEF UploadLeaseExpires, ClaimLeaseExpires, RetryDue
    <3> QED BY <3>1 DEF LedgerNext, TimeStep
  <2>2. ASSUME NEW m \in QuotaSettings, SetQuota(m) PROVE LedgerNext
    <3>1. UpdateMaxBytes(m)
      BY <2>2 DEF SetQuota
    <3> QED BY <3>1 DEF LedgerNext
  <2> QED BY <1>4, <2>1, <2>2 DEF Environment
<1> QED BY <1>1, <1>2, <1>3, <1>4, UploaderLedger, WorkersLedger DEF Next

-----------------------------------------------------------------------------
(* Types *)

\* The request's own state: its record and the progress of its blobs.
UpTypes ==
    /\ up \in [Uploaders -> UpState]
    /\ part \in [Blobs -> PartState]
    /\ \A b \in Blobs : part[b].written <= part[b].content

\* A returning request leaves well-typed state behind.
LEMMA ReturnTypes ==
    ASSUME UpTypes, NEW u \in Uploaders, Return(u)
    PROVE  UpTypes'
<1>1. IdleUp \in UpState /\ NoPart \in PartState /\ NoPart.written <= NoPart.content
  BY LifecycleAssumption DEF IdleUp, UpState, NoPart, PartState
<1> QED BY <1>1 DEF UpTypes, Return

\* Moving a blob to its next step keeps the types.
LEMMA SetStepTypes ==
    ASSUME UpTypes, NEW b \in Blobs, NEW s, SetStep(b, s), UNCHANGED up,
           s \in {"none", "queued", "writing", "exact", "flushed", "renamed", "failed",
                  "deleted", "undeleted"}
    PROVE  UpTypes'
BY DEF UpTypes, SetStep, PartState

\* A fault leaves a number of faults.
LEMMA FaultTypes ==
    ASSUME faults \in Nat, NEW kind, Fault(kind)
    PROVE  faults' \in Nat
BY DEF Fault

\* Every step of a request keeps its types.
LEMMA UploaderTypes ==
    ASSUME LifecycleInv, NEW u \in Uploaders, UploaderStep(u)
    PROVE  UpTypes' /\ faults' \in Nat
<1>0. /\ UpTypes /\ faults \in Nat /\ up[u] \in UpState
      /\ MaxContent \in Nat /\ issued \in Nat /\ NumBlobs \in Nat
  BY LifecycleAssumption, LedgerAssumption
     DEF LifecycleInv, LifecycleTypes, UpTypes, LedgerInv, LedgerTypeOK
<1>1. ASSUME NEW mode, NEW n \in Nat, NEW content \in [NextBlobs(n) -> 0..MaxContent],
             Start(u, mode, n, content), mode \in {"stream", "known"}
      PROVE  UpTypes' /\ faults' \in Nat
  <2>1. NextBlobs(n) \in SUBSET Blobs
    BY <1>0, <1>1 DEF Start, CreateStagingBatch, NextBlobs, Blobs
  <2>2. up' \in [Uploaders -> UpState]
    BY <1>0, <1>1, <2>1 DEF Start, UpTypes, UpState
  <2>3. \A b \in NextBlobs(n) :
           [step |-> "queued", content |-> content[b], written |-> 0, granted |-> 0] \in PartState
    BY <1>0 DEF PartState
  <2>4. part' = [b \in Blobs |->
            IF b \in NextBlobs(n)
            THEN [step |-> "queued", content |-> content[b], written |-> 0, granted |-> 0]
            ELSE part[b]]
    BY <1>1 DEF Start
  <2>5. part' \in [Blobs -> PartState]
    BY <1>0, <2>3, <2>4 DEF UpTypes
  <2>6. \A b \in Blobs : part'[b].written <= part'[b].content
    BY <1>0, <2>4 DEF UpTypes
  <2> QED BY <1>0, <1>1, <2>2, <2>5, <2>6 DEF UpTypes, Start
<1>2. CASE Starts(u)
  <2>1. 1 \in Nat /\ \A n \in 1..MaxBatch : n \in Nat
    BY LifecycleAssumption
  <2> QED BY <1>1, <1>2, <2>1 DEF Starts
<1>3. ASSUME NEW b \in Blobs, StagingOf(u, b) PROVE UpTypes' /\ faults' \in Nat
  <2>0. part[b] \in PartState /\ part[b].written <= part[b].content
    BY <1>0 DEF UpTypes
  <2>1. CASE OpenFile(u, b) \/ EndOfFile(u, b)
    BY <1>0, <2>1, SetStepTypes DEF OpenFile, EndOfFile
  <2>2. CASE ReserveRounded(u, b)
    <3> DEFINE delta == RoundUp(part[b].written + 1) - part[b].granted
    <3>1. delta \in Nat
      <4>1. part[b].written = part[b].granted /\ part[b].written \in Nat
        BY <2>0, <2>2 DEF ReserveRounded, NeedsGrant, PartState
      <4> QED BY <4>1, RoundUpStep, LifecycleAssumption
    <3>2. /\ \/ part' = [part EXCEPT ![b].granted = @ + delta]
             \/ SetStep(b, "exact")
          /\ UNCHANGED <<up, faults>>
      BY <2>2 DEF ReserveRounded
    <3> HIDE DEF delta
    <3>3. CASE part' = [part EXCEPT ![b].granted = @ + delta]
      BY <1>0, <2>0, <3>1, <3>2, <3>3 DEF UpTypes, PartState
    <3> QED BY <1>0, <3>2, <3>3, SetStepTypes
  <2>3. CASE ReserveExact(u, b)
    <3> DEFINE q == [part EXCEPT ![b].granted = @ + 1]
    <3>1. part' = [q EXCEPT ![b].step = "writing"] /\ UNCHANGED <<up, faults>>
      BY <2>3 DEF ReserveExact
    <3>2. q \in [Blobs -> PartState] /\ \A c \in Blobs : q[c].written <= q[c].content
      BY <1>0, <2>0 DEF UpTypes, PartState
    <3> HIDE DEF q
    <3>3. part' \in [Blobs -> PartState] /\ \A c \in Blobs : part'[c].written <= part'[c].content
      BY <3>1, <3>2 DEF PartState
    <3> QED BY <1>0, <3>1, <3>3 DEF UpTypes
  <2>4. CASE ReserveEmpty(u, b)
    BY <1>0, <2>0, <2>4 DEF ReserveEmpty, UpTypes, PartState
  <2>5. CASE WriteUnit(u, b)
    BY <1>0, <2>0, <2>5 DEF WriteUnit, UpTypes, PartState
  <2>6. CASE CommitFile(u, b)
    <3>1. (SetStep(b, "failed") \/ SetStep(b, "renamed")) /\ UNCHANGED <<up, faults>>
      BY <2>6 DEF CommitFile
    <3> QED BY <1>0, <3>1, SetStepTypes
  <2>7. CASE StageFails(u, b)
    <3>1. SetStep(b, "failed") /\ UNCHANGED up /\ (UNCHANGED faults \/ Fault("io"))
      BY <2>7 DEF StageFails
    <3> QED BY <1>0, <3>1, SetStepTypes, FaultTypes
  <2>8. CASE AbortDelete(u, b)
    <3>1. /\ SetStep(b, "deleted") \/ SetStep(b, "undeleted")
          /\ UNCHANGED up /\ (UNCHANGED faults \/ Fault("io"))
      BY <2>8 DEF AbortDelete
    <3> QED BY <1>0, <3>1, SetStepTypes, FaultTypes
  <2> QED BY <1>3, <2>1, <2>2, <2>3, <2>4, <2>5, <2>6, <2>7, <2>8 DEF StagingOf
<1>4. CASE FinishStaging(u) \/ StartAbort(u)
  BY <1>0, <1>4 DEF FinishStaging, StartAbort, UpTypes, UpState
<1>5. CASE AbortRelease(u)
  <2> DEFINE deleted == {b \in up[u].blobs : part[b].step = "deleted"}
  <2>1. /\ UNCHANGED faults \/ Fault("db")
        /\ \/ Return(u)
           \/ /\ up' = [up EXCEPT ![u].pc = "enqueue", ![u].blobs = @ \ deleted]
              /\ part' = [b \in Blobs |-> IF b \in deleted THEN NoPart ELSE part[b]]
           \/ up' = [up EXCEPT ![u].pc = "enqueue"] /\ UNCHANGED part
    BY <1>5 DEF AbortRelease
  <2> HIDE DEF deleted
  <2>2. faults' \in Nat
    BY <1>0, <2>1, FaultTypes
  <2>3. CASE /\ up' = [up EXCEPT ![u].pc = "enqueue", ![u].blobs = @ \ deleted]
             /\ part' = [b \in Blobs |-> IF b \in deleted THEN NoPart ELSE part[b]]
    <3>1. up' \in [Uploaders -> UpState]
      BY <1>0, <2>3 DEF UpTypes, UpState
    <3>2. NoPart \in PartState /\ NoPart.written <= NoPart.content
      BY LifecycleAssumption DEF NoPart, PartState
    <3> QED BY <1>0, <2>2, <2>3, <3>1, <3>2 DEF UpTypes
  <2>4. CASE up' = [up EXCEPT ![u].pc = "enqueue"] /\ UNCHANGED part
    BY <1>0, <2>2, <2>4 DEF UpTypes, UpState
  <2> QED BY <1>0, <2>1, <2>2, <2>3, <2>4, ReturnTypes
<1>6. CASE AbortEnqueue(u) \/ PublishLeaseLost(u) \/ ConfirmPublishOutcome(u) \/ UploaderCrashes(u)
  <2>1. Return(u) /\ (UNCHANGED faults \/ Fault("db") \/ Fault("crash"))
    BY <1>6 DEF AbortEnqueue, PublishLeaseLost, ConfirmPublishOutcome, UploaderCrashes
  <2> QED BY <1>0, <2>1, ReturnTypes, FaultTypes
<1>7. CASE PublishCommits(u) \/ PublishRollsBack(u)
  <2>1. /\ UNCHANGED faults \/ Fault("ambiguous") \/ Fault("db")
        /\ Return(u) \/ (up' = [up EXCEPT ![u].pc = "confirm"] /\ UNCHANGED part)
    BY <1>7 DEF PublishCommits, PublishRollsBack
  <2>2. CASE up' = [up EXCEPT ![u].pc = "confirm"] /\ UNCHANGED part
    BY <1>0, <2>1, <2>2, FaultTypes DEF UpTypes, UpState
  <2> QED BY <1>0, <2>1, <2>2, ReturnTypes, FaultTypes
<1>8. CASE HeartbeatRenews(u)
  BY <1>0, <1>8 DEF HeartbeatRenews, upVars, UpTypes
<1>9. CASE HeartbeatFails(u)
  <2>1. /\ UNCHANGED faults \/ Fault("db")
        /\ up' = [up EXCEPT ![u].hb = "failed"] /\ UNCHANGED part
    BY <1>9 DEF HeartbeatFails
  <2> QED BY <1>0, <2>1, FaultTypes DEF UpTypes, UpState
<1>10. CASE ClientDisconnects(u)
  <2>1. Fault("disconnect") /\ up' = [up EXCEPT ![u].gone = TRUE] /\ UNCHANGED part
    BY <1>10 DEF ClientDisconnects
  <2> QED BY <1>0, <2>1, FaultTypes DEF UpTypes, UpState
<1> QED
  BY <1>2, <1>3, <1>4, <1>5, <1>6, <1>7, <1>8, <1>9, <1>10, UploaderStep(u)
     DEF UploaderStep, RequestStep

\* The state a request shares with the others: metadata and files.
MetaTypes ==
    /\ objects \in [Keys -> Blobs \cup {NoBlob}]
    /\ bin \in [Blobs -> Keys \cup {NoKey}]

FileTypes ==
    /\ stagingFile \in [Blobs -> Nat \cup {Absent}]
    /\ objectFile \in [Blobs -> Nat \cup {Absent}]

WkTypes ==
    /\ wk \in [Workers -> WkState]
    /\ \A w \in Workers : wk[w].pc # "idle" => wk[w].blob \in Blobs

\* Every step of a request keeps the types of files and metadata and leaves the
\* workers alone.
LEMMA UploaderSharedTypes ==
    ASSUME LifecycleInv, NEW u \in Uploaders, UploaderStep(u)
    PROVE  MetaTypes' /\ FileTypes' /\ UNCHANGED wk
<1>0. MetaTypes /\ FileTypes /\ up[u] \in UpState
  BY DEF LifecycleInv, LifecycleTypes, MetaTypes, FileTypes
<1>1. CASE Starts(u)
  <2>1. UNCHANGED <<metaVars, fileVars, wk>>
    BY <1>1 DEF Starts, Start
  <2> QED BY <1>0, <2>1 DEF metaVars, fileVars, MetaTypes, FileTypes
<1>2. ASSUME NEW b \in Blobs, StagingOf(u, b) PROVE MetaTypes' /\ FileTypes' /\ UNCHANGED wk
  <2>1. UNCHANGED <<metaVars, wk>>
    BY <1>2 DEF StagingOf, OpenFile, ReserveRounded, ReserveExact, ReserveEmpty, WriteUnit,
                EndOfFile, CommitFile, StageFails, AbortDelete
  <2>2. MetaTypes' /\ UNCHANGED wk
    BY <1>0, <2>1 DEF metaVars, MetaTypes
  <2>3. CASE UNCHANGED fileVars
    BY <1>0, <2>2, <2>3 DEF fileVars, FileTypes
  <2>4. CASE OpenFile(u, b)
    BY <1>0, <2>2, <2>4 DEF OpenFile, FileTypes
  <2>5. CASE WriteUnit(u, b)
    BY <1>0, <2>2, <2>5 DEF WriteUnit, FileTypes
  <2>6. CASE CommitFile(u, b)
    BY <1>0, <2>2, <2>6, <2>3 DEF CommitFile, FileTypes
  <2>7. CASE StageFails(u, b)
    <3>1. /\ \E x \in {Absent, stagingFile[b]} : stagingFile' = [stagingFile EXCEPT ![b] = x]
          /\ UNCHANGED objectFile
      BY <2>7 DEF StageFails
    <3> QED BY <1>0, <2>2, <3>1 DEF FileTypes
  <2>8. CASE AbortDelete(u, b)
    <3>1. /\ \E x \in {Absent, stagingFile[b]} : stagingFile' = [stagingFile EXCEPT ![b] = x]
          /\ \E x \in {Absent, objectFile[b]} : objectFile' = [objectFile EXCEPT ![b] = x]
      BY <2>8 DEF AbortDelete
    <3> QED BY <1>0, <2>2, <3>1 DEF FileTypes
  <2> QED BY <1>2, <2>3, <2>4, <2>5, <2>6, <2>7, <2>8
          DEF StagingOf, ReserveRounded, ReserveExact, ReserveEmpty, EndOfFile
<1>3. CASE PublishCommits(u)
  <2>1. PICK target \in Targets(up[u].blobs) : objects' = [k \in Keys |->
            IF \E b \in up[u].blobs : target[b] = k
            THEN CHOOSE b \in up[u].blobs : target[b] = k
            ELSE objects[k]]
    BY <1>3 DEF PublishCommits
  <2>2. UNCHANGED <<bin, fileVars, wk>>
    BY <1>3 DEF PublishCommits
  <2>3. ASSUME NEW k \in Keys PROVE objects'[k] \in Blobs \cup {NoBlob}
    <3>1. CASE \E b \in up[u].blobs : target[b] = k
      <4>1. objects'[k] = CHOOSE b \in up[u].blobs : target[b] = k
        BY <2>1, <3>1
      <4>2. objects'[k] \in up[u].blobs
        BY <3>1, <4>1
      <4> QED BY <1>0, <4>2 DEF UpState
    <3>2. CASE ~ \E b \in up[u].blobs : target[b] = k
      BY <1>0, <2>1, <3>2 DEF MetaTypes
    <3> QED BY <3>1, <3>2
  <2>4. objects' \in [Keys -> Blobs \cup {NoBlob}]
    BY <2>1, <2>3
  <2> QED BY <1>0, <2>2, <2>4 DEF fileVars, MetaTypes, FileTypes
<1>4. CASE \/ FinishStaging(u) \/ StartAbort(u) \/ AbortRelease(u) \/ AbortEnqueue(u)
           \/ PublishLeaseLost(u) \/ PublishRollsBack(u) \/ ConfirmPublishOutcome(u)
           \/ HeartbeatRenews(u) \/ HeartbeatFails(u) \/ ClientDisconnects(u)
           \/ UploaderCrashes(u)
  <2>1. UNCHANGED <<metaVars, fileVars, wk>>
    BY <1>4 DEF FinishStaging, StartAbort, AbortRelease, AbortEnqueue, PublishLeaseLost,
                PublishRollsBack, ConfirmPublishOutcome, HeartbeatRenews, HeartbeatFails,
                ClientDisconnects, UploaderCrashes
  <2> QED BY <1>0, <2>1 DEF metaVars, fileVars, MetaTypes, FileTypes
<1> QED BY <1>1, <1>2, <1>3, <1>4 DEF UploaderStep, RequestStep

\* Moving an object into, out of and through the recycle bin keeps the types.
LEMMA MetadataTypes ==
    ASSUME LifecycleInv, MetadataStep
    PROVE  MetaTypes' /\ UNCHANGED <<fileVars, upVars, wk, faults>>
<1>0. MetaTypes
  BY DEF LifecycleInv, LifecycleTypes, MetaTypes
<1>1. ASSUME NEW k \in Keys, DeleteObject(k)
      PROVE  MetaTypes' /\ UNCHANGED <<fileVars, upVars, wk, faults>>
  BY <1>0, <1>1 DEF DeleteObject, MetaTypes
<1>2. ASSUME NEW b \in Blobs, RestoreObject(b)
      PROVE  MetaTypes' /\ UNCHANGED <<fileVars, upVars, wk, faults>>
  BY <1>0, <1>2 DEF RestoreObject, MetaTypes
<1>3. ASSUME NEW b \in Blobs, PurgeObject(b)
      PROVE  MetaTypes' /\ UNCHANGED <<fileVars, upVars, wk, faults>>
  BY <1>0, <1>3 DEF PurgeObject, MetaTypes
<1> QED BY <1>1, <1>2, <1>3 DEF MetadataStep

\* A worker's steps keep its own types and those of the files, and touch nothing
\* else but the ledger.
LEMMA WorkerTypes ==
    ASSUME LifecycleInv, NEW w \in Workers,
           WorkerStep(w) \/ WorkerRenewsLease(w) \/ WorkerCrashes(w)
    PROVE  WkTypes' /\ FileTypes' /\ faults' \in Nat /\ UNCHANGED <<metaVars, upVars>>
<1>0. /\ WkTypes /\ FileTypes /\ faults \in Nat /\ row \in [Blobs -> Row]
      /\ wk[w] \in WkState /\ (wk[w].pc # "idle" => wk[w].blob \in Blobs)
  BY DEF LifecycleInv, LifecycleTypes, LedgerInv, LedgerTypeOK, WkTypes, FileTypes
<1>1. IdleWk \in WkState /\ IdleWk.pc = "idle"
  BY DEF IdleWk, WkState
<1>2. ASSUME wk' = [wk EXCEPT ![w] = IdleWk] PROVE WkTypes'
  BY <1>0, <1>1, <1>2 DEF WkTypes
<1>3. ASSUME UNCHANGED fileVars PROVE FileTypes'
  BY <1>0, <1>3 DEF fileVars, FileTypes
<1>4. ASSUME NEW b \in Blobs, Claim(w, b)
      PROVE  WkTypes' /\ FileTypes' /\ faults' \in Nat /\ UNCHANGED <<metaVars, upVars>>
  <2>1. wk' = [wk EXCEPT ![w] = [pc |-> "claimed", blob |-> b, staging |-> FALSE, err |-> FALSE]]
    BY <1>4 DEF Claim
  <2>2. WkTypes'
    BY <1>0, <2>1 DEF WkTypes, WkState
  <2> QED BY <1>0, <1>3, <1>4, <2>2 DEF Claim
<1>5. CASE LoadClaimedJob(w)
  <2> DEFINE b == wk[w].blob
  <2>0. b \in Blobs /\ row[b].staging \in BOOLEAN
    BY <1>0, <1>5 DEF LoadClaimedJob, Row
  <2>1. /\ \/ wk' = [wk EXCEPT ![w] = IdleWk]
           \/ wk' = [wk EXCEPT ![w].pc = "staging", ![w].staging = row[b].staging]
        /\ UNCHANGED <<metaVars, fileVars, upVars, faults>>
    BY <1>5 DEF LoadClaimedJob
  <2> HIDE DEF b
  <2>2. CASE wk' = [wk EXCEPT ![w].pc = "staging", ![w].staging = row[b].staging]
    <3>1. wk[w].blob \in Blobs
      BY <2>0 DEF b
    <3>2. WkTypes'
      BY <1>0, <2>0, <2>2, <3>1 DEF WkTypes, WkState
    <3> QED BY <1>0, <1>3, <2>1, <3>2
  <2> QED BY <1>0, <1>2, <1>3, <2>1, <2>2
<1>6. ASSUME NEW pc \in {"storage", "finish"}, wk[w].pc # "idle",
             \/ wk' = [wk EXCEPT ![w].pc = pc]
             \/ wk' = [wk EXCEPT ![w].pc = pc, ![w].err = TRUE]
      PROVE  WkTypes'
  BY <1>0, <1>6 DEF WkTypes, WkState
<1>7. CASE WorkerDeletesStaging(w)
  <2>1. /\ wk[w].pc # "idle" /\ wk[w].blob \in Blobs
        /\ \/ wk' = [wk EXCEPT ![w].pc = "storage"]
           \/ wk' = [wk EXCEPT ![w].pc = "storage", ![w].err = TRUE]
        /\ UNCHANGED faults \/ Fault("io")
        /\ UNCHANGED <<metaVars, objectFile, upVars>>
        /\ \/ UNCHANGED stagingFile
           \/ \E x \in {Absent, stagingFile[wk[w].blob]} :
                 stagingFile' = [stagingFile EXCEPT ![wk[w].blob] = x]
    BY <1>0, <1>7 DEF WorkerDeletesStaging
  <2>2. FileTypes'
    BY <1>0, <2>1 DEF FileTypes
  <2> QED BY <1>0, <1>6, <2>1, <2>2, FaultTypes
<1>8. CASE WorkerDeletesStorage(w)
  <2>1. /\ wk[w].pc # "idle" /\ wk[w].blob \in Blobs
        /\ \/ wk' = [wk EXCEPT ![w].pc = "finish"]
           \/ wk' = [wk EXCEPT ![w].pc = "finish", ![w].err = TRUE]
        /\ UNCHANGED faults \/ Fault("io")
        /\ UNCHANGED <<metaVars, stagingFile, upVars>>
        /\ UNCHANGED objectFile \/ objectFile' = [objectFile EXCEPT ![wk[w].blob] = Absent]
    BY <1>0, <1>8 DEF WorkerDeletesStorage
  <2>2. FileTypes'
    BY <1>0, <2>1 DEF FileTypes
  <2> QED BY <1>0, <1>6, <2>1, <2>2, FaultTypes
<1>9. CASE FinishJob(w) \/ WorkerCrashes(w)
  <2>1. /\ wk' = [wk EXCEPT ![w] = IdleWk] /\ UNCHANGED <<metaVars, fileVars, upVars>>
        /\ UNCHANGED faults \/ Fault("crash") \/ Fault("db")
    BY <1>9 DEF FinishJob, WorkerCrashes
  <2> QED BY <1>0, <1>2, <1>3, <2>1, FaultTypes
<1>10. CASE WorkerRenewsLease(w)
  BY <1>0, <1>3, <1>10 DEF WorkerRenewsLease, WkTypes
<1> QED BY <1>4, <1>5, <1>7, <1>8, <1>9, <1>10 DEF WorkerStep

\* Time, the quota and the expiry of uploads change the ledger and the faults
\* only.
LEMMA EnvironmentTypes ==
    ASSUME LifecycleInv, Environment \/ EnqueueExpiredStaging
    PROVE  faults' \in Nat /\ UNCHANGED <<metaVars, fileVars, upVars, wk>>
<1>0. faults \in Nat
  BY DEF LifecycleInv, LifecycleTypes
<1>1. UNCHANGED faults \/ Fault("stall")
  BY DEF Environment, EnqueueExpiredStaging, UploadLeaseExpires, ClaimLeaseExpires, RetryDue, SetQuota
<1>2. UNCHANGED <<metaVars, fileVars, upVars, wk>>
  BY DEF Environment, EnqueueExpiredStaging, UploadLeaseExpires, ClaimLeaseExpires, RetryDue, SetQuota
<1> QED BY <1>0, <1>1, <1>2, FaultTypes

-----------------------------------------------------------------------------
(* The induction *)

\* LifecycleTypes is its four parts.
LEMMA TypesParts ==
    LifecycleTypes <=> MetaTypes /\ FileTypes /\ UpTypes /\ WkTypes /\ faults \in Nat
BY DEF LifecycleTypes, MetaTypes, FileTypes, UpTypes, WkTypes

\* The same after a step.
LEMMA TypesPartsPrime ==
    MetaTypes' /\ FileTypes' /\ UpTypes' /\ WkTypes' /\ faults' \in Nat => LifecycleTypes'
BY DEF LifecycleTypes, MetaTypes, FileTypes, UpTypes, WkTypes

\* The invariant holds initially.
LEMMA LifecycleInit == Init => LifecycleInv
<1> SUFFICES ASSUME Init PROVE LifecycleInv
  OBVIOUS
<1>1. LedgerInv
  BY InitInv DEF Init
<1>2. IdleUp \in UpState /\ NoPart \in PartState /\ NoPart.written <= NoPart.content
  BY LifecycleAssumption DEF IdleUp, UpState, NoPart, PartState
<1>3. IdleWk \in WkState /\ IdleWk.pc = "idle"
  BY DEF IdleWk, WkState
<1>4. LifecycleTypes
  BY <1>2, <1>3, LifecycleAssumption DEF Init, LifecycleTypes
<1> QED BY <1>1, <1>4 DEF LifecycleInv

\* Every step preserves the invariant: the ledger part through the refinement,
\* the types through the lemmas above.
LEMMA LifecycleStep == LifecycleInv /\ [Next]_vars => LifecycleInv'
<1> SUFFICES ASSUME LifecycleInv, [Next]_vars PROVE LifecycleInv'
  OBVIOUS
<1>0. MetaTypes /\ FileTypes /\ UpTypes /\ WkTypes /\ faults \in Nat
  BY TypesParts DEF LifecycleInv
<1>1. ASSUME UNCHANGED metaVars PROVE MetaTypes'
  BY <1>0, <1>1 DEF metaVars, MetaTypes
<1>2. ASSUME UNCHANGED fileVars PROVE FileTypes'
  BY <1>0, <1>2 DEF fileVars, FileTypes
<1>3. ASSUME UNCHANGED upVars PROVE UpTypes'
  BY <1>0, <1>3 DEF upVars, UpTypes
<1>4. ASSUME UNCHANGED wk PROVE WkTypes'
  BY <1>0, <1>4 DEF WkTypes
<1>5. CASE \E u \in Uploaders : UploaderStep(u)
  BY <1>4, <1>5, UploaderTypes, UploaderSharedTypes, TypesPartsPrime, StepLedger, NextInv DEF LifecycleInv
<1>6. CASE MetadataStep
  BY <1>0, <1>2, <1>3, <1>4, <1>6, MetadataTypes, TypesPartsPrime, StepLedger, NextInv DEF LifecycleInv
<1>7. CASE Environment \/ EnqueueExpiredStaging
  BY <1>1, <1>2, <1>3, <1>4, <1>7, EnvironmentTypes, TypesPartsPrime, StepLedger, NextInv DEF LifecycleInv
<1>8. CASE \E w \in Workers : WorkerStep(w) \/ WorkerRenewsLease(w) \/ WorkerCrashes(w)
  BY <1>1, <1>3, <1>8, WorkerTypes, TypesPartsPrime, StepLedger, NextInv DEF LifecycleInv
<1>9. CASE UNCHANGED vars
  <2>1. UNCHANGED <<metaVars, fileVars, upVars, wk, faults>>
    BY <1>9 DEF vars
  <2> QED BY <1>0, <1>1, <1>2, <1>3, <1>4, <2>1, TypesPartsPrime, StepLedger, NextInv DEF LifecycleInv
<1> QED BY <1>5, <1>6, <1>7, <1>8, <1>9 DEF Next

\* The invariant of the refinement holds in every reachable state.
THEOREM LifecycleInvariant == Spec => []LifecycleInv
BY LifecycleInit, LifecycleStep, PTL DEF Spec

\* Types: no request writes past the end of its content, and a worker at work
\* always holds a blob.
THEOREM LifecycleTypeOK == Spec => []TypeOK
<1>1. LifecycleInv => TypeOK
  BY DEF LifecycleInv, LedgerInv, TypeOK
<1> QED BY <1>1, LifecycleInvariant, PTL

\* The lifecycle implements the ledger: whatever requests, workers, crashes and
\* time do, the tables change only by whole ledger transactions.
THEOREM LifecycleImplementsLedger == Spec => LedgerSpec
<1>1. Init => LedgerInit
  BY DEF Init
<1>2. LifecycleInv /\ [Next]_vars => [LedgerNext]_ledgerVars
  BY StepLedger
<1> QED BY <1>1, <1>2, LifecycleInvariant, PTL DEF Spec, LedgerSpec

\* So the ledger's theorems hold of the whole backend: the counters are those
\* of the rows at every moment of every upload, overwrite, deletion and crash.
THEOREM LifecycleBalanced == Spec => []LedgerBalanced
BY LifecycleImplementsLedger, LedgerAlwaysBalanced, PTL

\* And no race of a publication with the cleanup brings a blob back.
THEOREM LifecycleNoResurrection == Spec => NoResurrection
BY LifecycleImplementsLedger, LedgerNoResurrection, PTL

-----------------------------------------------------------------------------
(* No data is lost.  The invariant says who may still touch a blob: a      *)
(* request owns the blobs it staged; cleanup jobs, and the workers that    *)
(* took them, are only about doomed blobs, which no publication can make   *)
(* active any more; and the metadata names exactly the active ones.        *)

\* The rows a lifecycle creates: no orphans, one reference while active, none
\* otherwise, a lease while staging.
RowFacts ==
    \A b \in Blobs :
        /\ row[b].status # "orphaned"
        /\ row[b].refs = IF row[b].status = "active" THEN 1 ELSE 0
        /\ row[b].status = "staging" <=> row[b].lease # "none"

\* A blob belongs to one request, which got its id from the ledger.
Ownership ==
    /\ \A u, v \in Uploaders : \A b \in Blobs : b \in up[u].blobs /\ b \in up[v].blobs => u = v
    /\ \A u \in Uploaders : \A b \in up[u].blobs : b <= issued
    /\ \A u \in Uploaders : up[u].pc = "idle" => up[u].blobs = {}

\* Nothing can save the blob any more.
Doomed(b) ==
    /\ b <= issued
    /\ \/ row[b].status \in {"none", "pending_delete"}
       \/ row[b].status = "staging" /\ job[b].queued /\ ~Uploading(b)

\* Cleanup jobs and workers are only ever about doomed blobs.
CleanupDoomed ==
    /\ \A b \in Blobs : job[b].queued => Doomed(b)
    /\ \A w \in Workers : \A b \in Blobs : wk[w].pc # "idle" /\ wk[w].blob = b => Doomed(b)

\* The metadata names exactly the active blobs, each once.
MetaMatches ==
    /\ \A k \in Keys : objects[k] # NoBlob => row[objects[k]].status = "active" /\ bin[objects[k]] = NoKey
    /\ \A b \in Blobs : bin[b] # NoKey => row[b].status = "active"
    /\ \A b \in Blobs : row[b].status = "active" => InObjects(b) \/ InBin(b)
    /\ \A k, l \in Keys : objects[k] = objects[l] /\ objects[k] # NoBlob => k = l

\* How far the upload of blob b by u is, against its row and its files.
PartSound(u, b) ==
    /\ up[u].pc # "confirm" => row[b].status # "active"
    /\ up[u].pc = "staged" /\ ~up[u].gone => part[b].step = "renamed"
    /\ row[b].status = "staging" =>
          /\ part[b].step \in {"writing", "exact", "flushed"} => stagingFile[b] = part[b].written
          /\ part[b].step = "renamed" => objectFile[b] = part[b].written /\ stagingFile[b] = Absent
    /\ up[u].pc = "staging" =>
          /\ part[b].step = "queued" => part[b].written = 0
          /\ stagingFile[b] <= part[b].written
          /\ up[u].mode = "stream" => part[b].written <= part[b].granted
          /\ row[b].status # "none" =>
                IF up[u].mode = "stream" THEN part[b].granted <= row[b].size
                                         ELSE part[b].content <= row[b].size

UploadsSound == \A u \in Uploaders : \A b \in up[u].blobs : PartSound(u, b)

\* Files: none before the id is issued, the complete one while active.
FilesSound ==
    \A b \in Blobs :
        /\ b > issued => stagingFile[b] = Absent /\ objectFile[b] = Absent
        /\ row[b].status = "active" => stagingFile[b] = Absent /\ objectFile[b] = row[b].size

-----------------------------------------------------------------------------
(* Requests and their blobs *)

\* No request gains a blob, and one that returns keeps none.
Shrinks ==
    /\ issued' = issued
    /\ \A v \in Uploaders : up'[v].blobs \subseteq up[v].blobs
    /\ \A v \in Uploaders : up'[v].pc = "idle" => up'[v].blobs = {}

\* A request that does not start gains no blob.
LEMMA RequestShrinks ==
    ASSUME LifecycleInv, Ownership, NEW u \in Uploaders, UploaderStep(u), ~Starts(u)
    PROVE  Shrinks
<1>0. up \in [Uploaders -> UpState] /\ up[u] \in UpState
  BY DEF LifecycleInv, LifecycleTypes
<1>1. ASSUME UNCHANGED <<up, issued>> PROVE Shrinks
  BY <1>1 DEF Shrinks, Ownership
<1>2. ASSUME UNCHANGED issued, \A v \in Uploaders \ {u} : up'[v] = up[v],
             up'[u].blobs \subseteq up[u].blobs, up'[u].pc = "idle" => up'[u].blobs = {}
      PROVE  Shrinks
  BY <1>2 DEF Shrinks, Ownership
<1>3. ASSUME UNCHANGED issued, Return(u) PROVE Shrinks
  BY <1>0, <1>2, <1>3 DEF Return, IdleUp
<1>4. ASSUME NEW b \in Blobs, StagingOf(u, b) PROVE UNCHANGED <<up, issued>>
  BY <1>4 DEF StagingOf, OpenFile, ReserveRounded, ReserveExact, ReserveEmpty, WriteUnit,
              EndOfFile, CommitFile, StageFails, AbortDelete, Reserve, ledgerVars
<1>5. CASE FinishStaging(u) \/ StartAbort(u) \/ PublishRollsBack(u)
  BY <1>0, <1>2, <1>5 DEF FinishStaging, StartAbort, PublishRollsBack, UpState, ledgerVars
<1>6. CASE HeartbeatFails(u) \/ ClientDisconnects(u)
  BY <1>0, <1>2, <1>6 DEF HeartbeatFails, ClientDisconnects, UpState, Ownership, ledgerVars
<1>7. CASE HeartbeatRenews(u)
  BY <1>1, <1>7 DEF HeartbeatRenews, RenewStagingLease, upVars
<1>8. CASE AbortRelease(u)
  <2> DEFINE deleted == {b \in up[u].blobs : part[b].step = "deleted"}
  <2>1. UNCHANGED issued
    BY <1>8 DEF AbortRelease, ReleaseStagingBatch, ledgerVars
  <2>2. \/ Return(u)
        \/ up' = [up EXCEPT ![u].pc = "enqueue", ![u].blobs = @ \ deleted]
        \/ up' = [up EXCEPT ![u].pc = "enqueue"]
    BY <1>8 DEF AbortRelease
  <2> HIDE DEF deleted
  <2> QED BY <1>0, <1>2, <1>3, <2>1, <2>2 DEF UpState
<1>9. CASE AbortEnqueue(u)
  BY <1>3, <1>9 DEF AbortEnqueue, EnqueueCleanupBatch, ledgerVars
<1>10. CASE PublishCommits(u)
  <2>1. UNCHANGED issued
    BY <1>10 DEF PublishCommits, PublishLedger
  <2>2. Return(u) \/ up' = [up EXCEPT ![u].pc = "confirm"]
    BY <1>10 DEF PublishCommits
  <2> QED BY <1>0, <1>2, <1>3, <2>1, <2>2 DEF UpState
<1>11. CASE PublishLeaseLost(u) \/ UploaderCrashes(u)
  BY <1>3, <1>11 DEF PublishLeaseLost, UploaderCrashes, ledgerVars
<1>12. CASE ConfirmPublishOutcome(u)
  BY <1>3, <1>12 DEF ConfirmPublishOutcome, Seal, ledgerVars
<1> QED
  BY <1>1, <1>4, <1>5, <1>6, <1>7, <1>8, <1>9, <1>10, <1>11, <1>12 DEF UploaderStep, RequestStep

\* Neither does any other step.
LEMMA OthersShrink ==
    ASSUME LifecycleInv, Ownership,
           \/ MetadataStep \/ EnqueueExpiredStaging \/ Environment \/ UNCHANGED vars
           \/ \E w \in Workers : WorkerStep(w) \/ WorkerRenewsLease(w) \/ WorkerCrashes(w)
    PROVE  Shrinks /\ UNCHANGED upVars
<1>1. UNCHANGED upVars
  <2>1. CASE UNCHANGED vars
    BY <2>1 DEF vars
  <2> QED BY <2>1, MetadataTypes, EnvironmentTypes, WorkerTypes
<1>2. UNCHANGED issued
  <2>1. CASE UNCHANGED vars
    BY <2>1 DEF vars, ledgerVars
  <2>2. CASE MetadataStep
    BY <2>2 DEF MetadataStep, DeleteObject, RestoreObject, PurgeObject, PublishLedger, ledgerVars
  <2>3. CASE EnqueueExpiredStaging \/ Environment
    BY <2>3 DEF EnqueueExpiredStaging, ExpireStagingForCleanup, Seal, Environment, SetQuota,
        UpdateMaxBytes, UploadLeaseExpires, StagingLeaseExpires, ClaimLeaseExpires, JobLeaseExpires,
        RetryDue, BackoffElapses
  <2>4. CASE \E w \in Workers : WorkerStep(w) \/ WorkerRenewsLease(w) \/ WorkerCrashes(w)
    BY <2>4 DEF WorkerStep, WorkerRenewsLease, WorkerCrashes, Claim, ClaimCleanupJob,
        LoadClaimedJob, FailCleanupJob, RenewCleanupJobLease, WorkerDeletesStaging,
        WorkerDeletesStorage, FinishJob, CompleteCleanupJob, ledgerVars
  <2> QED BY <2>1, <2>2, <2>3, <2>4
<1> QED BY <1>1, <1>2 DEF Shrinks, Ownership, upVars

\* The blobs of a new request are those the ledger just created.
LEMMA StartEffect ==
    ASSUME LifecycleInv, Ownership, NEW u \in Uploaders, Starts(u)
    PROVE  \E n \in Nat \ {0} :
             /\ issued' = issued + n /\ issued' <= NumBlobs
             /\ NextBlobs(n) \subseteq Blobs
             /\ \A v \in Uploaders \ {u} : up'[v] = up[v]
             /\ up[u].blobs = {} /\ up'[u].blobs = NextBlobs(n)
             /\ up'[u].pc = "staging" /\ ~up'[u].gone /\ up'[u].hb = "on"
<1>0. up \in [Uploaders -> UpState] /\ issued \in Nat /\ NumBlobs \in Nat
  BY LedgerAssumption DEF LifecycleInv, LifecycleTypes, LedgerInv, LedgerTypeOK
<1>1. PICK n \in Nat \ {0} : \E mode, content : Start(u, mode, n, content)
  <2>1. 1 \in Nat \ {0} /\ \A n \in 1..MaxBatch : n \in Nat \ {0}
    BY LifecycleAssumption
  <2>2. CASE \E content \in [NextBlobs(1) -> 0..MaxContent] : Start(u, "stream", 1, content)
    BY <2>1, <2>2
  <2>3. CASE \E n \in 1..MaxBatch : \E content \in [NextBlobs(n) -> 0..MaxContent] :
                Start(u, "known", n, content)
    BY <2>1, <2>3
  <2> QED BY <2>2, <2>3 DEF Starts
<1>2. issued' = issued + n /\ issued' <= NumBlobs
  BY <1>1 DEF Start, CreateStagingBatch
<1>3. NextBlobs(n) \subseteq Blobs
  BY <1>0, <1>2 DEF NextBlobs, Blobs
<1>4. /\ \A v \in Uploaders \ {u} : up'[v] = up[v]
      /\ up[u].blobs = {} /\ up'[u].blobs = NextBlobs(n)
      /\ up'[u].pc = "staging" /\ ~up'[u].gone /\ up'[u].hb = "on"
  BY <1>0, <1>1 DEF Start, Ownership
<1> QED BY <1>2, <1>3, <1>4

\* Ownership is kept, and a blob that nobody uploads stays so once its id is issued.
LEMMA OwnershipStep ==
    ASSUME LifecycleInv, Ownership, [Next]_vars
    PROVE  /\ Ownership' /\ issued <= issued'
           /\ \A b \in Blobs : b <= issued /\ ~Uploading(b) => ~Uploading(b)'
<1>0. /\ up \in [Uploaders -> UpState] /\ issued \in Nat /\ NumBlobs \in Nat
      /\ \A v \in Uploaders : up[v].blobs \subseteq Blobs
  BY LedgerAssumption DEF LifecycleInv, LifecycleTypes, LedgerInv, LedgerTypeOK, UpState
<1>1. CASE Shrinks
  BY <1>0, <1>1 DEF Shrinks, Ownership, Uploading
<1>2. ASSUME NEW u \in Uploaders, Starts(u)
      PROVE  /\ Ownership' /\ issued <= issued'
             /\ \A b \in Blobs : b <= issued /\ ~Uploading(b) => ~Uploading(b)'
  <2>1. PICK n \in Nat \ {0} :
             /\ issued' = issued + n /\ issued' <= NumBlobs
             /\ \A v \in Uploaders \ {u} : up'[v] = up[v]
             /\ up'[u].blobs = NextBlobs(n)
             /\ up'[u].pc = "staging"
    BY <1>2, StartEffect
  <2>2. \A b \in Blobs : b \in NextBlobs(n) => b > issued /\ b <= issued'
    BY <1>0, <2>1 DEF NextBlobs, Blobs
  <2>3. NextBlobs(n) \subseteq Blobs
    BY <1>0, <2>1 DEF NextBlobs, Blobs
  <2>4. \A b \in Blobs : b <= issued => b <= issued' /\ ~(b > issued)
    BY <1>0, <2>1 DEF Blobs
  <2>5. Ownership'
    BY <1>0, <2>1, <2>2, <2>3, <2>4 DEF Ownership
  <2>6. \A b \in Blobs : b <= issued /\ ~Uploading(b) => ~Uploading(b)'
    BY <2>1, <2>2, <2>4 DEF Uploading
  <2> QED BY <1>0, <2>1, <2>5, <2>6
<1> QED BY <1>1, <1>2, RequestShrinks, OthersShrink DEF Next
-----------------------------------------------------------------------------
(* Rows *)

\* What a step of the lifecycle may do to the row of one blob.
Created(b) ==
    /\ issued < b /\ b <= issued'
    /\ row[b].status = "none"
    /\ row'[b].status = "staging" /\ row'[b].refs = 0 /\ row'[b].lease = "valid"

Held(b) ==
    /\ row[b].status = "staging" /\ row'[b].status = "staging"
    /\ row'[b].refs = row[b].refs /\ row'[b].lease # "none" /\ row'[b].size >= row[b].size
    /\ row'[b].lease \in {row[b].lease, "valid"} \/ UploadLeaseExpires(b)

Sealed(b) ==
    /\ row[b].status = "staging" /\ row'[b] = SealedRow(row[b]) /\ job'[b].queued
    /\ row[b].lease # "valid" \/ ~Uploading(b)'

Publishing == (\E u \in Uploaders : PublishCommits(u)) \/ \E b \in Blobs : PurgeObject(b)

Published(b) ==
    /\ row[b].status = "staging" /\ row'[b] = ActivatedRow(part[b].written)
    /\ \E u \in Uploaders : b \in up[u].blobs /\ PublishCommits(u)

Released(b) ==
    /\ row[b].status = "active" /\ row'[b] = ReleasedRow(row[b]) /\ job'[b].queued
    /\ Publishing

Dropped(b) ==
    /\ row[b].status # "active" /\ row'[b] = NoRow /\ job'[b] = NoJob
    /\ \/ \E u \in Uploaders : /\ b \in up[u].blobs /\ part[b].step = "deleted"
                               /\ AbortRelease(u) /\ ~Uploading(b)'
       \/ \E w \in Workers : /\ wk[w].pc = "finish" /\ wk[w].blob = b /\ ~wk[w].err
                             /\ FinishJob(w) /\ job[b].queued

RowMove(b) ==
    \/ row'[b] = row[b]
    \/ Created(b) \/ Held(b) \/ Sealed(b) \/ Published(b) \/ Released(b) \/ Dropped(b)

\* A released row of one reference gets a job.
LEMMA ReleaseMove ==
    ASSUME LedgerTypeOK, RowFacts, NEW A \in SUBSET Blobs, NEW size, NEW R \in SUBSET Blobs,
           PublishLedger(A, size, R), Publishing, NEW b \in Blobs, b \notin A
    PROVE  IF b \in R THEN Released(b) ELSE row'[b] = row[b]
<1>1. CASE b \in R
  <2>1. row[b].status = "active" /\ row[b].refs = 1
    BY <1>1 DEF PublishLedger, CanRelease, RowFacts
  <2>2. row'[b] = ReleasedRow(row[b]) /\ job'[b] = FreshJob
    BY <1>1, <2>1 DEF PublishLedger, ReleasedJob
  <2> QED BY <1>1, <2>1, <2>2 DEF Released, FreshJob
<1>2. CASE b \notin R
  BY <1>2 DEF PublishLedger
<1> QED BY <1>1, <1>2

\* Sealing queues a job for every row it seals.
LEMMA SealMove ==
    ASSUME NEW B \in SUBSET Blobs, Seal(B), NEW b \in Blobs,
           b \in B => row[b].status = "staging" /\ (row[b].lease # "valid" \/ ~Uploading(b)')
    PROVE  RowMove(b)
<1>1. CASE b \in B
  <2>1. row'[b] = SealedRow(row[b]) /\ job'[b] = EnqueuedJob(job[b])
    BY <1>1 DEF Seal
  <2>2. job'[b].queued
    BY <2>1 DEF EnqueuedJob, FreshJob
  <2> QED BY <1>1, <2>1, <2>2 DEF RowMove, Sealed
<1>2. CASE b \notin B
  BY <1>2 DEF Seal, RowMove
<1> QED BY <1>1, <1>2

\* The reservations of a stream grow a staging row.
LEMMA ReserveMove ==
    ASSUME LifecycleInv, RowFacts, NEW u \in Uploaders, NEW c \in Blobs,
           ReserveRounded(u, c) \/ ReserveExact(u, c) \/ ReserveEmpty(u, c)
    PROVE  \E n \in Nat : /\ row[c].status = "staging"
                          /\ row' = [row EXCEPT ![c].size = @ + n]
                          /\ UNCHANGED job
<1>0. /\ row \in [Blobs -> Row]
      /\ part[c].written \in Nat /\ part[c].granted \in Nat /\ Chunk \in Nat
  BY LifecycleAssumption DEF LifecycleInv, LedgerInv, LedgerTypeOK, LifecycleTypes, PartState
<1>1. ASSUME NEW n \in Nat, Reserve(c, n)
      PROVE  row[c].status = "staging" /\ row' = [row EXCEPT ![c].size = @ + n] /\ UNCHANGED job
  BY <1>1 DEF Reserve, CanReserve
<1>2. CASE ReserveExact(u, c) \/ ReserveEmpty(u, c)
  BY <1>1, <1>2 DEF ReserveExact, ReserveEmpty
<1>3. CASE ReserveRounded(u, c)
  <2> DEFINE delta == RoundUp(part[c].written + 1) - part[c].granted
  <2>1. part[c].written = part[c].granted /\ row[c].status = "staging"
    BY <1>3 DEF ReserveRounded, NeedsGrant
  <2>2. delta \in Nat
    BY <1>0, <2>1, RoundUpStep
  <2>3. Reserve(c, delta) \/ UNCHANGED ledgerVars
    BY <1>3 DEF ReserveRounded
  <2> HIDE DEF delta
  <2>4. CASE UNCHANGED ledgerVars
    <3>1. row' = [row EXCEPT ![c].size = @ + 0] /\ UNCHANGED job
      BY <1>0, <2>4 DEF ledgerVars, Row
    <3> QED BY <2>1, <3>1
  <2> QED BY <1>1, <2>2, <2>3, <2>4
<1> QED BY <1>2, <1>3

\* Nobody uploads the blobs of a request that has returned.
LEMMA ReturnedBlob ==
    ASSUME up \in [Uploaders -> UpState], Ownership, NEW u \in Uploaders, Return(u),
           NEW b \in Blobs, b \in up[u].blobs
    PROVE  ~Uploading(b)'
BY DEF Uploading, Return, IdleUp, Ownership

\* The rows under the steps of a request.
LEMMA UploaderRowMoves ==
    ASSUME LifecycleInv, Ownership, RowFacts, NEW u \in Uploaders, UploaderStep(u), NEW b \in Blobs
    PROVE  RowMove(b)
<1>0. /\ row \in [Blobs -> Row] /\ up[u].blobs \in SUBSET Blobs /\ LedgerTypeOK /\ row[b] \in Row
      /\ issued \in Nat /\ up \in [Uploaders -> UpState]
  BY DEF LifecycleInv, LedgerInv, LedgerTypeOK, LifecycleTypes, UpState
<1>1. ASSUME NEW mode, NEW n \in Nat, NEW content, Start(u, mode, n, content) PROVE RowMove(b)
  <2>1. CASE b \in NextBlobs(n)
    <3>1. issued < b /\ b <= issued' /\ row[b].status = "none"
      BY <1>0, <1>1, <2>1 DEF Start, CreateStagingBatch, NextBlobs, LifecycleInv, LedgerInv, RowShape
    <3>2. \E s : row'[b] = StagingRow(s)
      BY <1>1, <2>1 DEF Start, CreateStagingBatch
    <3> QED BY <3>1, <3>2 DEF RowMove, Created, StagingRow
  <2>2. CASE b \notin NextBlobs(n)
    BY <1>1, <2>2 DEF Start, CreateStagingBatch, RowMove
  <2> QED BY <2>1, <2>2
<1>2. CASE Starts(u)
  <2>1. 1 \in Nat /\ \A n \in 1..MaxBatch : n \in Nat
    BY LifecycleAssumption
  <2> QED BY <1>1, <1>2, <2>1 DEF Starts
<1>3. ASSUME NEW c \in Blobs, ReserveRounded(u, c) \/ ReserveExact(u, c) \/ ReserveEmpty(u, c)
      PROVE  RowMove(b)
  <2>1. PICK n \in Nat : row[c].status = "staging" /\ row' = [row EXCEPT ![c].size = @ + n]
    BY <1>3, ReserveMove
  <2>2. CASE b = c
    <3>1. /\ row'[b].status = row[b].status /\ row'[b].refs = row[b].refs
          /\ row'[b].lease = row[b].lease /\ row'[b].size = row[b].size + n
      BY <1>0, <2>1, <2>2 DEF Row
    <3>2. row[b].lease # "none" /\ row[b].size \in Nat
      BY <1>0, <2>1, <2>2 DEF RowFacts, Row
    <3> QED BY <2>1, <2>2, <3>1, <3>2 DEF RowMove, Held
  <2>3. CASE b # c
    BY <1>0, <2>1, <2>3 DEF RowMove
  <2> QED BY <2>2, <2>3
<1>4. CASE HeartbeatRenews(u)
  <2>1. CASE b \in up[u].blobs
    <3>1. row[b].status = "staging" /\ row'[b] = [row[b] EXCEPT !.lease = "valid"]
      BY <1>4, <2>1 DEF HeartbeatRenews, RenewStagingLease, CanRenewStaging
    <3>2. /\ row'[b].status = "staging" /\ row'[b].refs = row[b].refs /\ row'[b].lease = "valid"
          /\ row'[b].size = row[b].size /\ row[b].size \in Nat
      BY <1>0, <3>1 DEF Row
    <3> QED BY <3>1, <3>2 DEF RowMove, Held
  <2>2. CASE b \notin up[u].blobs
    BY <1>4, <2>2 DEF HeartbeatRenews, RenewStagingLease, RowMove
  <2> QED BY <2>1, <2>2
<1>5. CASE AbortRelease(u)
  <2> DEFINE deleted == {c \in up[u].blobs : part[c].step = "deleted"}
  <2>1. \/ /\ ReleaseStagingBatch(deleted)
           /\ Return(u) \/ up' = [up EXCEPT ![u].pc = "enqueue", ![u].blobs = @ \ deleted]
        \/ UNCHANGED row
    BY <1>5 DEF AbortRelease, ledgerVars
  <2>2. b \in deleted => b \in up[u].blobs /\ part[b].step = "deleted"
    OBVIOUS
  <2> HIDE DEF deleted
  <2>3. CASE /\ ReleaseStagingBatch(deleted)
             /\ Return(u) \/ up' = [up EXCEPT ![u].pc = "enqueue", ![u].blobs = @ \ deleted]
    <3>1. b \in deleted => row[b].status \in {"none", "staging"}
      BY <2>3 DEF ReleaseStagingBatch, CanReleaseStaging, Found
    <3>2. b \in deleted => ~Uploading(b)'
      <4>1. CASE Return(u)
        BY <1>0, <2>2, <4>1, ReturnedBlob
      <4>2. CASE up' = [up EXCEPT ![u].pc = "enqueue", ![u].blobs = @ \ deleted]
        BY <1>0, <2>2, <4>2 DEF Uploading, Ownership, UpState
      <4> QED BY <2>3, <4>1, <4>2
    <3>3. CASE b \in deleted
      <4>1. row'[b] = NoRow /\ job'[b] = NoJob
        BY <2>3, <3>3 DEF ReleaseStagingBatch
      <4> QED BY <1>5, <2>2, <3>1, <3>2, <3>3, <4>1 DEF RowMove, Dropped
    <3> QED BY <2>3, <3>3 DEF ReleaseStagingBatch, RowMove
  <2> QED BY <2>1, <2>3 DEF RowMove
<1>6. CASE PublishCommits(u)
  <2> DEFINE A == up[u].blobs
  <2>1. PICK target \in Targets(A) : PublishLedger(A, StagedSize(A), Replaced(target))
    BY <1>6 DEF PublishCommits
  <2>2. Replaced(target) \in SUBSET Blobs
    BY DEF Replaced, Targets, LifecycleInv, LifecycleTypes
  <2> Publishing
    BY <1>6 DEF Publishing
  <2>3. CASE b \in A
    <3>1. row[b].status = "staging" /\ row'[b] = ActivatedRow(part[b].written)
      BY <2>1, <2>3 DEF PublishLedger, CanActivate, StagedSize
    <3> QED BY <1>6, <2>3, <3>1 DEF RowMove, Published
  <2>4. CASE b \notin A
    BY <1>0, <2>1, <2>2, <2>4, ReleaseMove DEF RowMove
  <2> QED BY <2>3, <2>4
<1>7. CASE ConfirmPublishOutcome(u)
  <2>1. \/ (\A c \in up[u].blobs : row[c].status = "staging") /\ Seal(up[u].blobs)
        \/ UNCHANGED row
    BY <1>7 DEF ConfirmPublishOutcome, LooksRolledBack, ledgerVars
  <2>2. b \in up[u].blobs => ~Uploading(b)'
    BY <1>0, <1>7, ReturnedBlob DEF ConfirmPublishOutcome
  <2> QED BY <1>0, <2>1, <2>2, SealMove DEF RowMove
<1>8. CASE \/ AbortEnqueue(u) \/ FinishStaging(u) \/ StartAbort(u) \/ PublishLeaseLost(u)
           \/ PublishRollsBack(u) \/ HeartbeatFails(u) \/ ClientDisconnects(u) \/ UploaderCrashes(u)
  <2>1. UNCHANGED row
    BY <1>8 DEF AbortEnqueue, EnqueueCleanupBatch, FinishStaging, StartAbort, PublishLeaseLost,
                PublishRollsBack, HeartbeatFails, ClientDisconnects, UploaderCrashes, ledgerVars
  <2> QED BY <2>1 DEF RowMove
<1>9. ASSUME NEW c \in Blobs, StagingOf(u, c) PROVE RowMove(b)
  <2>1. CASE \/ OpenFile(u, c) \/ WriteUnit(u, c) \/ EndOfFile(u, c) \/ CommitFile(u, c)
             \/ StageFails(u, c) \/ AbortDelete(u, c)
    <3>1. UNCHANGED row
      BY <2>1 DEF OpenFile, WriteUnit, EndOfFile, CommitFile, StageFails, AbortDelete, ledgerVars
    <3> QED BY <3>1 DEF RowMove
  <2> QED BY <1>3, <1>9, <2>1 DEF StagingOf
<1> QED BY <1>2, <1>4, <1>5, <1>6, <1>7, <1>8, <1>9 DEF UploaderStep, RequestStep

\* The rows under every step.
LEMMA RowMoves ==
    ASSUME LifecycleInv, Ownership, RowFacts, [Next]_vars, NEW b \in Blobs
    PROVE  RowMove(b)
<1>0. row \in [Blobs -> Row] /\ LedgerTypeOK /\ row[b] \in Row
  BY DEF LifecycleInv, LedgerInv, LedgerTypeOK
<1>1. CASE MetadataStep
  <2>1. ASSUME NEW c \in Blobs, PurgeObject(c) PROVE RowMove(b)
    <3>1. PublishLedger({}, StagedSize({}), {c})
      BY <2>1 DEF PurgeObject
    <3>2. {} \in SUBSET Blobs /\ {c} \in SUBSET Blobs /\ b \notin {}
      OBVIOUS
    <3> Publishing
      BY <2>1 DEF Publishing
    <3> QED BY <1>0, <3>1, <3>2, ReleaseMove DEF RowMove
  <2>2. CASE \/ \E k \in Keys : DeleteObject(k)
             \/ \E c \in Blobs : RestoreObject(c)
    BY <2>2 DEF DeleteObject, RestoreObject, ledgerVars, RowMove
  <2> QED BY <1>1, <2>1, <2>2 DEF MetadataStep
<1>2. CASE EnqueueExpiredStaging
  <2> DEFINE B == {c \in Blobs : Expirable(row[c])}
  <2>1. /\ Seal(B) /\ B \in SUBSET Blobs
        /\ \A c \in B : row[c].status = "staging" /\ row[c].lease # "valid"
    BY <1>2 DEF EnqueueExpiredStaging, ExpireStagingForCleanup, Expirable
  <2> HIDE DEF B
  <2> QED BY <2>1, SealMove
<1>3. CASE Environment
  <2>1. ASSUME NEW c \in Blobs, UploadLeaseExpires(c) PROVE RowMove(b)
    <3>1. row[c].lease = "valid" /\ row' = [row EXCEPT ![c].lease = "expired"]
      BY <2>1 DEF UploadLeaseExpires, StagingLeaseExpires
    <3>2. row[c].status = "staging"
      BY <3>1 DEF RowFacts
    <3>3. CASE b = c
      <4>1. /\ row'[b].status = row[b].status /\ row'[b].refs = row[b].refs
            /\ row'[b].lease = "expired" /\ row'[b].size = row[b].size /\ row[b].size \in Nat
        BY <1>0, <3>1, <3>3 DEF Row
      <4> QED BY <2>1, <3>2, <3>3, <4>1 DEF RowMove, Held
    <3> QED BY <1>0, <3>1, <3>3 DEF RowMove
  <2>2. CASE \/ \E c \in Blobs : ClaimLeaseExpires(c) \/ RetryDue(c)
             \/ \E m \in QuotaSettings : SetQuota(m)
    BY <2>2 DEF ClaimLeaseExpires, JobLeaseExpires, RetryDue, BackoffElapses, SetQuota,
                UpdateMaxBytes, RowMove
  <2> QED BY <1>3, <2>1, <2>2 DEF Environment
<1>4. ASSUME NEW w \in Workers, WorkerStep(w) \/ WorkerRenewsLease(w) \/ WorkerCrashes(w)
      PROVE  RowMove(b)
  <2>1. CASE FinishJob(w)
    <3> DEFINE c == wk[w].blob
    <3>0. c \in Blobs
      BY <2>1 DEF FinishJob, LifecycleInv, LifecycleTypes
    <3>1. (CompleteCleanupJob(c, w) /\ wk[w].pc = "finish" /\ ~wk[w].err) \/ UNCHANGED row
      BY <2>1 DEF FinishJob, FailCleanupJob, ledgerVars
    <3>2. wk[w].blob = c
      OBVIOUS
    <3> HIDE DEF c
    <3>3. CASE CompleteCleanupJob(c, w) /\ wk[w].pc = "finish" /\ ~wk[w].err
      <4>1. /\ row[c].status # "active" /\ job[c].queued
            /\ row' = [row EXCEPT ![c] = NoRow] /\ job' = [job EXCEPT ![c] = NoJob]
        BY <3>3 DEF CompleteCleanupJob, CanComplete, Referenced, Owns
      <4>2. CASE b = c
        <5>1. row'[b] = NoRow /\ job'[b] = NoJob
          BY <1>0, <4>1, <4>2 DEF LedgerTypeOK
        <5> QED BY <2>1, <3>2, <3>3, <4>1, <4>2, <5>1 DEF RowMove, Dropped
      <4>3. CASE b # c
        BY <1>0, <4>1, <4>3 DEF RowMove
      <4> QED BY <4>2, <4>3
    <3> QED BY <3>1, <3>3 DEF RowMove
  <2>2. CASE ~FinishJob(w)
    <3>1. UNCHANGED row
      BY <1>4, <2>2 DEF WorkerStep, WorkerRenewsLease, WorkerCrashes, Claim, ClaimCleanupJob,
          LoadClaimedJob, FailCleanupJob, RenewCleanupJobLease, WorkerDeletesStaging,
          WorkerDeletesStorage, ledgerVars
    <3> QED BY <3>1 DEF RowMove
  <2> QED BY <2>1, <2>2
<1>5. CASE UNCHANGED vars
  BY <1>5 DEF vars, ledgerVars, RowMove
<1> QED BY <1>1, <1>2, <1>3, <1>4, <1>5, UploaderRowMoves DEF Next

\* The facts about rows follow from the moves.
LEMMA RowFactsStep ==
    ASSUME LifecycleInv, Ownership, RowFacts, [Next]_vars
    PROVE  RowFacts'
<1> SUFFICES ASSUME NEW b \in Blobs
             PROVE  /\ row'[b].status # "orphaned"
                    /\ row'[b].refs = IF row'[b].status = "active" THEN 1 ELSE 0
                    /\ row'[b].status = "staging" <=> row'[b].lease # "none"
  BY DEF RowFacts
<1>0. row[b] \in Row /\ LedgerInv
  BY DEF LifecycleInv, LedgerInv, LedgerTypeOK
<1>1. /\ row[b].status # "orphaned"
      /\ row[b].refs = IF row[b].status = "active" THEN 1 ELSE 0
      /\ row[b].status = "staging" <=> row[b].lease # "none"
  BY DEF RowFacts
<1>2. RowMove(b)
  BY RowMoves
<1>3. CASE row'[b] = row[b] \/ Created(b) \/ Held(b) \/ Dropped(b)
  BY <1>1, <1>3 DEF Created, Held, Dropped, NoRow
<1>4. CASE Sealed(b)
  BY <1>0, <1>1, <1>4 DEF Sealed, SealedRow, Row
<1>5. CASE Published(b)
  BY <1>5 DEF Published, ActivatedRow
<1>6. CASE Released(b)
  <2>1. row'[b].refs = 0 /\ row'[b].status = "pending_delete" /\ row'[b].lease = row[b].lease
    BY <1>0, <1>1, <1>6 DEF Released, ReleasedRow, Row
  <2> QED BY <1>1, <1>6, <2>1 DEF Released
<1> QED BY <1>2, <1>3, <1>4, <1>5, <1>6 DEF RowMove
-----------------------------------------------------------------------------
(* Cleanup jobs and workers *)

\* What a step may do to the job of one blob.
JobMove(b) ==
    \/ job'[b].queued = job[b].queued
    \/ Doomed(b)'
    \/ ~job'[b].queued /\ row'[b].status = "none"

\* A row that has been sealed or released is doomed.
LEMMA PendingDoomed ==
    ASSUME LifecycleInv', NEW b \in Blobs, row'[b].status = "pending_delete"
    PROVE  Doomed(b)'
<1>1. issued' \in Nat /\ ~(b > issued')
  BY DEF LifecycleInv, LedgerInv, LedgerTypeOK, RowShape
<1>2. b <= issued'
  BY <1>1 DEF Blobs
<1> QED BY <1>2 DEF Doomed

\* Sealing queues jobs for blobs it dooms.
LEMMA SealJobs ==
    ASSUME LifecycleInv, LifecycleInv', NEW B \in SUBSET Blobs, Seal(B), NEW b \in Blobs
    PROVE  JobMove(b)
<1>1. CASE b \in B
  <2>1. row'[b] = SealedRow(row[b]) /\ row[b] \in Row
    BY <1>1 DEF Seal, LifecycleInv, LedgerInv, LedgerTypeOK
  <2>2. row'[b].status = "pending_delete"
    BY <2>1 DEF SealedRow, Row
  <2> QED BY <2>2, PendingDoomed DEF JobMove
<1>2. CASE b \notin B
  BY <1>2 DEF Seal, JobMove
<1> QED BY <1>1, <1>2

\* So does the release of references.
LEMMA ReleaseJobs ==
    ASSUME LifecycleInv, LifecycleInv', RowFacts, NEW A \in SUBSET Blobs, NEW size,
           NEW R \in SUBSET Blobs, PublishLedger(A, size, R), Publishing, NEW b \in Blobs
    PROVE  JobMove(b)
<1>0. LedgerTypeOK /\ row[b] \in Row
  BY DEF LifecycleInv, LedgerInv, LedgerTypeOK
<1>1. CASE b \in R
  <2>1. row[b].status = "active" /\ row[b].refs = 1 /\ b \notin A
    BY <1>1 DEF PublishLedger, CanRelease, CanActivate, RowFacts
  <2>2. row'[b] = ReleasedRow(row[b])
    BY <1>0, <1>1, <2>1, ReleaseMove DEF Released
  <2>3. row'[b].status = "pending_delete"
    BY <1>0, <2>1, <2>2 DEF ReleasedRow, Row
  <2> QED BY <2>3, PendingDoomed DEF JobMove
<1>2. CASE b \notin R
  BY <1>2 DEF PublishLedger, JobMove
<1> QED BY <1>1, <1>2

\* An aborting request that gives up on its blobs no longer works on them.
LEMMA EnqueueJobs ==
    ASSUME LifecycleInv, Ownership, RowFacts, UploadsSound, NEW u \in Uploaders, AbortEnqueue(u),
           NEW b \in Blobs
    PROVE  JobMove(b)
<1>0. up \in [Uploaders -> UpState] /\ up[u].pc = "enqueue"
  BY DEF LifecycleInv, LifecycleTypes, AbortEnqueue
<1>1. CASE UNCHANGED job
  BY <1>1 DEF JobMove
<1>2. CASE EnqueueCleanupBatch(up[u].blobs) /\ b \notin up[u].blobs
  BY <1>2 DEF EnqueueCleanupBatch, JobMove
<1>3. CASE EnqueueCleanupBatch(up[u].blobs) /\ b \in up[u].blobs
  <2>1. job'[b].queued /\ row' = row /\ issued' = issued /\ row[b].status # "none"
    BY <1>3 DEF EnqueueCleanupBatch, CanEnqueue, EnqueuedJob, FreshJob
  <2>2. row[b].status \notin {"active", "orphaned"} /\ b <= issued /\ row[b] \in Row
    BY <1>0, <1>3 DEF UploadsSound, PartSound, RowFacts, Ownership, LifecycleInv, LedgerInv, LedgerTypeOK
  <2>3. ~Uploading(b)'
    BY <1>0, <1>3 DEF Uploading, AbortEnqueue, Return, IdleUp, Ownership
  <2> QED BY <2>1, <2>2, <2>3 DEF JobMove, Doomed, Row, Status
<1> QED BY <1>1, <1>2, <1>3 DEF AbortEnqueue, ledgerVars

\* The jobs under the steps of a request.
LEMMA UploaderJobMoves ==
    ASSUME LifecycleInv, LifecycleInv', Ownership, RowFacts, UploadsSound,
           NEW u \in Uploaders, UploaderStep(u), NEW b \in Blobs
    PROVE  JobMove(b)
<1>0. up[u].blobs \in SUBSET Blobs
  BY DEF LifecycleInv, LifecycleTypes, UpState
<1>1. ASSUME UNCHANGED job PROVE JobMove(b)
  BY <1>1 DEF JobMove
<1>2. CASE Starts(u) \/ HeartbeatRenews(u)
  BY <1>1, <1>2 DEF Starts, Start, CreateStagingBatch, HeartbeatRenews, RenewStagingLease
<1>3. ASSUME NEW c \in Blobs, StagingOf(u, c) PROVE JobMove(b)
  BY <1>1, <1>3 DEF StagingOf, OpenFile, ReserveRounded, ReserveExact, ReserveEmpty, WriteUnit,
              EndOfFile, CommitFile, StageFails, AbortDelete, Reserve, ledgerVars
<1>4. CASE AbortRelease(u)
  <2> DEFINE deleted == {c \in up[u].blobs : part[c].step = "deleted"}
  <2>1. ReleaseStagingBatch(deleted) \/ UNCHANGED job
    BY <1>4 DEF AbortRelease, ledgerVars
  <2> HIDE DEF deleted
  <2>2. CASE ReleaseStagingBatch(deleted)
    BY <2>2 DEF ReleaseStagingBatch, JobMove, NoRow, NoJob
  <2> QED BY <1>1, <2>1, <2>2
<1>5. CASE AbortEnqueue(u)
  BY <1>5, EnqueueJobs
<1>6. CASE PublishCommits(u)
  <2> DEFINE A == up[u].blobs
  <2>1. PICK target \in Targets(A) : PublishLedger(A, StagedSize(A), Replaced(target))
    BY <1>6 DEF PublishCommits
  <2>2. Replaced(target) \in SUBSET Blobs
    BY DEF Replaced, Targets, LifecycleInv, LifecycleTypes
  <2> Publishing
    BY <1>6 DEF Publishing
  <2> HIDE DEF A
  <2> QED BY <1>0, <2>1, <2>2, ReleaseJobs DEF A
<1>7. CASE ConfirmPublishOutcome(u)
  <2>1. Seal(up[u].blobs) \/ UNCHANGED job
    BY <1>7 DEF ConfirmPublishOutcome, ledgerVars
  <2> QED BY <1>0, <1>1, <2>1, SealJobs
<1>8. CASE \/ FinishStaging(u) \/ StartAbort(u) \/ PublishLeaseLost(u)
           \/ PublishRollsBack(u) \/ HeartbeatFails(u) \/ ClientDisconnects(u) \/ UploaderCrashes(u)
  BY <1>1, <1>8 DEF FinishStaging, StartAbort, PublishLeaseLost,
                PublishRollsBack, HeartbeatFails, ClientDisconnects, UploaderCrashes, ledgerVars
<1> QED BY <1>2, <1>3, <1>4, <1>5, <1>6, <1>7, <1>8 DEF UploaderStep, RequestStep

\* The jobs under every step.
LEMMA JobMoves ==
    ASSUME LifecycleInv, LifecycleInv', Ownership, RowFacts, UploadsSound, [Next]_vars,
           NEW b \in Blobs
    PROVE  JobMove(b)
<1>0. job \in [Blobs -> Job] /\ row \in [Blobs -> Row]
  BY DEF LifecycleInv, LedgerInv, LedgerTypeOK
<1>1. ASSUME UNCHANGED job PROVE JobMove(b)
  BY <1>1 DEF JobMove
<1>2. CASE MetadataStep
  <2>1. ASSUME NEW c \in Blobs, PurgeObject(c) PROVE JobMove(b)
    <3>1. PublishLedger({}, StagedSize({}), {c})
      BY <2>1 DEF PurgeObject
    <3>2. {} \in SUBSET Blobs /\ {c} \in SUBSET Blobs
      OBVIOUS
    <3> Publishing
      BY <2>1 DEF Publishing
    <3> QED BY <3>1, <3>2, ReleaseJobs
  <2> QED BY <1>1, <1>2, <2>1 DEF MetadataStep, DeleteObject, RestoreObject, ledgerVars
<1>3. CASE EnqueueExpiredStaging
  <2> DEFINE B == {c \in Blobs : Expirable(row[c])}
  <2>1. Seal(B) /\ B \in SUBSET Blobs
    BY <1>3 DEF EnqueueExpiredStaging, ExpireStagingForCleanup
  <2> HIDE DEF B
  <2> QED BY <2>1, SealJobs
<1>4. CASE Environment
  <2>1. ASSUME NEW c \in Blobs, ClaimLeaseExpires(c) \/ RetryDue(c) PROVE JobMove(b)
    BY <1>0, <2>1 DEF ClaimLeaseExpires, JobLeaseExpires, RetryDue, BackoffElapses, JobMove, Job
  <2> QED BY <1>1, <1>4, <2>1
          DEF Environment, UploadLeaseExpires, StagingLeaseExpires, SetQuota, UpdateMaxBytes
<1>5. ASSUME NEW w \in Workers, WorkerStep(w) \/ WorkerRenewsLease(w) \/ WorkerCrashes(w)
      PROVE  JobMove(b)
  <2>1. ASSUME NEW c \in Blobs,
               ClaimCleanupJob(c, w) \/ RenewCleanupJobLease(c, w) \/ FailCleanupJob(c, w)
        PROVE  JobMove(b)
    BY <1>0, <2>1 DEF ClaimCleanupJob, RenewCleanupJobLease, FailCleanupJob, JobMove, Job
  <2>2. ASSUME NEW c \in Blobs, CompleteCleanupJob(c, w) PROVE JobMove(b)
    BY <1>0, <2>2 DEF CompleteCleanupJob, JobMove, NoJob, NoRow
  <2>3. wk[w].pc # "idle" => wk[w].blob \in Blobs
    BY DEF LifecycleInv, LifecycleTypes
  <2>4. ASSUME NEW c \in Blobs, Claim(w, c) PROVE JobMove(b)
    BY <2>1, <2>4 DEF Claim
  <2>5. CASE LoadClaimedJob(w)
    BY <1>1, <2>1, <2>3, <2>5 DEF LoadClaimedJob, ledgerVars
  <2>6. CASE FinishJob(w)
    BY <1>1, <2>1, <2>2, <2>3, <2>6 DEF FinishJob, ledgerVars
  <2>7. CASE WorkerRenewsLease(w)
    BY <2>1, <2>3, <2>7 DEF WorkerRenewsLease
  <2>8. CASE WorkerDeletesStaging(w) \/ WorkerDeletesStorage(w) \/ WorkerCrashes(w)
    BY <1>1, <2>8 DEF WorkerDeletesStaging, WorkerDeletesStorage, WorkerCrashes, ledgerVars
  <2> QED BY <1>5, <2>4, <2>5, <2>6, <2>7, <2>8 DEF WorkerStep
<1>6. CASE UNCHANGED vars
  BY <1>1, <1>6 DEF vars, ledgerVars
<1> QED BY <1>2, <1>3, <1>4, <1>5, <1>6, UploaderJobMoves DEF Next

\* A worker keeps its blob, or claims one that has a job.
LEMMA WorkerMoves ==
    ASSUME LifecycleInv, [Next]_vars, NEW w \in Workers, wk'[w].pc # "idle"
    PROVE  \/ wk[w].pc # "idle" /\ wk'[w].blob = wk[w].blob
           \/ wk'[w].blob \in Blobs /\ job[wk'[w].blob].queued
<1>0. wk \in [Workers -> WkState]
  BY DEF LifecycleInv, LifecycleTypes
<1>1. CASE UNCHANGED wk
  BY <1>1
<1>2. ASSUME NEW x \in Workers, WorkerStep(x) \/ WorkerRenewsLease(x) \/ WorkerCrashes(x)
      PROVE  \/ wk[w].pc # "idle" /\ wk'[w].blob = wk[w].blob
             \/ wk'[w].blob \in Blobs /\ job[wk'[w].blob].queued
  <2>1. ASSUME NEW c \in Blobs, Claim(x, c)
        PROVE  IF x = w THEN wk'[w].blob = c /\ job[c].queued ELSE wk'[w] = wk[w]
    BY <1>0, <2>1 DEF Claim, ClaimCleanupJob, Claimable
  <2>2. CASE LoadClaimedJob(x)
    BY <1>0, <2>2 DEF LoadClaimedJob, IdleWk, WkState
  <2>3. CASE WorkerDeletesStaging(x) \/ WorkerDeletesStorage(x)
    BY <1>0, <2>3 DEF WorkerDeletesStaging, WorkerDeletesStorage, WkState
  <2>4. CASE FinishJob(x) \/ WorkerCrashes(x) \/ WorkerRenewsLease(x)
    BY <1>0, <2>4 DEF FinishJob, WorkerCrashes, WorkerRenewsLease, IdleWk
  <2> QED BY <1>2, <2>1, <2>2, <2>3, <2>4 DEF WorkerStep
<1>3. CASE UNCHANGED vars
  BY <1>1, <1>3 DEF vars
<1> QED BY <1>1, <1>2, <1>3, UploaderSharedTypes, MetadataTypes, EnvironmentTypes DEF Next

\* Doom is final: a blob that nobody uploads, or whose row is sealed, released
\* or gone, is never published.
LEMMA DoomedStays ==
    ASSUME LifecycleInv, LifecycleInv', Ownership, RowFacts, UploadsSound, [Next]_vars,
           NEW b \in Blobs, Doomed(b)
    PROVE  Doomed(b)'
<1>0. /\ b <= issued /\ b <= issued' /\ ~(issued < b) /\ row[b] \in Row
  BY OwnershipStep DEF Doomed, LifecycleInv, LedgerInv, LedgerTypeOK, Blobs
<1>1. RowMove(b) /\ JobMove(b)
  BY RowMoves, JobMoves
<1>2. CASE row[b].status \in {"none", "pending_delete"}
  <2>1. row'[b] = row[b] \/ Dropped(b)
    BY <1>0, <1>1, <1>2 DEF RowMove, Created, Held, Sealed, Published, Released
  <2> QED BY <1>0, <1>2, <2>1 DEF Dropped, NoRow, Doomed
<1>3. CASE row[b].status = "staging" /\ job[b].queued /\ ~Uploading(b)
  <2>1. ~Uploading(b)'
    BY <1>0, <1>3, OwnershipStep
  <2>2. row'[b] = row[b] \/ Held(b) \/ Sealed(b) \/ Dropped(b)
    BY <1>0, <1>1, <1>3 DEF RowMove, Created, Published, Uploading, Released
  <2>3. CASE Sealed(b)
    BY <1>0, <2>3, PendingDoomed DEF Sealed, SealedRow, Row
  <2>4. CASE Dropped(b)
    BY <1>0, <2>4 DEF Dropped, NoRow, Doomed
  <2>5. CASE row'[b].status = "staging"
    <3>1. CASE job'[b].queued = job[b].queued
      <4>1. job'[b].queued
        BY <1>3, <3>1
      <4> QED BY <1>0, <2>1, <2>5, <4>1 DEF Doomed
    <3> QED BY <1>1, <2>5, <3>1 DEF JobMove
  <2> QED BY <1>3, <2>2, <2>3, <2>4, <2>5 DEF Held
<1> QED BY <1>2, <1>3 DEF Doomed

\* So jobs and workers stay with doomed blobs.
LEMMA CleanupDoomedStep ==
    ASSUME LifecycleInv, LifecycleInv', Ownership, RowFacts, UploadsSound, CleanupDoomed, [Next]_vars
    PROVE  CleanupDoomed'
<1>1. ASSUME NEW b \in Blobs, job'[b].queued PROVE Doomed(b)'
  <2>1. JobMove(b)
    BY JobMoves
  <2> QED BY <1>1, <2>1, DoomedStays DEF JobMove, CleanupDoomed
<1>2. ASSUME NEW w \in Workers, NEW b \in Blobs, wk'[w].pc # "idle", wk'[w].blob = b
      PROVE  Doomed(b)'
  <2>1. (wk[w].pc # "idle" /\ wk[w].blob = b) \/ job[b].queued
    BY <1>2, WorkerMoves
  <2> QED BY <2>1, DoomedStays DEF CleanupDoomed
<1> QED BY <1>1, <1>2 DEF CleanupDoomed
-----------------------------------------------------------------------------
(* Metadata *)

\* Only publications and the moves in and out of the recycle bin change the
\* metadata.
LEMMA MetaFrame ==
    ASSUME LifecycleInv, [Next]_vars, ~Publishing,
           ~ \E k \in Keys : DeleteObject(k), ~ \E b \in Blobs : RestoreObject(b)
    PROVE  UNCHANGED metaVars
<1>1. ASSUME NEW u \in Uploaders, NEW b \in Blobs, StagingOf(u, b) PROVE UNCHANGED metaVars
  BY <1>1 DEF StagingOf, OpenFile, ReserveRounded, ReserveExact, ReserveEmpty, WriteUnit,
              EndOfFile, CommitFile, StageFails, AbortDelete
<1>2. ASSUME NEW u \in Uploaders, UploaderStep(u) PROVE UNCHANGED metaVars
  <2>1. ~PublishCommits(u)
    BY DEF Publishing
  <2>2. CASE Starts(u)
    BY <2>2 DEF Starts, Start
  <2> QED BY <1>1, <1>2, <2>1, <2>2
        DEF UploaderStep, RequestStep, FinishStaging, StartAbort, AbortRelease, AbortEnqueue,
            PublishLeaseLost, PublishRollsBack, ConfirmPublishOutcome, HeartbeatRenews,
            HeartbeatFails, ClientDisconnects, UploaderCrashes
<1>3. CASE UNCHANGED vars
  BY <1>3 DEF vars
<1>4. ~MetadataStep
  BY DEF MetadataStep, Publishing
<1> QED BY <1>2, <1>3, <1>4, WorkerTypes, EnvironmentTypes DEF Next

\* Away from publications, no row becomes or stops being active.
LEMMA ActiveFrame ==
    ASSUME LifecycleInv, Ownership, RowFacts, [Next]_vars, ~Publishing, NEW b \in Blobs
    PROVE  /\ (row'[b].status = "active") <=> (row[b].status = "active")
           /\ row[b].status = "active" => row'[b] = row[b]
<1>0. row[b] \in Row
  BY DEF LifecycleInv, LedgerInv, LedgerTypeOK
<1>1. RowMove(b)
  BY RowMoves
<1>2. CASE Sealed(b)
  BY <1>0, <1>2 DEF Sealed, SealedRow, Row
<1> QED BY <1>1, <1>2 DEF RowMove, Created, Held, Published, Publishing, Released, Dropped, NoRow

\* Publishing a batch: its keys name its blobs, the replaced ones are named no more.
LEMMA PublishMeta ==
    ASSUME LifecycleInv, RowFacts, MetaMatches, NEW u \in Uploaders, PublishCommits(u)
    PROVE  MetaMatches'
<1> DEFINE A == up[u].blobs
<1>0. /\ A \in SUBSET Blobs /\ LedgerTypeOK /\ row \in [Blobs -> Row]
      /\ objects \in [Keys -> Blobs \cup {NoBlob}] /\ \A b \in Blobs : b # NoBlob
  BY DEF LifecycleInv, LedgerInv, LedgerTypeOK, LifecycleTypes, UpState, NoBlob, Blobs
<1>1. PICK target \in Targets(A) :
          /\ PublishLedger(A, StagedSize(A), Replaced(target))
          /\ objects' = [k \in Keys |-> IF \E b \in A : target[b] = k
                                        THEN CHOOSE b \in A : target[b] = k ELSE objects[k]]
  BY DEF PublishCommits
<1>2. bin' = bin /\ Publishing
  BY DEF PublishCommits, Publishing
<1> DEFINE R == Replaced(target)
<1>3. target \in [A -> Keys] /\ \A b, c \in A : target[b] = target[c] => b = c
  BY DEF Targets
<1>4. \A b \in Blobs : b \in R <=> \E c \in A : objects[target[c]] = b
  BY <1>0, <1>3 DEF Replaced
<1>5. R \in SUBSET Blobs
  BY <1>0, <1>3 DEF Replaced
<1>6. \A b \in A : row[b].status = "staging" /\ row'[b].status = "active"
  BY <1>0, <1>1 DEF PublishLedger, CanActivate, ActivatedRow
<1>7. \A b \in R : row[b].status = "active"
  BY <1>1 DEF PublishLedger, CanRelease
<1>8. \A b \in Blobs \ (A \cup R) : row'[b] = row[b]
  BY <1>1 DEF PublishLedger
<1>9. ASSUME NEW b \in R PROVE row'[b].status = "pending_delete"
  <2>1. b \in Blobs /\ row[b] \in Row /\ b \notin A /\ row[b].refs = 1
    BY <1>0, <1>5, <1>6, <1>7 DEF RowFacts
  <2>2. row'[b] = ReleasedRow(row[b])
    BY <1>0, <1>1, <1>2, <1>5, <2>1, ReleaseMove DEF Released
  <2> QED BY <2>1, <2>2 DEF ReleasedRow, Row
<1>10. ASSUME NEW b \in A PROVE target[b] \in Keys /\ objects'[target[b]] = b
  <2>1. \E c \in A : target[c] = target[b]
    OBVIOUS
  <2>2. (CHOOSE c \in A : target[c] = target[b]) = b
    BY <1>3, <2>1
  <2> QED BY <1>1, <1>3, <2>2
<1>11. ASSUME NEW k \in Keys
       PROVE  \/ \E b \in A : target[b] = k /\ objects'[k] = b
              \/ (\A b \in A : target[b] # k) /\ objects'[k] = objects[k]
  BY <1>1, <1>10
<1> HIDE DEF A, R
<1>12. ASSUME NEW k \in Keys, \A b \in A : target[b] # k, objects[k] # NoBlob
       PROVE  objects[k] \in Blobs \ (A \cup R) /\ row[objects[k]].status = "active"
  <2>1. objects[k] \in Blobs /\ row[objects[k]].status = "active"
    BY <1>0, <1>12 DEF MetaMatches
  <2>2. objects[k] \notin A
    BY <1>6, <2>1
  <2>3. ASSUME objects[k] \in R PROVE FALSE
    <3>1. PICK c \in A : objects[target[c]] = objects[k]
      BY <1>4, <2>1, <2>3
    <3>2. target[c] = k
      BY <1>3, <1>12, <3>1 DEF MetaMatches
    <3> QED BY <1>12, <3>2
  <2> QED BY <2>1, <2>2, <2>3
<1>13. \A k \in Keys : objects'[k] # NoBlob =>
              row'[objects'[k]].status = "active" /\ bin'[objects'[k]] = NoKey
  <2> SUFFICES ASSUME NEW k \in Keys, objects'[k] # NoBlob
               PROVE  row'[objects'[k]].status = "active" /\ bin[objects'[k]] = NoKey
    BY <1>2
  <2>1. CASE \E b \in A : target[b] = k /\ objects'[k] = b
    BY <1>0, <1>6, <2>1 DEF MetaMatches
  <2>2. CASE (\A b \in A : target[b] # k) /\ objects'[k] = objects[k]
    BY <1>8, <1>12, <2>2 DEF MetaMatches
  <2> QED BY <1>11, <2>1, <2>2
<1>14. \A b \in Blobs : bin'[b] # NoKey => row'[b].status = "active"
  <2> SUFFICES ASSUME NEW b \in Blobs, bin[b] # NoKey PROVE row'[b].status = "active"
    BY <1>2
  <2>1. row[b].status = "active"
    BY DEF MetaMatches
  <2>2. b \notin A
    BY <1>6, <2>1
  <2>3. b \notin R
    BY <1>0, <1>3, <1>4 DEF MetaMatches
  <2> QED BY <1>8, <2>1, <2>2, <2>3
<1>15. \A b \in Blobs : row'[b].status = "active" => InObjects(b)' \/ InBin(b)'
  <2> SUFFICES ASSUME NEW b \in Blobs, row'[b].status = "active", ~InBin(b)' PROVE InObjects(b)'
    OBVIOUS
  <2>1. CASE b \in A
    BY <1>10, <2>1 DEF InObjects
  <2>2. CASE b \notin A
    <3>1. b \notin R /\ row[b].status = "active" /\ ~InBin(b)
      BY <1>2, <1>8, <1>9, <2>2 DEF InBin
    <3>2. PICK k \in Keys : objects[k] = b
      BY <3>1 DEF MetaMatches, InObjects
    <3>3. \A c \in A : target[c] # k
      BY <1>4, <3>1, <3>2
    <3>4. objects'[k] = b
      BY <1>11, <3>2, <3>3
    <3> QED BY <3>4 DEF InObjects
  <2> QED BY <2>1, <2>2
<1>16. \A k, l \in Keys : objects'[k] = objects'[l] /\ objects'[k] # NoBlob => k = l
  <2> SUFFICES ASSUME NEW k \in Keys, NEW l \in Keys, objects'[k] = objects'[l], objects'[k] # NoBlob
               PROVE  k = l
    OBVIOUS
  <2>1. ASSUME NEW x \in Keys, NEW y \in Keys, objects'[x] = objects'[y], objects'[x] # NoBlob,
               NEW b \in A, target[b] = x, objects'[x] = b
        PROVE  x = y
    <3>1. CASE \E c \in A : target[c] = y /\ objects'[y] = c
      BY <2>1, <3>1
    <3>2. CASE (\A c \in A : target[c] # y) /\ objects'[y] = objects[y]
      BY <1>12, <2>1, <3>2
    <3> QED BY <1>11, <3>1, <3>2
  <2>2. CASE objects'[k] = objects[k] /\ objects'[l] = objects[l]
    BY <2>2 DEF MetaMatches
  <2> QED BY <1>11, <2>1, <2>2
<1> QED BY <1>13, <1>14, <1>15, <1>16 DEF MetaMatches

\* Metadata and active rows agree after every step.
LEMMA MetaMatchesStep ==
    ASSUME LifecycleInv, Ownership, RowFacts, MetaMatches, [Next]_vars
    PROVE  MetaMatches'
<1>0. /\ objects \in [Keys -> Blobs \cup {NoBlob}] /\ bin \in [Blobs -> Keys \cup {NoKey}]
      /\ NoKey \notin Keys /\ \A b \in Blobs : b # NoBlob
      /\ LedgerTypeOK /\ row \in [Blobs -> Row]
  BY LifecycleAssumption DEF LifecycleInv, LifecycleTypes, LedgerInv, LedgerTypeOK, NoBlob, Blobs
<1>1. ASSUME NEW u \in Uploaders, PublishCommits(u) PROVE MetaMatches'
  BY <1>1, PublishMeta
<1>2. ASSUME NEW b \in Blobs, PurgeObject(b) PROVE MetaMatches'
  <2>1. PublishLedger({}, StagedSize({}), {b}) /\ Publishing
    BY <1>2 DEF PurgeObject, Publishing
  <2>2. bin[b] # NoKey /\ bin' = [bin EXCEPT ![b] = NoKey] /\ objects' = objects
    BY <1>2 DEF PurgeObject
  <2>3. row[b].status = "active" /\ row[b].refs = 1 /\ row[b] \in Row
    BY <1>0, <2>2 DEF MetaMatches, RowFacts
  <2>4. \A c \in Blobs \ {b} : row'[c] = row[c]
    BY <2>1 DEF PublishLedger
  <2>5. row'[b] = ReleasedRow(row[b])
    BY <2>1 DEF PublishLedger
  <2>6. row'[b].status = "pending_delete"
    BY <2>3, <2>5 DEF ReleasedRow, Row
  <2>7. \A k \in Keys : objects[k] # b
    BY <1>0, <2>2 DEF MetaMatches
  <2> QED BY <1>0, <2>2, <2>4, <2>6, <2>7 DEF MetaMatches, InObjects, InBin
<1>3. ASSUME NEW k \in Keys, DeleteObject(k) PROVE MetaMatches'
  <2> DEFINE b == objects[k]
  <2>1. /\ b \in Blobs /\ row' = row /\ row[b].status = "active" /\ bin[b] = NoKey
        /\ bin' = [bin EXCEPT ![b] = k] /\ objects' = [objects EXCEPT ![k] = NoBlob]
    BY <1>0, <1>3 DEF DeleteObject, MetaMatches, ledgerVars
  <2>2. \A l \in Keys : objects'[l] = IF l = k THEN NoBlob ELSE objects[l]
    BY <1>0, <2>1
  <2>3. \A c \in Blobs : bin'[c] = IF c = b THEN k ELSE bin[c]
    BY <1>0, <2>1
  <2>4. \A l \in Keys : l # k => objects[l] # b
    BY <1>0, <2>1 DEF MetaMatches
  <2> QED BY <1>0, <2>1, <2>2, <2>3, <2>4 DEF MetaMatches, InObjects, InBin
<1>4. ASSUME NEW b \in Blobs, RestoreObject(b) PROVE MetaMatches'
  <2> DEFINE k == bin[b]
  <2>1. /\ k \in Keys /\ row' = row /\ row[b].status = "active" /\ objects[k] = NoBlob
        /\ objects' = [objects EXCEPT ![k] = b] /\ bin' = [bin EXCEPT ![b] = NoKey]
    BY <1>0, <1>4 DEF RestoreObject, MetaMatches, ledgerVars
  <2>2. \A l \in Keys : objects'[l] = IF l = k THEN b ELSE objects[l]
    BY <1>0, <2>1
  <2>3. \A c \in Blobs : bin'[c] = IF c = b THEN NoKey ELSE bin[c]
    BY <1>0, <2>1
  <2>4. \A l \in Keys : objects[l] # b
    BY <1>0, <2>1 DEF MetaMatches
  <2> HIDE DEF k
  <2> QED BY <1>0, <2>1, <2>2, <2>3, <2>4 DEF MetaMatches, InObjects, InBin
<1>5. CASE ~Publishing /\ (~ \E k \in Keys : DeleteObject(k)) /\ ~ \E b \in Blobs : RestoreObject(b)
  <2>1. UNCHANGED metaVars
    BY <1>5, MetaFrame
  <2>2. \A b \in Blobs : (row'[b].status = "active") <=> (row[b].status = "active")
    BY <1>5, ActiveFrame
  <2> QED BY <1>0, <2>1, <2>2 DEF MetaMatches, InObjects, InBin, metaVars
<1> QED BY <1>1, <1>2, <1>3, <1>4, <1>5 DEF Publishing
-----------------------------------------------------------------------------
(* Uploads *)

\* Whatever happens to the row of a blob, short of its publication, keeps its
\* upload sound.
LEMMA PartRow ==
    ASSUME LifecycleInv, LifecycleInv', Ownership,
           NEW u \in Uploaders, NEW b \in up[u].blobs, PartSound(u, b), RowMove(b),
           row'[b].status = "active" => row[b].status = "active",
           up'[u] = up[u], part'[b] = part[b],
           stagingFile'[b] = stagingFile[b], objectFile'[b] = objectFile[b]
    PROVE  PartSound(u, b)'
<1>0. /\ b \in Blobs /\ row[b] \in Row /\ row'[b] \in Row /\ part[b] \in PartState
      /\ b <= issued /\ ~(issued < b) /\ MaxContent \in Nat
  BY LifecycleAssumption
     DEF LifecycleInv, LedgerInv, LedgerTypeOK, LifecycleTypes, UpState, Ownership, Blobs
<1>1. /\ row'[b].status = "staging" => row[b].status = "staging"
      /\ row'[b].status # "none" => row[b].status # "none" /\ row[b].size <= row'[b].size
      /\ up[u].pc # "confirm" => row'[b].status # "active"
  <2>1. CASE row'[b] = row[b] \/ Held(b)
    BY <1>0, <2>1 DEF Held, PartSound, Row
  <2>2. CASE Sealed(b)
    BY <1>0, <2>2 DEF Sealed, SealedRow, Row
  <2>3. CASE Released(b)
    <3>1. row'[b].size = row[b].size /\ row'[b].status \in {"active", "pending_delete"}
      BY <1>0, <2>3 DEF Released, ReleasedRow, Row
    <3> QED BY <1>0, <2>3, <3>1 DEF Released, PartSound, Row
  <2>4. CASE Dropped(b)
    BY <2>4 DEF Dropped, NoRow
  <2>5. ~Created(b) /\ ~Published(b)
    BY <1>0 DEF Created, Published, ActivatedRow
  <2> QED BY <2>1, <2>2, <2>3, <2>4, <2>5 DEF RowMove
<1>2. PartSound(u, b)
  OBVIOUS
<1>3. row[b].size \in Nat /\ row'[b].size \in Nat /\ part[b].granted \in Nat /\ part[b].content \in Nat
  BY <1>0 DEF Row, PartState
<1> QED BY <1>1, <1>2, <1>3 DEF PartSound

\* What a step may do to the files of one blob.
FileMove(b) ==
    \/ stagingFile'[b] = stagingFile[b] /\ objectFile'[b] = objectFile[b]
    \/ /\ b <= issued /\ row[b].status # "active" /\ row'[b].status = row[b].status
       /\ row[b].status # "none" => stagingFile'[b] <= row'[b].size /\ objectFile'[b] <= row'[b].size

\* A step on one blob of one request.
LEMMA OnePart ==
    ASSUME LifecycleInv, LifecycleInv', Ownership, UploadsSound,
           NEW u \in Uploaders, NEW b \in up[u].blobs, UNCHANGED up,
           \A c \in Blobs \ {b} : /\ row'[c] = row[c] /\ part'[c] = part[c]
                                  /\ stagingFile'[c] = stagingFile[c] /\ objectFile'[c] = objectFile[c],
           PartSound(u, b)'
    PROVE  UploadsSound'
<1> SUFFICES ASSUME NEW v \in Uploaders, NEW c \in up[v].blobs PROVE PartSound(v, c)'
  BY DEF UploadsSound
<1>0. c \in Blobs /\ b \in Blobs
  BY DEF LifecycleInv, LifecycleTypes, UpState
<1>1. CASE c = b
  <2>1. v = u
    BY <1>0, <1>1 DEF Ownership
  <2> QED BY <1>1, <2>1
<1>2. CASE c # b
  <2>1. PartSound(v, c)
    BY DEF UploadsSound
  <2> QED BY <1>0, <1>2, <2>1, PartRow DEF RowMove
<1> QED BY <1>1, <1>2

\* What the invariants say of a blob of a request.
LEMMA OwnedBlob ==
    ASSUME LifecycleInv, Ownership, UploadsSound, NEW u \in Uploaders, NEW b \in up[u].blobs
    PROVE  /\ b \in Blobs /\ b <= issued /\ PartSound(u, b)
           /\ up[u].pc # "confirm" => row[b].status # "active"
           /\ row[b].size \in Nat /\ part[b].content \in Nat /\ part[b].written \in Nat
           /\ part[b].granted \in Nat /\ part[b].written <= part[b].content
           /\ stagingFile[b] \in Nat \cup {Absent} /\ objectFile[b] \in Nat \cup {Absent}
           /\ up[u].mode \in {"stream", "known"}
<1>1. b \in Blobs /\ up[u] \in UpState /\ PartSound(u, b) /\ b <= issued
  BY DEF LifecycleInv, LifecycleTypes, UpState, UploadsSound, Ownership
<1>2. part[b] \in PartState /\ row[b] \in Row
  BY <1>1 DEF LifecycleInv, LedgerInv, LedgerTypeOK, LifecycleTypes
<1>3. /\ MaxContent \in Nat /\ part[b].written <= part[b].content
      /\ stagingFile[b] \in Nat \cup {Absent} /\ objectFile[b] \in Nat \cup {Absent}
  BY <1>1, LifecycleAssumption DEF LifecycleInv, LifecycleTypes
<1> QED BY <1>1, <1>2, <1>3 DEF PartSound, UpState, PartState, Row

\* Opening, writing and completing the file of a blob.
LEMMA WritingSound ==
    ASSUME LifecycleInv, LifecycleInv', Ownership, UploadsSound, BytesCovered,
           NEW u \in Uploaders, NEW b \in Blobs,
           OpenFile(u, b) \/ WriteUnit(u, b) \/ EndOfFile(u, b)
    PROVE  UploadsSound' /\ \A c \in Blobs : FileMove(c)
<1>0. /\ b \in up[u].blobs /\ up[u].pc = "staging" /\ UNCHANGED <<row, up, objectFile>>
      /\ row[b].status # "active" /\ b <= issued
      /\ row[b].size \in Nat /\ part[b].content \in Nat /\ part[b].written \in Nat
      /\ part[b].granted \in Nat /\ part[b].written <= part[b].content
      /\ stagingFile[b] \in Nat \cup {Absent} /\ up[u].mode \in {"stream", "known"}
  <2>1. b \in up[u].blobs /\ up[u].pc = "staging" /\ UNCHANGED <<row, up, objectFile>>
    BY DEF OpenFile, WriteUnit, EndOfFile, At, ledgerVars, fileVars
  <2> QED BY <2>1, OwnedBlob
<1>1. PartSound(u, b)
  BY <1>0 DEF UploadsSound
<1>2. /\ part \in [Blobs -> PartState] /\ stagingFile \in [Blobs -> Nat \cup {Absent}]
  BY DEF LifecycleInv, LifecycleTypes
<1>3. \A c \in Blobs \ {b} : /\ part'[c] = part[c] /\ stagingFile'[c] = stagingFile[c]
  BY <1>2 DEF OpenFile, WriteUnit, EndOfFile, SetStep, fileVars
<1>4. PartSound(u, b)' /\ (row[b].status # "none" => stagingFile'[b] <= row[b].size)
  <2>1. CASE OpenFile(u, b)
    <3>1. /\ part[b].step = "queued" /\ part'[b].step = "writing"
          /\ part'[b].content = part[b].content /\ part'[b].written = part[b].written
          /\ part'[b].granted = part[b].granted /\ stagingFile'[b] = 0
      BY <1>2, <2>1 DEF OpenFile, SetStep, At, PartState
    <3> QED BY <1>0, <1>1, <3>1 DEF PartSound
  <2>2. CASE WriteUnit(u, b)
    <3>1. /\ part[b].step = "writing" /\ part'[b].step = "writing"
          /\ part'[b].content = part[b].content /\ part'[b].written = part[b].written + 1
          /\ part'[b].granted = part[b].granted
          /\ stagingFile'[b] = IF stagingFile[b] = Absent THEN Absent ELSE stagingFile[b] + 1
          /\ part[b].written < part[b].content
          /\ up[u].mode = "stream" => part[b].written < part[b].granted
      BY <1>2, <2>2 DEF WriteUnit, At, PartState
    <3>2. stagingFile'[b] <= part'[b].written
      BY <1>0, <1>1, <3>1 DEF PartSound, Absent
    <3>3. row[b].status = "staging" => stagingFile'[b] = part'[b].written
      BY <1>0, <1>1, <3>1 DEF PartSound, Absent
    <3>4. row[b].status # "none" => part'[b].written <= row[b].size
      BY <1>0, <1>1, <3>1 DEF PartSound
    <3>5. stagingFile'[b] \in Int
      BY <1>0, <3>1 DEF Absent
    <3> QED BY <1>0, <1>1, <3>1, <3>2, <3>3, <3>4, <3>5 DEF PartSound
  <2>3. CASE EndOfFile(u, b)
    <3>1. /\ part[b].step = "writing" /\ part'[b].step = "flushed"
          /\ part'[b].content = part[b].content /\ part'[b].written = part[b].written
          /\ part'[b].granted = part[b].granted /\ stagingFile'[b] = stagingFile[b]
      BY <1>2, <2>3 DEF EndOfFile, SetStep, At, PartState, fileVars
    <3> QED BY <1>0, <1>1, <3>1 DEF PartSound, BytesCovered
  <2> QED BY <2>1, <2>2, <2>3
<1>5. UploadsSound'
  BY <1>0, <1>3, <1>4, OnePart
<1>6. ASSUME NEW c \in Blobs PROVE FileMove(c)
  <2>1. CASE c = b
    BY <1>0, <1>4, <2>1 DEF FileMove, BytesCovered
  <2>2. CASE c # b
    BY <1>0, <1>3, <2>2 DEF FileMove
  <2> QED BY <2>1, <2>2
<1> QED BY <1>5, <1>6

\* Reserving: what is granted is added to the row.
LEMMA ReservingSound ==
    ASSUME LifecycleInv, LifecycleInv', Ownership, RowFacts, UploadsSound, BytesCovered,
           NEW u \in Uploaders, NEW b \in Blobs,
           ReserveRounded(u, b) \/ ReserveExact(u, b) \/ ReserveEmpty(u, b)
    PROVE  UploadsSound' /\ \A c \in Blobs : FileMove(c)
<1>0. /\ b \in up[u].blobs /\ up[u].pc = "staging" /\ UNCHANGED <<up, fileVars>>
  BY DEF ReserveRounded, ReserveExact, ReserveEmpty, NeedsGrant, NeedsEmptyGrant, At
<1>1. /\ PartSound(u, b) /\ row[b].size \in Nat
      /\ part[b].content \in Nat /\ part[b].written \in Nat /\ part[b].granted \in Nat
      /\ part[b].written <= part[b].content
      /\ stagingFile[b] \in Nat \cup {Absent}
  BY <1>0, OwnedBlob
<1>2. part \in [Blobs -> PartState] /\ row \in [Blobs -> Row] /\ Chunk \in Nat
  BY LifecycleAssumption DEF LifecycleInv, LifecycleTypes, LedgerInv, LedgerTypeOK
<1>3. ASSUME NEW n \in Nat, Reserve(b, n),
             part'[b].written = part[b].written, part'[b].content = part[b].content,
             part'[b].granted = part[b].granted + n,
             part[b].step \in {"writing", "exact", "flushed"},
             part'[b].step \in {"writing", "exact", "flushed"}
      PROVE  PartSound(u, b)' /\ \A c \in Blobs \ {b} : row'[c] = row[c]
  <2>1. /\ row[b].status = "staging" /\ row'[b].status = "staging"
        /\ row'[b].size = row[b].size + n /\ \A c \in Blobs \ {b} : row'[c] = row[c]
    BY <1>2, <1>3 DEF Reserve, CanReserve, Row
  <2> QED BY <1>0, <1>1, <1>3, <2>1 DEF PartSound, fileVars
<1>4. PartSound(u, b)' /\ \A c \in Blobs \ {b} : row'[c] = row[c] /\ part'[c] = part[c]
  <2>1. CASE ReserveExact(u, b)
    <3> DEFINE q == [part EXCEPT ![b].granted = @ + 1]
    <3>1. Reserve(b, 1) /\ part[b].step = "exact" /\ part' = [q EXCEPT ![b].step = "writing"]
      BY <2>1 DEF ReserveExact, At
    <3>2. /\ q[b].written = part[b].written /\ q[b].content = part[b].content
          /\ q[b].granted = part[b].granted + 1 /\ \A c \in Blobs \ {b} : q[c] = part[c]
          /\ q \in [Blobs -> PartState]
      BY <1>1, <1>2 DEF PartState
    <3> HIDE DEF q
    <3>3. /\ part'[b].written = part[b].written /\ part'[b].content = part[b].content
          /\ part'[b].granted = part[b].granted + 1 /\ part'[b].step = "writing"
          /\ \A c \in Blobs \ {b} : part'[c] = part[c]
      BY <3>1, <3>2 DEF PartState
    <3> QED BY <1>3, <3>1, <3>3
  <2>2. CASE ReserveEmpty(u, b)
    <3>1. /\ Reserve(b, 1) /\ part[b].step = "flushed" /\ part[b].granted = 0
          /\ part'[b].written = part[b].written /\ part'[b].content = part[b].content
          /\ part'[b].granted = 1 /\ part'[b].step = "flushed"
          /\ \A c \in Blobs \ {b} : part'[c] = part[c]
      BY <1>2, <2>2 DEF ReserveEmpty, NeedsEmptyGrant, At, PartState
    <3> QED BY <1>3, <3>1
  <2>3. CASE ReserveRounded(u, b)
    <3> DEFINE delta == RoundUp(part[b].written + 1) - part[b].granted
    <3>1. /\ part[b].written = part[b].granted /\ part[b].step = "writing"
          /\ \/ Reserve(b, delta) /\ part' = [part EXCEPT ![b].granted = @ + delta]
             \/ SetStep(b, "exact") /\ UNCHANGED ledgerVars
      BY <2>3 DEF ReserveRounded, NeedsGrant, At
    <3>2. delta \in Nat
      BY <1>1, <1>2, <3>1, RoundUpStep
    <3> HIDE DEF delta
    <3>3. CASE Reserve(b, delta) /\ part' = [part EXCEPT ![b].granted = @ + delta]
      <4>1. /\ part'[b].written = part[b].written /\ part'[b].content = part[b].content
            /\ part'[b].granted = part[b].granted + delta /\ part'[b].step = "writing"
            /\ \A c \in Blobs \ {b} : part'[c] = part[c]
        BY <1>2, <3>1, <3>3 DEF PartState
      <4> QED BY <1>3, <3>1, <3>2, <3>3, <4>1
    <3>4. CASE SetStep(b, "exact") /\ UNCHANGED ledgerVars
      <4>1. /\ part'[b].written = part[b].written /\ part'[b].content = part[b].content
            /\ part'[b].granted = part[b].granted /\ part'[b].step = "exact" /\ row' = row
            /\ \A c \in Blobs \ {b} : part'[c] = part[c]
        BY <1>2, <3>4 DEF PartState, SetStep, ledgerVars
      <4> QED BY <1>0, <1>1, <3>1, <4>1 DEF PartSound, fileVars
    <3> QED BY <3>1, <3>3, <3>4
  <2> QED BY <2>1, <2>2, <2>3
<1>5. UploadsSound'
  BY <1>0, <1>4, OnePart DEF fileVars
<1> QED BY <1>0, <1>5 DEF FileMove, fileVars

\* Renaming, failing and deleting.
LEMMA EndingSound ==
    ASSUME LifecycleInv, LifecycleInv', Ownership, UploadsSound, BytesCovered,
           NEW u \in Uploaders, NEW b \in Blobs,
           CommitFile(u, b) \/ StageFails(u, b) \/ AbortDelete(u, b)
    PROVE  UploadsSound' /\ \A c \in Blobs : FileMove(c)
<1>0. /\ b \in up[u].blobs /\ up[u].pc \in {"staging", "abort"} /\ UNCHANGED <<row, up>>
  BY DEF CommitFile, StageFails, AbortDelete, NeedsGrant, NeedsEmptyGrant, At, ledgerVars
<1>1. /\ PartSound(u, b) /\ row[b].size \in Nat /\ row[b].status # "active" /\ b <= issued
      /\ part[b].content \in Nat /\ part[b].written \in Nat /\ part[b].granted \in Nat
      /\ stagingFile[b] \in Nat \cup {Absent} /\ objectFile[b] \in Nat \cup {Absent}
  BY <1>0, OwnedBlob
<1>2. /\ part \in [Blobs -> PartState]
      /\ stagingFile \in [Blobs -> Nat \cup {Absent}] /\ objectFile \in [Blobs -> Nat \cup {Absent}]
  BY DEF LifecycleInv, LifecycleTypes
<1>3. \E s \in {"renamed", "failed", "deleted", "undeleted"} : SetStep(b, s)
  BY DEF CommitFile, StageFails, AbortDelete
<1>4. /\ part'[b].written = part[b].written /\ part'[b].content = part[b].content
      /\ part'[b].granted = part[b].granted
      /\ part'[b].step \in {"renamed", "failed", "deleted", "undeleted"}
      /\ \A c \in Blobs \ {b} : part'[c] = part[c]
  BY <1>2, <1>3 DEF SetStep, PartState
<1>5. \A c \in Blobs \ {b} : stagingFile'[c] = stagingFile[c] /\ objectFile'[c] = objectFile[c]
  <2>1. CASE CommitFile(u, b)
    BY <1>2, <2>1 DEF CommitFile, fileVars
  <2>2. CASE StageFails(u, b)
    BY <1>2, <2>2 DEF StageFails
  <2>3. CASE AbortDelete(u, b)
    BY <1>2, <2>3 DEF AbortDelete
  <2> QED BY <2>1, <2>2, <2>3
<1>6. /\ stagingFile'[b] \in {stagingFile[b], Absent}
      /\ objectFile'[b] \in {objectFile[b], stagingFile[b], Absent}
      /\ part'[b].step = "renamed" =>
            objectFile'[b] = stagingFile[b] /\ stagingFile'[b] = Absent /\ part[b].step = "flushed"
  <2>1. CASE CommitFile(u, b)
    BY <1>2, <2>1 DEF CommitFile, fileVars, At, SetStep, PartState
  <2>2. CASE StageFails(u, b)
    BY <1>2, <2>2 DEF StageFails, SetStep, PartState
  <2>3. CASE AbortDelete(u, b)
    <3>1. stagingFile'[b] \in {stagingFile[b], Absent} /\ objectFile'[b] \in {objectFile[b], Absent}
      BY <1>2, <2>3 DEF AbortDelete
    <3>2. SetStep(b, "deleted") \/ SetStep(b, "undeleted")
      BY <2>3 DEF AbortDelete
    <3> QED BY <1>2, <3>1, <3>2 DEF SetStep, PartState
  <2> QED BY <2>1, <2>2, <2>3
<1>7. PartSound(u, b)'
  <2>1. stagingFile'[b] <= stagingFile[b]
    BY <1>1, <1>6 DEF Absent
  <2>2. stagingFile[b] \in Int /\ stagingFile'[b] \in Int
    BY <1>1, <1>6 DEF Absent
  <2> QED BY <1>0, <1>1, <1>4, <1>6, <2>1, <2>2 DEF PartSound
<1>8. UploadsSound'
  BY <1>0, <1>4, <1>5, <1>7, OnePart
<1>9. ASSUME NEW c \in Blobs PROVE FileMove(c)
  <2>1. CASE c = b
    <3>1. row[b].status # "none" => stagingFile'[b] <= row[b].size /\ objectFile'[b] <= row[b].size
      BY <1>1, <1>6 DEF BytesCovered, Absent
    <3> QED BY <1>0, <1>1, <2>1, <3>1 DEF FileMove
  <2>2. CASE c # b
    BY <1>5, <2>2 DEF FileMove
  <2> QED BY <2>1, <2>2
<1> QED BY <1>8, <1>9

\* A new request: fresh ids have no files, and a declared size covers its content.
LEMMA StartSound ==
    ASSUME LifecycleInv, LifecycleInv', Ownership, UploadsSound, FilesSound,
           NEW u \in Uploaders, NEW mode, NEW n \in Nat \ {0},
           NEW content \in [NextBlobs(n) -> 0..MaxContent], Start(u, mode, n, content)
    PROVE  UploadsSound'
<1> DEFINE size == [b \in NextBlobs(n) |->
              IF mode = "stream" THEN 0 ELSE IF content[b] = 0 THEN 1 ELSE content[b]]
<1>0. issued \in Nat /\ NumBlobs \in Nat /\ up \in [Uploaders -> UpState] /\ MaxContent \in Nat
  BY LedgerAssumption, LifecycleAssumption
     DEF LifecycleInv, LifecycleTypes, LedgerInv, LedgerTypeOK
<1>1. CreateStagingBatch(n, size) /\ UNCHANGED fileVars
  BY DEF Start
<1>2. /\ \A v \in Uploaders \ {u} : up'[v] = up[v]
      /\ up'[u].blobs = NextBlobs(n) /\ up'[u].pc = "staging" /\ up'[u].mode = mode
  BY <1>0 DEF Start
<1>3. NextBlobs(n) \subseteq Blobs /\ \A b \in NextBlobs(n) : b > issued
  BY <1>0, <1>1 DEF CreateStagingBatch, NextBlobs, Blobs
<1>4. /\ \A b \in NextBlobs(n) : row'[b] = StagingRow(size[b])
      /\ \A b \in Blobs \ NextBlobs(n) : row'[b] = row[b]
  BY <1>1, <1>3 DEF CreateStagingBatch
<1>5. /\ \A b \in NextBlobs(n) :
            part'[b] = [step |-> "queued", content |-> content[b], written |-> 0, granted |-> 0]
      /\ \A b \in Blobs \ NextBlobs(n) : part'[b] = part[b]
  BY <1>3 DEF Start
<1>6. \A b \in NextBlobs(n) :
          content[b] \in Nat /\ size[b] \in Nat /\ (mode # "stream" => content[b] <= size[b])
  BY <1>0
<1> HIDE DEF size
<1>7. ASSUME NEW b \in NextBlobs(n) PROVE PartSound(u, b)'
  <2>1. stagingFile'[b] = Absent
    BY <1>1, <1>3 DEF FilesSound, fileVars
  <2>2. /\ row'[b].status = "staging" /\ row'[b].size = size[b]
        /\ part'[b].step = "queued" /\ part'[b].content = content[b]
        /\ part'[b].written = 0 /\ part'[b].granted = 0
    <3>1. row'[b] = StagingRow(size[b])
      BY <1>4
    <3>2. part'[b] = [step |-> "queued", content |-> content[b], written |-> 0, granted |-> 0]
      BY <1>5
    <3>3. row'[b].status = "staging" /\ row'[b].size = size[b]
      BY <3>1 DEF StagingRow
    <3> QED BY <3>2, <3>3
  <2> QED BY <1>2, <1>6, <2>1, <2>2 DEF PartSound, Absent
<1>8. ASSUME NEW v \in Uploaders \ {u}, NEW b \in up[v].blobs PROVE PartSound(v, b)'
  <2>1. b \in Blobs /\ b <= issued /\ PartSound(v, b)
    BY OwnedBlob
  <2>2. b \notin NextBlobs(n)
    BY <1>0, <1>3, <2>1 DEF Blobs
  <2> QED BY <1>1, <1>2, <1>4, <1>5, <2>1, <2>2, PartRow DEF fileVars, RowMove
<1> QED BY <1>2, <1>7, <1>8 DEF UploadsSound

\* The other requests when one returns or moves on.
LEMMA OtherRequests ==
    ASSUME LifecycleInv, LifecycleInv', Ownership, RowFacts, UploadsSound, [Next]_vars,
           NEW u \in Uploaders, UNCHANGED fileVars,
           \A v \in Uploaders \ {u} : up'[v] = up[v],
           \A b \in Blobs \ up[u].blobs : part'[b] = part[b],
           \A b \in Blobs \ up[u].blobs : row'[b].status = "active" => row[b].status = "active",
           NEW v \in Uploaders \ {u}, NEW b \in up[v].blobs
    PROVE  PartSound(v, b)'
<1>1. b \in Blobs /\ PartSound(v, b)
  BY OwnedBlob
<1>2. b \notin up[u].blobs
  BY <1>1 DEF Ownership
<1>3. RowMove(b)
  BY <1>1, RowMoves
<1> QED BY <1>1, <1>2, <1>3, PartRow DEF fileVars

\* A request returns: after an abort, an unknown commit, a lost lease or a crash.
LEMMA ReturningSound ==
    ASSUME LifecycleInv, LifecycleInv', Ownership, RowFacts, UploadsSound, [Next]_vars,
           NEW u \in Uploaders, UNCHANGED fileVars, Return(u),
           \A b \in Blobs \ up[u].blobs : row'[b].status = "active" => row[b].status = "active"
    PROVE  UploadsSound'
<1>0. up \in [Uploaders -> UpState]
  BY DEF LifecycleInv, LifecycleTypes
<1>1. /\ \A v \in Uploaders \ {u} : up'[v] = up[v]
      /\ \A b \in Blobs \ up[u].blobs : part'[b] = part[b]
      /\ up'[u].blobs = {}
  BY <1>0 DEF Return, IdleUp
<1>2. ASSUME NEW v \in Uploaders \ {u}, NEW b \in up[v].blobs PROVE PartSound(v, b)'
  BY <1>1, OtherRequests
<1> QED BY <1>1, <1>2 DEF UploadsSound

\* The steps of a request that change its own record only.
LEMMA OwnRecordSound ==
    ASSUME LifecycleInv, LifecycleInv', Ownership, RowFacts, UploadsSound, [Next]_vars,
           NEW u \in Uploaders,
           \/ FinishStaging(u) \/ StartAbort(u) \/ PublishRollsBack(u) \/ HeartbeatFails(u)
           \/ ClientDisconnects(u)
    PROVE  UploadsSound'
<1>0. up \in [Uploaders -> UpState]
  BY DEF LifecycleInv, LifecycleTypes
<1>1. /\ UNCHANGED <<row, part, fileVars>>
      /\ \A v \in Uploaders \ {u} : up'[v] = up[v]
  BY <1>0 DEF FinishStaging, StartAbort, PublishRollsBack, HeartbeatFails, ClientDisconnects, ledgerVars
<1>2. /\ up'[u].blobs = up[u].blobs /\ up'[u].mode = up[u].mode
      /\ up'[u].pc = "staging" => up[u].pc = "staging"
      /\ up[u].pc = "confirm" => up'[u].pc = "confirm"
      /\ ~up'[u].gone => ~up[u].gone
      /\ up'[u].pc = "staged" /\ ~up'[u].gone =>
            up[u].pc = "staged" \/ \A b \in up[u].blobs : part[b].step = "renamed"
  <2>1. CASE FinishStaging(u)
    BY <1>0, <2>1 DEF FinishStaging, UpState
  <2>2. CASE StartAbort(u) \/ PublishRollsBack(u)
    BY <1>0, <2>2 DEF StartAbort, PublishRollsBack, UpState
  <2>3. CASE HeartbeatFails(u) \/ ClientDisconnects(u)
    BY <1>0, <2>3 DEF HeartbeatFails, ClientDisconnects, UpState
  <2> QED BY <2>1, <2>2, <2>3
<1>3. ASSUME NEW b \in up[u].blobs PROVE PartSound(u, b)'
  <2>1. PartSound(u, b)
    BY DEF UploadsSound
  <2> QED BY <1>1, <1>2, <2>1 DEF PartSound, fileVars
<1>4. ASSUME NEW v \in Uploaders \ {u}, NEW b \in up[v].blobs PROVE PartSound(v, b)'
  BY <1>1, OtherRequests
<1> QED BY <1>1, <1>2, <1>3, <1>4 DEF UploadsSound

\* Releasing the staging rows of an abort.
LEMMA ReleasingSound ==
    ASSUME LifecycleInv, LifecycleInv', Ownership, RowFacts, UploadsSound, [Next]_vars,
           NEW u \in Uploaders, AbortRelease(u), ~Publishing
    PROVE  UploadsSound'
<1> DEFINE deleted == {b \in up[u].blobs : part[b].step = "deleted"}
<1>0. up \in [Uploaders -> UpState] /\ UNCHANGED fileVars /\ deleted \subseteq Blobs
      /\ up[u].pc = "abort" /\ deleted \subseteq up[u].blobs
  BY DEF LifecycleInv, LifecycleTypes, UpState, AbortRelease
<1>1. \A b \in Blobs : row'[b].status = "active" => row[b].status = "active"
  BY ActiveFrame
<1>2. \/ Return(u)
      \/ /\ up' = [up EXCEPT ![u].pc = "enqueue", ![u].blobs = @ \ deleted]
         /\ part' = [b \in Blobs |-> IF b \in deleted THEN NoPart ELSE part[b]]
         /\ ReleaseStagingBatch(deleted)
      \/ up' = [up EXCEPT ![u].pc = "enqueue"] /\ UNCHANGED <<row, part>>
  BY DEF AbortRelease, ledgerVars
<1> HIDE DEF deleted
<1>3. CASE Return(u)
  BY <1>0, <1>1, <1>3, ReturningSound
<1>4. CASE ~Return(u)
  <2>1. /\ \A v \in Uploaders \ {u} : up'[v] = up[v]
        /\ up'[u].blobs \subseteq up[u].blobs /\ up'[u].pc = "enqueue"
        /\ \A b \in Blobs \ up[u].blobs : part'[b] = part[b]
        /\ \A b \in up'[u].blobs : part'[b] = part[b] /\ row'[b] = row[b]
    <3>0. up[u].blobs \subseteq Blobs
      BY <1>0 DEF UpState
    <3>1. CASE up' = [up EXCEPT ![u].pc = "enqueue"] /\ UNCHANGED <<row, part>>
      BY <1>0, <3>1 DEF UpState
    <3>2. CASE /\ up' = [up EXCEPT ![u].pc = "enqueue", ![u].blobs = @ \ deleted]
               /\ part' = [b \in Blobs |-> IF b \in deleted THEN NoPart ELSE part[b]]
               /\ ReleaseStagingBatch(deleted)
      <4>1. up'[u].blobs = up[u].blobs \ deleted /\ up'[u].pc = "enqueue"
        BY <1>0, <3>2 DEF UpState
      <4>2. \A b \in Blobs \ deleted : row'[b] = row[b]
        BY <3>2 DEF ReleaseStagingBatch
      <4> QED BY <1>0, <3>0, <3>2, <4>1, <4>2
    <3> QED BY <1>2, <1>4, <3>1, <3>2
  <2>2. ASSUME NEW b \in up'[u].blobs PROVE PartSound(u, b)'
    <3>1. PartSound(u, b)
      BY <2>1 DEF UploadsSound
    <3> QED BY <1>0, <2>1, <3>1 DEF PartSound, fileVars
  <2>3. ASSUME NEW v \in Uploaders \ {u}, NEW b \in up[v].blobs PROVE PartSound(v, b)'
    BY <1>0, <1>1, <2>1, OtherRequests
  <2> QED BY <2>1, <2>2, <2>3 DEF UploadsSound
<1> QED BY <1>3, <1>4

\* Publishing: a request that has committed without hearing of it waits in
\* "confirm" with its blobs.
LEMMA PublishingSound ==
    ASSUME LifecycleInv, LifecycleInv', Ownership, RowFacts, UploadsSound, [Next]_vars,
           NEW u \in Uploaders, PublishCommits(u)
    PROVE  UploadsSound'
<1> DEFINE A == up[u].blobs
<1>0. up \in [Uploaders -> UpState] /\ UNCHANGED fileVars /\ A \in SUBSET Blobs
  BY DEF LifecycleInv, LifecycleTypes, PublishCommits, UpState
<1>1. PICK target \in Targets(A) : PublishLedger(A, StagedSize(A), Replaced(target))
  BY DEF PublishCommits
<1>2. ASSUME NEW b \in Blobs \ A, row'[b].status = "active" PROVE row[b].status = "active"
  BY <1>1, <1>2 DEF PublishLedger, CanRelease
<1>3. \A b \in A : row'[b].status = "active"
  BY <1>0, <1>1 DEF PublishLedger, ActivatedRow
<1>4. CASE Return(u)
  BY <1>0, <1>2, <1>4, ReturningSound
<1>5. CASE up' = [up EXCEPT ![u].pc = "confirm"] /\ UNCHANGED part
  <2>1. /\ up'[u].pc = "confirm" /\ up'[u].blobs = A
        /\ \A v \in Uploaders \ {u} : up'[v] = up[v]
    BY <1>0, <1>5 DEF UpState
  <2>2. ASSUME NEW b \in A PROVE PartSound(u, b)'
    BY <1>3, <2>1 DEF PartSound
  <2>3. ASSUME NEW v \in Uploaders \ {u}, NEW b \in up[v].blobs PROVE PartSound(v, b)'
    BY <1>0, <1>2, <1>5, <2>1, OtherRequests
  <2> QED BY <2>1, <2>2, <2>3 DEF UploadsSound
<1> QED BY <1>4, <1>5 DEF PublishCommits

\* The steps of workers, of the metadata and of time that leave the files alone.
LEMMA QuietSound ==
    ASSUME LifecycleInv, LifecycleInv', Ownership, RowFacts, UploadsSound, [Next]_vars,
           UNCHANGED <<upVars, fileVars>>,
           \A b \in Blobs : row'[b].status = "active" => row[b].status = "active"
    PROVE  UploadsSound'
<1> SUFFICES ASSUME NEW v \in Uploaders, NEW b \in up[v].blobs PROVE PartSound(v, b)'
  BY DEF UploadsSound, upVars
<1>1. b \in Blobs /\ PartSound(v, b)
  BY OwnedBlob
<1>2. RowMove(b)
  BY <1>1, RowMoves
<1> QED BY <1>1, <1>2, PartRow DEF fileVars, upVars

\* A worker deletes files of a doomed blob only.
LEMMA DeletingSound ==
    ASSUME LifecycleInv, LifecycleInv', Ownership, UploadsSound, CleanupDoomed, BytesCovered,
           NEW w \in Workers, WorkerDeletesStaging(w) \/ WorkerDeletesStorage(w)
    PROVE  UploadsSound' /\ \A c \in Blobs : FileMove(c)
<1> DEFINE b == wk[w].blob
<1>0. /\ b \in Blobs /\ Doomed(b) /\ UNCHANGED <<upVars, row>>
      /\ stagingFile \in [Blobs -> Nat \cup {Absent}] /\ objectFile \in [Blobs -> Nat \cup {Absent}]
      /\ row[b].size \in Nat
  <2>1. wk[w].pc # "idle" /\ UNCHANGED <<upVars, row>>
    BY DEF WorkerDeletesStaging, WorkerDeletesStorage, ledgerVars
  <2>2. /\ b \in Blobs
        /\ stagingFile \in [Blobs -> Nat \cup {Absent}] /\ objectFile \in [Blobs -> Nat \cup {Absent}]
    BY <2>1 DEF LifecycleInv, LifecycleTypes
  <2>3. row[b] \in Row
    BY <2>2 DEF LifecycleInv, LedgerInv, LedgerTypeOK
  <2> QED BY <2>1, <2>2, <2>3 DEF CleanupDoomed, Row
<1>1. /\ stagingFile'[b] \in {stagingFile[b], Absent} /\ objectFile'[b] \in {objectFile[b], Absent}
      /\ \A c \in Blobs \ {b} : stagingFile'[c] = stagingFile[c] /\ objectFile'[c] = objectFile[c]
  <2>1. CASE WorkerDeletesStaging(w)
    BY <1>0, <2>1 DEF WorkerDeletesStaging
  <2>2. CASE WorkerDeletesStorage(w)
    BY <1>0, <2>2 DEF WorkerDeletesStorage
  <2> QED BY <2>1, <2>2
<1> HIDE DEF b
<1>2. ASSUME NEW v \in Uploaders, NEW c \in up[v].blobs PROVE PartSound(v, c)'
  <2>1. c \in Blobs /\ PartSound(v, c)
    BY OwnedBlob
  <2>2. CASE c # b
    BY <1>0, <1>1, <2>1, <2>2, PartRow DEF upVars, RowMove
  <2>3. CASE c = b
    <3>1. row[c].status \in {"none", "pending_delete"}
      BY <1>0, <2>3 DEF Doomed, Uploading
    <3>2. stagingFile'[c] \in Int /\ stagingFile[c] \in Int /\ stagingFile'[c] <= stagingFile[c]
      BY <1>0, <1>1, <2>3 DEF Absent
    <3>3. part[c].written \in Int
      BY OwnedBlob
    <3> QED BY <1>0, <2>1, <3>1, <3>2, <3>3 DEF PartSound, upVars
  <2> QED BY <2>2, <2>3
<1>3. ASSUME NEW c \in Blobs PROVE FileMove(c)
  <2>1. CASE c # b
    BY <1>1, <2>1 DEF FileMove
  <2>2. CASE c = b
    <3>1. row[c].status # "active" /\ c <= issued
      BY <1>0, <2>2 DEF Doomed
    <3>2. row[c].status # "none" => stagingFile'[c] <= row[c].size /\ objectFile'[c] <= row[c].size
      BY <1>0, <1>1, <2>2 DEF BytesCovered, Absent
    <3> QED BY <1>0, <3>1, <3>2 DEF FileMove
  <2> QED BY <2>1, <2>2
<1> QED BY <1>0, <1>2, <1>3 DEF UploadsSound, upVars

\* The uploads and the files under every step.
LEMMA UploadsSoundStep ==
    ASSUME LifecycleInv, LifecycleInv', Ownership, RowFacts, UploadsSound, CleanupDoomed,
           FilesSound, BytesCovered, [Next]_vars
    PROVE  UploadsSound' /\ \A c \in Blobs : FileMove(c)
<1>0. ASSUME UNCHANGED fileVars PROVE \A c \in Blobs : FileMove(c)
  BY <1>0 DEF FileMove, fileVars
<1>1. ASSUME NEW u \in Uploaders, PublishCommits(u)
      PROVE  UploadsSound' /\ \A c \in Blobs : FileMove(c)
  BY <1>0, <1>1, PublishingSound DEF PublishCommits
<1>2. ASSUME NEW b \in Blobs, PurgeObject(b) PROVE UploadsSound' /\ \A c \in Blobs : FileMove(c)
  <2>1. PublishLedger({}, StagedSize({}), {b}) /\ UNCHANGED <<upVars, fileVars>>
    BY <1>2 DEF PurgeObject
  <2>2. \A c \in Blobs : row'[c].status = "active" => row[c].status = "active"
    BY <2>1 DEF PublishLedger, CanRelease
  <2> QED BY <1>0, <2>1, <2>2, QuietSound
<1>3. CASE ~Publishing
  <2>1. \A c \in Blobs : row'[c].status = "active" => row[c].status = "active"
    BY <1>3, ActiveFrame
  <2>2. ASSUME UNCHANGED <<upVars, fileVars>> PROVE UploadsSound' /\ \A c \in Blobs : FileMove(c)
    BY <1>0, <2>1, <2>2, QuietSound
  <2>3. ASSUME NEW u \in Uploaders, UploaderStep(u)
        PROVE  UploadsSound' /\ \A c \in Blobs : FileMove(c)
    <3>1. ASSUME Starts(u) PROVE UploadsSound' /\ \A c \in Blobs : FileMove(c)
      <4>1. 1 \in Nat \ {0} /\ \A n \in 1..MaxBatch : n \in Nat \ {0}
        BY LifecycleAssumption
      <4>2. UploadsSound'
        BY <3>1, <4>1, StartSound DEF Starts
      <4>3. UNCHANGED fileVars
        BY <3>1 DEF Starts, Start
      <4> QED BY <1>0, <4>2, <4>3
    <3>2. ASSUME NEW b \in Blobs, StagingOf(u, b) PROVE UploadsSound' /\ \A c \in Blobs : FileMove(c)
      BY <3>2, WritingSound, ReservingSound, EndingSound DEF StagingOf
    <3>3. CASE FinishStaging(u) \/ StartAbort(u) \/ PublishRollsBack(u) \/ HeartbeatFails(u)
               \/ ClientDisconnects(u)
      <4>1. UNCHANGED fileVars
        BY <3>3 DEF FinishStaging, StartAbort, PublishRollsBack, HeartbeatFails, ClientDisconnects
      <4> QED BY <1>0, <3>3, <4>1, OwnRecordSound
    <3>4. CASE AbortRelease(u)
      <4>1. UNCHANGED fileVars
        BY <3>4 DEF AbortRelease
      <4> QED BY <1>0, <1>3, <3>4, <4>1, ReleasingSound
    <3>5. CASE AbortEnqueue(u) \/ PublishLeaseLost(u) \/ ConfirmPublishOutcome(u) \/ UploaderCrashes(u)
      <4>1. Return(u) /\ UNCHANGED fileVars
        BY <3>5 DEF AbortEnqueue, PublishLeaseLost, ConfirmPublishOutcome, UploaderCrashes
      <4> QED BY <1>0, <2>1, <4>1, ReturningSound
    <3>6. CASE HeartbeatRenews(u)
      BY <2>2, <3>6 DEF HeartbeatRenews
    <3>7. ~PublishCommits(u)
      BY <1>3 DEF Publishing
    <3> QED BY <2>3, <3>1, <3>2, <3>3, <3>4, <3>5, <3>6, <3>7 DEF UploaderStep, RequestStep
  <2>4. ASSUME NEW w \in Workers, WorkerStep(w) \/ WorkerRenewsLease(w) \/ WorkerCrashes(w)
        PROVE  UploadsSound' /\ \A c \in Blobs : FileMove(c)
    <3>1. CASE WorkerDeletesStaging(w) \/ WorkerDeletesStorage(w)
      BY <3>1, DeletingSound
    <3>2. CASE ~WorkerDeletesStaging(w) /\ ~WorkerDeletesStorage(w)
      <4>1. UNCHANGED <<upVars, fileVars>>
        BY <2>4, <3>2 DEF WorkerStep, Claim, LoadClaimedJob, FinishJob, WorkerRenewsLease, WorkerCrashes
      <4> QED BY <2>2, <4>1
    <3> QED BY <3>1, <3>2
  <2>5. CASE UNCHANGED vars
    BY <2>2, <2>5 DEF vars
  <2> QED BY <2>2, <2>3, <2>4, <2>5, MetadataTypes, EnvironmentTypes DEF Next
<1> QED BY <1>1, <1>2, <1>3 DEF Publishing

-----------------------------------------------------------------------------
(* Files and bytes *)

\* Complete files stay complete, and no row loses the bytes its files hold.
LEMMA FilesSoundStep ==
    ASSUME LifecycleInv, LifecycleInv', Ownership, RowFacts, UploadsSound, CleanupDoomed,
           FilesSound, BytesCovered, [Next]_vars
    PROVE  FilesSound' /\ BytesCovered'
<1> SUFFICES ASSUME NEW b \in Blobs
             PROVE  /\ b > issued' => stagingFile'[b] = Absent /\ objectFile'[b] = Absent
                    /\ row'[b].status = "active" =>
                          stagingFile'[b] = Absent /\ objectFile'[b] = row'[b].size
                    /\ row'[b].status # "none" =>
                          stagingFile'[b] <= row'[b].size /\ objectFile'[b] <= row'[b].size
  BY DEF FilesSound, BytesCovered
<1>0. /\ row[b] \in Row /\ row'[b] \in Row /\ issued \in Nat /\ issued' \in Nat /\ b \in Nat
      /\ stagingFile[b] \in Nat \cup {Absent} /\ objectFile[b] \in Nat \cup {Absent}
  BY DEF LifecycleInv, LedgerInv, LedgerTypeOK, LifecycleTypes, Blobs
<1>1. RowMove(b) /\ FileMove(b) /\ issued <= issued'
  BY RowMoves, UploadsSoundStep, OwnershipStep
<1>2. b > issued' => b > issued
  BY <1>0, <1>1
<1>3. CASE ~(stagingFile'[b] = stagingFile[b] /\ objectFile'[b] = objectFile[b])
  BY <1>0, <1>1, <1>2, <1>3 DEF FileMove
<1>4. CASE stagingFile'[b] = stagingFile[b] /\ objectFile'[b] = objectFile[b]
  <2>1. CASE row'[b] = row[b]
    BY <1>2, <1>4, <2>1 DEF FilesSound, BytesCovered
  <2>2. CASE Created(b)
    <3>1. stagingFile[b] = Absent /\ objectFile[b] = Absent
      BY <1>0, <2>2 DEF Created, FilesSound
    <3> QED BY <1>0, <1>4, <2>2, <3>1 DEF Created, Absent, Row
  <2>3. CASE Held(b)
    BY <1>0, <1>2, <1>4, <2>3 DEF Held, FilesSound, BytesCovered, Row, Absent
  <2>4. CASE Sealed(b)
    <3>1. row'[b].size = row[b].size /\ row'[b].status = "pending_delete" /\ row[b].status = "staging"
      BY <1>0, <2>4 DEF Sealed, SealedRow, Row
    <3> QED BY <1>2, <1>4, <3>1 DEF FilesSound, BytesCovered
  <2>5. CASE Published(b)
    <3>1. PICK u \in Uploaders : b \in up[u].blobs /\ PublishCommits(u)
      BY <2>5 DEF Published
    <3>2. up[u].pc = "staged" /\ ~up[u].gone
      BY <3>1 DEF PublishCommits, CanBegin
    <3>3. objectFile[b] = part[b].written /\ stagingFile[b] = Absent /\ part[b].written \in Nat
      BY <2>5, <3>1, <3>2, OwnedBlob DEF PartSound, Published
    <3>4. row'[b].size = part[b].written
      BY <2>5 DEF Published, ActivatedRow
    <3> QED BY <1>2, <1>4, <3>3, <3>4 DEF FilesSound, Absent
  <2>6. CASE Released(b)
    <3>1. row'[b].size = row[b].size /\ row[b].status = "active"
      BY <1>0, <2>6 DEF Released, ReleasedRow, Row
    <3> QED BY <1>2, <1>4, <3>1 DEF FilesSound, BytesCovered
  <2>7. CASE Dropped(b)
    BY <1>2, <1>4, <2>7 DEF Dropped, NoRow, FilesSound
  <2> QED BY <1>1, <2>1, <2>2, <2>3, <2>4, <2>5, <2>6, <2>7 DEF RowMove
<1> QED BY <1>3, <1>4

-----------------------------------------------------------------------------
(* The theorems *)

\* The inductive invariant of the lifecycle.
IntegrityInv ==
    /\ LifecycleInv
    /\ RowFacts /\ Ownership /\ CleanupDoomed /\ MetaMatches /\ UploadsSound /\ FilesSound
    /\ BytesCovered /\ QuotaRespected

\* It holds initially.
LEMMA IntegrityInit == Init => IntegrityInv
<1> SUFFICES ASSUME Init PROVE IntegrityInv
  OBVIOUS
<1>1. LifecycleInv
  BY LifecycleInit
<1>2. /\ \A b \in Blobs : row[b] = NoRow /\ job[b] = NoJob /\ bin[b] = NoKey
      /\ \A b \in Blobs : stagingFile[b] = Absent /\ objectFile[b] = Absent
      /\ \A u \in Uploaders : up[u] = IdleUp
      /\ \A w \in Workers : wk[w] = IdleWk
      /\ \A k \in Keys : objects[k] = NoBlob
      /\ used = 0 /\ reserved = 0 /\ maxBytes \in Nat
  BY LedgerAssumption DEF Init, LedgerInit
<1>3. RowFacts /\ FilesSound /\ BytesCovered
  BY <1>2 DEF RowFacts, FilesSound, BytesCovered, NoRow
<1>4. Ownership /\ UploadsSound
  BY <1>2 DEF Ownership, UploadsSound, IdleUp
<1>5. CleanupDoomed
  BY <1>2 DEF CleanupDoomed, NoJob, IdleWk
<1>6. MetaMatches
  BY <1>2 DEF MetaMatches, NoRow
<1>7. QuotaRespected
  BY <1>2 DEF QuotaRespected
<1> QED BY <1>1, <1>3, <1>4, <1>5, <1>6, <1>7 DEF IntegrityInv

\* A sum below a sum within the limit.
LEMMA SumWithin ==
    ASSUME NEW m \in Nat, NEW n \in Nat, NEW p \in Nat, NEW q \in Nat, NEW limit \in Nat,
           m + n <= p + q, p + q <= limit
    PROVE  m + n <= limit
OBVIOUS

\* Every step preserves it.
LEMMA IntegrityStep == IntegrityInv /\ [Next]_vars => IntegrityInv'
<1> SUFFICES ASSUME IntegrityInv, [Next]_vars PROVE IntegrityInv'
  OBVIOUS
<1>0. /\ LifecycleInv /\ RowFacts /\ Ownership /\ CleanupDoomed /\ MetaMatches /\ UploadsSound
      /\ FilesSound /\ BytesCovered /\ QuotaRespected
  BY DEF IntegrityInv
<1>1. LifecycleInv'
  BY <1>0, LifecycleStep
<1>2. RowFacts' /\ Ownership'
  BY <1>0, RowFactsStep, OwnershipStep
<1>3. CleanupDoomed' /\ MetaMatches'
  BY <1>0, <1>1, CleanupDoomedStep, MetaMatchesStep
<1>4. UploadsSound' /\ FilesSound' /\ BytesCovered'
  BY <1>0, <1>1, UploadsSoundStep, FilesSoundStep
<1>5. QuotaRespected'
  <2>1. CASE UNCHANGED ledgerVars
    BY <1>0, <2>1 DEF QuotaRespected, ledgerVars
  <2>2. CASE LedgerNext
    <3>1. WithinLimit
      BY <1>0, <2>2, WithinLimitStep DEF LifecycleInv
    <3>2. \A b \in Blobs : row'[b].status # "orphaned"
      BY <1>2 DEF RowFacts
    <3>3. /\ used \in Nat /\ reserved \in Nat /\ maxBytes \in Nat
          /\ used' \in Nat /\ reserved' \in Nat /\ maxBytes' \in Nat
      BY <1>0, <1>1 DEF LifecycleInv, LedgerInv, LedgerTypeOK
    <3>4. \/ used' + reserved' <= maxBytes'
          \/ used' + reserved' <= used + reserved /\ maxBytes' = maxBytes
      BY <3>1, <3>2 DEF WithinLimit
    <3>5. used + reserved <= maxBytes
      BY <1>0 DEF QuotaRespected
    <3>6. CASE used' + reserved' <= maxBytes'
      BY <3>6 DEF QuotaRespected
    <3>7. CASE used' + reserved' <= used + reserved /\ maxBytes' = maxBytes
      <4>1. used' + reserved' <= maxBytes
        BY <3>3, <3>5, <3>7, SumWithin
      <4> QED BY <3>7, <4>1 DEF QuotaRespected
    <3> QED BY <3>4, <3>6, <3>7
  <2> QED BY <1>0, <2>1, <2>2, StepLedger
<1> QED BY <1>1, <1>2, <1>3, <1>4, <1>5 DEF IntegrityInv

\* The invariant holds in every reachable state.
THEOREM IntegrityInvariant == Spec => []IntegrityInv
BY IntegrityInit, IntegrityStep, PTL DEF Spec

\* No data is lost: for any number of requests, workers, crashes, stalls and
\* unknown commits, an object in a bucket or in the recycle bin has its file,
\* complete, under objects/.
THEOREM LifecycleObjectsIntact == Spec => []ObjectsIntact
<1>1. IntegrityInv => ObjectsIntact
  <2> SUFFICES ASSUME IntegrityInv, NEW b \in Blobs, InObjects(b) \/ InBin(b)
               PROVE  objectFile[b] = row[b].size /\ row[b].status = "active"
    BY DEF ObjectsIntact
  <2>1. b # NoBlob
    BY DEF Blobs, NoBlob
  <2>2. row[b].status = "active"
    BY <2>1 DEF IntegrityInv, MetaMatches, InObjects, InBin
  <2> QED BY <2>2 DEF IntegrityInv, FilesSound
<1> QED BY <1>1, IntegrityInvariant, PTL

\* The structural part of the reconciliation audit accepts every reachable
\* ledger: an active blob has exactly one place in the metadata, one reference,
\* no job and no staging path, every other blob has none.
THEOREM LifecycleAuditAccepts == Spec => []AuditAccepts
<1>1. IntegrityInv => AuditAccepts
  <2> SUFFICES ASSUME IntegrityInv PROVE AuditAccepts
    OBVIOUS
  <2>0. /\ RowFacts /\ CleanupDoomed /\ MetaMatches /\ RowShape /\ \A b \in Blobs : b # NoBlob
    BY DEF IntegrityInv, LifecycleInv, LedgerInv, NoBlob, Blobs
  <2>1. ASSUME NEW b \in Blobs, row[b].status = "active"
        PROVE  /\ InObjects(b) \/ InBin(b)
               /\ ~(InObjects(b) /\ InBin(b))
               /\ \A k, l \in Keys : objects[k] = b /\ objects[l] = b => k = l
               /\ row[b].refs = 1
               /\ ~job[b].queued /\ ~row[b].staging /\ row[b].lease = "none"
    <3>1. ~job[b].queued
      BY <2>0, <2>1 DEF CleanupDoomed, Doomed
    <3>2. row[b].refs = 1 /\ ~row[b].staging /\ row[b].lease = "none"
      BY <2>0, <2>1 DEF RowFacts, RowShape
    <3> QED BY <2>0, <2>1, <3>1, <3>2 DEF MetaMatches, InObjects, InBin
  <2>2. ASSUME NEW b \in Blobs, row[b].status # "active"
        PROVE  ~InObjects(b) /\ ~InBin(b) /\ row[b].refs = 0
    BY <2>0, <2>2 DEF MetaMatches, InObjects, InBin, RowFacts
  <2>3. ASSUME NEW b \in Blobs, row[b].status = "staging"
        PROVE  row[b].staging /\ row[b].lease # "none"
    BY <2>0, <2>3 DEF RowFacts, RowShape
  <2> QED BY <2>1, <2>2, <2>3 DEF AuditAccepts
<1> QED BY <1>1, IntegrityInvariant, PTL

\* Accounted bytes never exceed the limit.
THEOREM LifecycleQuotaRespected == Spec => []QuotaRespected
<1>1. IntegrityInv => QuotaRespected
  BY DEF IntegrityInv
<1> QED BY <1>1, IntegrityInvariant, PTL

\* No file holds bytes its row does not account for, even when a stall lets the
\* cleanup seal an upload that still writes.
THEOREM LifecycleBytesCovered == Spec => []BytesCovered
<1>1. IntegrityInv => BytesCovered
  BY DEF IntegrityInv
<1> QED BY <1>1, IntegrityInvariant, PTL

-----------------------------------------------------------------------------
(* Files without a row.  A request that stalls for longer than its lease   *)
(* can leave one (the cleanup seals and deletes the upload under it);      *)
(* nothing else can.                                                       *)

\* While nobody stalls, a request keeps the rows and the leases of its blobs
\* until it has published them.
LeaseKept ==
    \A u \in Uploaders : \A b \in up[u].blobs :
        /\ up[u].pc # "confirm" => row[b].status = "staging"
        /\ row[b].status = "staging" => row[b].lease = "valid"

\* What is deleted is gone: the files of a blob without a row, those an abort
\* has deleted, and those a worker is done with.
FilesGone ==
    /\ \A b \in Blobs :
          /\ row[b].status = "none" => stagingFile[b] = Absent /\ objectFile[b] = Absent
          /\ row[b].status = "pending_delete" /\ ~row[b].staging => stagingFile[b] = Absent
    /\ \A u \in Uploaders : \A b \in up[u].blobs :
          part[b].step = "deleted" => stagingFile[b] = Absent /\ objectFile[b] = Absent
    /\ \A w \in Workers : \A b \in Blobs : wk[w].blob = b =>
          /\ \/ wk[w].pc = "staging" /\ ~wk[w].staging
             \/ wk[w].pc \in {"storage", "finish"} /\ ~wk[w].err
             => stagingFile[b] = Absent
          /\ wk[w].pc = "finish" /\ ~wk[w].err => objectFile[b] = Absent

TrackedInv == IntegrityInv /\ LeaseKept /\ FilesGone

\* A request leaves "confirm" only by returning.
LEMMA ConfirmReturns ==
    ASSUME LifecycleInv, Ownership, [Next]_vars, NEW u \in Uploaders, up[u].pc = "confirm"
    PROVE  up'[u].pc = "confirm" \/ up'[u].blobs = {}
<1>0. up \in [Uploaders -> UpState] /\ up[u] \in UpState
  BY DEF LifecycleInv, LifecycleTypes
<1>1. CASE UNCHANGED up
  BY <1>1
<1>2. ASSUME NEW v \in Uploaders, UploaderStep(v)
      PROVE  up'[u].pc = "confirm" \/ up'[u].blobs = {}
  <2>1. CASE Starts(v)
    BY <1>0, <2>1 DEF Starts, Start
  <2>2. CASE \E b \in Blobs : StagingOf(v, b)
    BY <2>2 DEF StagingOf, OpenFile, ReserveRounded, ReserveExact, ReserveEmpty, WriteUnit,
                EndOfFile, CommitFile, StageFails, AbortDelete
  <2>3. CASE FinishStaging(v) \/ StartAbort(v) \/ PublishRollsBack(v)
    BY <1>0, <2>3 DEF FinishStaging, StartAbort, PublishRollsBack, UpState
  <2>4. CASE HeartbeatFails(v) \/ ClientDisconnects(v) \/ HeartbeatRenews(v)
    BY <1>0, <2>4 DEF HeartbeatFails, ClientDisconnects, HeartbeatRenews, upVars, UpState
  <2>5. ASSUME Return(v) PROVE up'[u].pc = "confirm" \/ up'[u].blobs = {}
    BY <1>0, <2>5 DEF Return, IdleUp
  <2>6. CASE AbortRelease(v)
    BY <1>0, <2>5, <2>6 DEF AbortRelease
  <2>7. CASE PublishCommits(v)
    BY <1>0, <2>5, <2>7 DEF PublishCommits
  <2>8. CASE AbortEnqueue(v) \/ PublishLeaseLost(v) \/ ConfirmPublishOutcome(v) \/ UploaderCrashes(v)
    BY <2>5, <2>8 DEF AbortEnqueue, PublishLeaseLost, ConfirmPublishOutcome, UploaderCrashes
  <2> QED BY <1>2, <2>1, <2>2, <2>3, <2>4, <2>6, <2>7, <2>8 DEF UploaderStep, RequestStep
<1> QED BY <1>1, <1>2, OthersShrink DEF Next, upVars

\* A request that publishes leaves its blobs behind or waits in "confirm".
LEMMA PublishConfirms ==
    ASSUME LifecycleInv, NEW u \in Uploaders, PublishCommits(u)
    PROVE  up'[u].pc = "confirm" \/ up'[u].blobs = {}
<1>1. up \in [Uploaders -> UpState]
  BY DEF LifecycleInv, LifecycleTypes
<1>2. Return(u) \/ up' = [up EXCEPT ![u].pc = "confirm"]
  BY DEF PublishCommits
<1> QED BY <1>1, <1>2 DEF Return, IdleUp, UpState

\* A request gains fresh blobs only.
LEMMA BlobsGained ==
    ASSUME LifecycleInv, Ownership, [Next]_vars, NEW u \in Uploaders, NEW b \in up'[u].blobs,
           b \notin up[u].blobs
    PROVE  b \in Blobs /\ issued < b /\ \E v \in Uploaders : Starts(v)
<1>0. issued \in Nat
  BY DEF LifecycleInv, LedgerInv, LedgerTypeOK
<1>1. ~Shrinks
  BY DEF Shrinks
<1>2. PICK v \in Uploaders : Starts(v)
  BY <1>1, RequestShrinks, OthersShrink DEF Next
<1>3. PICK n \in Nat \ {0} :
          /\ NextBlobs(n) \subseteq Blobs
          /\ \A x \in Uploaders \ {v} : up'[x] = up[x]
          /\ up'[v].blobs = NextBlobs(n)
  BY <1>2, StartEffect
<1>4. b \in NextBlobs(n)
  BY <1>3
<1> QED BY <1>0, <1>2, <1>3, <1>4 DEF NextBlobs

\* Without stalls the leases are kept.
LEMMA LeaseKeptStep ==
    ASSUME "stall" \notin FaultKinds, IntegrityInv, LeaseKept, [Next]_vars
    PROVE  LeaseKept'
<1> SUFFICES ASSUME NEW u \in Uploaders, NEW b \in up'[u].blobs
             PROVE  /\ up'[u].pc # "confirm" => row'[b].status = "staging"
                    /\ row'[b].status = "staging" => row'[b].lease = "valid"
  BY DEF LeaseKept
<1>0. LifecycleInv /\ Ownership /\ RowFacts /\ CleanupDoomed /\ LifecycleInv'
  BY LifecycleStep DEF IntegrityInv
<1>1. b \in Blobs /\ Uploading(b)'
  BY <1>0 DEF LifecycleInv, LifecycleTypes, UpState, Uploading
<1>2. row[b] \in Row /\ issued \in Nat
  BY <1>0, <1>1 DEF LifecycleInv, LedgerInv, LedgerTypeOK
<1>3. RowMove(b)
  BY <1>0, <1>1, RowMoves
<1>4. CASE b \notin up[u].blobs
  <2>1. issued < b /\ \E v \in Uploaders : Starts(v)
    BY <1>0, <1>4, BlobsGained
  <2>2. row[b].status = "none"
    BY <1>0, <1>1, <1>2, <2>1 DEF LifecycleInv, LedgerInv, RowShape, Blobs
  <2> PICK v \in Uploaders : Starts(v)
    BY <2>1
  <2>3. PICK mode, n, content : Start(v, mode, n, content)
    BY DEF Starts
  <2>4. up'[v].blobs = NextBlobs(n) /\ \A x \in Uploaders \ {v} : up'[x] = up[x]
    BY <1>0, <2>3 DEF Start, LifecycleInv, LifecycleTypes
  <2>5. b \in NextBlobs(n)
    BY <1>4, <2>4
  <2>6. \E s : row'[b] = StagingRow(s)
    BY <1>1, <2>3, <2>5 DEF Start, CreateStagingBatch
  <2> QED BY <2>6 DEF StagingRow
<1>5. CASE b \in up[u].blobs
  <2>1. /\ up[u].pc # "confirm" => row[b].status = "staging"
        /\ row[b].status = "staging" => row[b].lease = "valid"
        /\ Uploading(b) /\ b <= issued /\ ~(issued < b)
    BY <1>0, <1>1, <1>2, <1>5 DEF LeaseKept, Uploading, Ownership, Blobs
  <2>2. up'[u].pc # "confirm" => up[u].pc # "confirm"
    BY <1>0, ConfirmReturns
  <2>3. CASE row'[b] = row[b]
    BY <2>1, <2>2, <2>3
  <2>4. CASE Held(b)
    <3>1. ~UploadLeaseExpires(b)
      BY <2>1 DEF UploadLeaseExpires, Fault
    <3> QED BY <2>1, <2>4, <3>1 DEF Held
  <2>5. ~Created(b) /\ ~Sealed(b)
    BY <1>1, <2>1 DEF Created, Sealed
  <2>6. CASE Published(b)
    <3>1. PICK v \in Uploaders : b \in up[v].blobs /\ PublishCommits(v)
      BY <2>6 DEF Published
    <3>2. v = u
      BY <1>0, <1>1, <1>5, <3>1 DEF Ownership
    <3>3. up'[u].pc = "confirm"
      BY <1>0, <3>1, <3>2, PublishConfirms
    <3> QED BY <2>6, <3>3 DEF Published, ActivatedRow
  <2>7. CASE Released(b)
    <3>1. row'[b].status \in {"active", "pending_delete"}
      BY <1>2, <2>7 DEF Released, ReleasedRow, Row
    <3> QED BY <2>1, <2>2, <2>7, <3>1 DEF Released
  <2>8. CASE Dropped(b)
    <3>1. job[b].queued
      BY <1>1, <2>8 DEF Dropped
    <3>2. row[b].status # "staging"
      BY <1>0, <1>1, <2>1, <3>1 DEF CleanupDoomed, Doomed
    <3> QED BY <2>1, <2>2, <2>8, <3>2 DEF Dropped, NoRow
  <2> QED BY <1>3, <2>3, <2>4, <2>5, <2>6, <2>7, <2>8 DEF RowMove
<1> QED BY <1>4, <1>5

\* What a write to a file of b leaves alone, and what a step that only removes
\* files does to them.
Writes(u, b) ==
    /\ b \in up[u].blobs /\ up[u].pc = "staging" /\ part[b].step # "deleted"
    /\ part'[b].step # "deleted"
    /\ UNCHANGED <<row, wk, up>>

Wanes(b) ==
    /\ stagingFile'[b] \in {stagingFile[b], Absent}
    /\ objectFile'[b] \in {objectFile[b], Absent}

\* A file comes into being, or grows, only under a request that is staging it.
LEMMA FileCauses ==
    ASSUME LifecycleInv, [Next]_vars, NEW b \in Blobs
    PROVE  Wanes(b) \/ \E u \in Uploaders : Writes(u, b)
<1>0. /\ part \in [Blobs -> PartState] /\ stagingFile \in [Blobs -> Nat \cup {Absent}]
      /\ objectFile \in [Blobs -> Nat \cup {Absent}] /\ row \in [Blobs -> Row]
      /\ \A w \in Workers : wk[w].pc # "idle" => wk[w].blob \in Blobs
  BY DEF LifecycleInv, LifecycleTypes, LedgerInv, LedgerTypeOK
<1>1. ASSUME UNCHANGED fileVars PROVE Wanes(b)
  BY <1>1 DEF fileVars, Wanes
<1>2. ASSUME NEW u \in Uploaders, NEW c \in Blobs, StagingOf(u, c)
      PROVE  Wanes(b) \/ Writes(u, b)
  <2>1. CASE OpenFile(u, c)
    BY <1>0, <2>1 DEF OpenFile, SetStep, At, Wanes, Writes, ledgerVars, PartState
  <2>2. CASE WriteUnit(u, c)
    BY <1>0, <2>2 DEF WriteUnit, At, Wanes, Writes, ledgerVars, PartState
  <2>3. CASE CommitFile(u, c)
    BY <1>0, <1>1, <2>3 DEF CommitFile, SetStep, At, Wanes, Writes, ledgerVars, PartState
  <2>4. CASE StageFails(u, c)
    BY <1>0, <2>4 DEF StageFails, Wanes
  <2>5. CASE AbortDelete(u, c)
    BY <1>0, <2>5 DEF AbortDelete, Wanes
  <2> QED BY <1>1, <1>2, <2>1, <2>2, <2>3, <2>4, <2>5
          DEF StagingOf, ReserveRounded, ReserveExact, ReserveEmpty, EndOfFile
<1>3. ASSUME NEW u \in Uploaders, UploaderStep(u) PROVE Wanes(b) \/ Writes(u, b)
  <2>1. CASE Starts(u)
    BY <1>1, <2>1 DEF Starts, Start
  <2> QED BY <1>1, <1>2, <1>3, <2>1
        DEF UploaderStep, RequestStep, FinishStaging, StartAbort, AbortRelease, AbortEnqueue,
            PublishLeaseLost, PublishCommits, PublishRollsBack, ConfirmPublishOutcome,
            HeartbeatRenews, HeartbeatFails, ClientDisconnects, UploaderCrashes
<1>4. ASSUME NEW w \in Workers, WorkerStep(w) \/ WorkerRenewsLease(w) \/ WorkerCrashes(w)
      PROVE  Wanes(b)
  <2>1. CASE WorkerDeletesStaging(w)
    BY <1>0, <2>1 DEF WorkerDeletesStaging, Wanes
  <2>2. CASE WorkerDeletesStorage(w)
    BY <1>0, <2>2 DEF WorkerDeletesStorage, Wanes
  <2> QED BY <1>1, <1>4, <2>1, <2>2
          DEF WorkerStep, Claim, LoadClaimedJob, FinishJob, WorkerRenewsLease, WorkerCrashes
<1>5. CASE UNCHANGED vars
  BY <1>1, <1>5 DEF vars
<1> QED BY <1>1, <1>3, <1>4, <1>5, MetadataTypes, EnvironmentTypes DEF Next

\* The steps that mark a blob deleted have deleted both its files.
LEMMA DeletedMark ==
    ASSUME LifecycleInv, [Next]_vars, NEW b \in Blobs, part'[b].step = "deleted"
    PROVE  \/ part[b].step = "deleted"
           \/ stagingFile'[b] = Absent /\ objectFile'[b] = Absent
<1>0. /\ part \in [Blobs -> PartState] /\ stagingFile \in [Blobs -> Nat \cup {Absent}]
      /\ objectFile \in [Blobs -> Nat \cup {Absent}]
  BY DEF LifecycleInv, LifecycleTypes
<1>1. CASE UNCHANGED part
  BY <1>1
<1>2. ASSUME NEW u \in Uploaders, NEW c \in Blobs, NEW s, SetStep(c, s), s # "deleted"
      PROVE  part[b].step = "deleted"
  BY <1>0, <1>2 DEF SetStep, PartState
<1>3. ASSUME NEW u \in Uploaders, NEW c \in Blobs, StagingOf(u, c)
      PROVE  \/ part[b].step = "deleted"
             \/ stagingFile'[b] = Absent /\ objectFile'[b] = Absent
  <2>1. CASE OpenFile(u, c) \/ EndOfFile(u, c)
    BY <1>2, <2>1 DEF OpenFile, EndOfFile
  <2>2. CASE CommitFile(u, c) \/ StageFails(u, c)
    BY <1>2, <2>2 DEF CommitFile, StageFails
  <2>3. CASE WriteUnit(u, c) \/ ReserveEmpty(u, c)
    BY <1>0, <2>3 DEF WriteUnit, ReserveEmpty, PartState
  <2>4. CASE ReserveRounded(u, c)
    <3>1. (\E x : part' = [part EXCEPT ![c].granted = x]) \/ SetStep(c, "exact")
      BY <2>4 DEF ReserveRounded
    <3> QED BY <1>0, <1>2, <3>1 DEF PartState
  <2>5. CASE ReserveExact(u, c)
    BY <1>0, <2>5 DEF ReserveExact, PartState
  <2>6. CASE AbortDelete(u, c)
    <3>1. CASE SetStep(c, "undeleted")
      BY <1>2, <3>1
    <3>2. CASE SetStep(c, "deleted")
      <4>1. CASE b = c
        <5>1. part'[b].step = "deleted" /\ (SetStep(c, "undeleted") => part'[b].step = "undeleted")
          BY <1>0, <4>1 DEF SetStep, PartState
        <5>2. PICK staging \in BOOLEAN, storage \in BOOLEAN :
                 /\ stagingFile' = [stagingFile EXCEPT ![c] = IF staging THEN Absent ELSE @]
                 /\ objectFile' = [objectFile EXCEPT ![c] = IF storage THEN Absent ELSE @]
                 /\ (staging /\ storage) \/ SetStep(c, "undeleted")
          BY <2>6 DEF AbortDelete
        <5>3. staging /\ storage
          BY <5>1, <5>2
        <5> QED BY <1>0, <4>1, <5>2, <5>3
      <4>2. CASE b # c
        BY <1>0, <3>2, <4>2 DEF SetStep
      <4> QED BY <4>1, <4>2
    <3> QED BY <2>6, <3>1, <3>2 DEF AbortDelete
  <2> QED BY <1>3, <2>1, <2>2, <2>3, <2>4, <2>5, <2>6 DEF StagingOf
<1>4. ASSUME NEW u \in Uploaders, UploaderStep(u), ~ \E c \in Blobs : StagingOf(u, c)
      PROVE  part[b].step = "deleted"
  <2>1. CASE Starts(u)
    <3>1. ASSUME NEW mode, NEW n, NEW content, Start(u, mode, n, content)
          PROVE  part'[b] = part[b] \/ part'[b].step = "queued"
      BY <3>1 DEF Start
    <3>2. part'[b] = part[b] \/ part'[b].step = "queued"
      BY <2>1, <3>1 DEF Starts
    <3> QED BY <3>2
  <2>2. ASSUME Return(u) PROVE part[b].step = "deleted"
    BY <2>2 DEF Return, NoPart
  <2>3. CASE AbortRelease(u)
    BY <2>2, <2>3 DEF AbortRelease, NoPart
  <2>4. CASE AbortEnqueue(u) \/ PublishLeaseLost(u) \/ ConfirmPublishOutcome(u) \/ UploaderCrashes(u)
    BY <2>2, <2>4 DEF AbortEnqueue, PublishLeaseLost, ConfirmPublishOutcome, UploaderCrashes
  <2>5. CASE PublishCommits(u)
    BY <2>2, <2>5 DEF PublishCommits
  <2>6. CASE \/ FinishStaging(u) \/ StartAbort(u) \/ PublishRollsBack(u)
             \/ HeartbeatFails(u) \/ ClientDisconnects(u) \/ HeartbeatRenews(u)
    BY <2>6 DEF FinishStaging, StartAbort, PublishRollsBack, HeartbeatFails, ClientDisconnects,
                HeartbeatRenews, upVars
  <2> QED BY <1>4, <2>1, <2>3, <2>4, <2>5, <2>6 DEF UploaderStep, RequestStep
<1>5. CASE UNCHANGED vars
  BY <1>1, <1>5 DEF vars, upVars
<1> QED BY <1>1, <1>3, <1>4, <1>5, MetadataTypes, EnvironmentTypes, WorkerTypes DEF Next, upVars

\* Without stalls nobody writes to a doomed blob or to one without a row.
LEMMA WritesAlive ==
    ASSUME IntegrityInv, LeaseKept, NEW u \in Uploaders, NEW b \in Blobs, Writes(u, b)
    PROVE  row[b].status = "staging" /\ row' = row /\ ~Doomed(b) /\ wk' = wk
<1>1. row[b].status = "staging" /\ Uploading(b)
  BY DEF Writes, LeaseKept, Uploading
<1> QED BY <1>1 DEF Writes, Doomed

\* A worker's phases: what it has deleted when it enters the next one.
LEMMA WorkerPhases ==
    ASSUME IntegrityInv, LeaseKept, FilesGone, [Next]_vars, NEW w \in Workers, NEW b \in Blobs,
           wk'[w].blob = b
    PROVE  /\ \/ wk'[w].pc = "staging" /\ ~wk'[w].staging
              \/ wk'[w].pc \in {"storage", "finish"} /\ ~wk'[w].err
              => stagingFile'[b] = Absent
           /\ wk'[w].pc = "finish" /\ ~wk'[w].err => objectFile'[b] = Absent
<1> DEFINE Goal == /\ \/ wk'[w].pc = "staging" /\ ~wk'[w].staging
                      \/ wk'[w].pc \in {"storage", "finish"} /\ ~wk'[w].err
                      => stagingFile'[b] = Absent
                   /\ wk'[w].pc = "finish" /\ ~wk'[w].err => objectFile'[b] = Absent
<1>0. /\ LifecycleInv /\ CleanupDoomed /\ wk \in [Workers -> WkState]
      /\ stagingFile \in [Blobs -> Nat \cup {Absent}] /\ objectFile \in [Blobs -> Nat \cup {Absent}]
  BY DEF IntegrityInv, LifecycleInv, LifecycleTypes
<1>1. CASE wk'[w] = wk[w]
  <2>1. CASE wk[w].pc = "idle"
    BY <1>1, <2>1
  <2>2. CASE wk[w].pc # "idle"
    <3>1. Doomed(b)
      BY <1>0, <1>1, <2>2 DEF CleanupDoomed
    <3>2. Wanes(b)
      BY <1>0, <3>1, FileCauses, WritesAlive
    <3> QED BY <1>1, <3>2 DEF FilesGone, Wanes
  <2> QED BY <2>1, <2>2
<1>2. ASSUME NEW x \in Workers, WorkerStep(x) \/ WorkerRenewsLease(x) \/ WorkerCrashes(x)
      PROVE  Goal
  <2>1. CASE x # w
    <3>1. wk'[w] = wk[w]
      BY <1>0, <1>2, <2>1
         DEF WorkerStep, WorkerRenewsLease, WorkerCrashes, Claim, LoadClaimedJob, FinishJob,
             WorkerDeletesStaging, WorkerDeletesStorage
    <3> QED BY <1>1, <3>1
  <2>2. CASE x = w
    <3>1. CASE LoadClaimedJob(w)
      <4> DEFINE c == wk[w].blob
      <4>1. \/ wk' = [wk EXCEPT ![w] = IdleWk]
            \/ /\ wk' = [wk EXCEPT ![w].pc = "staging", ![w].staging = row[c].staging]
               /\ Owns(c, w)
        BY <3>1 DEF LoadClaimedJob
      <4>2. wk[w].pc = "claimed" /\ UNCHANGED fileVars /\ c \in Blobs
        BY <1>0, <3>1 DEF LoadClaimedJob, LifecycleInv, LifecycleTypes
      <4>3. CASE wk' = [wk EXCEPT ![w] = IdleWk]
        BY <1>0, <4>3 DEF IdleWk
      <4>4. CASE /\ wk' = [wk EXCEPT ![w].pc = "staging", ![w].staging = row[c].staging]
                 /\ Owns(c, w)
        <5>1. wk'[w].pc = "staging" /\ wk'[w].staging = row[c].staging /\ c = b
          BY <1>0, <4>4 DEF WkState
        <5>2. job[b].queued /\ Doomed(b)
          BY <1>0, <4>4, <5>1 DEF Owns, CleanupDoomed
        <5>3. row[b].status # "none" /\ (row[b].status = "staging" => row[b].staging)
          BY <1>0, <5>2 DEF LifecycleInv, LedgerInv, CleanupTracked, RowShape
        <5>4. ~row[b].staging => stagingFile[b] = Absent
          BY <5>2, <5>3 DEF Doomed, FilesGone
        <5> QED BY <4>2, <5>1, <5>4 DEF fileVars
      <4> QED BY <4>1, <4>3, <4>4
    <3>2. CASE WorkerDeletesStaging(w)
      <4>1. wk[w].pc = "staging" /\ wk[w].blob = b /\ wk'[w].pc = "storage"
        BY <1>0, <3>2 DEF WorkerDeletesStaging, WkState
      <4>2. ~wk[w].staging => stagingFile[b] = Absent
        BY <4>1 DEF FilesGone
      <4>3. wk'[w].err \/ stagingFile'[b] = IF wk[w].staging THEN Absent ELSE stagingFile[b]
        BY <1>0, <3>2, <4>1 DEF WorkerDeletesStaging, WkState
      <4> QED BY <4>1, <4>2, <4>3
    <3>3. CASE WorkerDeletesStorage(w)
      <4>1. /\ wk[w].pc = "storage" /\ wk[w].blob = b /\ wk'[w].pc = "finish"
            /\ UNCHANGED stagingFile
            /\ wk'[w].err \/ (wk'[w].err = wk[w].err /\ objectFile'[b] = Absent)
        BY <1>0, <3>3 DEF WorkerDeletesStorage, WkState
      <4> QED BY <4>1 DEF FilesGone
    <3>4. CASE WorkerRenewsLease(w)
      BY <1>1, <3>4 DEF WorkerRenewsLease
    <3>5. CASE FinishJob(w) \/ WorkerCrashes(w) \/ \E c \in Blobs : Claim(w, c)
      <4>1. wk'[w].pc \in {"idle", "claimed"}
        BY <1>0, <3>5 DEF FinishJob, WorkerCrashes, Claim, IdleWk
      <4> QED BY <4>1
    <3> QED BY <1>2, <2>2, <3>1, <3>2, <3>3, <3>4, <3>5 DEF WorkerStep
  <2> QED BY <2>1, <2>2
<1>3. CASE UNCHANGED wk
  BY <1>1, <1>3
<1>4. CASE UNCHANGED vars
  BY <1>3, <1>4 DEF vars
<1> QED BY <1>0, <1>2, <1>3, <1>4, UploaderSharedTypes, MetadataTypes, EnvironmentTypes DEF Next

\* Without stalls, what is deleted stays gone.
LEMMA FilesGoneStep ==
    ASSUME IntegrityInv, LeaseKept, FilesGone, [Next]_vars
    PROVE  FilesGone'
<1>0. LifecycleInv /\ Ownership /\ RowFacts /\ CleanupDoomed /\ FilesSound /\ LifecycleInv'
  BY LifecycleStep DEF IntegrityInv
<1>1. ASSUME NEW b \in Blobs, row'[b].status = "none"
      PROVE  stagingFile'[b] = Absent /\ objectFile'[b] = Absent
  <2>1. RowMove(b) /\ row[b] \in Row
    BY <1>0, RowMoves DEF LifecycleInv, LedgerInv, LedgerTypeOK
  <2>2. row'[b] = row[b] \/ Dropped(b)
    <3>1. ~Sealed(b)
      <4>1. row'[b] = SealedRow(row[b]) => row'[b].status = "pending_delete"
        BY <2>1 DEF SealedRow, Row
      <4> QED BY <1>1, <4>1 DEF Sealed
    <3>2. ~Released(b)
      BY <1>1, <2>1 DEF Released, ReleasedRow, Row
    <3> QED BY <1>1, <2>1, <3>1, <3>2 DEF RowMove, Created, Held, Published, ActivatedRow
  <2>3. CASE row'[b] = row[b]
    <3>1. stagingFile[b] = Absent /\ objectFile[b] = Absent
      BY <1>1, <2>3 DEF FilesGone
    <3>2. Wanes(b)
      BY <1>0, <1>1, <2>3, FileCauses, WritesAlive
    <3> QED BY <3>1, <3>2 DEF Wanes
  <2>4. CASE Dropped(b)
    <3>1. CASE \E u \in Uploaders : b \in up[u].blobs /\ part[b].step = "deleted" /\ AbortRelease(u)
      BY <3>1 DEF FilesGone, AbortRelease, fileVars
    <3>2. CASE \E w \in Workers : wk[w].pc = "finish" /\ wk[w].blob = b /\ ~wk[w].err /\ FinishJob(w)
      BY <3>2 DEF FilesGone, FinishJob, fileVars
    <3> QED BY <2>4, <3>1, <3>2 DEF Dropped
  <2> QED BY <2>2, <2>3, <2>4
<1>2. ASSUME NEW b \in Blobs, row'[b].status = "pending_delete", ~row'[b].staging
      PROVE  stagingFile'[b] = Absent
  <2>1. RowMove(b) /\ row[b] \in Row
    BY <1>0, RowMoves DEF LifecycleInv, LedgerInv, LedgerTypeOK
  <2>2. row'[b] = row[b] \/ Released(b)
    <3>1. ~Sealed(b)
      <4>1. row[b].status = "staging" => row[b].staging
        BY <1>0 DEF LifecycleInv, LedgerInv, RowShape
      <4> QED BY <1>2, <2>1, <4>1 DEF Sealed, SealedRow, Row
    <3> QED BY <1>2, <2>1, <3>1 DEF RowMove, Created, Held, Published, ActivatedRow, Dropped, NoRow
  <2>3. row[b].status # "staging" /\ stagingFile[b] = Absent
    BY <1>0, <1>2, <2>2 DEF FilesGone, FilesSound, Released
  <2>4. Wanes(b)
    BY <1>0, <2>3, FileCauses, WritesAlive
  <2> QED BY <2>3, <2>4 DEF Wanes
<1>3. ASSUME NEW u \in Uploaders, NEW b \in up'[u].blobs, part'[b].step = "deleted"
      PROVE  stagingFile'[b] = Absent /\ objectFile'[b] = Absent
  <2>0. b \in Blobs
    BY <1>0 DEF LifecycleInv, LifecycleTypes, UpState
  <2>1. CASE part[b].step = "deleted" /\ b \in up[u].blobs
    <3>1. Wanes(b)
      BY <1>0, <2>0, <2>1, FileCauses DEF Writes
    <3> QED BY <2>1, <3>1 DEF FilesGone, Wanes
  <2>2. CASE b \notin up[u].blobs
    <3>1. PICK v \in Uploaders : Starts(v)
      BY <1>0, <2>2, BlobsGained
    <3>2. ASSUME NEW mode, NEW n, NEW content, Start(v, mode, n, content)
          PROVE  part'[b].step = "queued"
      <4>1. up'[v].blobs = NextBlobs(n) /\ \A x \in Uploaders \ {v} : up'[x] = up[x]
        BY <1>0, <3>2 DEF Start, LifecycleInv, LifecycleTypes
      <4>2. b \in NextBlobs(n)
        BY <2>2, <4>1
      <4> QED BY <2>0, <3>2, <4>2 DEF Start
    <3> QED BY <1>3, <3>1, <3>2 DEF Starts
  <2> QED BY <1>0, <1>3, <2>0, <2>1, <2>2, DeletedMark
<1>4. ASSUME NEW w \in Workers, NEW b \in Blobs, wk'[w].blob = b
      PROVE  /\ \/ wk'[w].pc = "staging" /\ ~wk'[w].staging
                \/ wk'[w].pc \in {"storage", "finish"} /\ ~wk'[w].err
                => stagingFile'[b] = Absent
             /\ wk'[w].pc = "finish" /\ ~wk'[w].err => objectFile'[b] = Absent
  BY <1>4, WorkerPhases
<1> QED BY <1>1, <1>2, <1>3, <1>4 DEF FilesGone

\* A managed file always has a row in the ledger (FilesTracked), provided that no
\* request stalls past its lease: the cleanup of an expired one takes the row and
\* both files, and a request that wakes up afterwards would write a file anew.
THEOREM LifecycleFilesTracked ==
    ASSUME "stall" \notin FaultKinds
    PROVE  Spec => []FilesTracked
<1>1. Init => TrackedInv
  <2> SUFFICES ASSUME Init PROVE TrackedInv
    OBVIOUS
  <2>1. LeaseKept
    BY DEF Init, LeaseKept, IdleUp
  <2>2. FilesGone
    BY DEF Init, FilesGone, IdleUp, IdleWk
  <2> QED BY <2>1, <2>2, IntegrityInit DEF TrackedInv
<1>2. TrackedInv /\ [Next]_vars => TrackedInv'
  BY IntegrityStep, LeaseKeptStep, FilesGoneStep DEF TrackedInv
<1>3. TrackedInv => FilesTracked
  BY DEF TrackedInv, FilesGone, FilesTracked
<1> QED BY <1>1, <1>2, <1>3, PTL DEF Spec
=============================================================================
