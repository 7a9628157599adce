----------------------- MODULE StorageLedger_proofs -----------------------
(***************************************************************************)
(* Proofs about the storage ledger, for every number of blobs, every set   *)
(* of workers and every set of quota settings.                             *)
(*                                                                         *)
(* First what Total computes: it is defined by recursion, so existence and *)
(* uniqueness of its partial sums come from the least counterexample, and  *)
(* the rest from additivity.  Then one lemma per transaction shows that it *)
(* preserves LedgerInv; the two action properties follow from LedgerInv.   *)
(***************************************************************************)
EXTENDS StorageLedger, TLAPS, WellFoundedInduction

\* Every non-empty set of natural numbers has a least element.
LEMMA LeastElement ==
    ASSUME NEW T, T \subseteq Nat, T # {}
    PROVE  \E x \in T : \A y \in T : x <= y
<1>1. PICK x \in T : \A y \in T : ~(<<y, x>> \in OpToRel(<, Nat))
  BY NatLessThanWellFounded, WFMin
<1>2. x \in Nat /\ \A y \in T : y \in Nat
  OBVIOUS
<1>3. ASSUME NEW y \in T, y < x PROVE FALSE
  <2>1. <<y, x>> \in OpToRel(<, Nat)
    BY <1>2, <1>3 DEF OpToRel
  <2> QED BY <2>1, <1>1
<1>4. ASSUME NEW y \in T PROVE x <= y
  BY <1>2, <1>3
<1> QED BY <1>4

\* s lists the partial sums of f up to n.
Sums(s, f, n) ==
    /\ s[0] = 0
    /\ \A i \in 1..n : s[i] = s[i - 1] + f[i]

IsSum(s, f, n) == s \in [0..n -> Int] /\ Sums(s, f, n)

\* Partial sums exist.
LEMMA SumExists ==
    ASSUME NEW f \in [Blobs -> Int], NEW n \in 0..NumBlobs
    PROVE  \E s : IsSum(s, f, n)
<1> DEFINE T == {i \in 0..NumBlobs : ~\E s : IsSum(s, f, i)}
<1>0. NumBlobs \in Nat
  BY LedgerAssumption
<1>1. SUFFICES ASSUME T # {} PROVE FALSE
  OBVIOUS
<1>2. PICK m \in T : \A y \in T : m <= y
  <2>1. T \subseteq Nat
    BY <1>0
  <2> HIDE DEF T
  <2> QED BY <2>1, <1>1, LeastElement
<1>3. m # 0
  <2>1. IsSum([i \in 0..0 |-> 0], f, 0)
    BY DEF IsSum, Sums
  <2> QED BY <2>1
<1>4. m - 1 \in 0..NumBlobs /\ m - 1 \notin T
  BY <1>0, <1>2, <1>3
<1>5. PICK s : IsSum(s, f, m - 1)
  BY <1>4
<1> DEFINE t == [i \in 0..m |-> IF i = m THEN s[m - 1] + f[m] ELSE s[i]]
<1>6. m \in Blobs
  BY <1>0, <1>3 DEF Blobs
<1>7. IsSum(t, f, m)
  <2>0. m - 1 \in 0..(m - 1) /\ f[m] \in Int
    BY <1>0, <1>3, <1>6
  <2>1. ASSUME NEW i \in 0..m PROVE t[i] \in Int
    BY <1>0, <1>5, <2>0 DEF IsSum, Sums
  <2>2. t[0] = 0
    BY <1>0, <1>3, <1>5 DEF IsSum, Sums
  <2>3. ASSUME NEW i \in 1..m PROVE t[i] = t[i - 1] + f[i]
    BY <1>0, <1>5 DEF IsSum, Sums
  <2> QED BY <2>1, <2>2, <2>3 DEF IsSum, Sums
<1> QED BY <1>7

\* Partial sums are unique.
LEMMA SumUnique ==
    ASSUME NEW n \in Nat, NEW f, NEW s, NEW t, Sums(s, f, n), Sums(t, f, n)
    PROVE  \A i \in 0..n : s[i] = t[i]
<1> DEFINE T == {i \in 0..n : s[i] # t[i]}
<1>1. SUFFICES ASSUME T # {} PROVE FALSE
  OBVIOUS
<1>2. PICK m \in T : \A y \in T : m <= y
  <2>1. T \subseteq Nat
    OBVIOUS
  <2> HIDE DEF T
  <2> QED BY <2>1, <1>1, LeastElement
<1>3. m # 0
  BY DEF IsSum, Sums
<1>4. m - 1 \in 0..n /\ m - 1 \notin T
  BY <1>2, <1>3
<1>5. s[m - 1] = t[m - 1]
  BY <1>4
<1>6. s[m] = s[m - 1] + f[m] /\ t[m] = t[m - 1] + f[m]
  BY <1>3 DEF IsSum, Sums
<1> QED BY <1>5, <1>6

\* Total is the last partial sum.
LEMMA TotalIsSum ==
    ASSUME NEW f \in [Blobs -> Int]
    PROVE  \E s : IsSum(s, f, NumBlobs) /\ Total(f) = s[NumBlobs]
<1> DEFINE Rec(s) == s = [i \in 0..NumBlobs |-> IF i = 0 THEN 0 ELSE s[i - 1] + f[i]]
<1> DEFINE c == CHOOSE s : Rec(s)
<1>0. NumBlobs \in Nat
  BY LedgerAssumption
<1>1. PICK s : IsSum(s, f, NumBlobs)
  BY <1>0, SumExists
<1>2. Rec(s)
  <2>1. ASSUME NEW i \in 0..NumBlobs PROVE s[i] = IF i = 0 THEN 0 ELSE s[i - 1] + f[i]
    BY <1>0, <1>1 DEF IsSum, Sums
  <2> QED BY <2>1, <1>1 DEF IsSum, Sums
<1>3. Rec(c)
  <2> HIDE DEF Rec
  <2> QED BY <1>2
<1>4. Total(f) = c[NumBlobs]
  BY DEF Total
<1>5. \A i \in 0..NumBlobs : c[i] = IF i = 0 THEN 0 ELSE c[i - 1] + f[i]
  BY <1>3
<1>6. Sums(c, f, NumBlobs)
  <2> HIDE DEF c
  <2>1. c[0] = 0
    BY <1>0, <1>5
  <2>2. \A i \in 1..NumBlobs : c[i] = c[i - 1] + f[i]
    BY <1>0, <1>5
  <2> QED BY <2>1, <2>2 DEF Sums
<1>7. c[NumBlobs] = s[NumBlobs]
  <2> HIDE DEF c
  <2> QED BY <1>0, <1>1, <1>6, SumUnique DEF IsSum
<1> QED BY <1>1, <1>4, <1>7

\* Whatever lists the partial sums ends in the total.
LEMMA TotalFromSum ==
    ASSUME NEW f \in [Blobs -> Int], NEW s, Sums(s, f, NumBlobs)
    PROVE  Total(f) = s[NumBlobs]
<1>0. NumBlobs \in Nat
  BY LedgerAssumption
<1>1. PICK t : IsSum(t, f, NumBlobs) /\ Total(f) = t[NumBlobs]
  BY TotalIsSum
<1> QED BY <1>0, <1>1, SumUnique DEF IsSum

\* A total is an integer.
LEMMA TotalType ==
    ASSUME NEW f \in [Blobs -> Int]
    PROVE  Total(f) \in Int
BY TotalIsSum, LedgerAssumption DEF IsSum

\* Total is additive.
LEMMA TotalAdd ==
    ASSUME NEW f \in [Blobs -> Int], NEW g \in [Blobs -> Int]
    PROVE  Total([b \in Blobs |-> f[b] + g[b]]) = Total(f) + Total(g)
<1> DEFINE h == [b \in Blobs |-> f[b] + g[b]]
<1>0. NumBlobs \in Nat
  BY LedgerAssumption
<1>1. PICK s : IsSum(s, f, NumBlobs) /\ Total(f) = s[NumBlobs]
  BY TotalIsSum
<1>2. PICK t : IsSum(t, g, NumBlobs) /\ Total(g) = t[NumBlobs]
  BY TotalIsSum
<1> DEFINE r == [i \in 0..NumBlobs |-> s[i] + t[i]]
<1>3. Sums(r, h, NumBlobs)
  <2>1. r[0] = 0
    BY <1>0, <1>1, <1>2 DEF IsSum, Sums
  <2>2. ASSUME NEW i \in 1..NumBlobs PROVE r[i] = r[i - 1] + h[i]
    <3>1. i \in Blobs /\ i \in 0..NumBlobs /\ i - 1 \in 0..NumBlobs
      BY <1>0 DEF Blobs
    <3>2. s[i - 1] \in Int /\ t[i - 1] \in Int /\ f[i] \in Int /\ g[i] \in Int
      BY <1>1, <1>2, <3>1 DEF IsSum
    <3>3. s[i] = s[i - 1] + f[i] /\ t[i] = t[i - 1] + g[i]
      BY <1>1, <1>2 DEF IsSum, Sums
    <3> QED BY <3>1, <3>2, <3>3
  <2> QED BY <2>1, <2>2 DEF Sums
<1>4. h \in [Blobs -> Int]
  OBVIOUS
<1>5. Total(h) = r[NumBlobs]
  <2> HIDE DEF h, r
  <2> QED BY <1>3, <1>4, TotalFromSum
<1> QED BY <1>0, <1>1, <1>2, <1>5

\* The total of natural numbers is one, and at least each of them.
LEMMA TotalNat ==
    ASSUME NEW f \in [Blobs -> Nat]
    PROVE  Total(f) \in Nat
<1>0. NumBlobs \in Nat /\ f \in [Blobs -> Int]
  BY LedgerAssumption
<1>1. PICK s : IsSum(s, f, NumBlobs) /\ Total(f) = s[NumBlobs]
  BY <1>0, TotalIsSum
<1> DEFINE T == {i \in 0..NumBlobs : s[i] < 0}
<1>2. ASSUME T # {} PROVE FALSE
  <2>1. T \subseteq Nat
    BY <1>0
  <2>2. PICK m \in T : \A y \in T : m <= y
    <3> HIDE DEF T
    <3> QED BY <1>2, <2>1, LeastElement
  <2>3. m # 0
    BY <1>1 DEF IsSum, Sums
  <2>4. m - 1 \in 0..NumBlobs /\ m - 1 \notin T /\ m \in Blobs
    BY <1>0, <2>2, <2>3 DEF Blobs
  <2>5. s[m - 1] \in Int /\ s[m - 1] >= 0 /\ f[m] \in Nat
    BY <1>1, <2>4 DEF IsSum
  <2>6. s[m] = s[m - 1] + f[m]
    BY <1>0, <1>1, <2>3 DEF IsSum, Sums
  <2> QED BY <2>5, <2>6
<1>3. s[NumBlobs] \in Int /\ ~(s[NumBlobs] < 0)
  BY <1>0, <1>1, <1>2 DEF IsSum
<1> QED BY <1>1, <1>3

\* The total of nothing is 0.
LEMMA TotalZero ==
    Total([b \in Blobs |-> 0]) = 0
<1> DEFINE z == [b \in Blobs |-> 0]
<1> DEFINE s == [i \in 0..NumBlobs |-> 0]
<1>0. NumBlobs \in Nat
  BY LedgerAssumption
<1>1. Sums(s, z, NumBlobs)
  BY <1>0 DEF Sums, Blobs
<1>2. z \in [Blobs -> Int]
  OBVIOUS
<1>3. Total(z) = s[NumBlobs]
  <2> HIDE DEF z, s
  <2> QED BY <1>1, <1>2, TotalFromSum
<1> QED BY <1>0, <1>3

\* The total of a function that is 0 except at one blob.
LEMMA TotalPoint ==
    ASSUME NEW b \in Blobs, NEW v \in Int
    PROVE  Total([c \in Blobs |-> IF c = b THEN v ELSE 0]) = v
<1> DEFINE z == [c \in Blobs |-> IF c = b THEN v ELSE 0]
<1> DEFINE s == [i \in 0..NumBlobs |-> IF i < b THEN 0 ELSE v]
<1>0. NumBlobs \in Nat /\ b \in 1..NumBlobs
  BY LedgerAssumption DEF Blobs
<1>1. Sums(s, z, NumBlobs)
  <2>1. s[0] = 0
    BY <1>0
  <2>2. ASSUME NEW i \in 1..NumBlobs PROVE s[i] = s[i - 1] + z[i]
    BY <1>0 DEF Blobs
  <2> QED BY <2>1, <2>2 DEF Sums
<1>2. z \in [Blobs -> Int]
  OBVIOUS
<1>3. Total(z) = s[NumBlobs]
  <2> HIDE DEF z, s
  <2> QED BY <1>1, <1>2, TotalFromSum
<1> QED BY <1>0, <1>3

\* When g differs from f by d, so do the totals.
LEMMA TotalDiff ==
    ASSUME NEW f \in [Blobs -> Int], NEW g \in [Blobs -> Int], NEW d \in [Blobs -> Int],
           \A b \in Blobs : g[b] = f[b] + d[b]
    PROVE  Total(g) = Total(f) + Total(d)
<1>1. g = [b \in Blobs |-> f[b] + d[b]]
  OBVIOUS
<1> QED BY <1>1, TotalAdd

\* Totals are monotone.
LEMMA TotalMono ==
    ASSUME NEW f \in [Blobs -> Int], NEW g \in [Blobs -> Int],
           \A b \in Blobs : f[b] <= g[b]
    PROVE  Total(f) <= Total(g)
<1> DEFINE d == [b \in Blobs |-> g[b] - f[b]]
<1>1. d \in [Blobs -> Nat] /\ d \in [Blobs -> Int]
  OBVIOUS
<1>2. \A b \in Blobs : g[b] = f[b] + d[b]
  OBVIOUS
<1>3. Total(g) = Total(f) + Total(d)
  <2> HIDE DEF d
  <2> QED BY <1>1, <1>2, TotalDiff
<1>4. Total(d) \in Nat
  <2> HIDE DEF d
  <2> QED BY <1>1, TotalNat
<1>5. Total(f) \in Int
  BY TotalType
<1> HIDE DEF d
<1> QED BY <1>3, <1>4, <1>5

\* Changing one value changes the total by the difference.
LEMMA TotalUpdate ==
    ASSUME NEW f \in [Blobs -> Int], NEW g \in [Blobs -> Int], NEW b \in Blobs,
           \A c \in Blobs \ {b} : g[c] = f[c]
    PROVE  Total(g) = Total(f) + (g[b] - f[b])
<1> DEFINE d == [c \in Blobs |-> IF c = b THEN g[b] - f[b] ELSE 0]
<1>1. d \in [Blobs -> Int] /\ \A c \in Blobs : g[c] = f[c] + d[c]
  OBVIOUS
<1>2. Total(g) = Total(f) + Total(d)
  <2> HIDE DEF d
  <2> QED BY <1>1, TotalDiff
<1>3. Total(d) = g[b] - f[b]
  BY TotalPoint
<1> HIDE DEF d
<1> QED BY <1>2, <1>3
-----------------------------------------------------------------------------
(* The inductive invariant *)

\* What the transactions rely on beyond the properties: ids not yet issued have
\* no row, and the staging path and the lease of a row follow from its status.
RowShape ==
    \A b \in Blobs :
        /\ b > issued => row[b].status = "none"
        /\ row[b].status = "staging" => row[b].staging /\ row[b].refs = 0
        /\ row[b].status \in {"active", "orphaned"} => ~row[b].staging /\ row[b].lease = "none"

LedgerInv == LedgerTypeOK /\ RowShape /\ LedgerBalanced /\ CleanupTracked

\* The bytes the rows account for.
UsedBytes     == [b \in Blobs |-> UsedPart(row[b])]
ReservedBytes == [b \in Blobs |-> ReservedPart(row[b])]

\* A sum over a set of blobs is the total of the function restricted to it.
LEMMA SumOverNat ==
    ASSUME NEW B, NEW f, \A b \in B \cap Blobs : f[b] \in Nat
    PROVE  /\ [b \in Blobs |-> IF b \in B THEN f[b] ELSE 0] \in [Blobs -> Nat]
           /\ SumOver(B, f) \in Nat
<1> DEFINE g == [b \in Blobs |-> IF b \in B THEN f[b] ELSE 0]
<1>1. g \in [Blobs -> Nat]
  OBVIOUS
<1>2. Total(g) \in Nat
  <2> HIDE DEF g
  <2> QED BY <1>1, TotalNat
<1> QED BY <1>1, <1>2 DEF SumOver

\* The reserved or used bytes of a set of blobs are a natural number.
LEMMA SizeOfNat ==
    ASSUME row \in [Blobs -> Row], NEW B
    PROVE  /\ [b \in Blobs |-> IF b \in B THEN row[b].size ELSE 0] \in [Blobs -> Nat]
           /\ SizeOf(B) = Total([b \in Blobs |-> IF b \in B THEN row[b].size ELSE 0])
           /\ SizeOf(B) \in Nat
<1> DEFINE f == [b \in Blobs |-> row[b].size]
<1>1. \A b \in B \cap Blobs : f[b] \in Nat
  BY DEF Row
<1>2. [b \in Blobs |-> IF b \in B THEN f[b] ELSE 0] = [b \in Blobs |-> IF b \in B THEN row[b].size ELSE 0]
  OBVIOUS
<1>3. /\ [b \in Blobs |-> IF b \in B THEN f[b] ELSE 0] \in [Blobs -> Nat]
      /\ SumOver(B, f) \in Nat
  <2> HIDE DEF f
  <2> QED BY <1>1, SumOverNat
<1> QED BY <1>2, <1>3 DEF SizeOf, SumOver

\* How the counters must follow the rows: the bytes gained and lost by each
\* counter, as functions on the blobs.
LEMMA CountersFollow ==
    ASSUME LedgerBalanced, row \in [Blobs -> Row], row' \in [Blobs -> Row],
           NEW du \in [Blobs -> Int], NEW dr \in [Blobs -> Int],
           used' = used + Total(du), reserved' = reserved + Total(dr),
           \A b \in Blobs : /\ UsedPart(row'[b]) = UsedPart(row[b]) + du[b]
                            /\ ReservedPart(row'[b]) = ReservedPart(row[b]) + dr[b]
    PROVE  LedgerBalanced'
<1>1. /\ UsedBytes \in [Blobs -> Int] /\ ReservedBytes \in [Blobs -> Int]
      /\ UsedBytes' \in [Blobs -> Int] /\ ReservedBytes' \in [Blobs -> Int]
  BY DEF UsedBytes, ReservedBytes, UsedPart, ReservedPart, Row
<1>2. Total(UsedBytes') = Total(UsedBytes) + Total(du)
  <2>1. \A b \in Blobs : (UsedBytes')[b] = UsedBytes[b] + du[b]
    BY DEF UsedBytes
  <2> QED BY <1>1, <2>1, TotalDiff
<1>3. Total(ReservedBytes') = Total(ReservedBytes) + Total(dr)
  <2>1. \A b \in Blobs : (ReservedBytes')[b] = ReservedBytes[b] + dr[b]
    BY DEF ReservedBytes
  <2> QED BY <1>1, <2>1, TotalDiff
<1>4. used = Total(UsedBytes) /\ reserved = Total(ReservedBytes)
  BY DEF LedgerBalanced, UsedBytes, ReservedBytes
<1>5. used' = Total(UsedBytes') /\ reserved' = Total(ReservedBytes')
  BY <1>2, <1>3, <1>4
<1> QED BY <1>5 DEF LedgerBalanced, UsedBytes, ReservedBytes

\* The counters may stay when no row changes what it accounts for.
LEMMA CountersStay ==
    ASSUME LedgerBalanced, row \in [Blobs -> Row], row' \in [Blobs -> Row],
           UNCHANGED <<used, reserved>>,
           \A b \in Blobs : /\ UsedPart(row'[b]) = UsedPart(row[b])
                            /\ ReservedPart(row'[b]) = ReservedPart(row[b])
    PROVE  LedgerBalanced'
<1>1. [b \in Blobs |-> UsedPart(row'[b])] = [b \in Blobs |-> UsedPart(row[b])]
  OBVIOUS
<1>2. [b \in Blobs |-> ReservedPart(row'[b])] = [b \in Blobs |-> ReservedPart(row[b])]
  OBVIOUS
<1> QED BY <1>1, <1>2 DEF LedgerBalanced

-----------------------------------------------------------------------------
(* One lemma per transaction *)

\* A transaction that only touches cleanup jobs and loses none.
LEMMA JobOnlyStep ==
    ASSUME LedgerInv, UNCHANGED <<row, used, reserved, maxBytes, issued>>,
           job' \in [Blobs -> Job], \A b \in Blobs : row[b].status = "pending_delete" => job'[b].queued,
           \A b \in Blobs : job'[b].queued => row[b].status # "none"
    PROVE  LedgerInv'
<1>1. LedgerTypeOK'
  BY DEF LedgerInv, LedgerTypeOK
<1>2. RowShape'
  BY DEF LedgerInv, RowShape
<1>3. LedgerBalanced'
  BY DEF LedgerInv, LedgerBalanced
<1>4. CleanupTracked'
  BY DEF LedgerInv, CleanupTracked
<1> QED BY <1>1, <1>2, <1>3, <1>4 DEF LedgerInv

\* Changing max_bytes (UpdateMaxBytes).
LEMMA UpdateMaxBytesStep ==
    ASSUME LedgerInv, NEW m \in QuotaSettings, UpdateMaxBytes(m)
    PROVE  LedgerInv'
<1>1. LedgerTypeOK'
  BY LedgerAssumption DEF LedgerInv, LedgerTypeOK, UpdateMaxBytes
<1>2. RowShape' /\ LedgerBalanced' /\ CleanupTracked'
  BY DEF LedgerInv, UpdateMaxBytes, RowShape, LedgerBalanced, CleanupTracked
<1> QED BY <1>1, <1>2 DEF LedgerInv

\* Claiming, renewing and failing a job (ClaimCleanupJob, RenewCleanupJobLease,
\* FailCleanupJob) keep it queued.
LEMMA ClaimsStep ==
    ASSUME LedgerInv, NEW b \in Blobs, NEW w \in Workers,
           ClaimCleanupJob(b, w) \/ RenewCleanupJobLease(b, w) \/ FailCleanupJob(b, w)
    PROVE  LedgerInv'
<1>1. job \in [Blobs -> Job]
  BY DEF LedgerInv, LedgerTypeOK
<1>2. job' \in [Blobs -> Job]
  BY <1>1 DEF ClaimCleanupJob, RenewCleanupJobLease, FailCleanupJob, Job, Lease
<1>3. \A c \in Blobs : job'[c].queued = job[c].queued
  BY <1>1 DEF ClaimCleanupJob, RenewCleanupJobLease, FailCleanupJob, Job
<1>4. UNCHANGED <<row, used, reserved, maxBytes, issued>>
  BY DEF ClaimCleanupJob, RenewCleanupJobLease, FailCleanupJob
<1> QED BY <1>2, <1>3, <1>4, JobOnlyStep DEF LedgerInv, CleanupTracked

\* EnqueueCleanupBatch adds jobs, but only to existing blobs.
LEMMA EnqueueStep ==
    ASSUME LedgerInv, NEW B \in SUBSET Blobs, EnqueueCleanupBatch(B)
    PROVE  LedgerInv'
<1>1. job \in [Blobs -> Job]
  BY DEF LedgerInv, LedgerTypeOK
<1>2. job' \in [Blobs -> Job]
  BY <1>1 DEF EnqueueCleanupBatch, EnqueuedJob, FreshJob, Job, Lease
<1>3. \A c \in Blobs : job'[c].queued = (job[c].queued \/ c \in B)
  BY <1>1 DEF EnqueueCleanupBatch, EnqueuedJob, FreshJob, Job
<1>4. UNCHANGED <<row, used, reserved, maxBytes, issued>>
  BY DEF EnqueueCleanupBatch
<1>5. \A c \in B : row[c].status # "none"
  BY DEF EnqueueCleanupBatch, CanEnqueue
<1> QED BY <1>2, <1>3, <1>4, <1>5, JobOnlyStep DEF LedgerInv, CleanupTracked

\* Leases expire and retries fall due.
LEMMA TimeSteps ==
    ASSUME LedgerInv, TimeStep
    PROVE  LedgerInv'
<1>0. PICK b \in Blobs : StagingLeaseExpires(b) \/ JobLeaseExpires(b) \/ BackoffElapses(b)
  BY DEF TimeStep
<1>1. CASE StagingLeaseExpires(b)
  <2>0. row \in [Blobs -> Row]
    BY DEF LedgerInv, LedgerTypeOK
  <2>1. /\ row' = [row EXCEPT ![b].lease = "expired"] /\ row[b].lease = "valid"
        /\ UNCHANGED <<job, used, reserved, maxBytes, issued>>
    BY <1>1 DEF StagingLeaseExpires
  <2>2. row' \in [Blobs -> Row]
    BY <2>0, <2>1 DEF Row, Lease
  <2>3. LedgerTypeOK'
    BY <2>1, <2>2 DEF LedgerInv, LedgerTypeOK
  <2>4. \A c \in Blobs : /\ row'[c].status = row[c].status /\ row'[c].size = row[c].size
                         /\ row'[c].staging = row[c].staging /\ row'[c].refs = row[c].refs
                         /\ (row'[c].lease = row[c].lease \/ row[c].lease = "valid")
    BY <2>0, <2>1 DEF Row
  <2>5. RowShape' /\ CleanupTracked'
    BY <2>1, <2>4 DEF LedgerInv, RowShape, CleanupTracked
  <2>6. LedgerBalanced'
    BY <2>0, <2>1, <2>2, <2>4, CountersStay DEF LedgerInv, UsedPart, ReservedPart
  <2> QED BY <2>3, <2>5, <2>6 DEF LedgerInv
<1>2. CASE JobLeaseExpires(b) \/ BackoffElapses(b)
  <2>1. job \in [Blobs -> Job]
    BY DEF LedgerInv, LedgerTypeOK
  <2>2. job' \in [Blobs -> Job]
    <3>1. CASE JobLeaseExpires(b)
      BY <2>1, <3>1 DEF JobLeaseExpires, Job, Lease
    <3>2. CASE BackoffElapses(b)
      BY <2>1, <3>2 DEF BackoffElapses, Job
    <3> QED BY <1>2, <3>1, <3>2
  <2>3. \A c \in Blobs : job'[c].queued = job[c].queued
    BY <1>2, <2>1 DEF JobLeaseExpires, BackoffElapses, Job
  <2>4. UNCHANGED <<row, used, reserved, maxBytes, issued>>
    BY <1>2 DEF JobLeaseExpires, BackoffElapses
  <2> QED BY <2>2, <2>3, <2>4, JobOnlyStep DEF LedgerInv, CleanupTracked
<1> QED BY <1>0, <1>1, <1>2

\* RenewStagingLease only touches the leases of staging rows.
LEMMA RenewStagingStep ==
    ASSUME LedgerInv, NEW B \in SUBSET Blobs, RenewStagingLease(B)
    PROVE  LedgerInv'
<1>0. row \in [Blobs -> Row]
  BY DEF LedgerInv, LedgerTypeOK
<1>1. row' \in [Blobs -> Row]
  BY <1>0 DEF RenewStagingLease, Row, Lease
<1>2. UNCHANGED <<job, used, reserved, maxBytes, issued>>
  BY DEF RenewStagingLease
<1>3. LedgerTypeOK'
  BY <1>1, <1>2 DEF LedgerInv, LedgerTypeOK
<1>4. \A c \in Blobs : /\ row'[c].status = row[c].status /\ row'[c].size = row[c].size
                       /\ row'[c].staging = row[c].staging /\ row'[c].refs = row[c].refs
                       /\ (row'[c].lease = row[c].lease \/ row[c].status = "staging")
  BY <1>0 DEF RenewStagingLease, CanRenewStaging, Row
<1>5. RowShape' /\ CleanupTracked'
  BY <1>2, <1>4 DEF LedgerInv, RowShape, CleanupTracked
<1>6. LedgerBalanced'
  BY <1>0, <1>1, <1>2, <1>4, CountersStay DEF LedgerInv, UsedPart, ReservedPart
<1> QED BY <1>3, <1>5, <1>6 DEF LedgerInv

\* Sealing: the reservation stays where it was, the job appears with it.
LEMMA SealStep ==
    ASSUME LedgerInv, NEW B \in SUBSET Blobs, Seal(B), \A b \in B : row[b].status = "staging"
    PROVE  LedgerInv'
<1>0. row \in [Blobs -> Row] /\ job \in [Blobs -> Job]
  BY DEF LedgerInv, LedgerTypeOK
<1>1. row' \in [Blobs -> Row] /\ job' \in [Blobs -> Job]
  <2>1. row' \in [Blobs -> Row]
    BY <1>0 DEF Seal, SealedRow, Row, Lease, Status
  <2>2. job' \in [Blobs -> Job]
    BY <1>0 DEF Seal, EnqueuedJob, FreshJob, Job, Lease
  <2> QED BY <2>1, <2>2
<1>2. UNCHANGED <<used, reserved, maxBytes, issued>>
  BY DEF Seal
<1>3. LedgerTypeOK'
  BY <1>1, <1>2 DEF LedgerInv, LedgerTypeOK
<1>4. ASSUME NEW c \in B
      PROVE  /\ row'[c].status = "pending_delete" /\ row'[c].lease = "none"
             /\ row'[c].size = row[c].size /\ row'[c].staging = row[c].staging
             /\ row'[c].refs = row[c].refs /\ job'[c].queued
  BY <1>0 DEF Seal, SealedRow, EnqueuedJob, FreshJob, Row, Job
<1>5. ASSUME NEW c \in Blobs \ B PROVE row'[c] = row[c] /\ job'[c] = job[c]
  BY DEF Seal
<1>6. RowShape' /\ CleanupTracked'
  BY <1>2, <1>4, <1>5 DEF LedgerInv, RowShape, CleanupTracked
<1>7. \A c \in Blobs : /\ UsedPart(row'[c]) = UsedPart(row[c])
                       /\ ReservedPart(row'[c]) = ReservedPart(row[c])
  BY <1>4, <1>5 DEF LedgerInv, RowShape, UsedPart, ReservedPart
<1>8. LedgerBalanced'
  BY <1>0, <1>1, <1>2, <1>7, CountersStay DEF LedgerInv
<1> QED BY <1>3, <1>6, <1>8 DEF LedgerInv

\* createStagingBatch: the new ids had no row, so reserved_bytes grows by exactly
\* the declared sizes.
LEMMA CreateStep ==
    ASSUME LedgerInv, NEW n \in 1..NumBlobs, NEW size \in [NextBlobs(n) -> 0..MaxSize],
           CreateStagingBatch(n, size)
    PROVE  LedgerInv'
<1> DEFINE B == NextBlobs(n)
<1> DEFINE dr == [b \in Blobs |-> IF b \in B THEN size[b] ELSE 0]
<1> DEFINE du == [b \in Blobs |-> 0]
<1>0. /\ row \in [Blobs -> Row] /\ job \in [Blobs -> Job] /\ used \in Nat /\ reserved \in Nat
      /\ maxBytes \in Nat /\ issued \in 0..NumBlobs /\ NumBlobs \in Nat /\ MaxSize \in Nat
  BY LedgerAssumption, SizeAssumption DEF LedgerInv, LedgerTypeOK
<1>1. \A b \in B : size[b] \in Nat
  BY <1>0
<1>2. dr \in [Blobs -> Nat] /\ dr \in [Blobs -> Int] /\ SumOver(B, size) \in Nat /\ Total(dr) = SumOver(B, size)
  <2>1. dr \in [Blobs -> Nat] /\ SumOver(B, size) \in Nat
    <3> HIDE DEF B
    <3> QED BY <1>1, SumOverNat
  <2>2. dr \in [Blobs -> Int]
    BY <2>1
  <2> QED BY <2>1, <2>2 DEF SumOver
<1>3. du \in [Blobs -> Int] /\ Total(du) = 0
  BY TotalZero
<1>4. /\ issued + n <= NumBlobs /\ issued' = issued + n
      /\ reserved' = reserved + SumOver(B, size)
      /\ row' = [b \in Blobs |-> IF b \in B THEN StagingRow(size[b]) ELSE row[b]]
      /\ UNCHANGED <<job, used, maxBytes>>
  BY DEF CreateStagingBatch
<1>5. row' \in [Blobs -> Row]
  BY <1>0, <1>1, <1>4 DEF StagingRow, Row, Status, Lease
<1>6. LedgerTypeOK'
  BY <1>0, <1>2, <1>4, <1>5 DEF LedgerTypeOK
<1>7. \A b \in B : b \in Nat /\ b > issued /\ b <= issued'
  BY <1>0, <1>4 DEF NextBlobs
<1>8. \A b \in Blobs : b > issued' => b > issued /\ b \notin B
  BY <1>0, <1>4, <1>7 DEF Blobs
<1>9. RowShape' /\ CleanupTracked'
  <2> HIDE DEF B
  <2>1. ASSUME NEW b \in Blobs, b \in B PROVE row'[b] = StagingRow(size[b]) /\ row[b].status = "none"
    BY <1>4, <1>7, <2>1 DEF LedgerInv, RowShape
  <2>2. ASSUME NEW b \in Blobs, b \notin B PROVE row'[b] = row[b]
    BY <1>4, <2>2
  <2>3. ASSUME NEW b \in Blobs
        PROVE  /\ b > issued' => row'[b].status = "none"
               /\ row'[b].status = "staging" => row'[b].staging /\ row'[b].refs = 0
               /\ row'[b].status \in {"active", "orphaned"} => ~row'[b].staging /\ row'[b].lease = "none"
    <3>1. CASE b \in B
      <4>1. row'[b] = StagingRow(size[b]) /\ ~(b > issued')
        BY <1>8, <2>1, <3>1
      <4>2. row'[b].status = "staging" /\ row'[b].refs = 0 /\ row'[b].staging
        BY <4>1 DEF StagingRow
      <4> QED BY <4>1, <4>2
    <3>2. CASE b \notin B
      BY <1>8, <2>2, <3>2 DEF LedgerInv, RowShape
    <3> QED BY <3>1, <3>2
  <2>4. CleanupTracked'
    BY <1>4, <2>1, <2>2 DEF LedgerInv, CleanupTracked, StagingRow
  <2> QED BY <2>3, <2>4 DEF RowShape
<1>10. ASSUME NEW b \in Blobs
       PROVE  /\ UsedPart(row'[b]) = UsedPart(row[b]) + du[b]
              /\ ReservedPart(row'[b]) = ReservedPart(row[b]) + dr[b]
  <2> HIDE DEF B
  <2>1. CASE b \in B
    <3>1. row'[b] = StagingRow(size[b]) /\ row[b].status = "none" /\ size[b] \in Nat
      BY <1>1, <1>4, <1>7, <2>1 DEF LedgerInv, RowShape
    <3> QED BY <2>1, <3>1 DEF UsedPart, ReservedPart, StagingRow
  <2>2. CASE b \notin B
    <3>1. row'[b] = row[b] /\ row[b].size \in Nat
      BY <1>0, <1>4, <2>2 DEF Row
    <3> QED BY <2>2, <3>1 DEF UsedPart, ReservedPart
  <2> QED BY <2>1, <2>2
<1>11. LedgerBalanced'
  <2>1. used' = used + Total(du) /\ reserved' = reserved + Total(dr)
    BY <1>0, <1>2, <1>3, <1>4
  <2> HIDE DEF du, dr
  <2> QED BY <1>0, <1>2, <1>3, <1>5, <1>10, <2>1, CountersFollow DEF LedgerInv
<1> QED BY <1>6, <1>9, <1>11 DEF LedgerInv

\* Reserve grows the row and reserved_bytes by the same amount.
LEMMA ReserveStep ==
    ASSUME LedgerInv, NEW b \in Blobs, NEW n \in 1..MaxSize, Reserve(b, n)
    PROVE  LedgerInv'
<1> DEFINE dr == [c \in Blobs |-> IF c = b THEN n ELSE 0]
<1> DEFINE du == [c \in Blobs |-> 0]
<1>0. /\ row \in [Blobs -> Row] /\ used \in Nat /\ reserved \in Nat /\ n \in Nat
  BY SizeAssumption DEF LedgerInv, LedgerTypeOK
<1>1. /\ row[b].status = "staging" /\ reserved' = reserved + n
      /\ row' = [row EXCEPT ![b].size = @ + n]
      /\ UNCHANGED <<job, used, maxBytes, issued>>
  BY DEF Reserve, CanReserve
<1>2. row' \in [Blobs -> Row]
  BY <1>0, <1>1 DEF Row
<1>3. LedgerTypeOK'
  BY <1>0, <1>1, <1>2 DEF LedgerInv, LedgerTypeOK
<1>4. \A c \in Blobs : /\ row'[c].status = row[c].status /\ row'[c].staging = row[c].staging
                       /\ row'[c].refs = row[c].refs /\ row'[c].lease = row[c].lease
                       /\ row'[c].size = IF c = b THEN row[c].size + n ELSE row[c].size
                       /\ row[c].size \in Nat
  BY <1>0, <1>1 DEF Row
<1>5. RowShape' /\ CleanupTracked'
  BY <1>1, <1>4 DEF LedgerInv, RowShape, CleanupTracked
<1>6. ASSUME NEW c \in Blobs
      PROVE  /\ UsedPart(row'[c]) = UsedPart(row[c]) + du[c]
             /\ ReservedPart(row'[c]) = ReservedPart(row[c]) + dr[c]
  BY <1>0, <1>1, <1>4 DEF UsedPart, ReservedPart
<1>7. dr \in [Blobs -> Int] /\ Total(dr) = n /\ du \in [Blobs -> Int] /\ Total(du) = 0
  BY <1>0, TotalPoint, TotalZero
<1>8. LedgerBalanced'
  <2> HIDE DEF du, dr
  <2>1. used' = used + Total(du) /\ reserved' = reserved + Total(dr)
    BY <1>0, <1>1, <1>7
  <2> QED BY <1>0, <1>2, <1>6, <1>7, <2>1, CountersFollow DEF LedgerInv
<1> QED BY <1>3, <1>5, <1>8 DEF LedgerInv

\* The total of a negated function.
LEMMA TotalNeg ==
    ASSUME NEW f \in [Blobs -> Int]
    PROVE  Total([b \in Blobs |-> -f[b]]) = -Total(f)
<1> DEFINE g == [b \in Blobs |-> -f[b]]
<1> DEFINE z == [b \in Blobs |-> 0]
<1>1. g \in [Blobs -> Int] /\ z \in [Blobs -> Int] /\ \A b \in Blobs : z[b] = f[b] + g[b]
  OBVIOUS
<1>2. Total(z) = 0
  BY TotalZero
<1> HIDE DEF g, z
<1>3. Total(z) = Total(f) + Total(g)
  BY <1>1, TotalDiff
<1>4. Total(f) \in Int /\ Total(g) \in Int
  BY <1>1, TotalType
<1>5. Total(g) = -Total(f)
  BY <1>2, <1>3, <1>4
<1> QED BY <1>5 DEF g

\* ReleaseStagingBatch gives back what the rows it found had reserved.
LEMMA ReleaseStagingStep ==
    ASSUME LedgerInv, NEW B \in SUBSET Blobs, ReleaseStagingBatch(B)
    PROVE  LedgerInv'
<1> DEFINE g == [b \in Blobs |-> IF b \in Found(B) THEN row[b].size ELSE 0]
<1> DEFINE dr == [b \in Blobs |-> -g[b]]
<1> DEFINE du == [b \in Blobs |-> 0]
<1>0. /\ row \in [Blobs -> Row] /\ job \in [Blobs -> Job] /\ used \in Nat /\ reserved \in Nat
  BY DEF LedgerInv, LedgerTypeOK
<1>1. /\ \A b \in Found(B) : row[b].status = "staging"
      /\ SizeOf(Found(B)) <= reserved /\ reserved' = reserved - SizeOf(Found(B))
      /\ row' = [b \in Blobs |-> IF b \in B THEN NoRow ELSE row[b]]
      /\ job' = [b \in Blobs |-> IF b \in B THEN NoJob ELSE job[b]]
      /\ UNCHANGED <<used, maxBytes, issued>>
  BY DEF ReleaseStagingBatch, CanReleaseStaging
<1>2. g \in [Blobs -> Nat] /\ g \in [Blobs -> Int] /\ Total(g) = SizeOf(Found(B)) /\ SizeOf(Found(B)) \in Nat
  <2>1. g \in [Blobs -> Nat] /\ Total(g) = SizeOf(Found(B)) /\ SizeOf(Found(B)) \in Nat
    BY <1>0, SizeOfNat
  <2> HIDE DEF g
  <2> QED BY <2>1
<1>3. dr \in [Blobs -> Int] /\ Total(dr) = -SizeOf(Found(B)) /\ du \in [Blobs -> Int] /\ Total(du) = 0
  <2>1. du \in [Blobs -> Int] /\ Total(du) = 0
    BY TotalZero
  <2> HIDE DEF g, du
  <2>2. dr \in [Blobs -> Int] /\ Total(dr) = -Total(g)
    BY <1>2, TotalNeg
  <2> QED BY <1>2, <2>1, <2>2
<1>4. row' \in [Blobs -> Row] /\ job' \in [Blobs -> Job]
  <2>1. row' \in [Blobs -> Row]
    BY <1>0, <1>1 DEF NoRow, Row, Status, Lease
  <2>2. job' \in [Blobs -> Job]
    BY <1>0, <1>1 DEF NoJob, Job, Lease
  <2> QED BY <2>1, <2>2
<1>5. LedgerTypeOK'
  BY <1>0, <1>1, <1>2, <1>4 DEF LedgerInv, LedgerTypeOK
<1>6. RowShape' /\ CleanupTracked'
  BY <1>1 DEF LedgerInv, RowShape, CleanupTracked, NoRow, NoJob
<1>7. ASSUME NEW b \in Blobs
      PROVE  /\ UsedPart(row'[b]) = UsedPart(row[b]) + du[b]
             /\ ReservedPart(row'[b]) = ReservedPart(row[b]) + dr[b]
  <2>0. row[b].size \in Nat
    BY <1>0 DEF Row
  <2>1. CASE b \in Found(B)
    BY <1>1, <2>0, <2>1 DEF Found, UsedPart, ReservedPart, NoRow
  <2>2. CASE b \in B /\ b \notin Found(B)
    BY <1>1, <2>0, <2>2 DEF Found, UsedPart, ReservedPart, NoRow
  <2>3. CASE b \notin B
    BY <1>1, <2>0, <2>3 DEF Found, UsedPart, ReservedPart
  <2> QED BY <2>1, <2>2, <2>3
<1>8. LedgerBalanced'
  <2> HIDE DEF du, dr
  <2>1. used' = used + Total(du) /\ reserved' = reserved + Total(dr)
    BY <1>0, <1>1, <1>2, <1>3
  <2> QED BY <1>0, <1>3, <1>4, <1>7, <2>1, CountersFollow DEF LedgerInv
<1> QED BY <1>5, <1>6, <1>8 DEF LedgerInv

\* The publish transaction: reserved bytes of the activated blobs become used
\* ones, released blobs keep counting as used until they are deleted.
LEMMA PublishStepInv ==
    ASSUME LedgerInv, NEW A \in SUBSET Blobs, NEW R \in SUBSET (Blobs \ A),
           NEW size \in [A -> 0..MaxSize], PublishLedger(A, size, R)
    PROVE  LedgerInv'
<1> DEFINE g == [b \in Blobs |-> IF b \in A THEN row[b].size ELSE 0]
<1> DEFINE dr == [b \in Blobs |-> -g[b]]
<1> DEFINE du == [b \in Blobs |-> IF b \in A THEN size[b] ELSE 0]
<1>0. /\ row \in [Blobs -> Row] /\ job \in [Blobs -> Job] /\ used \in Nat /\ reserved \in Nat
      /\ \A b \in A : size[b] \in Nat
  BY SizeAssumption DEF LedgerInv, LedgerTypeOK
<1>1. /\ \A b \in A : row[b].status = "staging"
      /\ \A b \in R : row[b].status = "active" /\ row[b].refs >= 1
      /\ SizeOf(A) <= reserved /\ reserved' = reserved - SizeOf(A)
      /\ used' = used + SumOver(A, size)
      /\ row' = [b \in Blobs |-> IF b \in A THEN ActivatedRow(size[b])
                                 ELSE IF b \in R THEN ReleasedRow(row[b])
                                 ELSE row[b]]
      /\ job' = [b \in Blobs |-> IF b \in R THEN ReleasedJob(row[b], job[b]) ELSE job[b]]
      /\ UNCHANGED <<maxBytes, issued>>
  BY DEF PublishLedger, CanActivate, CanRelease
<1>2. du \in [Blobs -> Int] /\ SumOver(A, size) \in Nat /\ Total(du) = SumOver(A, size)
  <2>1. du \in [Blobs -> Nat] /\ SumOver(A, size) \in Nat
    BY <1>0, SumOverNat
  <2>2. du \in [Blobs -> Int]
    BY <2>1
  <2> QED BY <2>1, <2>2 DEF SumOver
<1>3. g \in [Blobs -> Int] /\ Total(g) = SizeOf(A) /\ SizeOf(A) \in Nat
  <2>1. g \in [Blobs -> Nat] /\ Total(g) = SizeOf(A) /\ SizeOf(A) \in Nat
    BY <1>0, SizeOfNat
  <2> HIDE DEF g
  <2> QED BY <2>1
<1>4. dr \in [Blobs -> Int] /\ Total(dr) = -SizeOf(A)
  <2> HIDE DEF g
  <2> QED BY <1>3, TotalNeg
<1>5. ASSUME NEW b \in A
      PROVE  row'[b] = ActivatedRow(size[b]) /\ job'[b] = job[b] /\ row[b].status = "staging"
  BY <1>1
<1>6. ASSUME NEW b \in R
      PROVE  /\ row'[b].refs = row[b].refs - 1 /\ row'[b].size = row[b].size
             /\ row'[b].staging = row[b].staging /\ row'[b].lease = row[b].lease
             /\ row'[b].status = IF row[b].refs = 1 THEN "pending_delete" ELSE row[b].status
             /\ job'[b] = IF row[b].refs = 1 THEN FreshJob ELSE job[b]
             /\ row[b].status = "active"
  BY <1>0, <1>1 DEF ReleasedRow, ReleasedJob, Row
<1>7. ASSUME NEW b \in Blobs, b \notin A, b \notin R PROVE row'[b] = row[b] /\ job'[b] = job[b]
  BY <1>1, <1>7
<1>8. row' \in [Blobs -> Row]
  <2>1. ASSUME NEW b \in A PROVE ActivatedRow(size[b]) \in Row
    BY <1>0 DEF ActivatedRow, Row, Status, Lease
  <2>2. ASSUME NEW b \in R PROVE ReleasedRow(row[b]) \in Row
    <3>1. row[b] \in Row /\ row[b].refs - 1 \in Nat
      BY <1>0, <1>1 DEF Row
    <3> QED BY <3>1 DEF ReleasedRow, Row, Status
  <2> QED BY <1>0, <1>1, <2>1, <2>2
<1>9. job' \in [Blobs -> Job]
  BY <1>0, <1>1 DEF ReleasedJob, FreshJob, Job, Lease
<1>10. LedgerTypeOK'
  BY <1>0, <1>1, <1>2, <1>3, <1>8, <1>9 DEF LedgerInv, LedgerTypeOK
<1>11. ASSUME NEW b \in Blobs
       PROVE  /\ b > issued' => row'[b].status = "none"
              /\ row'[b].status = "staging" => row'[b].staging /\ row'[b].refs = 0
              /\ row'[b].status \in {"active", "orphaned"} => ~row'[b].staging /\ row'[b].lease = "none"
              /\ row'[b].status = "pending_delete" =>
                    job'[b].queued /\ row'[b].refs = 0 /\ row'[b].lease = "none"
              /\ job'[b].queued => row'[b].status # "none"
  <2>1. CASE b \in A
    <3>1. row'[b] = ActivatedRow(size[b]) /\ job'[b] = job[b] /\ ~(b > issued')
      BY <1>1, <1>5, <2>1 DEF LedgerInv, RowShape
    <3>2. row'[b].status = "active" /\ row'[b].lease = "none" /\ ~row'[b].staging
      BY <3>1 DEF ActivatedRow
    <3> QED BY <3>1, <3>2
  <2>2. CASE b \in R
    <3>0. /\ row[b].status = "active" /\ ~row[b].staging /\ row[b].lease = "none"
          /\ row[b].refs \in Nat /\ ~(b > issued')
      BY <1>0, <1>1, <1>6, <2>2 DEF LedgerInv, RowShape, Row
    <3>1. CASE row[b].refs = 1
      <4>1. /\ row'[b].status = "pending_delete" /\ row'[b].refs = 0
            /\ row'[b].lease = "none" /\ job'[b] = FreshJob
        BY <1>6, <2>2, <3>0, <3>1
      <4>2. job'[b].queued
        BY <4>1 DEF FreshJob
      <4> QED BY <3>0, <4>1, <4>2
    <3>2. CASE row[b].refs # 1
      <4>1. /\ row'[b].status = "active" /\ row'[b].staging = row[b].staging
            /\ row'[b].lease = "none" /\ job'[b] = job[b]
        BY <1>6, <2>2, <3>0, <3>2
      <4> QED BY <3>0, <4>1
    <3> QED BY <3>1, <3>2
  <2>3. CASE b \notin A /\ b \notin R
    BY <1>1, <1>7, <2>3 DEF LedgerInv, RowShape, CleanupTracked
  <2> QED BY <2>1, <2>2, <2>3
<1>12. RowShape' /\ CleanupTracked'
  BY <1>11 DEF RowShape, CleanupTracked
<1>13. ASSUME NEW b \in Blobs
       PROVE  /\ UsedPart(row'[b]) = UsedPart(row[b]) + du[b]
              /\ ReservedPart(row'[b]) = ReservedPart(row[b]) + dr[b]
  <2>0. row[b].size \in Nat
    BY <1>0 DEF Row
  <2>1. CASE b \in A
    <3>1. row'[b] = ActivatedRow(size[b]) /\ row[b].status = "staging" /\ size[b] \in Nat
      BY <1>0, <1>5, <2>1
    <3>2. row'[b].status = "active" /\ row'[b].size = size[b]
      BY <3>1 DEF ActivatedRow
    <3>3. du[b] = size[b] /\ dr[b] = -row[b].size
      BY <2>1
    <3> QED BY <2>0, <3>1, <3>2, <3>3 DEF UsedPart, ReservedPart
  <2>2. CASE b \in R
    <3>1. b \notin A /\ ~row[b].staging
      BY <1>6, <2>2 DEF LedgerInv, RowShape
    <3> QED BY <1>6, <2>0, <2>2, <3>1 DEF UsedPart, ReservedPart
  <2>3. CASE b \notin A /\ b \notin R
    BY <1>7, <2>0, <2>3 DEF UsedPart, ReservedPart
  <2> QED BY <2>1, <2>2, <2>3
<1>14. LedgerBalanced'
  <2> HIDE DEF du, dr
  <2>1. used' = used + Total(du) /\ reserved' = reserved + Total(dr)
    BY <1>0, <1>1, <1>2, <1>3, <1>4
  <2> QED BY <1>0, <1>2, <1>4, <1>8, <1>13, <2>1, CountersFollow DEF LedgerInv
<1> QED BY <1>10, <1>12, <1>14 DEF LedgerInv

\* RegisterOrphan inserts a fresh row and counts its file.
LEMMA RegisterOrphanStep ==
    ASSUME LedgerInv, NEW n \in 0..MaxSize, RegisterOrphan(n)
    PROVE  LedgerInv'
<1> DEFINE b == issued + 1
<1> DEFINE du == [c \in Blobs |-> IF c = b THEN n ELSE 0]
<1> DEFINE dr == [c \in Blobs |-> 0]
<1>0. /\ row \in [Blobs -> Row] /\ used \in Nat /\ reserved \in Nat /\ n \in Nat
      /\ issued \in 0..NumBlobs /\ NumBlobs \in Nat
  BY LedgerAssumption, SizeAssumption DEF LedgerInv, LedgerTypeOK
<1>1. /\ issued < NumBlobs /\ issued' = issued + 1
      /\ row' = [row EXCEPT ![b] = OrphanRow(n)] /\ used' = used + n
      /\ UNCHANGED <<job, reserved, maxBytes>>
  BY DEF RegisterOrphan
<1>2. b \in Blobs /\ b > issued
  BY <1>0, <1>1 DEF Blobs
<1>3. row' \in [Blobs -> Row]
  BY <1>0, <1>1 DEF OrphanRow, Row, Status, Lease
<1>4. LedgerTypeOK'
  BY <1>0, <1>1, <1>3 DEF LedgerInv, LedgerTypeOK
<1>5. row[b].status = "none" /\ row'[b] = OrphanRow(n)
  BY <1>0, <1>1, <1>2 DEF LedgerInv, RowShape
<1>6. ASSUME NEW c \in Blobs, c # b PROVE row'[c] = row[c]
  BY <1>0, <1>1, <1>6
<1>7. \A c \in Blobs : c > issued' => c > issued /\ c # b
  BY <1>0, <1>1 DEF Blobs
<1>8. RowShape' /\ CleanupTracked'
  <2> HIDE DEF b
  <2> QED BY <1>1, <1>5, <1>6, <1>7 DEF LedgerInv, RowShape, CleanupTracked, OrphanRow
<1>9. ASSUME NEW c \in Blobs
      PROVE  /\ UsedPart(row'[c]) = UsedPart(row[c]) + du[c]
             /\ ReservedPart(row'[c]) = ReservedPart(row[c]) + dr[c]
  <2> HIDE DEF b
  <2>0. row[c].size \in Nat
    BY <1>0 DEF Row
  <2>1. CASE c = b
    BY <1>0, <1>5, <2>0, <2>1 DEF UsedPart, ReservedPart, OrphanRow
  <2>2. CASE c # b
    BY <1>6, <2>0, <2>2 DEF UsedPart, ReservedPart
  <2> QED BY <2>1, <2>2
<1>10. du \in [Blobs -> Int] /\ Total(du) = n /\ dr \in [Blobs -> Int] /\ Total(dr) = 0
  <2> HIDE DEF b
  <2> QED BY <1>0, <1>2, TotalPoint, TotalZero
<1>11. LedgerBalanced'
  <2> HIDE DEF du, dr
  <2>1. used' = used + Total(du) /\ reserved' = reserved + Total(dr)
    BY <1>0, <1>1, <1>10
  <2> QED BY <1>0, <1>3, <1>9, <1>10, <2>1, CountersFollow DEF LedgerInv
<1> QED BY <1>4, <1>8, <1>11 DEF LedgerInv

\* ScheduleOrphanCleanup moves an orphan to pending_delete without its bytes
\* changing counters.
LEMMA ScheduleOrphanStep ==
    ASSUME LedgerInv, NEW b \in Blobs, ScheduleOrphanCleanup(b)
    PROVE  LedgerInv'
<1>0. row \in [Blobs -> Row] /\ job \in [Blobs -> Job]
  BY DEF LedgerInv, LedgerTypeOK
<1>1. /\ row[b].refs = 0
      /\ (row[b].status = "orphaned" /\ ~row[b].staging) \/ row[b].status = "pending_delete"
      /\ row' = [row EXCEPT ![b].status = "pending_delete"]
      /\ job' = [job EXCEPT ![b] = FreshJob]
      /\ UNCHANGED <<used, reserved, maxBytes, issued>>
  BY DEF ScheduleOrphanCleanup
<1>2. row' \in [Blobs -> Row]
  BY <1>0, <1>1 DEF Row, Status
<1>3. job' \in [Blobs -> Job]
  BY <1>0, <1>1 DEF FreshJob, Job, Lease
<1>4. LedgerTypeOK'
  BY <1>1, <1>2, <1>3 DEF LedgerInv, LedgerTypeOK
<1>5. /\ row'[b].status = "pending_delete" /\ row'[b].size = row[b].size
      /\ row'[b].staging = row[b].staging /\ row'[b].refs = row[b].refs
      /\ row'[b].lease = row[b].lease /\ job'[b] = FreshJob
  BY <1>0, <1>1 DEF Row
<1>6. ASSUME NEW c \in Blobs, c # b PROVE row'[c] = row[c] /\ job'[c] = job[c]
  BY <1>0, <1>1, <1>6
<1>7. RowShape' /\ CleanupTracked'
  BY <1>1, <1>5, <1>6 DEF LedgerInv, RowShape, CleanupTracked, FreshJob
<1>8. \A c \in Blobs : /\ UsedPart(row'[c]) = UsedPart(row[c])
                       /\ ReservedPart(row'[c]) = ReservedPart(row[c])
  BY <1>1, <1>5, <1>6 DEF UsedPart, ReservedPart
<1>9. LedgerBalanced'
  BY <1>0, <1>1, <1>2, <1>8, CountersStay DEF LedgerInv
<1> QED BY <1>4, <1>7, <1>9 DEF LedgerInv

\* CompleteCleanupJob takes the bytes from the counter the row was counted in.
LEMMA CompleteStep ==
    ASSUME LedgerInv, NEW b \in Blobs, NEW w \in Workers, CompleteCleanupJob(b, w)
    PROVE  LedgerInv'
<1> DEFINE vu == IF row[b].staging THEN 0 ELSE -row[b].size
<1> DEFINE vr == IF row[b].staging THEN -row[b].size ELSE 0
<1> DEFINE du == [c \in Blobs |-> IF c = b THEN vu ELSE 0]
<1> DEFINE dr == [c \in Blobs |-> IF c = b THEN vr ELSE 0]
<1>0. /\ row \in [Blobs -> Row] /\ job \in [Blobs -> Job] /\ used \in Nat /\ reserved \in Nat
      /\ row[b].size \in Nat /\ row[b].status \in Status
  BY DEF LedgerInv, LedgerTypeOK, Row
<1>1. /\ row[b].status \notin {"none", "active"} /\ row[b].refs = 0
      /\ row' = [row EXCEPT ![b] = NoRow] /\ job' = [job EXCEPT ![b] = NoJob]
      /\ UNCHANGED <<maxBytes, issued>>
  BY DEF CompleteCleanupJob, CanComplete, Referenced
<1>2. /\ used' = used + vu /\ used' \in Nat
      /\ reserved' = reserved + vr /\ reserved' \in Nat
  <2>1. CASE row[b].staging
    <3>1. row[b].size <= reserved /\ reserved' = reserved - row[b].size /\ used' = used
      BY <2>1 DEF CompleteCleanupJob, CanComplete, ChargesReserved
    <3> QED BY <1>0, <2>1, <3>1
  <2>2. CASE ~row[b].staging
    <3>1. row[b].size <= used /\ used' = used - row[b].size /\ reserved' = reserved
      BY <2>2 DEF CompleteCleanupJob, CanComplete, ChargesReserved
    <3> QED BY <1>0, <2>2, <3>1
  <2> QED BY <2>1, <2>2
<1>3. row' \in [Blobs -> Row]
  BY <1>0, <1>1 DEF NoRow, Row, Status, Lease
<1>4. job' \in [Blobs -> Job]
  BY <1>0, <1>1 DEF NoJob, Job, Lease
<1>5. LedgerTypeOK'
  BY <1>1, <1>2, <1>3, <1>4 DEF LedgerInv, LedgerTypeOK
<1>6. row'[b] = NoRow /\ job'[b] = NoJob
  BY <1>0, <1>1
<1>7. ASSUME NEW c \in Blobs, c # b PROVE row'[c] = row[c] /\ job'[c] = job[c]
  BY <1>0, <1>1, <1>7
<1>8. RowShape' /\ CleanupTracked'
  BY <1>1, <1>6, <1>7 DEF LedgerInv, RowShape, CleanupTracked, NoRow, NoJob
<1>9. ASSUME NEW c \in Blobs
      PROVE  /\ UsedPart(row'[c]) = UsedPart(row[c]) + du[c]
             /\ ReservedPart(row'[c]) = ReservedPart(row[c]) + dr[c]
  <2>0. row[c].size \in Nat
    BY <1>0 DEF Row
  <2>1. CASE c = b
    <3>1. UsedPart(row[b]) = -vu /\ ReservedPart(row[b]) = -vr
      BY <1>0, <1>1 DEF UsedPart, ReservedPart, LedgerInv, RowShape, Status
    <3>2. UsedPart(row'[b]) = 0 /\ ReservedPart(row'[b]) = 0
      BY <1>6 DEF UsedPart, ReservedPart, NoRow
    <3> QED BY <1>0, <2>1, <3>1, <3>2
  <2>2. CASE c # b
    BY <1>7, <2>0, <2>2 DEF UsedPart, ReservedPart
  <2> QED BY <2>1, <2>2
<1>10. vu \in Int /\ vr \in Int
  BY <1>0
<1>11. du \in [Blobs -> Int] /\ Total(du) = vu /\ dr \in [Blobs -> Int] /\ Total(dr) = vr
  <2> HIDE DEF vu, vr
  <2> QED BY <1>10, TotalPoint
<1>12. LedgerBalanced'
  <2> HIDE DEF du, dr, vu, vr
  <2>1. used' = used + Total(du) /\ reserved' = reserved + Total(dr)
    BY <1>2, <1>11
  <2> QED BY <1>0, <1>3, <1>9, <1>11, <2>1, CountersFollow DEF LedgerInv
<1> QED BY <1>5, <1>8, <1>12 DEF LedgerInv

-----------------------------------------------------------------------------
(* The theorems *)

\* The ledger starts empty.
LEMMA InitInv == LedgerInit => LedgerInv
<1> SUFFICES ASSUME LedgerInit PROVE LedgerInv
  OBVIOUS
<1>1. LedgerTypeOK
  <2>1. row \in [Blobs -> Row]
    BY DEF LedgerInit, NoRow, Row, Status, Lease
  <2>2. job \in [Blobs -> Job]
    BY DEF LedgerInit, NoJob, Job, Lease
  <2> QED BY <2>1, <2>2, LedgerAssumption DEF LedgerInit, LedgerTypeOK
<1>2. RowShape /\ CleanupTracked
  BY DEF LedgerInit, RowShape, CleanupTracked, NoRow, NoJob
<1>3. /\ [b \in Blobs |-> UsedPart(row[b])] = [b \in Blobs |-> 0]
      /\ [b \in Blobs |-> ReservedPart(row[b])] = [b \in Blobs |-> 0]
  BY DEF LedgerInit, UsedPart, ReservedPart, NoRow
<1>4. LedgerBalanced
  BY <1>3, TotalZero DEF LedgerBalanced, LedgerInit
<1> QED BY <1>1, <1>2, <1>4 DEF LedgerInv

\* Every staging transaction preserves the invariant.
LEMMA StagingStepInv ==
    ASSUME LedgerInv, StagingStep
    PROVE  LedgerInv'
<1>1. CASE \E n \in 1..NumBlobs : \E size \in [NextBlobs(n) -> 0..MaxSize] : CreateStagingBatch(n, size)
  BY <1>1, CreateStep
<1>2. CASE \E b \in Blobs : \E n \in 1..MaxSize : Reserve(b, n)
  BY <1>2, ReserveStep
<1>3. ASSUME NEW B \in SUBSET Blobs, RenewStagingLease(B) PROVE LedgerInv'
  BY <1>3, RenewStagingStep
<1>4. ASSUME NEW B \in SUBSET Blobs, ReleaseStagingBatch(B) PROVE LedgerInv'
  BY <1>4, ReleaseStagingStep
<1>5. ASSUME NEW B \in SUBSET Blobs, ExpireStagingForCleanup(B) PROVE LedgerInv'
  BY <1>5, SealStep DEF ExpireStagingForCleanup, Expirable
<1>6. ASSUME NEW B \in SUBSET Blobs, SealStagingForCleanupBatch(B) PROVE LedgerInv'
  BY <1>6, SealStep DEF SealStagingForCleanupBatch, CanSeal
<1>7. ASSUME NEW B \in SUBSET Blobs, EnqueueCleanupBatch(B) PROVE LedgerInv'
  BY <1>7, EnqueueStep
<1> QED BY <1>1, <1>2, <1>3, <1>4, <1>5, <1>6, <1>7 DEF StagingStep

\* Every step of the ledger preserves the invariant.
LEMMA NextInv == LedgerInv /\ [LedgerNext]_ledgerVars => LedgerInv'
<1> SUFFICES ASSUME LedgerInv, [LedgerNext]_ledgerVars PROVE LedgerInv'
  OBVIOUS
<1>1. CASE \E m \in QuotaSettings : UpdateMaxBytes(m)
  BY <1>1, UpdateMaxBytesStep
<1>2. CASE StagingStep
  BY <1>2, StagingStepInv
<1>3. CASE PublishStep
  BY <1>3, PublishStepInv DEF PublishStep
<1>4. CASE \E n \in 0..MaxSize : RegisterOrphan(n)
  BY <1>4, RegisterOrphanStep
<1>5. CASE CleanupStep
  <2>1. PICK b \in Blobs : \/ ScheduleOrphanCleanup(b)
                           \/ \E w \in Workers :
                                 \/ ClaimCleanupJob(b, w)
                                 \/ RenewCleanupJobLease(b, w)
                                 \/ FailCleanupJob(b, w)
                                 \/ CompleteCleanupJob(b, w)
    BY <1>5 DEF CleanupStep
  <2> QED BY <2>1, ScheduleOrphanStep, ClaimsStep, CompleteStep
<1>6. CASE TimeStep
  BY <1>6, TimeSteps
<1>7. CASE UNCHANGED ledgerVars
  BY <1>7 DEF ledgerVars, LedgerInv, LedgerTypeOK, RowShape, LedgerBalanced, CleanupTracked
<1> QED BY <1>1, <1>2, <1>3, <1>4, <1>5, <1>6, <1>7 DEF LedgerNext

\* The strengthened invariant holds of every behaviour of the ledger.
THEOREM LedgerInvariant == LedgerSpec => []LedgerInv
BY InitInv, NextInv, PTL DEF LedgerSpec

\* The tables keep their types: in particular neither counter of the quota row
\* ever goes below zero, whatever order the transactions commit in.
THEOREM LedgerTypes == LedgerSpec => []LedgerTypeOK
BY LedgerInvariant, PTL DEF LedgerInv

\* For any number of blobs, workers and quota settings, used_bytes and
\* reserved_bytes equal what the reconciliation audit recomputes from the rows.
THEOREM LedgerAlwaysBalanced == LedgerSpec => []LedgerBalanced
BY LedgerInvariant, PTL DEF LedgerInv

\* A blob waiting for deletion always has a cleanup job, and no job is left
\* without its blob.
THEOREM CleanupAlwaysTracked == LedgerSpec => []CleanupTracked
BY LedgerInvariant, PTL DEF LedgerInv

-----------------------------------------------------------------------------
(* What a step may never do *)

\* The step of NoResurrection.
Condemned ==
    \A b \in Blobs :
        /\ row[b].status = "pending_delete" => row'[b].status \in {"pending_delete", "none"}
        /\ row[b].status = "none" /\ b <= issued => row'[b].status = "none"

\* A transaction that changes the status of one row at most.
LEMMA CondemnedByRow ==
    ASSUME NEW b \in Blobs, \A c \in Blobs \ {b} : row'[c] = row[c],
           row[b].status = "pending_delete" => row'[b].status \in {"pending_delete", "none"},
           row[b].status = "none" /\ b <= issued => row'[b].status = "none"
    PROVE  Condemned
BY DEF Condemned

\* A transaction that changes no status.
LEMMA CondemnedUnchanged ==
    ASSUME \A b \in Blobs : row'[b].status = row[b].status
    PROVE  Condemned
BY DEF Condemned

\* Every step keeps condemned blobs condemned and deleted ids deleted.
LEMMA CondemnedStep == LedgerInv /\ LedgerNext => Condemned
<1> SUFFICES ASSUME LedgerInv, LedgerNext PROVE Condemned
  OBVIOUS
<1>0. row \in [Blobs -> Row] /\ issued \in 0..NumBlobs /\ NumBlobs \in Nat
  BY LedgerAssumption DEF LedgerInv, LedgerTypeOK
<1>1. ASSUME NEW m \in QuotaSettings, UpdateMaxBytes(m) PROVE Condemned
  BY <1>1, CondemnedUnchanged DEF UpdateMaxBytes
<1>2. ASSUME NEW n \in 1..NumBlobs, NEW size \in [NextBlobs(n) -> 0..MaxSize], CreateStagingBatch(n, size)
      PROVE  Condemned
  <2>1. ASSUME NEW b \in Blobs, b \in NextBlobs(n) PROVE b > issued /\ ~(b <= issued) /\ row[b].status = "none"
    BY <1>0, <2>1 DEF NextBlobs, LedgerInv, RowShape
  <2>2. ASSUME NEW b \in Blobs, b \notin NextBlobs(n) PROVE row'[b] = row[b]
    BY <1>2, <2>2 DEF CreateStagingBatch
  <2> QED BY <2>1, <2>2 DEF Condemned
<1>3. ASSUME NEW b \in Blobs, NEW n \in 1..MaxSize, Reserve(b, n) PROVE Condemned
  <2>1. row' = [row EXCEPT ![b].size = @ + n]
    BY <1>3 DEF Reserve
  <2>2. \A c \in Blobs : row'[c].status = row[c].status
    BY <1>0, <2>1 DEF Row
  <2> QED BY <2>2, CondemnedUnchanged
<1>4. ASSUME NEW B \in SUBSET Blobs, RenewStagingLease(B) PROVE Condemned
  <2>1. \A c \in Blobs : row'[c].status = row[c].status
    BY <1>0, <1>4 DEF RenewStagingLease, Row
  <2> QED BY <2>1, CondemnedUnchanged
<1>5. ASSUME NEW B \in SUBSET Blobs, ReleaseStagingBatch(B) PROVE Condemned
  BY <1>5 DEF ReleaseStagingBatch, Condemned, NoRow
<1>6. ASSUME NEW B \in SUBSET Blobs, Seal(B), \A b \in B : row[b].status = "staging" PROVE Condemned
  BY <1>6 DEF Seal, Condemned
<1>7. ASSUME NEW B \in SUBSET Blobs, EnqueueCleanupBatch(B) PROVE Condemned
  BY <1>7, CondemnedUnchanged DEF EnqueueCleanupBatch
<1>8. CASE StagingStep
  BY <1>2, <1>3, <1>4, <1>5, <1>6, <1>7, <1>8
     DEF StagingStep, ExpireStagingForCleanup, Expirable, SealStagingForCleanupBatch, CanSeal
<1>9. ASSUME NEW A \in SUBSET Blobs, NEW R \in SUBSET (Blobs \ A), NEW size \in [A -> 0..MaxSize],
             PublishLedger(A, size, R)
      PROVE  Condemned
  BY <1>9 DEF PublishLedger, CanActivate, CanRelease, Condemned
<1>10. ASSUME NEW n \in 0..MaxSize, RegisterOrphan(n) PROVE Condemned
  <2>1. row' = [row EXCEPT ![issued + 1] = OrphanRow(n)] /\ issued + 1 \in Blobs /\ ~(issued + 1 <= issued)
        /\ row[issued + 1].status = "none"
    BY <1>0, <1>10 DEF RegisterOrphan, Blobs, LedgerInv, RowShape
  <2> QED BY <1>0, <2>1, CondemnedByRow
<1>11. ASSUME NEW b \in Blobs, ScheduleOrphanCleanup(b) PROVE Condemned
  <2>1. row' = [row EXCEPT ![b].status = "pending_delete"] /\ row[b].status # "none"
    BY <1>11 DEF ScheduleOrphanCleanup
  <2>2. row'[b].status = "pending_delete" /\ \A c \in Blobs \ {b} : row'[c] = row[c]
    BY <1>0, <2>1 DEF Row
  <2> QED BY <2>1, <2>2, CondemnedByRow
<1>12. ASSUME NEW b \in Blobs, NEW w \in Workers, CompleteCleanupJob(b, w) PROVE Condemned
  <2>1. row' = [row EXCEPT ![b] = NoRow]
    BY <1>12 DEF CompleteCleanupJob
  <2>2. row'[b].status = "none" /\ \A c \in Blobs \ {b} : row'[c] = row[c]
    BY <1>0, <2>1 DEF NoRow
  <2> QED BY <2>2, CondemnedByRow
<1>13. ASSUME NEW b \in Blobs, NEW w \in Workers,
              ClaimCleanupJob(b, w) \/ RenewCleanupJobLease(b, w) \/ FailCleanupJob(b, w)
       PROVE  Condemned
  BY <1>13, CondemnedUnchanged DEF ClaimCleanupJob, RenewCleanupJobLease, FailCleanupJob
<1>14. ASSUME NEW b \in Blobs, StagingLeaseExpires(b) \/ JobLeaseExpires(b) \/ BackoffElapses(b)
       PROVE  Condemned
  <2>1. row' = row \/ row' = [row EXCEPT ![b].lease = "expired"]
    BY <1>14 DEF StagingLeaseExpires, JobLeaseExpires, BackoffElapses
  <2>2. \A c \in Blobs : row'[c].status = row[c].status
    BY <1>0, <2>1 DEF Row
  <2> QED BY <2>2, CondemnedUnchanged
<1> QED
  BY <1>1, <1>8, <1>9, <1>10, <1>11, <1>12, <1>13, <1>14
     DEF LedgerNext, PublishStep, CleanupStep, TimeStep

\* No transaction, in any order, brings back a blob that is being deleted, nor
\* the id of one that was.
THEOREM LedgerNoResurrection == LedgerSpec => NoResurrection
<1>1. LedgerInv /\ [LedgerNext]_ledgerVars => [Condemned]_ledgerVars
  BY CondemnedStep
<1> QED BY <1>1, LedgerInvariant, PTL DEF LedgerSpec, NoResurrection, Condemned

\* The step of NeverOvercommits.
WithinLimit ==
    \/ used' + reserved' <= maxBytes'
    \/ used' + reserved' <= used + reserved /\ maxBytes' = maxBytes
    \/ \E b \in Blobs : row[b].status = "none" /\ row'[b].status = "orphaned"

\* Every step but the registration of an orphan respects the limit.
LEMMA WithinLimitStep == LedgerInv /\ LedgerNext => WithinLimit
<1> SUFFICES ASSUME LedgerInv, LedgerNext PROVE WithinLimit
  OBVIOUS
<1>0. /\ row \in [Blobs -> Row] /\ issued \in 0..NumBlobs /\ NumBlobs \in Nat /\ MaxSize \in Nat
      /\ used \in Nat /\ reserved \in Nat /\ maxBytes \in Nat
  BY LedgerAssumption, SizeAssumption DEF LedgerInv, LedgerTypeOK
<1>1. ASSUME NEW m \in QuotaSettings, UpdateMaxBytes(m) PROVE WithinLimit
  BY <1>1 DEF UpdateMaxBytes, WithinLimit
<1>2. ASSUME UNCHANGED <<used, reserved, maxBytes>> PROVE WithinLimit
  BY <1>0, <1>2 DEF WithinLimit
<1>3. ASSUME NEW n \in 1..NumBlobs, NEW size \in [NextBlobs(n) -> 0..MaxSize], CreateStagingBatch(n, size)
      PROVE  WithinLimit
  <2>1. \A b \in NextBlobs(n) : size[b] \in Nat
    BY <1>0
  <2>2. SumOver(NextBlobs(n), size) \in Nat
    BY <2>1, SumOverNat
  <2>3. /\ SumOver(NextBlobs(n), size) > 0 => Fits(SumOver(NextBlobs(n), size))
        /\ reserved' = reserved + SumOver(NextBlobs(n), size) /\ used' = used /\ maxBytes' = maxBytes
    BY <1>3 DEF CreateStagingBatch
  <2> QED BY <1>0, <2>2, <2>3 DEF Fits, WithinLimit
<1>4. ASSUME NEW b \in Blobs, NEW n \in 1..MaxSize, Reserve(b, n) PROVE WithinLimit
  BY <1>0, <1>4 DEF Reserve, CanReserve, Fits, WithinLimit
<1>5. ASSUME NEW B \in SUBSET Blobs, ReleaseStagingBatch(B) PROVE WithinLimit
  <2>1. SizeOf(Found(B)) \in Nat
    BY <1>0, SizeOfNat
  <2>2. reserved' = reserved - SizeOf(Found(B)) /\ used' = used /\ maxBytes' = maxBytes
    BY <1>5 DEF ReleaseStagingBatch
  <2> QED BY <1>0, <2>1, <2>2 DEF WithinLimit
<1>6. CASE StagingStep
  BY <1>2, <1>3, <1>4, <1>5, <1>6
     DEF StagingStep, RenewStagingLease, ExpireStagingForCleanup, SealStagingForCleanupBatch, Seal, EnqueueCleanupBatch
<1>7. ASSUME NEW A \in SUBSET Blobs, NEW R \in SUBSET (Blobs \ A), NEW size \in [A -> 0..MaxSize],
             PublishLedger(A, size, R)
      PROVE  WithinLimit
  <2> DEFINE f == [b \in Blobs |-> IF b \in A THEN size[b] ELSE 0]
  <2> DEFINE g == [b \in Blobs |-> IF b \in A THEN row[b].size ELSE 0]
  <2>1. \A b \in A : size[b] \in Nat /\ row[b].size \in Nat /\ size[b] <= row[b].size
    BY <1>0, <1>7 DEF PublishLedger, CanActivate, Row
  <2>2. f \in [Blobs -> Int] /\ g \in [Blobs -> Int] /\ \A b \in Blobs : f[b] <= g[b]
    BY <2>1
  <2>3. Total(f) <= Total(g)
    <3> HIDE DEF f, g
    <3> QED BY <2>2, TotalMono
  <2>4. SumOver(A, size) = Total(f) /\ SizeOf(A) = Total(g)
    BY <1>0, SizeOfNat DEF SumOver
  <2>5. SumOver(A, size) \in Nat /\ SizeOf(A) \in Nat
    BY <1>0, <2>1, SumOverNat, SizeOfNat
  <2>6. reserved' = reserved - SizeOf(A) /\ used' = used + SumOver(A, size) /\ maxBytes' = maxBytes
    BY <1>7 DEF PublishLedger
  <2> HIDE DEF f, g
  <2> QED BY <1>0, <2>3, <2>4, <2>5, <2>6 DEF WithinLimit
<1>8. ASSUME NEW n \in 0..MaxSize, RegisterOrphan(n) PROVE WithinLimit
  <2>1. row' = [row EXCEPT ![issued + 1] = OrphanRow(n)] /\ issued + 1 \in Blobs
        /\ row[issued + 1].status = "none"
    BY <1>0, <1>8 DEF RegisterOrphan, Blobs, LedgerInv, RowShape
  <2>2. row'[issued + 1].status = "orphaned"
    BY <1>0, <2>1 DEF OrphanRow
  <2> QED BY <2>1, <2>2 DEF WithinLimit
<1>9. ASSUME NEW b \in Blobs, NEW w \in Workers, CompleteCleanupJob(b, w) PROVE WithinLimit
  <2>1. row[b].size \in Nat
    BY <1>0 DEF Row
  <2> QED BY <1>0, <1>9, <2>1 DEF CompleteCleanupJob, WithinLimit
<1>10. CASE CleanupStep
  BY <1>2, <1>9, <1>10
     DEF CleanupStep, ScheduleOrphanCleanup, ClaimCleanupJob, RenewCleanupJobLease, FailCleanupJob
<1>11. CASE TimeStep
  BY <1>2, <1>11 DEF TimeStep, StagingLeaseExpires, JobLeaseExpires, BackoffElapses
<1> QED BY <1>1, <1>6, <1>7, <1>8, <1>10, <1>11 DEF LedgerNext, PublishStep

\* Bytes are never promised twice: only the registration of an orphan, whose
\* file exists already, takes the accounted bytes past max_bytes.
THEOREM LedgerNeverOvercommits == LedgerSpec => NeverOvercommits
<1>1. LedgerInv /\ [LedgerNext]_ledgerVars => [WithinLimit]_ledgerVars
  BY WithinLimitStep
<1> QED BY <1>1, LedgerInvariant, PTL DEF LedgerSpec, NeverOvercommits, WithinLimit
=============================================================================
