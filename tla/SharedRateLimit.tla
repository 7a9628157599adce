--------------------------- MODULE SharedRateLimit ---------------------------
(***************************************************************************)
(* The rate limiter whose token buckets are rows of a database shared by   *)
(* several servers.  Each request runs up to three transactions; a         *)
(* transaction locks the rows it reads, and is one step here.              *)
(***************************************************************************)
EXTENDS Naturals, Sequences, FiniteSets

CONSTANTS
    Servers,     \* with one request at a time each
    Keys,        \* clients
    Burst, Rate, \* tokens, and tokens per unit of time
    TTL,         \* life of a bucket that is not used
    Interval,    \* between two cleanups of a server
    MaxEntries,  \* APP_RATE_LIMIT_CACHE_MAX_ENTRIES
    BatchSize,   \* mysqlRateLimitCleanupBatchSize
    MaxTime,     \* bound on the clock
    MaxGranted,  \* bound on the requests recorded per client
    NoKey

\* As in the default settings, an unused bucket is full again before it expires.
LimitAssumption ==
    /\ {Burst, Rate, TTL, MaxEntries, BatchSize, Interval} \subseteq Nat \ {0}
    /\ MaxTime \in Nat
    /\ TTL * Rate >= Burst
    /\ Interval <= TTL
    /\ NoKey \notin Keys

VARIABLES
    buckets,     \* rate_limit_buckets
    entryCount,  \* rate_limit_capacity.entry_count
    now,         \* UTC_TIMESTAMP(6)
    call,        \* the request of each server
    nextCleanup, \* of each server
    granted      \* when the requests of each client were allowed

limitsVars == <<buckets, entryCount, now, call, nextCleanup, granted>>

NoCall == [step |-> "idle", key |-> NoKey]
Min2(a, b) == IF a <= b THEN a ELSE b

-----------------------------------------------------------------------------
BucketExpired(b) == b.expires <= now
Refilled(b) == Min2(Burst, b.tokens + (now - b.refilled) * Rate)

\* updateRateLimitBucket: the decision, and the bucket after it.  Also a
\* request that is refused puts off the expiry.
Allowed(b) == BucketExpired(b) \/ Refilled(b) >= 1

Updated(b) ==
    [tokens |-> CASE BucketExpired(b) -> Burst - 1
                  [] ~BucketExpired(b) /\ Refilled(b) >= 1 -> Refilled(b) - 1
                  [] OTHER -> Refilled(b),
     refilled |-> now,
     expires |-> now + TTL]

Inserted == [tokens |-> Burst - 1, refilled |-> now, expires |-> now + TTL]

With(bs, k, b) == [j \in DOMAIN bs \cup {k} |-> IF j = k THEN b ELSE bs[j]]
Without(bs, ks) == [j \in DOMAIN bs \ ks |-> bs[j]]

\* What cleanupExpiredRateLimitBuckets deletes: the first expired ones.
Batches ==
    LET expired == {k \in DOMAIN buckets : BucketExpired(buckets[k])}
        size == Min2(BatchSize, Cardinality(expired))
    IN {ks \in SUBSET expired :
           /\ Cardinality(ks) = size
           /\ \A k \in ks, j \in expired \ ks : buckets[k].expires <= buckets[j].expires}

Grant(k) == granted' = [granted EXCEPT ![k] = Append(@, now)]

UseBucket(k) ==
    /\ buckets' = With(buckets, k, Updated(buckets[k]))
    /\ IF Allowed(buckets[k]) THEN Grant(k) ELSE UNCHANGED granted

Goes(s, step) == call' = [call EXCEPT ![s].step = step]

-----------------------------------------------------------------------------
Allow(s, k) ==
    /\ call[s] = NoCall
    /\ Len(granted[k]) < MaxGranted
    /\ call' = [call EXCEPT ![s] = [step |-> "update", key |-> k]]
    /\ UNCHANGED <<buckets, entryCount, now, nextCleanup, granted>>

UpdateExisting(s) ==
    LET k == call[s].key
    IN /\ call[s].step = "update"
       /\ IF k \in DOMAIN buckets
          THEN UseBucket(k) /\ Goes(s, "cleanup")
          ELSE Goes(s, "insert") /\ UNCHANGED <<buckets, granted>>
       /\ UNCHANGED <<entryCount, now, nextCleanup>>

\* insertBounded, with the capacity row locked: another server may have made
\* the bucket meanwhile; a full table is cleaned up, and the request refused
\* if that does not help.
InsertBounded_Mutant(s) ==
    LET k == call[s].key
    IN /\ call[s].step = "insert"
       /\ IF k \in DOMAIN buckets
          THEN UseBucket(k) /\ UNCHANGED entryCount
          ELSE \E ks \in IF entryCount >= MaxEntries THEN Batches ELSE {{}} :
                 LET left == entryCount - Cardinality(ks)
                 IN IF left >= MaxEntries
                    THEN /\ buckets' = Without(buckets, ks) /\ entryCount' = left
                         /\ UNCHANGED granted
                    ELSE /\ buckets' = With(Without(buckets, ks), k, Inserted)
                         /\ entryCount' = entryCount + 1
                         /\ Grant(k)
       /\ Goes(s, "cleanup")
       /\ UNCHANGED <<now, nextCleanup>>

InsertBounded(s) ==
    LET k == call[s].key
    IN /\ call[s].step = "insert"
       /\ IF k \in DOMAIN buckets
          THEN UseBucket(k) /\ UNCHANGED entryCount
          ELSE \E ks \in IF entryCount >= MaxEntries THEN Batches ELSE {{}} :
                 LET left == entryCount - Cardinality(ks)
                 IN IF left >= MaxEntries
                    THEN /\ buckets' = Without(buckets, ks) /\ entryCount' = left
                         /\ UNCHANGED granted
                    ELSE /\ buckets' = With(Without(buckets, ks), k, Inserted)
                         /\ entryCount' = left + 1
                         /\ Grant(k)
       /\ Goes(s, "cleanup")
       /\ UNCHANGED <<now, nextCleanup>>

\* cleanupExpired, before the answer is given: once in an interval.
CleanupExpired(s) ==
    /\ call[s].step = "cleanup"
    /\ IF now < nextCleanup[s]
       THEN UNCHANGED <<buckets, entryCount, nextCleanup>>
       ELSE \E ks \in Batches :
              /\ buckets' = Without(buckets, ks)
              /\ entryCount' = IF Cardinality(ks) <= entryCount
                               THEN entryCount - Cardinality(ks) ELSE 0
              /\ nextCleanup' = [nextCleanup EXCEPT ![s] = now + Interval]
    /\ call' = [call EXCEPT ![s] = NoCall]
    /\ UNCHANGED <<now, granted>>

\* A transaction fails and is rolled back: the request is answered with 503.
\* The decision of an earlier transaction stays in the bucket.
StoreFails(s) ==
    /\ call[s] # NoCall
    /\ call' = [call EXCEPT ![s] = NoCall]
    /\ nextCleanup' = IF call[s].step = "cleanup" /\ now >= nextCleanup[s]
                      THEN [nextCleanup EXCEPT ![s] = now + Interval] ELSE nextCleanup
    /\ UNCHANGED <<buckets, entryCount, now, granted>>

Tick ==
    /\ now < MaxTime
    /\ now' = now + 1
    /\ UNCHANGED <<buckets, entryCount, call, nextCleanup, granted>>

-----------------------------------------------------------------------------
LimitsInit ==
    /\ buckets = [k \in {} |-> Inserted]
    /\ entryCount = 0
    /\ now = 0
    /\ call = [s \in Servers |-> NoCall]
    /\ nextCleanup = [s \in Servers |-> Interval]
    /\ granted = [k \in Keys |-> <<>>]

LimitsNext ==
    \/ \E s \in Servers :
           \/ \E k \in Keys : Allow(s, k)
           \/ UpdateExisting(s) \/ InsertBounded(s) \/ CleanupExpired(s) \/ StoreFails(s)
    \/ Tick

LimitsSpec == LimitsInit /\ [][LimitsNext]_limitsVars

-----------------------------------------------------------------------------
(* Properties                                                              *)

\* Every variable has its type.
LimitsTypeOK ==
    /\ DOMAIN buckets \subseteq Keys
    /\ \A k \in DOMAIN buckets : buckets[k].tokens \in 0..(Burst - 1)
    /\ entryCount \in Nat /\ now \in 0..MaxTime
    /\ \A s \in Servers : call[s].step \in {"idle", "update", "insert", "cleanup"}
    /\ nextCleanup \in [Servers -> Nat]

\* The capacity row counts the buckets, and there are never more than allowed,
\* however the servers' insertions and cleanups interleave.
EntriesCounted ==
    entryCount = Cardinality(DOMAIN buckets) /\ entryCount <= MaxEntries

\* Over any stretch of time a client is granted no more than the burst and what
\* was refilled, through whichever servers, and although its bucket may expire,
\* be deleted and be made anew meanwhile.
BudgetKept ==
    \A k \in Keys : \A i, j \in DOMAIN granted[k] :
        i <= j => j - i + 1 <= Burst + Rate * (granted[k][j] - granted[k][i])

\* The servers share one table of buckets soundly: the types, the count and the
\* budget of every client.
LimitsShared == LimitsTypeOK /\ EntriesCounted /\ BudgetKept
=============================================================================
