# Light OSS: a TLA+ model of its storage core and its web client

Light OSS is a small object store: a Go server (`src/backend`) that keeps
metadata in MySQL (or SQLite) and file contents in a directory, and a React
client (`src/frontend`). Several servers may share one database and one shared
directory. The project models the two places where its behaviour is hard to
test: on the server, the blob ledger with the uploads, workers and scans that
write to it, where an error loses data or leaks space; in the client, the pages
whose state is a cache of the server's, changed by requests that are answered
late, in another order, or after the page moved on.

## 1. Inventory

### Server

| component | state it keeps | operations | talks to |
|---|---|---|---|
| Storage ledger (`internal/repository/storage_*.go`) | rows of `storage_blobs` (status, size, reference count, staging path, staging lease), `storage_cleanup_jobs` (owner, lease, next retry), the quota row (`used_bytes`, `reserved_bytes`, `max_bytes`) | create staging, renew lease, reserve, activate, release references, release staging, expire, seal, enqueue, register and schedule orphans, claim, renew, fail and complete jobs, change the limit | called by everything below, each call one SQL transaction |
| Blob lifecycle service (`internal/service/blob_*.go`) | per request: the staged blobs, the heartbeat | `Stage`, `StageKnownBatch`, `Publish`, `Abort` | ledger, file storage, wakes the worker |
| Cleanup worker (`storage_cleanup_worker.go`) | per claim: job, owner token | `RunOnce`: expire, claim, delete, complete or fail | ledger, file storage |
| File storage (`internal/storage`) | files under `staging/` and `objects/`, the identity file | `Stage`, `Commit`, `Delete`, `WalkManaged`, readiness | the file system |
| Objects and recycle bin (`object_*.go`, `recycle_bin_*.go`) | `objects`, `recycle_bin_objects` | upload, delete, restore, purge, list | `Publish` with a metadata callback |
| Reconciliation (`storage_reconciliation.go`, audit repository) | `reconciled_at`, the storage identity | seal, scan, register orphans, audit | ledger, file storage, at start-up, beside live servers |
| Explorer (`explorer*.go`) | folder markers | list with cursors, folders, batch delete | metadata transactions |
| Buckets, sites (`bucket_service.go`, `site_*.go`) | `buckets`, `sites` | delete bucket, publish sites | metadata transactions |
| Rate limiting (`internal/middleware`) | in-memory LRU of limiters, or MySQL token buckets and their counter | allow, evict, clean up | every request |
| Authentication, signing, validation, config, handlers, metrics | none, or read-only | parse, check, format | the services |
| Server start-up (`cmd/server/main.go`) | readiness | migrate, bind identity, reconcile if needed, serve | all of it |

### Web client

| component | state it keeps | operations | talks to |
|---|---|---|---|
| Explorer navigation (`BucketObjectsPage.tsx`, `lib/explorer.ts`, `routes/AppRoutes.tsx`) | the query string, a stack of cursors, two stacks of folders, kept while the page is hidden | open, Back, Forward, Next, Previous, sort, search, page size, leave and open again | the listing query, the browser's history, the sidebar |
| Listing and row operations (`BucketObjectsPage.tsx`, `ExplorerTable.tsx`) | query cache, selection, marks of busy rows, dialogs | create folder, delete, publish, bulk delete | `api/objects.ts` |
| Uploads (`UploadObjectDialog`, `UploadFolderDialog`, `UploadAndPublishSiteDialog`) | dialog, chosen file, pending question, progress | check, ask, upload, overwrite | `api/objects.ts`, `api/sites.ts` |
| Downloads (`BucketObjectsPage.tsx`, `lib/utils.ts`) | two marks, the bulk loop | link, signed path, archive | `api/objects.ts` |
| Explorer table (`ExplorerTable.tsx`) | details dialog, sort popovers, window of rows | save visibility, sort, scroll | the page |
| Recycle bin (`RecycleBinDialog.tsx`) | pages, selection, confirmation, failed items | restore, purge, page | `api/objects.ts` |
| Settings (`SettingsPage.tsx`) | draft, saved connection, running tests, limit field | test, save, change the limit | `lib/settings.tsx`, `api/system.ts` |
| Sites (`SitesPage.tsx`, `SiteFormDialog.tsx`) | two lists, forms with drafts | create, edit, delete, upload and publish | `api/sites.ts` |
| Buckets and pins (`BucketsPage.tsx`, `features/buckets`) | list with search, pins in `localStorage` per service | create, delete, pin, reconcile pins | `api/buckets.ts`, other tabs |
| Dashboard, layout, translations, component library | presentation | | |

### What is hard

* **Concurrency on the server.** Requests, the goroutines of a batch, its
  heartbeat, the workers of several servers and their lease renewals work on the
  same rows and files; SQL transactions are atomic, sequences of them are not,
  and the file system takes part in no transaction.
* **Failure.** A process can die between any two steps; a deletion, a statement
  or a reader can fail; a client can go away; a `COMMIT` can succeed without
  the server hearing of it.
* **Time.** Leases expire under a holder that stalls; token buckets expire while
  two servers use them.
* **Arithmetic.** Two counters are updated by fourteen transactions and must
  always equal what an audit would recompute.
* **Asynchrony in the client.** Nothing runs in parallel, but every `await` lets
  the user, another mutation or an answer in; what is read afterwards may be the
  state of a later render, and a cached list may be older than a write that was
  already acknowledged.

What makes it correct: the counters match the rows; the quota is never
overcommitted; bytes are reserved before they are written; every object has its
complete file; whatever is not referenced any more is tracked until it is
deleted, and eventually is deleted; no file is without a ledger row; a walk
through the pages of a folder skips and repeats nothing that stayed; clients get
one budget from all servers. In the client: what was acknowledged is shown, what
is confirmed is what is done, a draft is not wiped and a pin not lost because of
somebody else's answer, and everything that disables a button ends.

`PROJECT.json` lists the hazards by source line and the properties aimed at
each.

## 2. Modules

| module | contents |
|---|---|
| `StorageLedger` | the three tables and every transaction on them; an abstract specification (`LedgerSpec`) in which any caller may issue any transaction at any time |
| `BlobLifecycle` | uploaders, workers, files and metadata on top of the ledger (extends `StorageLedger`) |
| `Reconciliation` | the scan of the storage root beside uploads, cleanups, crashes and an operator |
| `ExplorerPages` | the order, the cursors and the pages of a folder that changes between the requests |
| `SharedRateLimit` | token buckets in the database, used by several servers |
| `ObjectMetadata` | objects, recycle bin and bucket under transactions that work from snapshots |
| `PrefixTrail` | abstract: a trail of folders with a position |
| `ExplorerNav` | URL, cursors and folder stacks of the explorer; implements `PrefixTrail` |
| `ExplorerEntries` | listings, row operations, selection and bulk deletion against the server |
| `UploadFlow` | the three kinds of upload |
| `Downloads` | downloads of rows and of the selection |
| `FileDetails` | the details dialog and its saves |
| `SortHeader` | the sort popovers |
| `RowWindow` | the window of rows the table renders |
| `RecycleBin` | the recycle bin dialog |
| `Settings` | connection tests, saved connection, storage limit |
| `Sites` | the sites page and its forms |
| `BucketPins` | the bucket list and the pins |
| `Filters` | filtering a list, as the pages do it with pins and selected rows |
| `StorageLedger_proofs`, `BlobLifecycle_proofs`, `ExplorerNav_proofs`, `ExplorerEntries_proofs`, `Filters_proofs` | theorems about the module they are named after |
| `ServerParts_proofs` | theorems about `ObjectMetadata`, `Reconciliation`, `ExplorerPages` and `SharedRateLimit` |
| `ExplorerPage_proofs` | theorems about `RowWindow`, `UploadFlow`, `FileDetails`, `RecycleBin`, `SortHeader` and `Downloads` |
| `Management_proofs` | theorems about `Settings`, `Sites` and `BucketPins` |
| `MC*` | instances for TLC |

### StorageLedger

`row[b]`, `job[b]` are the rows of blob `b` (status `none`: no row); `used`,
`reserved`, `maxBytes` the quota row. Every repository method is an operator
`Op(args)`, its `WHERE` clauses and early returns a guard with a name of its
own (`CanReserve`, `CanActivate`, `CanComplete`, ...) so that `BlobLifecycle`
can tell a transaction that fails from one that is not issued. A transaction
takes row locks on what it reads before it writes, so it is one step.

Abstractions: a lease is `none`, `valid` or `expired`, a job due or backing
off; steps of the environment (`StagingLeaseExpires`, `JobLeaseExpires`,
`BackoffElapses`) move them on. The age limit of expiry equals the lease
duration (`main.go` passes the same setting), so an expired lease implies it.
Blob ids and paths are UUIDs: the model numbers them in order of creation and
never reuses one. Batches are split into statements of at most 500 rows inside
one transaction; only the renewal of a lease does so outside a transaction,
and a partial renewal followed by an error is the same as no renewal, since the
request is cancelled. Sizes are unbounded naturals: the code checks sums
against 2^64 before using them.

### BlobLifecycle

An *uploader* is a request. In mode `stream` it stages one blob of unknown size
(`Stage`), reserving chunk by chunk, falling back to the exact size when a whole
chunk does not fit. In mode `known` it stages a batch of declared sizes
(`StageKnownBatch`); each blob is written by a goroutine of its own (`part[b]`).
Its heartbeat renews the lease, fails when a row is no longer staging, and
cancels the request. Errors lead to `abortBatch`: delete both paths, release the
rows, queue jobs for the rest. A staged request publishes in one transaction
with its metadata; an error leads to `confirmPublishOutcome`. A request that
stages several streams one after another is covered by `StartAbort` from
`staged`, the abort of a stream whose successor failed.

A *worker* is one claim in `RunOnce`. Its lease renewal is concurrent with its
two deletions. `triggerCleanup` and the ticker only decide when a worker looks
for jobs, which the model lets happen at any time. `Commit`'s check of an
existing final path cannot succeed, since the path is a fresh UUID. Loading a
claimed job reads the job and the blob in separate statements; they are merged
into one step, because completion repeats both reads under locks.

Faults are actions guarded by `Fault(kind)`: `crash` (the process dies), `io`
(reader or disk), `db` (a statement fails), `ambiguous` (the commit is applied
and reported as an error), `disconnect` (the request's context is cancelled) and
`stall` (a lease expires although its holder is alive). A run allows a set of
kinds and a number of faults.

### Reconciliation

The scan (`reconcileLocked`) is a sequence of reads with servers at work between
any two of them: seal expired uploads, list the rows, look at the files of active
rows, walk `objects/` and then `staging/` path by path, look up again what was not
tracked, register what still is not, and mark the root as reconciled. The database
lock (`WithReconciliationLock`) admits one scan; a scan may fail anywhere and start
again. The servers' steps are those of `BlobLifecycle`, reduced to what the scan can
see, and an operator may have any orphan deleted. The identity of the root, file
sizes and the recomputation of the counters (`LedgerBalanced`) are left out.

`WalkManaged` may meet a file that vanishes and fail (`ScanFails`), and a purge
between `ListAll` and `Stat` fails the scan too: the runbook
(`storage-lifecycle-operations.zh-CN.md:64`) asks for all instances to be stopped.
For the same reason no property says that a registered orphan exists: a scan
beside live servers may register a file that was renamed or deleted after the
walk passed it, and its bytes are counted until the operator cleans it up. What
the model does show is that the second look at the tables is enough for no live
file to be taken for an orphan.

### ExplorerPages

`Precedes` is `compareExplorerEntries`, `Page` the body of `ListExplorerEntries`
from the sort to the cut. Names are numbers in the order of their lower-case form
(ties broken by the name itself), sizes stand for either numeric field, and the
search, which filters by name alike on every page, is left out. `Sorted` is any
enumeration in which nothing precedes what comes before it; since the order is total
on the entries of a folder there is exactly one, and which algorithm `sort.Slice` is
does not matter. Between two pages
entries are created, replaced with another size and deleted, the one the cursor
was made of included.

### SharedRateLimit

A request of a server is up to three transactions, `updateExisting`,
`insertBounded` and `cleanupExpired`, each one step because it locks the bucket or
the capacity row; other servers act between them. Time is an integer clock, and
`Rate` tokens are refilled per tick. `LimitAssumption` says that an unused bucket
is full before it expires, as with the defaults (600 s, 5 to 20 requests per
second, bursts of 10 to 40); without it expiry would hand out budget early.

### ObjectMetadata

`objects` and `bin` are rows, told apart by key and by delete group and key;
`status` is that of the ledger, whose count is one for an active blob because no two
rows share a blob. `Upload`, `DeleteObject` and `DeleteFolder` lock what they read
first and are one step. `restoreObject`, `deleteObject` and `BucketService.Delete`
read without locks, under the default isolation of MySQL from a snapshot, and write
to the current rows: `...Reads` and `...Writes`, with any other transaction in
between, or `RollBack`. The deletion of a bucket locks the bucket before its
snapshot, and an insert into either table waits for that lock because of the foreign
keys (`Insertable`); a purge does not, and makes the deletion's `ReleaseReferences`
fail. Left out: nested folders, keys outside of the folder, sites of the bucket.

### The web client

The pages use TanStack Query. The modules model what its queries and mutations do
as the code uses them (marked external in the map):

* the cache holds the last answer per key; `invalidateQueries` cancels and
  restarts a running fetch of a key that has data, while a *first* fetch is
  joined; keys nobody observes are only marked; `setQueryData` cancels nothing;
* while a new key is fetched the previous data stay on the screen
  (`keepPreviousData`), and there is no refetch on focus (`main.tsx`);
* a mutation is pending until its `onSuccess`, awaited invalidations included, is
  over; an awaited refetch that is cancelled or fails also ends the wait;
* callbacks are those of the latest render, so a mutation reads the props and the
  URL of the moment at which they run, not of the click.

A click that changes the URL and the state of the page is one step. The router runs
with `v7_startTransition` (`main.tsx:26`), so React may commit the URL a moment after
the state; a second click in that moment is not modelled.

**The address of the explorer.** `BucketObjectsKeepAlive` (`AppRoutes.tsx:27`) keeps
the page of a bucket, with its cursors and folders, while another page is shown
(`AppRoutes.test.tsx:70`; `react-activation` is external). Opened again, by the card's
link to the bucket (`BucketCard.tsx:70`, `BucketRoute`) or by the sidebar's link to the
last address (`app-sidebar.tsx:37`), it meets that address with the state of the earlier
visit: `reopenBucket`. Only the effects run, which empty the cursors if the view changed
and the folders if the bucket did. How the library passes the address on to a page that
was hidden is external, and links and the session history may lead to others than the
last, so the model allows every address of the session. Another bucket visited in
between has a page of its own, so that it either leaves this one alone or starts one,
which is `Init`. The page starts at any address that it may have written: a reload, a
bookmark or the last address of an earlier session can name a page, a search and an
order (`Issued`).

These and the browser's own buttons change the address *around* the page (`Around`), and
three variables of history that no action reads say what came of it: `offPage`, the page
was not reached by turning pages; `offTrail`, the folder changed under stacks that hold
others; `jumps` counts changes of folder modulo two. `PageTrail` and `NoDeadButton` are
stated under the first two, because the code does break them then (section 5); once
a changed view or the return to the first page has emptied the cursors, `offPage` is
FALSE again and the run checks that the numbers are right from then on. In
`PrefixTrail` such a change is an action of its own (`Jump`), told apart from the others
by `jumps`.

**The pins.** Every use of `localStorage` may throw (`StorageFails`): `loadPins` then
shows no pins (`readFailed`), and `updatePins` changes neither the storage nor the page
(`usePinnedBuckets.ts:62`; the test at `usePinnedBuckets.test.ts:111` expects the stored
pins unchanged). The other tab runs the same code on a screen that may be as old as it
likes: its user toggles any bucket that ever existed (`OtherTab`), and its deletions and
listings drop any others (`OtherTabPrunes`). `gone` records the buckets whose deletion
was acknowledged and whose pin was taken, until a user pins one of them again. One
creation at a time, across visits of the page, is a bound (`handleCreateBucket`).

`fetch[k]` is therefore a record with the phase of the request (`sent`,
`answered`: the server has read its state, the answer is on its way), and an
answer carries the data of the moment it was read. A cancelled request leaves no
trace; a lost answer is a failure. Covered buttons cannot be pressed: a modal
dialog or the overlay of a loading table are guards.

Ghost variables record what properties speak of and no action reads: `gone` in
`BucketPins` and the three of `ExplorerNav` above, in
`ExplorerEntries` the time of the last acknowledged write, in `UploadFlow` what
was replaced and where files landed, in `Downloads` what was asked for, in
`RecycleBin` what was reported, in `FileDetails` what the page was told.

Some constants widen what may happen: `BrowserHistory`, `Reopens` and `Keyboard` in
`ExplorerNav`, `Wanders` in `UploadFlow`, `Overlaps` and `MaxChanges` in
`Downloads`, `Switches` in `FileDetails` and `Settings`, `Hurried` in `RecycleBin`,
`OthersSave` in `Settings`, `MaxCreates`, `OthersDelete`, `MaxTabs` and `StorageFails` in
`BucketPins`. A property is checked
in the widest setting in which it holds; section 5 lists what fails beyond it.

Simplifications: `Sites` starts with a cached list in the run (`Cached`); `RecycleBin` has one bucket;
the refresh of a listing is one step in `Downloads`; a bucket or site is named by
its id, a connection is one value, and of a site only the bucket is told apart
from the rest of its configuration.

## 3. Runs

Modules that share no state are checked together: an MC module composes them as
*scenes*. A variable `scene` is chosen initially, the part of the scene takes its
steps, and the other parts keep one initial state. The state space is the sum of
the parts, not their product, and since no step of one part reads or writes the
variables of another, a property of a part holds in all interleavings if it holds
in its scene. Different scenes of one module instantiate it with different
constants. The conjunctive invariants `EntriesSound`, `DetailsSound`, `PageSound` and
`ManagementSound` collect the type invariants of the scenes and their local
consistency; `LiveFilesKept`, `LimitsShared`, `ReferencesMatch` and `NavSound` each
include the type invariant of their module. The comments at the definitions name
every part. All other properties are the components' own definitions, which the
theorems of section 4 are about. The modules that an MC module extends together name
their specifications apart: `ReconciliationSpec`, `LimitsSpec`, `MetadataSpec`,
`PagesSpec`, `UploadSpec`, `DetailsSpec`, `BinSpec`, `SortSpec`, `DownloadsSpec`,
`SitesSpec`, `SettingsSpec`.

| run | instances | checks |
|---|---|---|
| `storage_ledger` | the ledger: any caller, two blobs, two lease owners, limits 3 and 4; two scans of a root with a stray beside an upload; a folder of up to four entries, one per page, two changes; two servers, two clients, a table for one bucket, burst 2, five ticks; a folder with a marker and two files, three uploads, two deletions, two transactions with a snapshot | `LedgerTypeOK`, `LedgerBalanced`, `CleanupTracked`, `NeverOvercommits`, `NoResurrection`; `LiveFilesKept`, `ReconciledTracked`; `WalkComplete`; `LimitsShared`; `ReferencesMatch` |
| `blob_workers` | one uploader, two workers, all faults, two of them | `TypeOK`, `ObjectsIntact`, `AuditAccepts`, `LedgerSpec` |
| `blob_uploads` | two uploaders, one worker, batches of two, two keys, limits 2 and 3, all faults but `stall`, two of them | `FilesTracked`, `QuotaRespected`, `BytesCovered` |
| `reclaim` | one uploader, one worker, all faults, two of them, fairness | `Reclaimed` |
| `explorer_nav` | three nested folders, histories of three, the bucket left and opened again; two folders with two page sizes, two orders and a search; two folders with pages of two, the browser's buttons and the bucket opened again, histories of two | `NavSound`, `PageTrail`, `OwnCursor`, `TrailSpec` |
| `explorer_entries` | two deletions pending together on two listings that share a path; every row operation, two at a time; two rows published; bulk deletion beside other clients | `EntriesSound`, `OwnWritesShown`, `DeletesShown` |
| `explorer_live` | bulk deletion, saves of the details dialog, bulk download, under fairness | `DetailsSound`, `BulkEnds`, `SaveSettles`, `BulkMovesOn` |
| `explorer_page` | listings of up to 45 rows; three sort popovers; uploads of a user who stays, and of one who wanders; downloads one at a time, and overlapping; the recycle bin on one page and on pages of one item | `WindowFull`, `RowUnderOffset`, `PageSound`, `AskedFirst`, `PurgedGone` |
| `management` | two buckets with a search; another tab, with a storage that may fail; two services; a bucket created again under its name, with a storage that may fail; edits of a site that others change; upload-and-publish; sites written here; three connection tests and edits beside limits that others change; the limit of a server | `ManagementSound`, `DeletedUnpinned`, `OwnWritesListed`, `TestOfDraft`, `PinsKept`, `DraftKept` |
| `stalled_batch` | one known upload, one stall | `FilesTracked`, violated |
| `upload_target` | two folders, one name, a user who wanders | `ConfirmedTarget`, violated |
| `bin_restore` | two items on one page | `RestoredGone`, violated |

What the passing runs show, beyond their types:

* The ledger is right whatever its callers do; takeovers, unknown commits and lost
  clients never cost an object its file; the quota holds at its limit and covers
  the disk; no partial failure leaves an untracked file; nothing waits for
  deletion for ever; the lifecycle implements the ledger.
* A scan beside live servers takes no file of an object or of a running upload
  for an orphan, and a root that it marked holds only files with a row, also
  later, although scans may have died half-way.
* The cursor walk lists every entry that stayed exactly once, because the order is
  total and the cursor carries the field that is sorted by.
* Servers that share buckets grant no client more than burst and refill over any
  stretch of time, and the entry counter equals the number of rows.
* Restores, purges and bucket deletions that read rows which are gone by the time
  they write roll back: every blob is named by as many rows as its reference count
  says, no key has two objects, and a deleted bucket leaves nothing behind.
* The two folder stacks of the explorer implement a trail with a position;
  Previous returns through the pages that were shown; a cursor is only sent with
  the folder, search and order it was made for. What the browser's buttons and a
  bucket opened again upset is put right by the next change of view.
* An up-to-date listing shows every write that was acknowledged; a bulk deletion
  deletes only entries that its dialog showed; every spinner ends.
* No object is replaced without a question, wherever the user goes meanwhile; the
  bulk download asks for exactly what was selected; an item reported as purged is
  not listed.
* Once its pin is taken, no request, listing or visit pins a deleted bucket again,
  although the answer comes after the page was left or the service switched, and its
  replacement under the same name does not inherit the pin; only a user does, on a
  card that is still shown; no answer of an older list removes the pin of a bucket that
  exists; a draft of a site is never wiped by a failure or by another site; late
  test results are not shown for another connection.

**Bounds.** Two blobs: one can replace, race with or be batched with the other,
and every batch transaction sees a member and a non-member. `MaxSize` and `Chunk`
are 2 and files have at most one unit, so that a rounded and an exact reservation
differ; empty files, which count one byte, are included; a quota of 3 holds one
rounded and one exact reservation but not two rounded ones. Two faults allow a
failure of the recovery from a failure. Two scans: one may die and leave its
orphans to the next. Four entries with pages of one give three cursors and changes
on either side of each; two changes can delete the entry of the cursor and put it
back elsewhere. A table for one bucket and two clients makes every insertion meet a
full table; five ticks see a bucket expire, be deleted and refilled twice. Two transactions with
a snapshot are enough for each to invalidate what the other read; three uploads and
two deletions give an overwrite, a delete group of two rows with a marker object or
without one, and a second group beside it. In the client, two rows, two views and
two pending mutations are the smallest numbers for which an answer can belong to
another row, view or mutation than the one on the screen, and `Requests` and
`MaxClock` of 2 allow an answer that is older than two writes. Forty-five rows are
more than two windows of the table.

Workers, uploaders and slots are symmetric; symmetry is not used where liveness is
checked. Deadlock checking is off in `storage_ledger` and `management` only: there
the walk of a folder ends, and bounds (`MaxTime`, `MaxBlobs`, `MaxGroups`,
`MaxTests`, the number of visits in `Mount`) stop a part.

Every property has a mutant in `PROJECT.json`: a plausible error in one of the
mapped definitions, defined beside it with the suffix `_Mutant` (or `_Retry`),
which the run detects.

**Fairness.** On the server (`FairSpec`): the worker loop of a running server ticks
for ever (`Run`), so its steps, and the sealing of expired uploads, are weakly
fair; time passes, so leases that nobody renews expire and backoffs end. A step
that is a fault is never fair, and neither are uploads, clients or administrators.
The bound on faults means that faults eventually stop, without which no deletion
need ever succeed. In the client: a request ends by an answer or an error, because
axios gives up after 15 s (`api/client.ts`), so the disjunction of arrival and
failure is weakly fair for listings, saves, bulk deletions and signed paths; the
code after an `await` runs; the 150 ms timer fires. The archive of a folder is
requested with `timeout: 0`, so its answer is *not* fair, and `BulkMovesOn`
promises progress only for the other entries. No step of the user or of another
client is fair.

**Refinement.** `BlobLifecycle` implements `LedgerSpec` (checked in `blob_workers`,
proved), and `ExplorerNav` implements `PrefixTrail` (checked in `explorer_nav`, proved) through `Trail == INSTANCE
PrefixTrail WITH trail <- ..., pos <- ...`: the trail is the back stack, the
current folder and the forward stack.

## 4. Proofs

`StorageLedger_proofs` proves, for every number of blobs, every set of workers
and every set of limits (`LedgerAssumption`, `SizeAssumption`):

| theorem | statement |
|---|---|
| `LedgerInvariant` | `LedgerSpec => []LedgerInv` |
| `LedgerTypes` | `LedgerSpec => []LedgerTypeOK` |
| `LedgerAlwaysBalanced` | `LedgerSpec => []LedgerBalanced` |
| `CleanupAlwaysTracked` | `LedgerSpec => []CleanupTracked` |
| `LedgerNoResurrection` | `LedgerSpec => NoResurrection` |
| `LedgerNeverOvercommits` | `LedgerSpec => NeverOvercommits` |

The inductive invariant `LedgerInv` is the conjunction of the types, the balance,
the tracking of condemned blobs and `RowShape`. The last is what makes it
inductive: a row beyond the ids handed out does not exist, a staging row has a
staging path, an active or orphaned one has none, so that a row never moves
between the two sums except where a transaction moves its bytes too. The
balance also gives the guards `SizeOf(B) <= reserved` their meaning: a sum over
some of the blobs is at most the sum over all.

`Total` is a recursive function, about which the provers know nothing. Its lemmas
(`TotalAdd`, `TotalPoint`, `TotalMono`, `TotalUpdate`, ...) rest on
`SumUnique`, which replaces induction by the least counterexample
(`LeastElement`). `CountersFollow` then reduces every transaction to a claim
about the rows it changes.

`BlobLifecycle_proofs` carries these to the whole lifecycle, for any number of
requests, workers, keys and faults and any chunk size (`LifecycleAssumption`):

| theorem | statement |
|---|---|
| `LifecycleInvariant` | `Spec => []LifecycleInv` |
| `LifecycleTypeOK` | `Spec => []TypeOK` |
| `LifecycleImplementsLedger` | `Spec => LedgerSpec` |
| `LifecycleBalanced` | `Spec => []LedgerBalanced` |
| `LifecycleNoResurrection` | `Spec => NoResurrection` |

`LifecycleInv` is `LedgerInv` and the types of the lifecycle. Types are needed
because a step is a ledger transaction only if its arguments are in range: what
a request has written never exceeds its content (so the sizes it publishes are
sizes), a rounded reservation asks for between one byte and one chunk
(`RoundUpStep`), and a busy worker holds a blob. What a publication replaces is
disjoint from what it activates, since its own guards ask for an active blob in
one case and a staging one in the other. One lemma per kind of step (`StartLedger`,
`ReserveLedger`, `PublishCommitsLedger`, ...) finds the transaction it
issues.

Its second part proves the safety of the lifecycle under the same assumptions: `LifecycleObjectsIntact`, `LifecycleAuditAccepts`,
`LifecycleQuotaRespected`, `LifecycleBytesCovered` (each `Spec => []P`) and
`LifecycleFilesTracked`. None of these is inductive. `IntegrityInv` adds who may
still touch a blob:

* a blob belongs to one request, which got its id from the ledger (`Ownership`);
* jobs, and the workers that took them, are only about *doomed* blobs: those
  condemned, gone, or staging without a request to publish them
  (`CleanupDoomed`). A worker that lost its lease and wakes up late still holds
  such a blob, and this is why it cannot take a live file;
* the metadata names exactly the active rows, each once (`MetaMatches`);
* how far an upload is agrees with its row and its files (`PartSound`): what is
  written is in the file of the current step, and is covered by what the row
  reserved;
* an active row has its complete file and no staging file (`FilesSound`).

The proof first classifies what a step may do to one row, one request, one file
and one worker (the lemmas on moves), and then preserves each part from
those moves, so that no part looks into all the actions. `FilesTracked` has the
hypothesis that `stall` is not among the faults, and needs two more parts:
without stalls a request keeps its rows and leases until it has published
(`LeaseKept`), and what an abort or a worker is done with is gone (`FilesGone`).
The hypothesis is needed: `stalled_batch` is the counterexample without it.

`ServerParts_proofs` has four parts. The first proves `RowsReferencesMatch`, `MetadataSpec => []ReferencesMatch`
(the types are part of `ReferencesMatch`), for any number of files, keys and concurrent calls
(`MetadataAssumption`). `MetadataInv` replaces counts by naming: no two rows share a
blob, and a blob is active exactly if a row names it (`Charged`); `NamedOnce` turns
this into cardinalities once. `SnapshotSound` says what a snapshot is still good
for when its transaction writes: a restore's has one row per key, and a bucket
deletion's still has all objects and a superset of the bin, because inserts wait
for its lock while purges do not.

The second proves `ScanLiveFilesKept` (types included) and
`ScanReconciledTracked` for any number of blobs, strays and scans
(`ReconciliationAssumption`). The row follows the request and the cleanup
(`RowFollows`), the files follow the row (`FilesFollow`); a path that is or is about
to become an orphan is one that its blob does not use any more (`OrphansUnused`):
it was seen on disk, so its blob had a row by then, and the second look at the
tables found none that names it; and a stray that is still there is on the scan's
list until it is an orphan (`StrayFollows`).

The third proves `WalksComplete`, `PagesSpec => [](PagesTypeOK /\ WalkComplete)`, for
any finite set of names, any sizes and limit and any number of changes
(`PagesAssumption`). The comparison is a strict order, total on entries with
different names, and it does not notice that a cursor keeps only the name and the
field sorted by. `WalkInv` says that what stayed and is not after the cursor has been
listed once, and what is after it not at all; a page moves the cursor and lists what
lies between, and a change between two pages touches only entries that did not stay.
That a finite folder can be sorted at all (`OrderExists`) would be an induction over
its size; here the smallest folder without an ordered enumeration leads to a smaller
one.

The fourth proves `LimiterEntriesCounted`, `LimiterBudgetKept` and
both together (`LimiterLimitsShared`) for any number of servers and clients and any
burst, rate and lifetime with `LimitAssumption`. `BudgetKept` speaks of every pair
of grants, so the invariant carries a potential for every earlier grant: the grants
since then and the tokens in the bucket are at most the burst and the refill up to
the last use (`BucketSound`). A client whose bucket was deleted has had the refill
alone (`NoBucketSound`), so that a new, full bucket is its due; this is the step
that needs an unused bucket to be full before it expires (`ExpiredOwes`).

`ExplorerNav_proofs` proves, for any tree of folders, any finite contents, page
sizes and searches, and histories of any length (`NavAssumption`):

| theorem | statement | hypothesis |
|---|---|---|
| `NavTypes`, `NavAlwaysSound` | `Spec => []TypeOK`, `Spec => []NavSound` | (`~offTrail` in `NoDeadButton`) |
| `NavOwnCursor` | `Spec => []OwnCursor` | `~Keyboard` |
| `NavPageTrail` | `Spec => []PageTrail` | `~Keyboard` (`~offPage` in `PageTrail`) |
| `NavTrail` | `Spec => TrailSpec` | |

`PagingInv` says that a button that can be pressed acts on the listing of the URL
(`Settled`: once its query is settled, its data is what is shown), and that every
cursor in the URL, on the stack and in the browser's history belongs to its view
(`AllOwned`). Without the overlay's protection (`Keyboard`) the first fails, as
section 5 says. That a page has a last entry (`LastEntry`) rests on the
well-foundedness of the strict subsets of a finite set instead of an induction.
`FoldersInv` says that neighbours on a folder stack differ, the folder on the
screen included, as long as the folder was not changed around the page. The refinement needs no invariant but the types: `TrailShape`
gives the folders of the trail by position, and one lemma per abstract step
(`TrailVisit`, `TrailMoves`, `TrailUp`, `TrailJump`) shows that what a handler does
to the two stacks is that step; Forward is Back read from right to left.

`ExplorerPage_proofs` proves for listings of every length and every scroll offset
(`WindowAssumption`) that the window is full (`WindowAlwaysFull`), that rows and
spacers add up to the listing (`HeightAlwaysKept`) and that the row under the
offset is rendered (`OffsetAlwaysCovered`). The argument is arithmetic: the type
invariant `WindowInv` is inductive (`WindowTyped`), and division by the row height is
characterised once, in the lemma `RowAtSpec`, which the others cite.

Its second part is about uploads, for any folders, names, files and other clients
(`UploadAssumption`): `UploadsAskFirst` (`UploadSpec => []AskedFirst`), `UploadsTidy`
(types, and no progress left for the next upload) and, as long as the user does not
leave the folder (`~Wanders`), `UploadsStayPut`: files land in the folder that the
dialog showed and the object replaced is the one that the question named. A
request and a question name the object and the folder they were made for
(`RequestNamed`, `QuestionNamed`), and progress belongs to an upload that may still
report some or resets it (`ProgressOwned`). `upload_target` is the counterexample to the last one
without its hypothesis.

Its third part is about the details dialog, for any files: `DetailsTyped`
(`DetailsSpec => []DetailsTypeOK`: a save that awaits the listing always has a fetch to
wait for, so none waits for ever) in every setting, and `DetailsOfOwnFile` (`DetailsSpec
=> []DetailsMatch`) if the dialog stays open while it saves and no other client writes
(`~Switches`, `~Others`, both needed). The invariant of the first says that a row is what
the server has, and an answer what the row is, except for files recorded as written in
between (`RowsDated`): the effect of the dialog runs for those only. That of the second (`MatchInv`) follows one visibility through a save: the
server has it from the moment it acts, the row or what the page was told from
`onSuccess`, and an answer under way cannot be older, because `onSuccess` restarts
the fetch.

Its fourth part is about the recycle bin dialog, for any number of items and any page
size (`BinAssumption`):

| theorem | statement | hypothesis |
|---|---|---|
| `BinTyped` | `BinSpec => []BinTypeOK` | |
| `BinSelectionShown` | `BinSpec => []SelectionShown` | |
| `BinTrailDescends` | `BinSpec => []TrailDescends` | |
| `BinPurgedGone` | `BinSpec => []PurgedGone` | `Depth = 0`, `~Hurried` |

`BinInv` gives every cached page, and every answer on its way, a next cursor below the
cursor it was asked for with (`PagesDescend`): `PageFacts` shows that a page that is cut
is not empty and ends in a member of the rest. `PurgeInv` follows a deleted item: not in
the bin once the server acted, never there again because ids are not reused, and not in
an answer that is still to come once the fetch after the deletion was sent
(`PageClean`). That this fetch is sent, and not joined to an older one, is because a
confirmation can only be opened on a page that has arrived. Both hypotheses are needed:
with a second page, a fetch of the first that is under way is not restarted by a
deletion that ends while the second is on the screen, and with a dialog closed by then
nothing is fetched; when the page is looked at again, the older fetch is joined.

Its fifth part is about the sort popovers: `SortFollows`
(`SortSpec => [](SortTypeOK /\ DraftFollows)`) for any columns and a history of any
length (`SortAssumption`). The effect that sets the draft runs for the open popover
only, so a closed one may hold an old draft; `EffectFollows` shows that opening it, or
Back under it, brings it up to date in the same step.

Its sixth part is about downloads, for any folder, selection and number of rows that
are downloaded together (`DownloadsAssumption`):

| theorem | statement | hypothesis |
|---|---|---|
| `DownloadsSound` | `DownloadsSpec => [](DownloadsTypeOK /\ NoMarkLeft /\ BulkAsksAll)` | |
| `RunningIsMarked` | `DownloadsSpec => []RunningMarked` | `Overlaps = FALSE` |
| `CountIsDelivered` | `DownloadsSpec => []CountedDelivered` | `MaxChanges = 0` |

`MarksOwned` says whose a mark is when no bulk download runs: a row of its kind that is
still being downloaded, so that the last of them to end clears it, although each may
clear the mark of another before. `AskedInOrder` is `BulkAsksAll` entry by entry, in a
form that a step of the loop preserves (`NextItemStep`): what was asked for is a prefix
of the selection, and the rest begins with its last entry. `CountInv` relates the number
of files that arrived to the successes counted: one ahead while the page waits after a
click. Rows may overlap there, since only the loop counts.

`ExplorerEntries_proofs` proves, for any paths, listings that share them, kinds of
operation and number of operations pending together (`EntriesAssumption`):

| theorem | statement |
|---|---|
| `EntriesInvariant` | `Spec => []EntriesInv` |
| `EntriesAlwaysSound` | `Spec => []EntriesSound` |
| `EntriesOwnWritesShown` | `Spec => []OwnWritesShown` |
| `EntriesDeletesShown` | `Spec => DeletesShown` |

The type invariant is not inductive by itself: a request names a path (`Targets`)
because the dialog it was sent from belonged to a row on the screen (`DialogShown`).
`OwnWritesShown` needs `Dated`: what a fetch that was answered will bring, and what
is cached once no fetch is under way, is at least as new as the last acknowledged
write, and no write is dated later than it was made (`WritesDated`). The point is that
acknowledging a write invalidates the listing in the same step, which replaces a fetch
that may be older; `ScreenShown` says that at rest what is on the screen is cached.

`Management_proofs` is about the three management pages, for any services, buckets,
names, sites, connections and limits and any number of requests and changes
(`PinsAssumption`, `SitesAssumption`, `SettingsAssumption`):

| theorem | statement | hypothesis |
|---|---|---|
| `TestsOfDraft` | `SettingsSpec => [](TestOfDraft /\ TestingFlag)` | |
| `SettingsTyped` | `SettingsSpec => []SettingsTypeOK` | |
| `LimitAlwaysShown` | `SettingsSpec => []LimitShown` | `~Switches`, `~OthersSave`, limits that one decimal can show |
| `SitesFormsCurrent` | `SitesSpec => [](SitesTypeOK /\ BasedOnListing /\ BucketOffered)` | |
| `SitesDraftKept` | `SitesSpec => DraftKept` | |
| `SitesOwnWritesListed` | `SitesSpec => []OwnWritesListed` | `Cached` |
| `PinsTyped` | `Spec => []TypeOK` | |
| `PinsOfDeleted` | `Spec => [](DeletedUnpinned /\ ...)`, the buckets in `gone` do not exist | |
| `PinsOfExistingKept` | `Spec => PinsKept` | no bucket is created meanwhile, or neither search nor other tabs |
| `PinsOfServiceShown` | `Spec => []PinsShown` | `Searches = {"full"}` (no other tab, pins that could be read, in `PinsShown`) |

* `TestsInv`: the test with the latest number, if it is under way, is one of the draft,
  and an edit or a save takes a new number; with the types of every fetch and request
  (`SettingsTypes`) it gives `SettingsTypeOK`. `LimitInv`: an untouched field shows what
  the statistics said last, or what the server has and is being saved (`FieldFollows`),
  and a limit is saved to the connection that is shown (`QuotaHere`).
* `SitesInv`: the lists and what their fetches bring (`ListsInv`), each request with
  the form it came from (`RequestsInv`), and the form against the list it was filled
  from (`FormInv`). Every change of the lists goes through `SitesRendered`, so one
  lemma (`FormRendered`) serves all the handlers.
* `PinsInv`: nothing on the page names a bucket that was not created yet
  (`KnownInv`); the dialog belongs to a card (`ConfirmInv`); a deletion that the server
  made is of the bucket whose number was looked up, which does not come back
  (`DelsInv`); a bucket whose pin an acknowledged deletion took is not pinned and does
  not exist (`GoneInv`).
  `PinsOfExistingKept` adds `CoverInv`: a whole list under way has every pinned bucket
  that exists, and every one the page knew before. Outside its hypothesis TLC finds
  the counterexample: the server answers the whole list, a bucket is created, a
  search finds it, it is pinned, and then the older list arrives and `reconcilePins`
  drops the pin.
* `ShownInv`, for `PinsOfServiceShown`: the page may show a pin that the storage has no
  more, because `updatePins` runs for an earlier visit's deletion without telling the
  page (`ScreenInv`). That pin is of a bucket that is gone, the acknowledgement had the
  whole list fetched again, and no answer since has the bucket: so it is on no card at
  rest. The deletion was made from a card (`DelsHere`), so that list was known and its
  fetch is repeated and not joined. With a search this fails, and TLC finds the
  counterexample: the first fetch of the whole list can be answered before the deletion,
  and be joined by the invalidation that follows it.

The pins, and the selected rows that a bulk download starts with, are filtered by a
recursive function (`Kept` of `Filters`). That it exists (`FilterExists`), returns the
members of the set, no more of them than the list has and none twice (`KeptFacts`),
depends on those members only (`KeptSame`) and filters twice as once by both sets
(`KeptKept`), is proved in `Filters_proofs` from a least counterexample instead of an
induction.

The assumptions are evaluated by TLC for every instance that a run uses.

Hypotheses on constants are those of the table in section 5: a theorem without one
holds in every setting, wider than the run's. Only model-checked: all liveness
(`Reclaimed`, `BulkEnds`, `SaveSettles`, `BulkMovesOn`), which is out of the prover's
reach. Of `ManagementSound`, `PageSound`, `DetailsSound` and the `PurgedGone` of the run,
which put several scenes together, the theorems above prove the parts, under the
hypotheses of their tables.

## 5. Findings and known limits

**`stalled_batch`.** An item of a batch is still queued when the lease expires
because the server stalls. A worker seals the upload and runs its two deletions
around the moments at which the item is created and renamed, and completes the
job. The upload then fails to publish, `confirmPublishOutcome` finds the row sealed
or gone, and leaves the file alone: it has no row until the next reconciliation
registers it as an orphan. The remediation plan says that a failed publish leaves
no file without a ledger entry. The stall must outlast the staging lease (a day by
default), and keeping files in doubt is deliberate (operations manual, line 115),
so this is a gap between two documents and the code rather than a practical loss.

**`upload_target`.** The overwrite question names the object found when it was
asked, but `handleConfirmOverwriteUpload` uploads to the folder of the latest
render. If the user opens another folder with the browser's Back before answering,
an object of that folder is replaced.

**`bin_restore`.** A restore removes its items from the cached pages without
refetching them and without cancelling a listing on its way. An answer read before
the restore brings the items back.

The passing runs assume less than a user may do in these places; the constant
named reproduces each with the definitions as they are:

| where | what happens | constant |
|---|---|---|
| `BucketObjectsPage.tsx:220` | the page number counts the cursors of the component; the browser's Back and a bucket opened again leave them, so the first page is shown as page 2; at an address with a cursor the second is shown as page 1 | `BrowserHistory`, `Reopens` (`PageTrail` without `~offPage`) |
| `BucketObjectsPage.tsx:224` | the folders visited are kept until the bucket changes; after docs/ was opened and the bucket left and opened again, Back is enabled at the root and leads to the root | `Reopens`, `BrowserHistory` (`NoDeadButton` without `~offTrail`) |
| `BucketObjectsPage.tsx:998` | while a changed sort is fetched the overlay stops the mouse, not the keyboard: Next sends the cursor of the placeholder, which the server refuses | `Keyboard` |
| `BucketObjectsPage.tsx:690` | `handleUpload` awaits the check and then uploads to the folder shown by then | `Wanders` (`StoredWhereShown`) |
| `ExplorerTable.tsx:1174` | a save that ends after the dialog was opened for another file sets the visibility shown for that file | `Switches` with two files |
| `RecycleBinDialog.tsx:255` | the invalidation after a deletion fetches the page on the screen; a listing read before the deletion, on its way for a page that was left or for a dialog that was closed, is shown when that page is opened again | `Depth`, `Hurried` (`PurgedGone`) |
| `usePinnedBuckets.ts:62` | if the browser refuses to store the pins, a deleted bucket stays pinned in the storage until a later action or listing succeeds | `StorageFails` (`gone` leaves it out) |
| `BucketCard.tsx:83` | a card that is still shown, here before the next list or in another tab, pins a bucket that was deleted; the next whole list takes the pin away | `togglePin`, `OtherTab` (`gone` leaves it out) |
| `SettingsPage.tsx:95` | another client takes back a limit while it is being saved here: the answer shows the own limit, the refetched statistics equal the cached ones and are kept as the same object, so the effect does not run and the field keeps the limit that is no more | `OthersSave` (`LimitShown`) |
| `SettingsPage.tsx:75` | the answer to a change of the limit is shown although another connection was saved meanwhile | `Switches` |
| `SettingsPage.tsx:519` | a limit is shown with one decimal, and saving the untouched field stores the rounded value | `Limits` with a value that is not a multiple of 3 |
| `BucketsPage.tsx:66` | a full list read before a bucket was created by others, arriving after it was found by search and pinned, removes the pin | `MaxCreates` with a search |
| `BucketsPage.tsx:96` | a bucket created while the first fetch of the list is under way may be missing until the next one, since that fetch is joined | `MaxCreates` |
| `usePinnedBuckets.ts` | for the same reason a page opened again may show the pin of a bucket whose deletion an earlier visit sent | `Searches` (`PinsShown`) |
| `BucketObjectsPage.tsx:811` | downloads of rows share two marks: the end of one clears the mark of another | `Overlaps` |
| `lib/utils.ts:20` | the download of a file that was removed after it was listed counts as a success | `MaxChanges` |

## 6. Not modelled

* On the server: sites and their domains, archives, changes of the visibility, the
  listing of the recycle bin, the in-memory limiter (a mutex around an LRU of
  library limiters), authentication and signatures, binding of the storage
  identity, migrations and readiness. Sites are metadata transactions on top of
  `ReleaseReferences` and `ActivateStagingBatch`, whose effects on blobs are covered
  by `StorageLedger`; archives and listings read only.
* HTTP parsing and formatting, validation, configuration, statistics and metrics:
  no state that another component relies on.
* In the client: previews of files, the dashboard (which uses the hooks of the
  bucket page and keeps nothing of its own), layout, themes, translations, the
  component library, and the names and texts of files and messages.
* The composition of client and server: the client's modules have a server of
  their own, a set of objects that answers atomically, which is what the
  metadata transactions provide.
