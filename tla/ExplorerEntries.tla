-------------------------- MODULE ExplorerEntries --------------------------
(***************************************************************************)
(* The listing of the object explorer against the server it is a copy of:  *)
(* the queries of BucketObjectsPage, the mutations started from its        *)
(* toolbar and its rows, the selection and the bulk deletion.  Requests,   *)
(* answers and changes of the view interleave freely; another client may   *)
(* change the bucket at any time.                                          *)
(*                                                                         *)
(* A view stands for a query key (folder, search, page, sort); Lists[v]    *)
(* are the paths that the listing of v contains when they exist.  Every    *)
(* write moves the clock of the bucket, so that a listing can be dated.    *)
(***************************************************************************)
EXTENDS Naturals, FiniteSets

CONSTANTS
    Paths,      \* paths of files and folders
    Views,      \* query keys of this page
    Lists,      \* [Views -> SUBSET Paths]
    Kinds,      \* the mutations of this instance, see AllKinds
    Slots,      \* mutations that may be pending at the same time
    MaxClock,   \* bound on the writes to the bucket
    NoPath, NoView

AllKinds == {"upload", "createFolder", "delete", "publishSite", "publishObject",
             "bulk"}

ASSUME EntriesAssumption ==
    /\ Lists \in [Views -> SUBSET Paths]
    /\ Kinds \subseteq AllKinds
    /\ MaxClock \in Nat
    /\ NoPath \notin Paths /\ NoView \notin Views

VARIABLES
    objs, clock,      \* the bucket on the server, and how often it was written
    view,             \* the key the page observes
    data,             \* the query cache: the listing of each key
    failing,          \* keys whose last fetch failed
    fetch,            \* the fetch under way for each key
    screen,           \* the listing on the screen: data or placeholder
    muts,             \* the pending mutations
    bulk,             \* the bulk deletion
    bulkDialog,       \* bulkDeleteDialogOpen
    selectedPaths,
    deleteDialog,     \* the row whose deletion is being confirmed
    deletingPath, publishingPath,
    acked             \* for each key, the clock of the newest own write that
                      \* was acknowledged while the page observed it

server == <<objs, clock>>
queries == <<data, failing, fetch, screen>>
marks == <<deletingPath, publishingPath>>
vars == <<server, view, queries, muts, bulk, bulkDialog, selectedPaths,
          deleteDialog, marks, acked>>

NoData == [asOf |-> 0, items |-> {}, known |-> FALSE]
Listings == [asOf : 0..MaxClock, items : SUBSET Paths, known : BOOLEAN]
NoFetch == [phase |-> "idle", answer |-> NoData]
Sent == [phase |-> "sent", answer |-> NoData]

Idle == [kind |-> "idle", phase |-> "idle", path |-> NoPath, at |-> 0,
         wait |-> NoView]
NoBulk == [phase |-> "idle", paths |-> {}, failed |-> {}, at |-> 0,
           wait |-> NoView]

-----------------------------------------------------------------------------
(* Queries                                                                 *)

Fetching == fetch[view].phase # "idle"

\* A query without data that failed shows no placeholder.
entries == IF view \in failing /\ ~data[view].known THEN {} ELSE screen.items

selectedEntries == entries \cap selectedPaths

\* Effects on a new listing: rows that are gone leave the selection, and the
\* dialog of a row that is gone closes.
Prune(items) ==
    /\ selectedPaths' = selectedPaths \cap items
    /\ deleteDialog' = IF deleteDialog \in items THEN deleteDialog ELSE NoPath

\* The mutations and the bulk deletion that awaited the fetch of v go on.
Released(v) ==
    /\ muts' = [s \in Slots |-> IF muts[s].wait = v
                                THEN [muts[s] EXCEPT !.wait = NoView] ELSE muts[s]]
    /\ bulk' = IF bulk.wait = v THEN [bulk EXCEPT !.wait = NoView] ELSE bulk

\* The server reads the listing at some moment of the request.
ServerLists(v) ==
    /\ fetch[v].phase = "sent"
    /\ fetch' = [fetch EXCEPT ![v] =
                    [phase |-> "answered",
                     answer |-> [asOf |-> clock, items |-> objs \cap Lists[v],
                                 known |-> TRUE]]]
    /\ UNCHANGED <<server, view, data, failing, screen, muts, bulk, bulkDialog,
                   selectedPaths, deleteDialog, marks, acked>>

ListingArrives(v) ==
    /\ fetch[v].phase = "answered"
    /\ data' = [data EXCEPT ![v] = fetch[v].answer]
    /\ failing' = failing \ {v}
    /\ fetch' = [fetch EXCEPT ![v] = NoFetch]
    /\ Released(v)
    /\ IF v = view
       THEN screen' = fetch[v].answer /\ Prune(fetch[v].answer.items)
       ELSE UNCHANGED <<screen, selectedPaths, deleteDialog>>
    /\ UNCHANGED <<server, view, bulkDialog, marks, acked>>

\* All retries of the fetch failed: the error is shown, old data is kept.
ListingFails(v) ==
    /\ fetch[v].phase # "idle"
    /\ failing' = failing \cup {v}
    /\ fetch' = [fetch EXCEPT ![v] = NoFetch]
    /\ Released(v)
    /\ IF v = view /\ ~data[v].known
       THEN Prune({})
       ELSE UNCHANGED <<selectedPaths, deleteDialog>>
    /\ UNCHANGED <<server, view, data, screen, bulkDialog, marks, acked>>

\* invalidateQueries: the key on the screen is fetched again, and what was
\* under way for it is cancelled, unless it is the first fetch of the key: that
\* one is joined.  Other keys are fetched when they are looked at again.
Joins == Fetching /\ ~data[view].known
Invalidated == IF Joins THEN fetch ELSE [fetch EXCEPT ![view] = Sent]

\* The key whose awaited fetch is cancelled by it.
Cancelled == IF Joins THEN NoView ELSE view

\* The refresh button does the same.
handleRefreshEntries ==
    /\ fetch' = Invalidated
    /\ Released(Cancelled)
    /\ UNCHANGED <<server, view, data, failing, screen, bulkDialog,
                   selectedPaths, deleteDialog, marks, acked>>

\* Any change of folder, search, page, order or page size.
ChangeView(v) ==
    /\ v # view
    /\ view' = v
    /\ screen' = IF data[v].known THEN data[v] ELSE screen
    /\ fetch' = IF fetch[v].phase = "idle" THEN [fetch EXCEPT ![v] = Sent] ELSE fetch
    /\ failing' = failing \ {v}
    /\ selectedPaths' = {}
    /\ deleteDialog' = IF deleteDialog \in screen'.items THEN deleteDialog ELSE NoPath
    /\ UNCHANGED <<server, data, muts, bulk, bulkDialog, marks, acked>>

-----------------------------------------------------------------------------
(* Mutations: the toolbar and the rows                                     *)

Pending(kind) == \E s \in DOMAIN muts : muts[s].kind = kind

Start(s, kind, p) ==
    /\ muts[s] = Idle
    /\ muts' = [muts EXCEPT ![s] = [kind |-> kind, phase |-> "sent", path |-> p,
                                    at |-> 0, wait |-> NoView]]

\* uploadMutation, uploadFolderMutation, uploadAndPublishSiteMutation and the
\* confirmed overwrite; their buttons are disabled while one is pending.
handleUpload(s, p) ==
    /\ "upload" \in Kinds /\ ~Pending("upload")
    /\ p \in Lists[view]
    /\ Start(s, "upload", p)
    /\ UNCHANGED <<server, view, queries, bulk, bulkDialog, selectedPaths,
                   deleteDialog, marks, acked>>

handleCreateFolder(s, p) ==
    /\ "createFolder" \in Kinds /\ ~Pending("createFolder")
    /\ p \in Lists[view]
    /\ Start(s, "createFolder", p)
    /\ UNCHANGED <<server, view, queries, bulk, bulkDialog, selectedPaths,
                   deleteDialog, marks, acked>>

\* The menu of a row; disabled while that row is marked as being deleted.
openDelete(p) ==
    /\ "delete" \in Kinds
    /\ p \in entries
    /\ deletingPath # p
    /\ deleteDialog = NoPath
    /\ deleteDialog' = p
    /\ UNCHANGED <<server, view, queries, muts, bulk, bulkDialog, selectedPaths,
                   marks, acked>>

closeDelete ==
    /\ deleteDialog # NoPath
    /\ deleteDialog' = NoPath
    /\ UNCHANGED <<server, view, queries, muts, bulk, bulkDialog, selectedPaths,
                   marks, acked>>

\* handleDeleteFile and handleDeleteFolder.
handleDelete(s) ==
    /\ deleteDialog # NoPath
    /\ Start(s, "delete", deleteDialog)
    /\ deletingPath' = deleteDialog
    /\ deleteDialog' = NoPath
    /\ UNCHANGED <<server, view, queries, bulk, bulkDialog, selectedPaths,
                   publishingPath, acked>>

\* handlePublishSite and handlePublishObjectSite.
handlePublish(s, kind, p) ==
    /\ kind \in Kinds \cap {"publishSite", "publishObject"}
    /\ p \in entries
    /\ publishingPath # p
    /\ Start(s, kind, p)
    /\ publishingPath' = p
    /\ UNCHANGED <<server, view, queries, bulk, bulkDialog, selectedPaths,
                   deleteDialog, deletingPath, acked>>

\* What the server makes of an accepted mutation.
Written(m) ==
    CASE m.kind \in {"upload", "createFolder"} -> objs \cup {m.path}
      [] m.kind = "delete" -> objs \ {m.path}
      [] OTHER -> objs

ServerApplies(s) ==
    /\ muts[s].phase = "sent"
    /\ muts[s].kind = "delete" => muts[s].path \in objs
    /\ muts[s].kind = "createFolder" => muts[s].path \notin objs
    /\ clock < MaxClock
    /\ objs' = Written(muts[s])
    /\ clock' = IF muts[s].kind = "publishSite" THEN clock ELSE clock + 1
    /\ muts' = [muts EXCEPT ![s].phase = "applied",
                            ![s].at = IF clock' = clock THEN 0 ELSE clock']
    /\ UNCHANGED <<view, queries, bulk, bulkDialog, selectedPaths, deleteDialog,
                   marks, acked>>

\* The listing owes a write to a key that it knew when the write was
\* acknowledged; the first fetch of a key, once joined, may be older than it.
Acknowledged(at) ==
    [acked EXCEPT ![view] = IF at > @ /\ data[view].known THEN at ELSE @]

\* onSuccess: every mutation that changes the listing invalidates it and
\* awaits the new one; publishing a folder changes no listing.
Awaits_Mutant(m) == m.kind \notin {"publishSite", "delete"}

Awaits(m) == m.kind # "publishSite"

MutationSucceeds(s) ==
    /\ muts[s].phase = "applied"
    /\ IF Awaits(muts[s])
       THEN /\ fetch' = Invalidated
            /\ LET released == [t \in Slots |->
                       IF muts[t].wait = Cancelled
                       THEN [muts[t] EXCEPT !.wait = NoView] ELSE muts[t]]
               IN muts' = [released EXCEPT ![s].phase = "settling", ![s].wait = view]
            /\ bulk' = IF bulk.wait = Cancelled THEN [bulk EXCEPT !.wait = NoView] ELSE bulk
       ELSE /\ muts' = [muts EXCEPT ![s].phase = "settling"]
            /\ UNCHANGED <<fetch, bulk>>
    /\ acked' = Acknowledged(muts[s].at)
    /\ UNCHANGED <<server, view, data, failing, screen, bulkDialog, selectedPaths,
                   deleteDialog, marks>>

\* onSettled clears the mark of the row, whichever mutation set it last.
MarksCleared_Mutant(m) ==
    /\ deletingPath' = IF m.kind = "delete" /\ m.phase = "settling" THEN NoPath
                       ELSE deletingPath
    /\ publishingPath' = IF m.kind \in {"publishSite", "publishObject"} THEN NoPath
                         ELSE publishingPath

MarksCleared(m) ==
    /\ deletingPath' = IF m.kind = "delete" THEN NoPath ELSE deletingPath
    /\ publishingPath' = IF m.kind \in {"publishSite", "publishObject"} THEN NoPath
                         ELSE publishingPath

MutationSettles(s) ==
    /\ muts[s].phase = "settling" /\ muts[s].wait = NoView
    /\ muts' = [muts EXCEPT ![s] = Idle]
    /\ MarksCleared(muts[s])
    /\ UNCHANGED <<server, view, queries, bulk, bulkDialog, selectedPaths,
                   deleteDialog, acked>>

\* onError: refused by the server, or the answer to an applied request is
\* lost; nothing is invalidated.
MutationFails(s) ==
    /\ muts[s].phase \in {"sent", "applied"}
    /\ muts' = [muts EXCEPT ![s] = Idle]
    /\ MarksCleared(muts[s])
    /\ UNCHANGED <<server, view, queries, bulk, bulkDialog, selectedPaths,
                   deleteDialog, acked>>

-----------------------------------------------------------------------------
(* Selection and bulk deletion                                             *)

handleSelectAll ==
    /\ "bulk" \in Kinds /\ bulk.phase = "idle"
    /\ entries # {}
    /\ selectedPaths' = IF selectedEntries = entries THEN {} ELSE entries
    /\ UNCHANGED <<server, view, queries, muts, bulk, bulkDialog, deleteDialog,
                   marks, acked>>

handleSelectEntry(p) ==
    /\ "bulk" \in Kinds /\ bulk.phase = "idle"
    /\ p \in entries
    /\ selectedPaths' = IF p \in selectedPaths THEN selectedPaths \ {p}
                        ELSE selectedPaths \cup {p}
    /\ UNCHANGED <<server, view, queries, muts, bulk, bulkDialog, deleteDialog,
                   marks, acked>>

\* The button is there while something on the screen is selected; the dialog
\* does not close while the deletion is pending.
setBulkDeleteDialogOpen(open) ==
    /\ bulk.phase = "idle"
    /\ bulkDialog # open
    /\ open => selectedEntries # {}
    /\ bulkDialog' = open
    /\ UNCHANGED <<server, view, queries, muts, bulk, selectedPaths, deleteDialog,
                   marks, acked>>

\* What a confirmation sends.
BulkPaths_Mutant == selectedPaths

BulkPaths == selectedEntries

handleConfirmBulkDelete ==
    /\ bulkDialog
    /\ bulk.phase = "idle"
    /\ BulkPaths # {}
    /\ bulk' = [NoBulk EXCEPT !.phase = "sent", !.paths = BulkPaths]
    /\ UNCHANGED <<server, view, queries, muts, bulkDialog, selectedPaths,
                   deleteDialog, marks, acked>>

\* The server deletes what it can and reports the rest.
ServerDeletesBatch(failed) ==
    /\ bulk.phase = "sent"
    /\ bulk.paths \ objs \subseteq failed
    /\ failed \subseteq bulk.paths
    /\ clock < MaxClock
    /\ objs' = objs \ (bulk.paths \ failed)
    /\ clock' = clock + 1
    /\ bulk' = [bulk EXCEPT !.phase = "applied", !.failed = failed,
                            !.at = clock + 1]
    /\ UNCHANGED <<view, queries, muts, bulkDialog, selectedPaths, deleteDialog,
                   marks, acked>>

\* The entries that failed stay selected; the listing is fetched again and
\* the deletion stays pending until it is there.
BulkSucceeds ==
    /\ bulk.phase = "applied"
    /\ selectedPaths' = bulk.failed
    /\ bulkDialog' = FALSE
    /\ fetch' = Invalidated
    /\ bulk' = [bulk EXCEPT !.phase = "settling", !.wait = view]
    /\ muts' = [s \in Slots |-> IF muts[s].wait = Cancelled
                                THEN [muts[s] EXCEPT !.wait = NoView] ELSE muts[s]]
    /\ acked' = Acknowledged(bulk.at)
    /\ UNCHANGED <<server, view, data, failing, screen, deleteDialog, marks>>

BulkSettles_Mutant ==
    /\ bulk.phase = "settling" /\ bulk.wait = view
    /\ bulk' = NoBulk
    /\ UNCHANGED <<server, view, queries, muts, bulkDialog, selectedPaths,
                   deleteDialog, marks, acked>>

BulkSettles ==
    /\ bulk.phase = "settling" /\ bulk.wait = NoView
    /\ bulk' = NoBulk
    /\ UNCHANGED <<server, view, queries, muts, bulkDialog, selectedPaths,
                   deleteDialog, marks, acked>>

\* The request fails or its answer is lost: the dialog stays open.
BulkFails ==
    /\ bulk.phase \in {"sent", "applied"}
    /\ bulk' = NoBulk
    /\ UNCHANGED <<server, view, queries, muts, bulkDialog, selectedPaths,
                   deleteDialog, marks, acked>>

-----------------------------------------------------------------------------
\* Another client creates or deletes an object.
OtherClient(p) ==
    /\ clock < MaxClock
    /\ clock' = clock + 1
    /\ objs' = IF p \in objs THEN objs \ {p} ELSE objs \cup {p}
    /\ UNCHANGED <<view, queries, muts, bulk, bulkDialog, selectedPaths,
                   deleteDialog, marks, acked>>

Init ==
    /\ objs \in SUBSET Paths
    /\ clock = 0
    /\ view \in Views
    /\ data = [v \in Views |-> NoData]
    /\ failing = {}
    /\ fetch = [v \in Views |-> IF v = view THEN Sent ELSE NoFetch]
    /\ screen = NoData
    /\ muts = [s \in Slots |-> Idle]
    /\ bulk = NoBulk
    /\ bulkDialog = FALSE
    /\ selectedPaths = {}
    /\ deleteDialog = NoPath
    /\ deletingPath = NoPath /\ publishingPath = NoPath
    /\ acked = [v \in Views |-> 0]

QueryNext ==
    \/ \E v \in Views : ServerLists(v) \/ ListingArrives(v) \/ ListingFails(v)
    \/ \E v \in Views : ChangeView(v)
    \/ handleRefreshEntries

MutationNext ==
    \/ \E s \in Slots, p \in Paths :
           \/ handleUpload(s, p)
           \/ handleCreateFolder(s, p)
           \/ \E kind \in Kinds : handlePublish(s, kind, p)
    \/ \E p \in Paths : openDelete(p)
    \/ closeDelete
    \/ \E s \in Slots :
           \/ handleDelete(s)
           \/ ServerApplies(s)
           \/ MutationSucceeds(s)
           \/ MutationSettles(s)
           \/ MutationFails(s)

BulkNext ==
    \/ handleSelectAll
    \/ \E p \in Paths : handleSelectEntry(p)
    \/ \E open \in BOOLEAN : setBulkDeleteDialogOpen(open)
    \/ handleConfirmBulkDelete
    \/ \E failed \in SUBSET Paths : ServerDeletesBatch(failed)
    \/ BulkSucceeds
    \/ BulkSettles
    \/ BulkFails

Next == QueryNext \/ MutationNext \/ BulkNext \/ \E p \in Paths : OtherClient(p)

Spec == Init /\ [][Next]_vars

\* Requests are answered or fail, and the page goes on when they are.  The
\* user owes nothing.
Fairness ==
    /\ \A v \in Views : WF_vars(ListingArrives(v) \/ ListingFails(v))
    /\ WF_vars(BulkSucceeds \/ BulkFails)
    /\ WF_vars(BulkSettles)

FairSpec == Spec /\ Fairness

-----------------------------------------------------------------------------
(* Properties                                                              *)

\* Every variable has its type; a pending request has what it needs.
TypeOK ==
    /\ objs \subseteq Paths /\ clock \in 0..MaxClock
    /\ view \in Views
    /\ data \in [Views -> Listings] /\ screen \in Listings
    /\ failing \subseteq Views
    /\ fetch \in [Views -> [phase : {"idle", "sent", "answered"}, answer : Listings]]
    /\ muts \in [Slots -> [kind : Kinds \cup {"idle"},
                           phase : {"idle", "sent", "applied", "settling"},
                           path : Paths \cup {NoPath}, at : 0..MaxClock,
                           wait : Views \cup {NoView}]]
    /\ bulk \in [phase : {"idle", "sent", "applied", "settling"},
                 paths : SUBSET Paths, failed : SUBSET Paths, at : 0..MaxClock,
                 wait : Views \cup {NoView}]
    /\ bulkDialog \in BOOLEAN
    /\ selectedPaths \subseteq Paths
    /\ {deleteDialog, deletingPath, publishingPath} \subseteq Paths \cup {NoPath}
    /\ acked \in [Views -> 0..MaxClock]
    /\ \A s \in Slots : muts[s].wait # NoView => muts[s].phase = "settling"

\* Read your writes: what the page reported as done while a listing was on
\* the screen (the toast of onSuccess) is in that listing as soon as nothing
\* is being fetched for it and no error is shown, whatever older answers were
\* under way and however the view changed meanwhile.
OwnWritesShown ==
    ~Fetching /\ view \notin failing => /\ screen = data[view]
                                        /\ data[view].asOf >= acked[view]

\* A row is marked as being deleted or published only while such a request is
\* pending: no failure and no overlap of two requests leaves a row disabled.
NoStuckMark ==
    /\ deletingPath # NoPath => Pending("delete")
    /\ publishingPath # NoPath => Pending("publishSite") \/ Pending("publishObject")

\* The page is consistent in itself: every variable has its type, and no row
\* keeps the mark of a request that is over (deletingPath, publishingPath).
EntriesSound == TypeOK /\ NoStuckMark

\* A deletion, single or in bulk, is only ever requested for rows that are on
\* the screen when it is confirmed, although selection and dialog outlive the
\* listing they were made on.
DeletesShown ==
    [][/\ bulk.phase = "idle" /\ bulk'.phase = "sent" => bulk'.paths \subseteq entries
       /\ \A s \in DOMAIN muts : muts[s] = Idle /\ muts'[s].kind = "delete"
              => muts'[s].path \in entries]_vars

\* A bulk deletion comes to an end, although it waits for a listing that can
\* be fetched anew any number of times: its dialog cannot be closed and the
\* selection is locked until then.
BulkEnds == bulk.phase # "idle" ~> bulk.phase = "idle"
=============================================================================
