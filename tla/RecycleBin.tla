----------------------------- MODULE RecycleBin -----------------------------
(***************************************************************************)
(* The recycle bin dialog: pages of deleted items, a selection, restore    *)
(* and permanent deletion behind a confirmation, and two different ways to *)
(* bring the pages up to date afterwards.  A deletion fetches them again;  *)
(* a restore only takes the items out of the cached pages.                 *)
(*                                                                         *)
(* Items are their ids, newest first.  A page is named by its cursor, the  *)
(* last id of the page before it, and 0 is the first page.                 *)
(***************************************************************************)
EXTENDS Naturals, Sequences, FiniteSets

CONSTANTS
    MaxId,      \* ids of the items are 1..MaxId
    PageSize,   \* recycleBinPageSize
    Depth,      \* bound on the pages turned
    Hurried     \* the dialog may be closed while an action is pending

Items == 1..MaxId
Cursors == 0..MaxId

BinAssumption ==
    /\ MaxId \in Nat
    /\ PageSize \in Nat \ {0}
    /\ Depth \in Nat
    /\ Hurried \in BOOLEAN

VARIABLES
    bin, nextId,    \* the recycle bin on the server, and the next id
    binOpen,        \* the dialog is open
    cursor, cursorHistory,
    data,           \* the cached pages
    failing,        \* pages whose last fetch failed
    fetch,          \* the fetch under way for each page
    selectedIds,
    confirm,        \* the confirmation on the screen, and its items
    mut,            \* restoreMutation or deleteMutation
    failedItems,    \* the dialog with the items that were not restored
    restored, purged   \* items reported as restored, as deleted

server == <<bin, nextId>>
pages == <<cursor, cursorHistory>>
queries == <<data, failing, fetch>>
done == <<restored, purged>>
binVars == <<bin, nextId, binOpen, pages, queries, selectedIds, confirm, mut, failedItems, done>>

NoPage == [known |-> FALSE, items |-> {}, next |-> 0]
NoFetch == [phase |-> "idle", answer |-> NoPage]
Sent == [phase |-> "sent", answer |-> NoPage]
NoConfirm == [kind |-> "none", items |-> {}]
NoMut == [kind |-> "none", phase |-> "idle", items |-> {}, failed |-> {},
          wait |-> 0]

\* listRecycleBinObjects on the server.
Page(b, c) ==
    LET rest == {i \in b : c = 0 \/ i < c}
        items == {i \in rest : Cardinality({j \in rest : j > i}) < PageSize}
    IN [known |-> TRUE, items |-> items,
        next |-> IF items = rest THEN 0
                 ELSE CHOOSE i \in items : \A j \in items : i <= j]

items == data[cursor].items
Fetching == fetch[cursor].phase # "idle"
selectedItems == items \cap selectedIds
isPending == mut.phase # "idle"

\* A confirmation or the list of failures covers the dialog.
Covered == confirm # NoConfirm \/ failedItems # {}

\* The effect on items: the selection keeps what is on the page.
Prune(shown) == selectedIds' = selectedIds \cap shown

-----------------------------------------------------------------------------
(* Pages                                                                   *)

\* The page is looked at: it is fetched even if it is cached, unless a fetch
\* of it is under way already.
Observed(c) == IF fetch[c].phase = "idle" THEN [fetch EXCEPT ![c] = Sent] ELSE fetch

openDialog ==
    /\ ~binOpen
    /\ binOpen' = TRUE
    /\ fetch' = Observed(cursor)
    /\ failing' = failing \ {cursor}
    /\ UNCHANGED <<server, pages, data, selectedIds, confirm, mut, failedItems, done>>

\* handleOpenChange(false)
closeDialog ==
    /\ binOpen /\ ~Covered
    /\ isPending => Hurried
    /\ binOpen' = FALSE
    /\ cursor' = 0
    /\ cursorHistory' = <<>>
    /\ selectedIds' = {}
    /\ UNCHANGED <<server, queries, confirm, mut, failedItems, done>>

TurnTo(c) ==
    /\ cursor' = c
    /\ fetch' = Observed(c)
    /\ failing' = failing \ {c}
    /\ Prune(data[c].items)
    /\ UNCHANGED <<server, binOpen, data, confirm, mut, failedItems, done>>

handleNextPage ==
    /\ binOpen /\ ~Covered
    /\ data[cursor].known /\ data[cursor].next # 0
    /\ Len(cursorHistory) < Depth
    /\ cursorHistory' = Append(cursorHistory, cursor)
    /\ TurnTo(data[cursor].next)

handlePrevPage ==
    /\ binOpen /\ ~Covered
    /\ cursorHistory # <<>>
    /\ cursorHistory' = SubSeq(cursorHistory, 1, Len(cursorHistory) - 1)
    /\ TurnTo(cursorHistory[Len(cursorHistory)])

\* A deletion that waits for the page goes on when its fetch ends.
Released(c) ==
    mut' = IF mut.phase = "fetching" /\ mut.wait = c THEN NoMut ELSE mut

\* invalidateQueries: the page on the screen is fetched again; the fetch under
\* way for it is cancelled, or joined if it is the first one of that page.
Joins == Fetching /\ ~data[cursor].known
Invalidated == IF binOpen /\ ~Joins THEN [fetch EXCEPT ![cursor] = Sent] ELSE fetch

handleRefresh ==
    /\ binOpen /\ ~Covered
    /\ fetch' = Invalidated
    /\ IF Joins THEN UNCHANGED mut ELSE Released(cursor)
    /\ UNCHANGED <<server, binOpen, pages, data, failing, selectedIds, confirm,
                   failedItems, done>>

ServerLists(c) ==
    /\ fetch[c].phase = "sent"
    /\ fetch' = [fetch EXCEPT ![c] = [phase |-> "answered", answer |-> Page(bin, c)]]
    /\ UNCHANGED <<server, binOpen, pages, data, failing, selectedIds, confirm, mut,
                   failedItems, done>>

PageArrives(c) ==
    /\ fetch[c].phase = "answered"
    /\ data' = [data EXCEPT ![c] = fetch[c].answer]
    /\ failing' = failing \ {c}
    /\ fetch' = [fetch EXCEPT ![c] = NoFetch]
    /\ Released(c)
    /\ IF c = cursor THEN Prune(fetch[c].answer.items) ELSE UNCHANGED selectedIds
    /\ UNCHANGED <<server, binOpen, pages, confirm, failedItems, done>>

PageFails(c) ==
    /\ fetch[c].phase # "idle"
    /\ failing' = failing \cup {c}
    /\ fetch' = [fetch EXCEPT ![c] = NoFetch]
    /\ Released(c)
    /\ UNCHANGED <<server, binOpen, pages, data, selectedIds, confirm, failedItems, done>>

-----------------------------------------------------------------------------
(* Selection and confirmation.  The rows are not there while the page is   *)
(* fetched, the buttons for the selection are.                             *)

handleSelectRow(i) ==
    /\ binOpen /\ ~Covered /\ ~Fetching
    /\ i \in items
    /\ selectedIds' = IF i \in selectedIds THEN selectedIds \ {i}
                      ELSE selectedIds \cup {i}
    /\ UNCHANGED <<server, binOpen, pages, queries, confirm, mut, failedItems, done>>

handleSelectAll ==
    /\ binOpen /\ ~Covered /\ ~Fetching
    /\ items # {}
    /\ selectedIds' = IF selectedItems = items THEN {} ELSE items
    /\ UNCHANGED <<server, binOpen, pages, queries, confirm, mut, failedItems, done>>

clearSelection ==
    /\ binOpen /\ ~Covered /\ ~isPending
    /\ selectedItems # {}
    /\ selectedIds' = {}
    /\ UNCHANGED <<server, binOpen, pages, queries, confirm, mut, failedItems, done>>

openConfirmation(kind, targets) ==
    /\ binOpen /\ ~Covered /\ ~isPending
    /\ \/ targets = selectedItems /\ targets # {}
       \/ ~Fetching /\ \E i \in items : targets = {i}
    /\ confirm' = [kind |-> kind, items |-> targets]
    /\ UNCHANGED <<server, binOpen, pages, queries, selectedIds, mut, failedItems, done>>

cancelConfirmation ==
    /\ confirm # NoConfirm /\ ~isPending
    /\ confirm' = NoConfirm
    /\ UNCHANGED <<server, binOpen, pages, queries, selectedIds, mut, failedItems, done>>

\* handleRestore and handleDelete
handleConfirmed ==
    /\ confirm # NoConfirm /\ ~isPending
    /\ mut' = [kind |-> confirm.kind, phase |-> "sent", items |-> confirm.items,
               failed |-> {}, wait |-> 0]
    /\ UNCHANGED <<server, binOpen, pages, queries, selectedIds, confirm, failedItems, done>>

-----------------------------------------------------------------------------
(* Restore and permanent deletion                                          *)

\* Each item is taken out of the bin or reported as failed.
ServerActs(failed) ==
    /\ mut.phase = "sent"
    /\ mut.items \ bin \subseteq failed
    /\ failed \subseteq mut.items
    /\ bin' = bin \ (mut.items \ failed)
    /\ mut' = [mut EXCEPT !.phase = "applied", !.failed = failed]
    /\ UNCHANGED <<nextId, binOpen, pages, queries, selectedIds, confirm, failedItems, done>>

\* removeRecycleBinItemsFromCache: every cached page, but not the answers that
\* are on their way.
Removed(gone) == [c \in Cursors |-> [data[c] EXCEPT !.items = @ \ gone]]

\* onSuccess of restoreMutation; the listing of the bucket is awaited after it.
RestoreSucceeds ==
    /\ mut.kind = "restore" /\ mut.phase = "applied"
    /\ confirm' = NoConfirm
    /\ failedItems' = mut.failed
    /\ data' = Removed(mut.items \ mut.failed)
    /\ selectedIds' = (selectedIds \ (mut.items \ mut.failed)) \cap data'[cursor].items
    /\ restored' = restored \cup (mut.items \ mut.failed)
    /\ mut' = [mut EXCEPT !.phase = "affected"]
    /\ UNCHANGED <<server, binOpen, pages, failing, fetch, purged>>

\* onSuccess of deleteMutation, up to the await of the listing of the bucket.
DeleteSucceeds ==
    /\ mut.kind = "delete" /\ mut.phase = "applied"
    /\ confirm' = NoConfirm
    /\ selectedIds' = selectedIds \ (mut.items \ mut.failed)
    /\ purged' = purged \cup (mut.items \ mut.failed)
    /\ mut' = [mut EXCEPT !.phase = "affected"]
    /\ UNCHANGED <<server, binOpen, pages, queries, failedItems, restored>>

\* The listing of the bucket has been fetched: a restore is over, a deletion
\* invalidates the pages of the bin and waits for the one on the screen.
AffectedFetched_Mutant ==
    /\ mut.phase = "affected"
    /\ mut' = NoMut
    /\ UNCHANGED <<server, binOpen, pages, queries, selectedIds, confirm, failedItems, done>>

AffectedFetched ==
    /\ mut.phase = "affected"
    /\ IF mut.kind = "delete" /\ binOpen
       THEN /\ mut' = [mut EXCEPT !.phase = "fetching", !.wait = cursor]
            /\ fetch' = Invalidated
       ELSE mut' = NoMut /\ UNCHANGED fetch
    /\ UNCHANGED <<server, binOpen, pages, data, failing, selectedIds, confirm,
                   failedItems, done>>

\* onError: refused, or the answer lost; the confirmation stays for a retry.
MutationFails ==
    /\ mut.phase \in {"sent", "applied"}
    /\ mut' = NoMut
    /\ UNCHANGED <<server, binOpen, pages, queries, selectedIds, confirm, failedItems, done>>

closeFailures ==
    /\ failedItems # {}
    /\ failedItems' = {}
    /\ UNCHANGED <<server, binOpen, pages, queries, selectedIds, confirm, mut, done>>

\* Somebody else restores or purges an item, or deletes an object.
OtherClientTakes(i) ==
    /\ i \in bin
    /\ bin' = bin \ {i}
    /\ UNCHANGED <<nextId, binOpen, pages, queries, selectedIds, confirm, mut,
                   failedItems, done>>

OtherClientAdds ==
    /\ nextId \in Items
    /\ bin' = bin \cup {nextId}
    /\ nextId' = nextId + 1
    /\ UNCHANGED <<binOpen, pages, queries, selectedIds, confirm, mut, failedItems, done>>

-----------------------------------------------------------------------------
BinInit ==
    /\ nextId \in 1..(MaxId + 1)
    /\ bin = 1..(nextId - 1)
    /\ binOpen = FALSE
    /\ cursor = 0 /\ cursorHistory = <<>>
    /\ data = [c \in Cursors |-> NoPage]
    /\ failing = {}
    /\ fetch = [c \in Cursors |-> NoFetch]
    /\ selectedIds = {}
    /\ confirm = NoConfirm
    /\ mut = NoMut
    /\ failedItems = {}
    /\ restored = {} /\ purged = {}

BinNext ==
    \/ openDialog \/ closeDialog
    \/ handleNextPage \/ handlePrevPage \/ handleRefresh
    \/ \E c \in Cursors : ServerLists(c) \/ PageArrives(c) \/ PageFails(c)
    \/ \E i \in Items : handleSelectRow(i)
    \/ handleSelectAll \/ clearSelection
    \/ \E kind \in {"restore", "delete"}, targets \in SUBSET Items :
           openConfirmation(kind, targets)
    \/ cancelConfirmation
    \/ handleConfirmed
    \/ \E failed \in SUBSET Items : ServerActs(failed)
    \/ RestoreSucceeds \/ DeleteSucceeds
    \/ AffectedFetched
    \/ MutationFails
    \/ closeFailures
    \/ \E i \in Items : OtherClientTakes(i)
    \/ OtherClientAdds

BinSpec == BinInit /\ [][BinNext]_binVars

-----------------------------------------------------------------------------
(* Properties                                                              *)

\* Every variable has its type; a request keeps its confirmation on the screen.
BinTypeOK ==
    /\ bin \subseteq Items /\ nextId \in 1..(MaxId + 1) /\ binOpen \in BOOLEAN
    /\ cursor \in Cursors /\ cursorHistory \in Seq(Cursors)
    /\ data \in [Cursors -> [known : BOOLEAN, items : SUBSET Items, next : Cursors]]
    /\ failing \subseteq Cursors
    /\ \A c \in Cursors : fetch[c].phase \in {"idle", "sent", "answered"}
    /\ selectedIds \subseteq Items
    /\ confirm \in [kind : {"none", "restore", "delete"}, items : SUBSET Items]
    /\ mut \in [kind : {"none", "restore", "delete"},
                phase : {"idle", "sent", "applied", "affected", "fetching"},
                items : SUBSET Items, failed : SUBSET Items, wait : Cursors]
    /\ failedItems \subseteq Items
    /\ restored \subseteq Items /\ purged \subseteq Items
    /\ mut.phase \in {"sent", "applied"}
           => confirm = [kind |-> mut.kind, items |-> mut.items]

\* The selection never holds an item that is not on the page in front of the
\* user, so "delete selected" can name no row that is not shown, although
\* pages are turned, arrive late and shrink under the selection.
SelectionShown == selectedIds \subseteq items

\* At rest, with the page fetched, an item reported as permanently deleted is
\* no longer listed.
PurgedGone ==
    binOpen /\ ~isPending /\ ~Fetching /\ cursor \notin failing
        => items \cap purged = {}

\* The same of an item reported as restored.
RestoredGone ==
    binOpen /\ ~isPending /\ ~Fetching /\ cursor \notin failing
        => items \cap restored = {}

\* The trail of cursors starts at the first page and leads down, so Previous
\* always leads to a newer page and finally to the first one.
TrailDescends ==
    LET trail == Append(cursorHistory, cursor)
    IN /\ trail[1] = 0
       /\ \A k \in 2..Len(trail) : /\ trail[k] # 0
                                   /\ k > 2 => trail[k] < trail[k - 1]
=============================================================================
