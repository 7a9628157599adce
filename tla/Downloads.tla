----------------------------- MODULE Downloads -----------------------------
(***************************************************************************)
(* Downloads from the object explorer (BucketObjectsPage.tsx): the buttons *)
(* of the rows and the download of the selected rows.                      *)
(*                                                                         *)
(* A public file is fetched by clicking a link, a private one by asking    *)
(* for a signed path first, a folder by fetching its archive.  The page    *)
(* cannot tell what becomes of a clicked link; it waits 150 ms and goes    *)
(* on.  Every download marks its row, and all of them share two marks.     *)
(***************************************************************************)
EXTENDS Naturals, Sequences, SequencesExt, FiniteSets, Filters

CONSTANTS
    Table,      \* the entries of a folder, in the order of the table
    Directories, \* the entries that are directories
    Slots,      \* downloads of single rows that may be pending together
    Overlaps,   \* may a download start while another one is pending
    MaxChanges, \* bound on the changes other clients make
    NoPath

Entries == ToSet(Table)

DownloadsAssumption ==
    /\ Table \in Seq(Entries)
    /\ Directories \subseteq Entries
    /\ NoPath \notin Entries
    /\ Overlaps \in BOOLEAN /\ MaxChanges \in Nat

VARIABLES
    changes,        \* how many changes other clients have made
    objects,        \* what the server holds: "public", "private" or "gone"
    listed,         \* the same, as the listing on the page has it
    here,           \* is this folder shown, or another one
    selectedPaths,
    rowDownloads,   \* the pending download of a slot
    bulk,           \* the download of the selected rows
    asked,          \* the entries the bulk download has requested
    wanted,         \* the entries that were selected when it started
    downloadingFilePath, downloadingFolderPath

marks == <<downloadingFilePath, downloadingFolderPath>>
page == <<listed, here, selectedPaths>>
history == <<asked, wanted>>
downloadVars == <<changes, objects, page, rowDownloads, bulk, history, marks>>

NoRow == [path |-> NoPath, phase |-> "idle"]
NoBulk == [phase |-> "idle", rest |-> <<>>, ok |-> 0, failed |-> 0, got |-> 0]

bulkDownloadPending == bulk.phase # "idle"
Pending == bulkDownloadPending \/ \E s \in Slots : rowDownloads[s] # NoRow
ShownRow(e) == here /\ listed[e] # "gone"

\* The entries the user sees selected, in the order of the table.
selectedEntries == Kept(Table, {e \in selectedPaths : ShownRow(e)})

\* How the download of an entry starts, by what the listing says of it.
FirstPhase(e, visibility) ==
    IF e \in Directories THEN "archive"
    ELSE IF visibility = "public" THEN "trigger" ELSE "sign"

\* Does a link that is clicked now bring the file?
Served(e, signed) == objects[e] = "public" \/ (signed /\ objects[e] = "private")

----------------------------------------------------------------------------
(* The buttons of a row. *)

MarkedAs(e) == IF e \in Directories THEN downloadingFolderPath = e
               ELSE downloadingFilePath = e

Mark(e) == IF e \in Directories
           THEN downloadingFolderPath' = e /\ UNCHANGED downloadingFilePath
           ELSE downloadingFilePath' = e /\ UNCHANGED downloadingFolderPath

handleDownload(s, e) ==
    /\ Overlaps \/ ~Pending
    /\ rowDownloads[s] = NoRow
    /\ ShownRow(e) /\ ~MarkedAs(e)
    /\ rowDownloads' = [rowDownloads EXCEPT ![s] =
                            [path |-> e, phase |-> FirstPhase(e, listed[e])]]
    /\ Mark(e)
    /\ UNCHANGED <<changes, objects, page, bulk, history>>

RowSigned(s) ==
    /\ rowDownloads[s].phase = "sign"
    /\ rowDownloads' = [rowDownloads EXCEPT ![s].phase = "trigger"]
    /\ UNCHANGED <<changes, objects, page, bulk, history, marks>>

\* A row clears the mark of its kind, whoever has set it.
RowEnds_Mutant(s) ==
    /\ rowDownloads[s] # NoRow
    /\ rowDownloads' = [rowDownloads EXCEPT ![s] = NoRow]
    /\ IF rowDownloads[s].phase = "archive" THEN UNCHANGED marks
       ELSE downloadingFilePath' = NoPath /\ UNCHANGED downloadingFolderPath
    /\ UNCHANGED <<changes, objects, page, bulk, history>>

RowEnds(s) ==
    /\ rowDownloads[s] # NoRow
    /\ rowDownloads' = [rowDownloads EXCEPT ![s] = NoRow]
    /\ IF rowDownloads[s].path \in Directories
       THEN downloadingFolderPath' = NoPath /\ UNCHANGED downloadingFilePath
       ELSE downloadingFilePath' = NoPath /\ UNCHANGED downloadingFolderPath
    /\ UNCHANGED <<changes, objects, page, bulk, history>>

----------------------------------------------------------------------------
(* The download of the selected rows, one after another.  The loop works   *)
(* on the entries, and on the visibility, of the moment it was started.    *)

Captured == [i \in DOMAIN selectedEntries |->
                [path |-> selectedEntries[i],
                 visibility |-> listed[selectedEntries[i]]]]

\* The loop goes on to the first of the remaining entries, or ends.  A link
\* to a public file is clicked at once.
NextItem(rest, ok, failed, got) ==
    IF rest = <<>>
    THEN /\ bulk' = [NoBulk EXCEPT !.ok = ok, !.failed = failed, !.got = got]
         /\ downloadingFilePath' = NoPath /\ downloadingFolderPath' = NoPath
         /\ UNCHANGED history
    ELSE LET e == rest[1].path
             first == FirstPhase(e, rest[1].visibility)
         IN /\ bulk' = [phase |-> first, rest |-> rest, ok |-> ok, failed |-> failed,
                        got |-> IF first = "trigger" /\ Served(e, FALSE)
                                THEN got + 1 ELSE got]
            /\ downloadingFilePath' = IF e \in Directories THEN NoPath ELSE e
            /\ downloadingFolderPath' = IF e \in Directories THEN e ELSE NoPath
            /\ asked' = Append(asked, e)
            /\ UNCHANGED wanted

handleBulkDownload ==
    /\ Overlaps \/ ~Pending
    /\ selectedEntries # <<>> /\ ~bulkDownloadPending
    /\ LET first == Captured[1]
           phase == FirstPhase(first.path, first.visibility)
       IN /\ bulk' = [phase |-> phase, rest |-> Captured, ok |-> 0, failed |-> 0,
                      got |-> IF phase = "trigger" /\ Served(first.path, FALSE)
                              THEN 1 ELSE 0]
          /\ Mark(first.path)
          /\ asked' = <<first.path>>
          /\ wanted' = selectedEntries
    /\ UNCHANGED <<changes, objects, page, rowDownloads>>

\* The signed path arrives, whatever has become of the object, and its link
\* is clicked.
BulkSigned ==
    /\ bulk.phase = "sign"
    /\ bulk' = [bulk EXCEPT !.phase = "trigger",
                            !.got = IF Served(bulk.rest[1].path, TRUE)
                                    THEN @ + 1 ELSE @]
    /\ UNCHANGED <<changes, objects, page, rowDownloads, history, marks>>

\* After the 150 ms the download of a file counts as a success.
BulkTriggered ==
    /\ bulk.phase = "trigger"
    /\ NextItem(Tail(bulk.rest), bulk.ok + 1, bulk.failed, bulk.got)
    /\ UNCHANGED <<changes, objects, page, rowDownloads>>

\* The archive of a folder arrives and is handed to the browser.
BulkArchived ==
    /\ bulk.phase = "archive"
    /\ objects[bulk.rest[1].path] # "gone"
    /\ NextItem(Tail(bulk.rest), bulk.ok + 1, bulk.failed, bulk.got + 1)
    /\ UNCHANGED <<changes, objects, page, rowDownloads>>

\* A request is refused or fails: the loop goes on with the next entry.
\* A mutant that retries the entry instead of leaving it.
BulkItemFails_Retry ==
    /\ bulk.phase = "sign"
    /\ bulk' = [bulk EXCEPT !.failed = 1 - @]
    /\ UNCHANGED <<changes, objects, page, rowDownloads, history, marks>>

BulkItemFails ==
    /\ bulk.phase \in {"sign", "archive"}
    /\ NextItem(Tail(bulk.rest), bulk.ok, bulk.failed + 1, bulk.got)
    /\ UNCHANGED <<changes, objects, page, rowDownloads>>

----------------------------------------------------------------------------
(* The selection, the listing, and other clients. *)

handleSelectEntry(e) ==
    /\ ShownRow(e) /\ ~bulkDownloadPending
    /\ selectedPaths' = IF e \in selectedPaths THEN selectedPaths \ {e}
                        ELSE selectedPaths \cup {e}
    /\ UNCHANGED <<changes, objects, listed, here, rowDownloads, bulk, history, marks>>

\* A new listing; what it does not show is deselected.
ListingRefreshed ==
    /\ here /\ listed # objects
    /\ listed' = objects
    /\ selectedPaths' = {e \in selectedPaths : objects[e] # "gone"}
    /\ UNCHANGED <<changes, objects, here, rowDownloads, bulk, history, marks>>

\* Another folder is opened, or this one again; the selection is dropped.
ChangeView ==
    /\ here' = ~here
    /\ selectedPaths' = {}
    /\ UNCHANGED <<changes, objects, listed, rowDownloads, bulk, history, marks>>

\* Other clients, or this user in another dialog, change an object.
OtherChange(e, to) ==
    /\ changes < MaxChanges /\ changes' = changes + 1
    /\ to # objects[e]
    /\ e \in Directories => to # "private"
    /\ objects' = [objects EXCEPT ![e] = to]
    /\ UNCHANGED <<page, rowDownloads, bulk, history, marks>>

DownloadsInit ==
    /\ changes = 0
    /\ objects \in [Entries -> {"public", "private"}]
    /\ \A e \in Directories : objects[e] = "public"
    /\ listed = objects
    /\ here = TRUE /\ selectedPaths = {}
    /\ rowDownloads = [s \in Slots |-> NoRow]
    /\ bulk = NoBulk
    /\ asked = <<>> /\ wanted = <<>>
    /\ downloadingFilePath = NoPath /\ downloadingFolderPath = NoPath

RowNext == \E s \in Slots :
    (\E e \in Entries : handleDownload(s, e)) \/ RowSigned(s) \/ RowEnds(s)
BulkNext == handleBulkDownload \/ BulkSigned \/ BulkTriggered \/ BulkArchived
                \/ BulkItemFails
PageNext == (\E e \in Entries : handleSelectEntry(e)) \/ ListingRefreshed \/ ChangeView
OtherNext == \E e \in Entries, to \in {"public", "private", "gone"} : OtherChange(e, to)

DownloadsNext == RowNext \/ BulkNext \/ PageNext \/ OtherNext

DownloadsSpec == DownloadsInit /\ [][DownloadsNext]_downloadVars

\* Timers run out, and a signed path is answered or given up after the 15 s
\* timeout of the API client.  The request for an archive has no timeout.
DownloadsFairness ==
    /\ WF_downloadVars(BulkTriggered)
    /\ WF_downloadVars(bulk.phase = "sign" /\ (BulkSigned \/ BulkItemFails))

DownloadsFairSpec == DownloadsSpec /\ DownloadsFairness

----------------------------------------------------------------------------
DownloadsTypeOK ==
    /\ changes \in 0..MaxChanges
    /\ objects \in [Entries -> {"public", "private", "gone"}]
    /\ listed \in [Entries -> {"public", "private", "gone"}]
    /\ here \in BOOLEAN
    /\ selectedPaths \subseteq {e \in Entries : ShownRow(e)}
    /\ \A s \in Slots : rowDownloads[s] = NoRow
           \/ /\ rowDownloads[s].path \in Entries
              /\ rowDownloads[s].phase = "archive" <=> rowDownloads[s].path \in Directories
    /\ bulkDownloadPending <=> bulk.rest # <<>>
    /\ bulk.ok + bulk.failed + Len(bulk.rest) \in 0..Len(Table)
    /\ downloadingFilePath \in (Entries \ Directories) \cup {NoPath}
    /\ downloadingFolderPath \in Directories \cup {NoPath}

\* When every download has ended no row is left marked as downloading, in
\* whatever order they ended: a row whose mark stayed would have its button
\* disabled until the page is left (handleDownloadFile, handleDownloadFolder,
\* handleBulkDownload).
NoMarkLeft == ~Pending => downloadingFilePath = NoPath /\ downloadingFolderPath = NoPath

\* The bulk download asks for exactly the entries that were selected when it
\* was started, in the order of the table, once each, although listings arrive,
\* folders are opened and the selection changes while it runs
\* (handleBulkDownload; "bulk downloads mixed selections in table order").
BulkAsksAll ==
    asked \o [i \in 1..(Len(bulk.rest) - 1) |-> bulk.rest[i + 1].path] = wanted

\* A finished bulk download reports as downloaded what the browser got
\* (toast.bulkDownloadCompleted).
CountedDelivered == ~bulkDownloadPending => bulk.ok = bulk.got

\* While an entry is being downloaded from its row, or as part of the
\* selection, its own button is marked and cannot start it again
\* (ExplorerFileActions, DownloadFolderZipButton).
RunningMarked ==
    /\ \A s \in Slots : rowDownloads[s] # NoRow => MarkedAs(rowDownloads[s].path)
    /\ bulkDownloadPending => MarkedAs(bulk.rest[1].path)

\* The bulk download, which disables every bulk action and the selection, ends
\* or waits for an archive: links and signed paths never hold it up for ever
\* (handleBulkDownload, downloadFile).
BulkMovesOn == bulkDownloadPending ~> bulk.phase \in {"idle", "archive"}
=============================================================================
