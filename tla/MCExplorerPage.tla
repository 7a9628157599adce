--------------------------- MODULE MCExplorerPage ---------------------------
(***************************************************************************)
(* Bounded instances of the parts of the explorer page that keep state of  *)
(* their own beside the listing: the window of rows, the sort popovers,    *)
(* uploads, downloads and the recycle bin dialog.  They share no state, so *)
(* a behaviour plays one scene with one of them, and the others stay in an *)
(* initial state:                                                          *)
(*   "window"     the rows rendered (constants of the configuration);      *)
(*   "sort"       the popovers of three columns;                           *)
(*   "stays"      uploads of a user who stays in the folder;               *)
(*   "wanders"    uploads of a user who opens other folders meanwhile      *)
(*                (constants of the configuration);                        *)
(*   "alone"      one download at a time, of objects that do not change;   *)
(*   "overlap"    downloads of rows beside the download of the selection;  *)
(*   "onePage"    the recycle bin, two items on one page;                  *)
(*   "pages"      the recycle bin with pages of one item.                  *)
(***************************************************************************)
EXTENDS RowWindow, UploadFlow, Sequences, TLC

CONSTANTS s1, s2, f1, f2, n1

VARIABLES
    scene,
    url, past, openSortBy, draft, touched,
    changes, objects, listed, here, selectedPaths, rowDownloads, bulk, asked, wanted,
    downloadingFilePath, downloadingFolderPath,
    bin, nextId, binOpen, cursor, cursorHistory, data, failing, fetch, selectedIds,
    confirm, mut, failedItems, restored, purged

sort == <<url, past, openSortBy, draft, touched>>
downloads == <<changes, objects, listed, here, selectedPaths, rowDownloads, bulk, asked,
               wanted, downloadingFilePath, downloadingFolderPath>>
recycleBin == <<bin, nextId, binOpen, cursor, cursorHistory, data, failing, fetch,
                selectedIds, confirm, mut, failedItems, restored, purged>>

-----------------------------------------------------------------------------
Sort == INSTANCE SortHeader WITH
    Columns <- {"name", "size", "created_at"}, MaxHistory <- 2, None <- "none"

Stays == INSTANCE UploadFlow WITH Wanders <- FALSE

\* A folder and two files, directories first as the server lists them.
MCTable == <<"docs", "a", "b">>

Alone == INSTANCE Downloads WITH
    Table <- MCTable, Directories <- {"docs"}, Slots <- {s1}, Overlaps <- FALSE,
    MaxChanges <- 0, NoPath <- "none"

Overlap == INSTANCE Downloads WITH
    Table <- MCTable, Directories <- {"docs"}, Slots <- {s1, s2}, Overlaps <- TRUE,
    MaxChanges <- 1, NoPath <- "none"

OnePage == INSTANCE RecycleBin WITH
    MaxId <- 2, PageSize <- 2, Depth <- 0, Hurried <- FALSE

Pages == INSTANCE RecycleBin WITH
    MaxId <- 2, PageSize <- 1, Depth <- 2, Hurried <- TRUE

ASSUME ScenesAssumption ==
    /\ Sort!SortAssumption
    /\ Stays!UploadAssumption
    /\ Alone!DownloadsAssumption /\ Overlap!DownloadsAssumption
    /\ OnePage!BinAssumption /\ Pages!BinAssumption

-----------------------------------------------------------------------------
WindowInit == Init /\ (scene # "window" => entries = 0)

SortStart == Sort!SortInit /\ (scene # "sort" => url = Sort!Unsorted)

UploadsInit ==
    \/ scene = "stays" /\ Stays!UploadInit
    \/ scene = "wanders" /\ UploadInit
    \/ scene \notin {"stays", "wanders"} /\ UploadInit /\ objs = {} /\ prefix = f1

DownloadsStart ==
    \/ scene = "alone" /\ Alone!DownloadsInit
    \/ scene = "overlap" /\ Overlap!DownloadsInit
    \/ /\ scene \notin {"alone", "overlap"}
       /\ Alone!DownloadsInit
       /\ \A e \in DOMAIN objects : objects[e] = "public"

BinStart ==
    \/ scene = "onePage" /\ OnePage!BinInit
    \/ scene = "pages" /\ Pages!BinInit
    \/ scene \notin {"onePage", "pages"} /\ Pages!BinInit /\ bin = {}

ScenesInit ==
    /\ scene \in {"window", "sort", "stays", "wanders", "alone", "overlap",
                  "onePage", "pages"}
    /\ WindowInit /\ SortStart /\ UploadsInit /\ DownloadsStart /\ BinStart

WindowPlays ==
    /\ scene = "window" /\ Next
    /\ UNCHANGED <<scene, sort, uploadVars, downloads, recycleBin>>

SortPlays ==
    /\ scene = "sort" /\ Sort!SortNext
    /\ UNCHANGED <<scene, vars, uploadVars, downloads, recycleBin>>

UploadPlays ==
    /\ \/ scene = "stays" /\ Stays!UploadNext
       \/ scene = "wanders" /\ UploadNext
    /\ UNCHANGED <<scene, vars, sort, downloads, recycleBin>>

DownloadsPlay ==
    /\ \/ scene = "alone" /\ Alone!DownloadsNext
       \/ scene = "overlap" /\ Overlap!DownloadsNext
    /\ UNCHANGED <<scene, vars, sort, uploadVars, recycleBin>>

BinPlays ==
    /\ \/ scene = "onePage" /\ OnePage!BinNext
       \/ scene = "pages" /\ Pages!BinNext
    /\ UNCHANGED <<scene, vars, sort, uploadVars, downloads>>

ScenesNext == WindowPlays \/ SortPlays \/ UploadPlays \/ DownloadsPlay \/ BinPlays

ScenesSpec ==
    ScenesInit /\ [][ScenesNext]_<<scene, vars, sort, uploadVars, downloads, recycleBin>>

Symmetry == Permutations({s1, s2})

-----------------------------------------------------------------------------
(* The properties of the components in their scenes.                       *)

\* The parts of the page are consistent in themselves: every variable has its
\* type; rows and spacers add up to the listing (HeightKept); an open sort
\* popover starts from the order in force (SortableHeader); while the user stays
\* in the folder, files land in the folder that the dialog showed and the object
\* replaced is the one the question named (handleConfirmOverwriteUpload); a
\* finished upload leaves no progress for the next, although three mutations
\* share it; with one download at a time its row is marked, and what is reported
\* was delivered; however downloads overlap, no mark is left when all have ended,
\* and handleBulkDownload asks once for each entry selected when it started, in
\* the order of the table; the cursors of the recycle bin descend, and what is
\* selected there is on the page shown (RecycleBinDialog).
PageSound ==
    /\ HeightKept
    /\ scene = "sort" => Sort!SortTypeOK /\ Sort!DraftFollows
    /\ scene = "stays" => Stays!UploadTypeOK /\ Stays!StoredWhereShown /\ Stays!ConfirmedTarget
    /\ scene = "wanders" => UploadTypeOK /\ NoStaleProgress
    /\ scene = "alone" => Alone!RunningMarked /\ Alone!CountedDelivered
    /\ scene = "overlap" => Overlap!DownloadsTypeOK /\ Overlap!NoMarkLeft /\ Overlap!BulkAsksAll
    /\ scene = "onePage" => OnePage!BinTypeOK
    /\ scene = "pages" =>
          Pages!BinTypeOK /\ Pages!SelectionShown /\ Pages!TrailDescends

\* An item that RecycleBinDialog reported as permanently deleted is not listed
\* any more when the dialog is at rest.
PurgedGone == scene = "onePage" => OnePage!PurgedGone
=============================================================================
