--------------------------- MODULE MCExplorerLive ---------------------------
(***************************************************************************)
(* What must come to an end on the explorer page, in bounded instances of  *)
(* its parts.  A behaviour plays one scene, and the other parts are at     *)
(* rest, with no request under way:                                        *)
(*   "bulkDelete"    the bulk deletion (constants of the configuration);   *)
(*   "details"       the details dialog, closed and opened at any time,    *)
(*                   beside other clients;                                 *)
(*   "detailsAlone"  a details dialog that stays open while it saves, and  *)
(*                   no other client;                                      *)
(*   "bulkDownload"  the download of the selection beside one of a row.    *)
(***************************************************************************)
EXTENDS ExplorerEntries, TLC

CONSTANTS p1, p2, v1, v2, f1, f2, s1, NoFile

VARIABLES
    scene,
    vis, rows, detailsFetch, written, detailsPath, selectedVisibility,
    currentVisibility, save, told,
    changes, objects, listed, here, selectedRows, rowDownloads, bulkDownload,
    asked, wanted, downloadingFilePath, downloadingFolderPath

details == <<vis, rows, detailsFetch, written, detailsPath, selectedVisibility,
             currentVisibility, save, told>>
downloads == <<changes, objects, listed, here, selectedRows, rowDownloads,
               bulkDownload, asked, wanted, downloadingFilePath,
               downloadingFolderPath>>

TwoViews == v1 :> {p1, p2} @@ v2 :> {p2}

Details == INSTANCE FileDetails WITH
    Files <- {f1}, Switches <- TRUE, Others <- TRUE

DetailsAlone == INSTANCE FileDetails WITH
    Files <- {f1, f2}, Switches <- FALSE, Others <- FALSE

Downloads == INSTANCE Downloads WITH
    Table <- <<"docs", "a", "b">>, Directories <- {"docs"}, Slots <- {s1},
    Overlaps <- TRUE, MaxChanges <- 1, NoPath <- "none",
    selectedPaths <- selectedRows, bulk <- bulkDownload

ASSUME ScenesAssumption ==
    Details!DetailsAssumption /\ DetailsAlone!DetailsAssumption
        /\ Downloads!DownloadsAssumption

-----------------------------------------------------------------------------
\* The page as Init has it, once its first listing has failed.
EntriesAtRest ==
    /\ objs = {} /\ clock = 0 /\ view = v1
    /\ data = [v \in Views |-> NoData] /\ screen = NoData
    /\ failing = {v1}
    /\ fetch = [v \in Views |-> NoFetch]
    /\ muts = [s \in Slots |-> Idle] /\ bulk = NoBulk
    /\ bulkDialog = FALSE /\ selectedPaths = {}
    /\ deleteDialog = NoPath /\ deletingPath = NoPath /\ publishingPath = NoPath
    /\ acked = [v \in Views |-> 0]

DetailsStart ==
    \/ scene = "details" /\ Details!DetailsInit
    \/ scene = "detailsAlone" /\ DetailsAlone!DetailsInit
    \/ scene \notin {"details", "detailsAlone"} /\ Details!DetailsInit /\ vis[f1] = "private"

DownloadsStart ==
    /\ Downloads!DownloadsInit
    /\ scene # "bulkDownload" => \A e \in DOMAIN objects : objects[e] = "public"

ScenesInit ==
    /\ scene \in {"bulkDelete", "details", "detailsAlone", "bulkDownload"}
    /\ IF scene = "bulkDelete" THEN Init ELSE EntriesAtRest
    /\ DetailsStart /\ DownloadsStart

EntriesPlay ==
    /\ scene = "bulkDelete" /\ Next
    /\ UNCHANGED <<scene, details, downloads>>

DetailsPlay ==
    /\ \/ scene = "details" /\ Details!DetailsNext
       \/ scene = "detailsAlone" /\ DetailsAlone!DetailsNext
    /\ UNCHANGED <<scene, vars, downloads>>

DownloadsPlay ==
    /\ scene = "bulkDownload" /\ Downloads!DownloadsNext
    /\ UNCHANGED <<scene, vars, details>>

ScenesSpec ==
    /\ ScenesInit
    /\ [][EntriesPlay \/ DetailsPlay \/ DownloadsPlay]_<<scene, vars, details, downloads>>
    /\ Fairness /\ Details!DetailsFairness /\ Downloads!DownloadsFairness

-----------------------------------------------------------------------------
(* The properties of the components in their scenes.                       *)

\* The variables of the details dialog have their types, and one that stays
\* open while it saves shows the visibility, and the public URL, of its own
\* file (handleSaveVisibility).
DetailsSound ==
    /\ scene = "details" => Details!DetailsTypeOK
    /\ scene = "detailsAlone" => DetailsAlone!DetailsMatch

\* A save of the details dialog comes to an end, although it awaits a listing
\* that others fetch again and again (updateVisibilityMutation).
SaveSettles == Details!SaveSettles

\* The download of the selection ends or waits for an archive
\* (handleBulkDownload).
BulkMovesOn == Downloads!BulkMovesOn
=============================================================================
