---------------------------- MODULE FileDetails ----------------------------
(***************************************************************************)
(* The details dialog of the explorer table: the visibility it shows, the  *)
(* public URL that depends on it, and the Save button.                     *)
(*                                                                         *)
(* The dialog keeps two copies of the visibility, selectedVisibility and   *)
(* currentVisibility.  Both are taken over from the row when the row       *)
(* changes, and currentVisibility is set again when a save has ended: a    *)
(* save is a request, a new listing and an assignment, with awaits         *)
(* between them in which the dialog can be closed and opened again.        *)
(***************************************************************************)
EXTENDS Naturals, FiniteSets

CONSTANTS
    Files,
    Switches,   \* the dialog may be closed while a save is under way
    Others,     \* other clients change visibilities and delete files
    NoFile

Visibilities == {"public", "private"}
Shown == Visibilities \cup {"gone"}

DetailsAssumption ==
    /\ Switches \in BOOLEAN /\ Others \in BOOLEAN
    /\ NoFile \notin Files

VARIABLES
    vis,          \* the server: the visibility of each file, or "gone"
    rows,         \* the listing on the screen, the same
    detailsFetch, \* the fetch of the listing under way
    written,      \* files written since the server read the listing on screen
    detailsPath,  \* the file whose dialog is open
    selectedVisibility, currentVisibility,
    save,         \* handleSaveVisibility and its mutation
    told          \* for each file, what the server told this page last, in a
                  \* listing or in the answer to a save

detailsDialog == <<detailsPath, selectedVisibility, currentVisibility>>
detailsVars == <<vis, rows, detailsFetch, written, detailsDialog, save, told>>

NoAnswer == [f \in Files |-> "gone"]
Restarted == [phase |-> "sent", answer |-> NoAnswer, changed |-> {}]
Ended == [phase |-> "idle", answer |-> NoAnswer, changed |-> {}]
NoSave == [phase |-> "idle", file |-> NoFile, to |-> "private"]

isSavingVisibility == save.phase # "idle"

\* The URL, and the preview made from it, are offered for what the dialog
\* believes to be public.
publicUrl == detailsPath # NoFile /\ currentVisibility = "public"

-----------------------------------------------------------------------------
(* The dialog                                                              *)

\* onOpenDetails: the entry takes the place of null, so the effect runs.
setDetailsPath(f) ==
    /\ detailsPath = NoFile
    /\ rows[f] # "gone"
    /\ detailsPath' = f
    /\ selectedVisibility' = rows[f]
    /\ currentVisibility' = rows[f]
    /\ UNCHANGED <<vis, rows, detailsFetch, written, save, told>>

\* onOpenChange(false); the component and its state stay mounted.
closeDetails ==
    /\ detailsPath # NoFile
    /\ isSavingVisibility => Switches
    /\ detailsPath' = NoFile
    /\ UNCHANGED <<vis, rows, detailsFetch, written, selectedVisibility,
                   currentVisibility, save, told>>

setSelectedVisibility(v) ==
    /\ detailsPath # NoFile /\ ~isSavingVisibility
    /\ selectedVisibility' = v
    /\ UNCHANGED <<vis, rows, detailsFetch, written, detailsPath, currentVisibility, save,
                   told>>

handleSaveVisibility ==
    /\ detailsPath # NoFile
    /\ selectedVisibility # currentVisibility
    /\ ~isSavingVisibility
    /\ save' = [phase |-> "sent", file |-> detailsPath, to |-> selectedVisibility]
    /\ UNCHANGED <<vis, rows, detailsFetch, written, detailsDialog, told>>

\* updateObjectVisibility on the server.
ServerSaves ==
    /\ save.phase = "sent"
    /\ vis[save.file] # "gone"
    /\ vis' = [vis EXCEPT ![save.file] = save.to]
    /\ written' = written \cup {save.file}
    /\ save' = [save EXCEPT !.phase = "applied"]
    /\ UNCHANGED <<rows, detailsFetch, detailsDialog, told>>

\* onSuccess invalidates the listings and awaits the one on the screen.
onSuccess ==
    /\ save.phase = "applied"
    /\ save' = [save EXCEPT !.phase = "awaiting"]
    /\ detailsFetch' = Restarted
    /\ written' = written \cup detailsFetch.changed
    /\ told' = [told EXCEPT ![save.file] = save.to]
    /\ UNCHANGED <<vis, rows, detailsDialog>>

\* After the await: the visibility that was saved is made the current one of
\* the dialog, whichever file that is by now.
SaveEnds_Mutant ==
    /\ save.phase = "saved"
    /\ currentVisibility' = save.to
    /\ UNCHANGED <<vis, rows, detailsFetch, written, detailsPath, selectedVisibility, save,
                   told>>

SaveEnds ==
    /\ save.phase = "saved"
    /\ currentVisibility' = save.to
    /\ save' = NoSave
    /\ UNCHANGED <<vis, rows, detailsFetch, written, detailsPath, selectedVisibility, told>>

\* catch and finally: refused, or the answer lost.
SaveFails ==
    /\ save.phase \in {"sent", "applied"}
    /\ save' = NoSave
    /\ UNCHANGED <<vis, rows, detailsFetch, written, detailsDialog, told>>

-----------------------------------------------------------------------------
(* The listing                                                             *)

\* A fetch that is over, successful or not, lets the save go on.
SaveReleased == save' = IF save.phase = "awaiting" THEN [save EXCEPT !.phase = "saved"]
                    ELSE save

\* The refresh button, or any other mutation of the page: the dialog is modal,
\* but requests started before it was opened end while it is open.
Refetch ==
    /\ detailsFetch' = Restarted
    /\ written' = written \cup detailsFetch.changed
    /\ SaveReleased
    /\ UNCHANGED <<vis, rows, detailsDialog, told>>

ServerReadsRows ==
    /\ detailsFetch.phase = "sent"
    /\ detailsFetch' = [phase |-> "answered", answer |-> vis, changed |-> written]
    /\ written' = {}
    /\ UNCHANGED <<vis, rows, detailsDialog, save, told>>

\* The effect of the dialog on a new entry.  Entries that nobody wrote to keep
\* their identity; a write changes updated_at.
EntryEffect_Mutant(new) ==
    UNCHANGED <<selectedVisibility, currentVisibility>>

EntryEffect(new) ==
    /\ selectedVisibility' = new
    /\ currentVisibility' = new

\* The effect of the table on a row that is gone.
ClearDialog == detailsPath' = NoFile

ListingArrives ==
    /\ detailsFetch.phase = "answered"
    /\ rows' = detailsFetch.answer
    /\ told' = detailsFetch.answer
    /\ detailsFetch' = Ended
    /\ SaveReleased
    /\ IF detailsPath \in detailsFetch.changed
       THEN IF rows'[detailsPath] = "gone"
            THEN /\ ClearDialog
                 /\ UNCHANGED <<selectedVisibility, currentVisibility>>
            ELSE EntryEffect(rows'[detailsPath]) /\ UNCHANGED detailsPath
       ELSE UNCHANGED detailsDialog
    /\ UNCHANGED <<vis, written>>

ListingFails ==
    /\ detailsFetch.phase # "idle"
    /\ detailsFetch' = Ended
    /\ written' = written \cup detailsFetch.changed
    /\ SaveReleased
    /\ UNCHANGED <<vis, rows, detailsDialog, told>>

OtherClientSets(f, v) ==
    /\ Others
    /\ vis[f] \notin {v, "gone"}
    /\ vis' = [vis EXCEPT ![f] = v]
    /\ written' = written \cup {f}
    /\ UNCHANGED <<rows, detailsFetch, detailsDialog, save, told>>

-----------------------------------------------------------------------------
DetailsInit ==
    /\ vis \in [Files -> Visibilities]
    /\ rows = vis
    /\ detailsFetch = Ended
    /\ written = {}
    /\ detailsPath = NoFile
    /\ selectedVisibility = "private" /\ currentVisibility = "private"
    /\ save = NoSave
    /\ told = rows

DetailsNext ==
    \/ \E f \in Files : setDetailsPath(f)
    \/ closeDetails
    \/ \E v \in Visibilities : setSelectedVisibility(v)
    \/ handleSaveVisibility
    \/ ServerSaves
    \/ onSuccess
    \/ SaveEnds
    \/ SaveFails
    \/ Refetch
    \/ ServerReadsRows
    \/ ListingArrives
    \/ ListingFails
    \/ \E f \in Files, v \in Shown : OtherClientSets(f, v)

DetailsSpec == DetailsInit /\ [][DetailsNext]_detailsVars

\* Requests end, and code that awaited one goes on.
DetailsFairness ==
    /\ WF_detailsVars(onSuccess \/ SaveFails)
    /\ WF_detailsVars(SaveEnds)
    /\ WF_detailsVars(ListingArrives \/ ListingFails)

DetailsFairSpec == DetailsSpec /\ DetailsFairness

-----------------------------------------------------------------------------
(* Properties                                                              *)

\* Every variable has its type; the dialog belongs to a row on the screen, and
\* a save that awaits the listing has a fetch to wait for.
DetailsTypeOK ==
    /\ vis \in [Files -> Shown] /\ rows \in [Files -> Shown]
    /\ told \in [Files -> Shown]
    /\ detailsFetch \in [phase : {"idle", "sent", "answered"}, answer : [Files -> Shown],
                  changed : SUBSET Files]
    /\ written \subseteq Files
    /\ detailsPath \in Files \cup {NoFile}
    /\ {selectedVisibility, currentVisibility} \subseteq Visibilities
    /\ save \in [phase : {"idle", "sent", "applied", "awaiting", "saved"},
                 file : Files \cup {NoFile}, to : Visibilities]
    /\ detailsPath # NoFile => rows[detailsPath] # "gone"
    /\ save.phase = "awaiting" => detailsFetch.phase # "idle"

\* A dialog that is not saving shows as the file's visibility, and with its
\* public URL, what the server told of that very file: neither an answer lost,
\* nor a listing that fails or is fetched again, nor a second save leaves it
\* with anything else.
DetailsMatch ==
    detailsPath # NoFile /\ ~isSavingVisibility
        => currentVisibility \in {rows[detailsPath], told[detailsPath]}

\* A save comes to an end, although it waits for a listing that others fetch
\* again and again: the Save button of every file is disabled until then.
SaveSettles == isSavingVisibility ~> ~isSavingVisibility
=============================================================================
