------------------------ MODULE ExplorerPage_proofs ------------------------
(***************************************************************************)
(* Proofs about six parts of the explorer page, each beside the others.    *)
(* First the window of rows, for listings and offsets of any size: nothing *)
(* relates the offset to the listing, which may shrink at any time, so the *)
(* only invariant is that both are naturals, and the properties are facts  *)
(* of the arithmetic.  Then the uploads, for any folders and files: what a *)
(* request and a question name, which upload the progress belongs to, and  *)
(* what stays true of them only while the user stays in the folder.  Then  *)
(* the details dialog, whose switch follows the saves and the listing, and *)
(* the recycle bin dialog: its trail of pages, its selection, and what     *)
(* becomes of the items that were permanently deleted.  Last the sort      *)
(* popovers, and the downloads: what the loop asks for, whose the marks    *)
(* are, and under which conditions the rows and the counts are right.      *)
(***************************************************************************)
EXTENDS RowWindow, UploadFlow, FileDetails, RecycleBin, SortHeader, Downloads,
        Filters_proofs, FiniteSetTheorems, SequenceTheorems, TLAPS

WindowInv ==
    /\ entries \in Nat
    /\ fallbackScrollOffset \in Nat

\* The quotient of the offset is the row it falls in.
LEMMA RowAtSpec ==
    ASSUME NEW y \in Nat
    PROVE  /\ RowAt(y) \in Nat
           /\ RowAt(y) * 49 <= y
           /\ y < (RowAt(y) + 1) * 49
  BY DEF RowAt, explorerTableRowEstimate

\* Listing and offset stay natural numbers.
THEOREM WindowTyped == Spec => []WindowInv
<1>1. Init => WindowInv
  BY WindowAssumption DEF Init, WindowInv
<1>2. WindowInv /\ [Next]_vars => WindowInv'
  <2> SUFFICES ASSUME WindowInv, [Next]_vars PROVE WindowInv'
    OBVIOUS
  <2>1. ASSUME NEW k \in 0..((MaxEntries * explorerTableRowEstimate) \div Step),
               setFallbackScrollOffset(k * Step)
        PROVE  WindowInv'
    <3>1. k * Step \in Nat
      BY WindowAssumption DEF explorerTableRowEstimate
    <3>2. QED
      BY <3>1, <2>1 DEF setFallbackScrollOffset, WindowInv
  <2>2. ASSUME NEW n \in 0..MaxEntries, setEntries(n) PROVE WindowInv'
    BY <2>2, WindowAssumption DEF setEntries, WindowInv
  <2>3. CASE UNCHANGED vars
    BY <2>3 DEF vars, WindowInv
  <2>4. QED
    BY <2>1, <2>2, <2>3 DEF Next
<1>3. QED
  BY <1>1, <1>2, PTL DEF Spec

\* The indexes of the window, in terms of the row under the offset.
LEMMA WindowBounds ==
    ASSUME WindowInv
    PROVE  /\ fallbackRowCount \in Nat
           /\ fallbackRowCount <= entries
           /\ fallbackRowCount <= 21
           /\ entries > 0 => fallbackRowCount > 0
           /\ fallbackStartIndex \in Nat
           /\ fallbackStartIndex <= RowAt(fallbackScrollOffset)
           /\ fallbackStartIndex <= entries - fallbackRowCount
           /\ \/ fallbackStartIndex = RowAt(fallbackScrollOffset)
              \/ fallbackStartIndex = entries - fallbackRowCount
           /\ fallbackEndIndex = fallbackStartIndex + fallbackRowCount
<1> DEFINE row == RowAt(fallbackScrollOffset)
<1>1. row \in Nat
  BY RowAtSpec DEF WindowInv
<1>2. entries \in Nat
  BY DEF WindowInv
<1>3. /\ fallbackRowCount \in Nat
      /\ fallbackRowCount <= entries
      /\ fallbackRowCount <= 21
      /\ entries > 0 => fallbackRowCount > 0
  BY <1>2 DEF fallbackRowCount, Least, explorerTableOverscan
<1> HIDE DEF row
<1>4. fallbackStartIndex = Least(row, AtLeastZero(entries - fallbackRowCount))
  BY DEF row, fallbackStartIndex
<1>5. AtLeastZero(entries - fallbackRowCount) = entries - fallbackRowCount
  BY <1>2, <1>3 DEF AtLeastZero
<1>6. /\ fallbackStartIndex \in Nat
      /\ fallbackStartIndex <= row
      /\ fallbackStartIndex <= entries - fallbackRowCount
      /\ fallbackStartIndex = row \/ fallbackStartIndex = entries - fallbackRowCount
  BY <1>1, <1>2, <1>3, <1>4, <1>5 DEF Least
<1>7. fallbackEndIndex = fallbackStartIndex + fallbackRowCount
  BY <1>2, <1>3, <1>6 DEF fallbackEndIndex, Least
<1>8. QED
  BY <1>3, <1>6, <1>7 DEF row

\* The window always has all the rows it can have (fallbackStartIndex is
\* clamped, so that an offset beyond the end of a listing that shrank still
\* shows the last rows).
THEOREM WindowAlwaysFull == Spec => []WindowFull
<1>1. WindowInv => WindowFull
  <2> SUFFICES ASSUME WindowInv PROVE WindowFull
    OBVIOUS
  <2>1. entries \in Nat
    BY DEF WindowInv
  <2>2. QED
    BY <2>1, WindowBounds DEF WindowFull
<1>2. QED
  BY <1>1, WindowTyped, PTL

\* Spacers and rows always add up to the height of the table.
THEOREM HeightAlwaysKept == Spec => []HeightKept
<1>1. WindowInv => HeightKept
  <2> SUFFICES ASSUME WindowInv PROVE HeightKept
    OBVIOUS
  <2>1. entries \in Nat
    BY DEF WindowInv
  <2>2. bottomSpacerHeight = (entries - fallbackEndIndex) * 49
    BY <2>1, WindowBounds
       DEF bottomSpacerHeight, AtLeastZero, explorerTableRowEstimate
  <2>3. fallbackTopSpacerHeight = fallbackStartIndex * 49
    BY DEF fallbackTopSpacerHeight, explorerTableRowEstimate
  <2>4. QED
    BY <2>1, <2>2, <2>3, WindowBounds DEF HeightKept, explorerTableRowEstimate
<1>2. QED
  BY <1>1, WindowTyped, PTL

\* The row under the offset is always among the rows rendered.
THEOREM OffsetAlwaysCovered == Spec => []RowUnderOffset
<1>1. WindowInv => RowUnderOffset
  <2> SUFFICES ASSUME WindowInv, fallbackScrollOffset < entries * 49
               PROVE  \E i \in fallbackStartIndex..(fallbackEndIndex - 1) :
                          /\ i * 49 <= fallbackScrollOffset
                          /\ fallbackScrollOffset < (i + 1) * 49
    BY DEF RowUnderOffset, explorerTableRowEstimate
  <2> DEFINE row == RowAt(fallbackScrollOffset)
  <2>1. entries \in Nat /\ fallbackScrollOffset \in Nat
    BY DEF WindowInv
  <2>2. row \in Nat /\ row * 49 <= fallbackScrollOffset
            /\ fallbackScrollOffset < (row + 1) * 49
    BY <2>1, RowAtSpec
  <2>3. /\ fallbackRowCount \in Nat
        /\ entries > 0 => fallbackRowCount > 0
        /\ fallbackStartIndex \in Nat
        /\ fallbackStartIndex <= row
        /\ fallbackStartIndex = row \/ fallbackStartIndex = entries - fallbackRowCount
        /\ fallbackEndIndex = fallbackStartIndex + fallbackRowCount
    BY WindowBounds
  <2> HIDE DEF row
  <2>4. row < entries
    BY <2>1, <2>2
  <2>5. row \in fallbackStartIndex..(fallbackEndIndex - 1)
    BY <2>1, <2>2, <2>3, <2>4
  <2>6. QED
    BY <2>2, <2>5
<1>2. QED
  BY <1>1, WindowTyped, PTL

-----------------------------------------------------------------------------
(* Uploads                                                                 *)

UploadStates ==
    [phase : {"idle", "checking", "exists", "absent", "sending", "conflict",
              "stored", "settling"},
     name : Names \cup {NoName}, key : Keys \cup {NoKey}, agreed : Keys \cup {NoKey},
     shown : Folders \cup {NoName}, overwrite : BOOLEAN]
Questions ==
    [name : Names \cup {NoName}, target : Keys \cup {NoKey}, shown : Folders \cup {NoName}]
Dialogs == [open : BOOLEAN, name : Names \cup {NoName}]
FolderUploads ==
    [open : BOOLEAN, phase : {"idle", "sending", "stored"}, at : Folders \cup {NoName}]
SiteUploads == [open : BOOLEAN, phase : {"idle", "sending"}]

\* UploadTypeOK in terms of these sets.
UploadTypes ==
    /\ objs \subseteq Keys /\ prefix \in Folders
    /\ dialog \in Dialogs /\ upload \in UploadStates
    /\ pendingOverwrite \in Questions
    /\ folderUpload \in FolderUploads /\ site \in SiteUploads
    /\ uploadProgress \in {0, 1}
    /\ replaced \subseteq Keys \X (Keys \cup {NoKey})
    /\ landed \subseteq Keys \X Folders

\* A request names an object and the folder that was shown, and overwrites it
\* only if the user agreed to something; a folder is sent to a folder.
RequestNamed ==
    /\ upload.phase # "idle" =>
           /\ upload.name \in Names /\ upload.shown \in Folders /\ upload.key \in Keys
           /\ upload.overwrite => upload.agreed # NoKey
    /\ folderUpload.phase # "idle" => folderUpload.at \in Folders

\* So does a question, and no request is under way meanwhile.
QuestionNamed ==
    pendingOverwrite # NoOverwrite =>
        /\ pendingOverwrite.name \in Names /\ pendingOverwrite.target \in Keys
        /\ pendingOverwrite.shown \in Folders
        /\ upload.phase = "idle"

\* Progress is that of an upload that may still report some, or resets it.
ProgressOwned ==
    uploadProgress # 0 =>
        \/ site.phase # "idle" \/ folderUpload.phase # "idle"
        \/ upload.phase \in {"sending", "conflict", "stored"}
        \/ upload.phase = "settling" /\ upload.agreed # NoKey

UploadInv == UploadTypes /\ RequestNamed /\ QuestionNamed /\ AskedFirst /\ ProgressOwned

\* While the user stays, everything is about the folder on the screen.
HereInv ==
    /\ upload.phase # "idle" =>
           /\ upload.shown = prefix /\ upload.key = <<prefix, upload.name>>
           /\ upload.agreed # NoKey => upload.agreed = upload.key
    /\ pendingOverwrite # NoOverwrite =>
           /\ pendingOverwrite.shown = prefix
           /\ pendingOverwrite.target = <<prefix, pendingOverwrite.name>>
    /\ StoredWhereShown /\ ConfirmedTarget

\* The steps of the object upload, each with what it may read and write.
ObjectStep ==
    \/ handleUpload \/ checkObjectExists \/ CheckFails \/ ConflictFound
    \/ uploadMutation \/ handleConfirmOverwriteUpload \/ handleCancelOverwriteUpload
    \/ ServerStores \/ UploadSucceeds \/ UploadSettles \/ UploadConflicts \/ UploadFails

LEMMA NoKeyIsNoKey == NoKey \notin Keys /\ \A f \in Folders, n \in Names : <<f, n>> \in Keys
  BY UploadAssumption DEF NoKey, Keys

LEMMA NothingTypes ==
    /\ NoUpload \in UploadStates /\ NoOverwrite \in Questions /\ Closed \in Dialogs
  BY DEF NoUpload, NoOverwrite, Closed, UploadStates, Questions, Dialogs

LEMMA ObjectKeepsInv ==
    ASSUME UploadInv, ObjectStep
    PROVE  UploadInv'
<1> USE NoKeyIsNoKey, NothingTypes
    DEF UploadInv, UploadTypes, RequestNamed, QuestionNamed, AskedFirst, ProgressOwned,
        UploadStates, Questions, Dialogs, NoUpload, NoOverwrite
<1>1. CASE handleUpload
  BY <1>1 DEF handleUpload, uploadPending
<1>2. CASE checkObjectExists
  BY <1>2 DEF checkObjectExists
<1>3. CASE CheckFails
  BY <1>3 DEF CheckFails
<1>4. CASE ConflictFound
  BY <1>4 DEF ConflictFound
<1>5. CASE uploadMutation
  BY <1>5 DEF uploadMutation, uploadObjectRequest
<1>6. CASE handleConfirmOverwriteUpload
  BY <1>6 DEF handleConfirmOverwriteUpload, uploadObjectRequest
<1>7. CASE handleCancelOverwriteUpload
  BY <1>7 DEF handleCancelOverwriteUpload
<1>8. CASE ServerStores
  BY <1>8 DEF ServerStores
<1>9. CASE UploadSucceeds
  BY <1>9 DEF UploadSucceeds
<1>10. CASE UploadSettles
  BY <1>10 DEF UploadSettles
<1>11. CASE UploadConflicts
  BY <1>11 DEF UploadConflicts
<1>12. CASE UploadFails
  BY <1>12 DEF UploadFails
<1> QED BY <1>1, <1>2, <1>3, <1>4, <1>5, <1>6, <1>7, <1>8, <1>9, <1>10, <1>11, <1>12 DEF ObjectStep

\* The steps of the page, of the folder and of the site leave the request of an
\* object and the question alone.
LEMMA OtherStepsKeepInv ==
    ASSUME UploadInv, [UploadNext]_uploadVars, ~ObjectStep
    PROVE  /\ UploadInv'
           /\ UNCHANGED <<upload, pendingOverwrite, replaced, landed>>
           /\ uploadPending \/ ModalOpen => Wanders \/ prefix' = prefix
<1> USE NoKeyIsNoKey
    DEF UploadInv, UploadTypes, RequestNamed, QuestionNamed, AskedFirst, ProgressOwned
<1>1. ASSUME NEW f \in Folders, Navigate(f)
      PROVE  /\ UploadInv'
             /\ UNCHANGED <<upload, pendingOverwrite, replaced, landed>>
             /\ uploadPending \/ ModalOpen => Wanders \/ prefix' = prefix
  <2>1. UNCHANGED <<objs, dialog, upload, pendingOverwrite, folderUpload, site,
                    uploadProgress, replaced, landed>>
    BY <1>1 DEF Navigate
  <2>2. prefix' \in Folders
    BY <1>1 DEF Navigate
  <2>3. uploadPending \/ ModalOpen => Wanders
    BY <1>1 DEF Navigate
  <2>4. UploadInv'
    BY <2>1, <2>2
  <2> HIDE DEF UploadInv
  <2> QED BY ONLY <2>1, <2>3, <2>4, Zenon
<1>2. CASE (\E k \in Keys : OtherClient(k)) \/ onProgress
  BY <1>2 DEF OtherClient, onProgress, UploadStates, FolderUploads, SiteUploads
<1>3. CASE \/ \E open \in BOOLEAN : setOpen(open) \/ openFolderUpload(open) \/ openSite(open)
           \/ \E n \in Names \cup {NoName} : setSelectedFile(n)
  BY <1>3 DEF setOpen, openFolderUpload, openSite, setSelectedFile, Dialogs, FolderUploads,
              SiteUploads
<1>4. CASE handleUploadFolder
  BY <1>4 DEF handleUploadFolder, FolderUploads
<1>5. CASE FolderStored
  <2>1. folderUpload.at \in Folders
    BY <1>5 DEF FolderStored, FolderUploads
  <2> QED BY <1>5, <2>1 DEF FolderStored, FolderUploads, Keys
<1>6. CASE handleUploadAndPublishSite
  BY <1>6 DEF handleUploadAndPublishSite, SiteUploads
<1>7. ASSUME NEW succeeds \in BOOLEAN, FolderUploadEnds(succeeds)
      PROVE  UploadInv' /\ UNCHANGED <<prefix, upload, pendingOverwrite, replaced, landed>>
  BY <1>7 DEF FolderUploadEnds, FolderUploads
<1>8. ASSUME NEW succeeds \in BOOLEAN, SiteEnds(succeeds)
      PROVE  UploadInv' /\ UNCHANGED <<prefix, upload, pendingOverwrite, replaced, landed>>
  BY <1>8 DEF SiteEnds, SiteUploads
<1>9. CASE UNCHANGED uploadVars
  BY <1>9 DEF uploadVars
<1> QED BY <1>1, <1>2, <1>3, <1>4, <1>5, <1>6, <1>7, <1>8, <1>9 DEF UploadNext, ObjectStep

\* Neither do they leave the folder, if the user stays; and what the object
\* upload does is about the folder that it finds.
LEMMA ObjectKeepsHere ==
    ASSUME UploadInv, HereInv, ObjectStep
    PROVE  HereInv'
<1> USE NoKeyIsNoKey, NothingTypes
    DEF UploadInv, UploadTypes, RequestNamed, QuestionNamed, HereInv, StoredWhereShown,
        ConfirmedTarget, UploadStates, NoUpload, NoOverwrite
<1>1. CASE handleUpload
  BY <1>1 DEF handleUpload
<1>2. CASE checkObjectExists
  BY <1>2 DEF checkObjectExists
<1>3. CASE CheckFails
  BY <1>3 DEF CheckFails
<1>4. CASE ConflictFound
  BY <1>4 DEF ConflictFound
<1>5. CASE uploadMutation
  BY <1>5 DEF uploadMutation, uploadObjectRequest
<1>6. CASE handleConfirmOverwriteUpload
  BY <1>6 DEF handleConfirmOverwriteUpload, uploadObjectRequest
<1>7. CASE handleCancelOverwriteUpload
  BY <1>7 DEF handleCancelOverwriteUpload
<1>8. CASE ServerStores
  BY <1>8 DEF ServerStores
<1>9. CASE UploadSucceeds
  BY <1>9 DEF UploadSucceeds
<1>10. CASE UploadSettles
  BY <1>10 DEF UploadSettles
<1>11. CASE UploadConflicts
  BY <1>11 DEF UploadConflicts
<1>12. CASE UploadFails
  BY <1>12 DEF UploadFails
<1> QED BY <1>1, <1>2, <1>3, <1>4, <1>5, <1>6, <1>7, <1>8, <1>9, <1>10, <1>11, <1>12 DEF ObjectStep

\* The invariant of the uploads (BucketObjectsPage): types, what requests and
\* questions name, and whose the progress is.
THEOREM UploadsInvariant == UploadSpec => []UploadInv
<1>1. UploadInit => UploadInv
  BY NothingTypes
     DEF UploadInit, UploadInv, UploadTypes, RequestNamed, QuestionNamed, AskedFirst,
         ProgressOwned, FolderUploads, SiteUploads, NoUpload, NoOverwrite
<1>2. UploadInv /\ [UploadNext]_uploadVars => UploadInv'
  BY ObjectKeepsInv, OtherStepsKeepInv
<1> QED BY <1>1, <1>2, PTL DEF UploadSpec

\* No object is replaced without a question (handleUpload), wherever the user
\* goes meanwhile and whatever other clients write between the check and the
\* upload: the server refuses, and the conflict is asked about.
THEOREM UploadsAskFirst == UploadSpec => []AskedFirst
<1>1. UploadInv => AskedFirst
  BY DEF UploadInv
<1> QED BY <1>1, UploadsInvariant, PTL

\* Every variable has its type, a question and a request exclude each other,
\* and no progress is left for the next upload (setUploadProgress).
THEOREM UploadsTidy == UploadSpec => [](UploadTypeOK /\ NoStaleProgress)
<1>1. UploadInv => UploadTypeOK /\ NoStaleProgress
  <2> SUFFICES ASSUME UploadInv PROVE UploadTypeOK /\ NoStaleProgress
    OBVIOUS
  <2>1. UploadTypeOK
    BY DEF UploadInv, UploadTypes, QuestionNamed, UploadTypeOK, UploadStates, Questions,
           Dialogs, FolderUploads, SiteUploads
  <2>2. NoStaleProgress
    BY DEF UploadInv, ProgressOwned, NoStaleProgress, uploadPending
  <2> QED BY <2>1, <2>2
<1> QED BY <1>1, UploadsInvariant, PTL

\* While the user stays in the folder, files are stored in the folder that the
\* dialog showed, and what is replaced is what the question named
\* (handleConfirmOverwriteUpload).  That the user stays is what the code needs
\* and does not see to: the run upload_target drops it.
THEOREM UploadsStayPut == UploadSpec /\ ~Wanders => [](StoredWhereShown /\ ConfirmedTarget)
<1> SUFFICES ASSUME ~Wanders PROVE UploadSpec => [](StoredWhereShown /\ ConfirmedTarget)
  OBVIOUS
<1>1. UploadInit => HereInv
  BY DEF UploadInit, HereInv, StoredWhereShown, ConfirmedTarget, NoUpload, NoOverwrite
<1>2. UploadInv /\ HereInv /\ [UploadNext]_uploadVars => HereInv'
  <2> SUFFICES ASSUME UploadInv, HereInv, [UploadNext]_uploadVars, ~ObjectStep
               PROVE  HereInv'
    BY ObjectKeepsHere
  <2>1. /\ UNCHANGED <<upload, pendingOverwrite, replaced, landed>>
        /\ uploadPending \/ ModalOpen => prefix' = prefix
    BY OtherStepsKeepInv
  <2> QED BY <2>1 DEF HereInv, StoredWhereShown, ConfirmedTarget, uploadPending, ModalOpen
<1>3. HereInv => StoredWhereShown /\ ConfirmedTarget
  BY DEF HereInv
<1> QED BY <1>1, <1>2, <1>3, UploadsInvariant, PTL DEF UploadSpec

-----------------------------------------------------------------------------
(* The details dialog                                                      *)

DetailsFetches == [phase : {"idle", "sent", "answered"}, answer : [Files -> Shown],
                   changed : SUBSET Files]
Saves == [phase : {"idle", "sent", "applied", "awaiting", "saved"},
          file : Files \cup {NoFile}, to : Visibilities]

DetailsTypes ==
    /\ vis \in [Files -> Shown] /\ rows \in [Files -> Shown] /\ told \in [Files -> Shown]
    /\ detailsFetch \in DetailsFetches
    /\ written \subseteq Files
    /\ detailsPath \in Files \cup {NoFile}
    /\ selectedVisibility \in Visibilities /\ currentVisibility \in Visibilities
    /\ save \in Saves
    /\ detailsPath # NoFile => rows[detailsPath] # "gone"
    /\ save.phase = "awaiting" => detailsFetch.phase # "idle"
    /\ save.phase # "idle" => save.file \in Files

\* The listing on the screen, the one that is on its way and the server agree
\* on every file that was not written in between.
RowsDated ==
    IF detailsFetch.phase = "answered"
    THEN \A f \in Files : /\ f \notin written => detailsFetch.answer[f] = vis[f]
                          /\ f \notin detailsFetch.changed => detailsFetch.answer[f] = rows[f]
    ELSE detailsFetch.changed = {} /\ \A f \in Files \ written : rows[f] = vis[f]

DetailsInv == DetailsTypes /\ RowsDated

LEMMA DetailsNull ==
    /\ Restarted \in DetailsFetches /\ Ended \in DetailsFetches /\ NoSave \in Saves
    /\ Restarted.phase = "sent" /\ Restarted.changed = {}
    /\ Ended.phase = "idle" /\ Ended.changed = {} /\ NoSave.phase = "idle"
  BY DEF Restarted, Ended, NoSave, DetailsFetches, Saves, NoAnswer, Shown, Visibilities

\* A fetch that is given up leaves its writes to the next one.
LEMMA FetchGivenUp ==
    ASSUME DetailsInv, UNCHANGED <<vis, rows>>,
           detailsFetch' = Restarted \/ detailsFetch' = Ended,
           written' = written \cup detailsFetch.changed
    PROVE  RowsDated' /\ written' \subseteq Files /\ detailsFetch' \in DetailsFetches
  BY DetailsNull DEF DetailsInv, DetailsTypes, RowsDated, DetailsFetches

LEMMA SaveGoesOn ==
    ASSUME save \in Saves, save.phase # "idle" => save.file \in Files, SaveReleased
    PROVE  /\ save' \in Saves /\ save'.phase # "awaiting"
           /\ save'.file = save.file /\ save'.to = save.to
           /\ save'.phase # "idle" => save'.file \in Files
           /\ save'.phase = IF save.phase = "awaiting" THEN "saved" ELSE save.phase
  BY DEF Saves, SaveReleased

LEMMA DetailsStep ==
    ASSUME DetailsInv, [DetailsNext]_detailsVars
    PROVE  DetailsInv'
<1> USE DetailsNull DEF DetailsInv
<1>1. ASSUME NEW f \in Files, setDetailsPath(f)
      PROVE  DetailsInv'
  BY <1>1 DEF setDetailsPath, DetailsTypes, RowsDated, Shown
<1>2. CASE closeDetails
  BY <1>2 DEF closeDetails, DetailsTypes, RowsDated
<1>3. ASSUME NEW v \in Visibilities, setSelectedVisibility(v)
      PROVE  DetailsInv'
  BY <1>3 DEF setSelectedVisibility, DetailsTypes, RowsDated
<1>4. CASE handleSaveVisibility
  BY <1>4 DEF handleSaveVisibility, DetailsTypes, RowsDated, detailsDialog, Saves
<1>5. CASE ServerSaves
  <2>1. save.file \in Files /\ save.to \in Shown
    BY <1>5 DEF ServerSaves, DetailsTypes, Saves, Shown
  <2> QED BY <1>5, <2>1 DEF ServerSaves, DetailsTypes, RowsDated, detailsDialog, Saves
<1>6. CASE onSuccess
  <2>1. RowsDated' /\ written' \subseteq Files /\ detailsFetch' \in DetailsFetches
    BY <1>6, FetchGivenUp DEF onSuccess
  <2>2. save.to \in Shown
    BY DEF DetailsTypes, Saves, Shown
  <2> QED BY <1>6, <2>1, <2>2 DEF onSuccess, DetailsTypes, detailsDialog, Saves
<1>7. CASE SaveEnds
  BY <1>7 DEF SaveEnds, DetailsTypes, RowsDated, Saves
<1>8. CASE SaveFails
  BY <1>8 DEF SaveFails, DetailsTypes, RowsDated, detailsDialog
<1>9. CASE Refetch \/ ListingFails
  <2>1. RowsDated' /\ written' \subseteq Files /\ detailsFetch' \in DetailsFetches
    BY <1>9, FetchGivenUp DEF Refetch, ListingFails
  <2>2. /\ save' \in Saves /\ save'.phase # "awaiting"
        /\ save'.phase # "idle" => save'.file \in Files
    BY <1>9, SaveGoesOn DEF Refetch, ListingFails, DetailsTypes
  <2> QED BY <1>9, <2>1, <2>2 DEF Refetch, ListingFails, DetailsTypes, detailsDialog
<1>10. CASE ServerReadsRows
  BY <1>10 DEF ServerReadsRows, DetailsTypes, RowsDated, detailsDialog, DetailsFetches
<1>11. CASE ListingArrives
  <2>1. /\ detailsFetch.answer \in [Files -> Shown] /\ detailsFetch.changed \subseteq Files
        /\ rows' = detailsFetch.answer /\ told' = detailsFetch.answer /\ detailsFetch' = Ended
        /\ vis' = vis /\ written' = written /\ detailsFetch.phase = "answered"
    BY <1>11 DEF ListingArrives, DetailsTypes, DetailsFetches
  <2>2. RowsDated'
    BY <2>1 DEF RowsDated
  <2>3. /\ save' \in Saves /\ save'.phase # "awaiting"
        /\ save'.phase # "idle" => save'.file \in Files
    BY <1>11, SaveGoesOn DEF ListingArrives, DetailsTypes
  <2>4. /\ detailsPath' \in Files \cup {NoFile}
        /\ selectedVisibility' \in Visibilities /\ currentVisibility' \in Visibilities
        /\ detailsPath' # NoFile => rows'[detailsPath'] # "gone"
    <3>1. CASE detailsPath \notin detailsFetch.changed
      BY <1>11, <2>1, <3>1 DEF ListingArrives, detailsDialog, DetailsTypes, RowsDated
    <3>2. CASE detailsPath \in detailsFetch.changed /\ rows'[detailsPath] = "gone"
      BY <1>11, <3>2 DEF ListingArrives, ClearDialog, DetailsTypes
    <3>3. CASE detailsPath \in detailsFetch.changed /\ rows'[detailsPath] # "gone"
      <4>1. rows'[detailsPath] \in Visibilities
        BY <2>1, <3>3 DEF Shown
      <4> QED BY <1>11, <3>3, <4>1 DEF ListingArrives, EntryEffect, DetailsTypes
    <3> QED BY <3>1, <3>2, <3>3
  <2> QED BY <2>1, <2>2, <2>3, <2>4 DEF DetailsTypes
<1>12. ASSUME NEW f \in Files, NEW v \in Shown, OtherClientSets(f, v)
       PROVE  DetailsInv'
  BY <1>12 DEF OtherClientSets, DetailsTypes, RowsDated, detailsDialog
<1>13. CASE UNCHANGED detailsVars
  BY <1>13 DEF detailsVars, detailsDialog, DetailsTypes, RowsDated
<1> QED BY <1>1, <1>2, <1>3, <1>4, <1>5, <1>6, <1>7, <1>8, <1>9, <1>10, <1>11, <1>12, <1>13
        DEF DetailsNext

\* The listing that is shown, or on its way, is dated by the writes it has
\* (ListingArrives, and the effect of the dialog on a changed entry).
THEOREM DetailsInvariant == DetailsSpec => []DetailsInv
<1>1. DetailsInit => DetailsInv
  <2> SUFFICES ASSUME DetailsInit PROVE DetailsInv
    OBVIOUS
  <2>1. vis \in [Files -> Shown]
    BY DEF DetailsInit, Shown
  <2> QED BY <2>1, DetailsNull
          DEF DetailsInit, DetailsInv, DetailsTypes, RowsDated, Visibilities
<1> QED BY <1>1, DetailsStep, PTL DEF DetailsSpec

\* Every variable has its type, the dialog belongs to a row on the screen, and a
\* save that awaits the listing has a fetch to wait for.
THEOREM DetailsTyped == DetailsSpec => []DetailsTypeOK
<1>1. DetailsInv => DetailsTypeOK
  BY DEF DetailsInv, DetailsTypes, DetailsTypeOK, DetailsFetches, Saves
<1> QED BY <1>1, DetailsInvariant, PTL

\* What a dialog that stays open and is alone with the server has to do with
\* its save: nothing is gone, what was saved is what the server has, and what
\* the page was told is what it shows, or is in the listing on its way.
MatchInv ==
    /\ \A f \in Files : /\ vis[f] # "gone" /\ rows[f] # "gone"
                        /\ detailsFetch.phase = "answered" => detailsFetch.answer[f] # "gone"
    /\ \A f \in Files : told[f] # rows[f] =>
           IF detailsFetch.phase = "answered" THEN f \in detailsFetch.changed ELSE f \in written
    /\ save.phase # "idle" => detailsPath = save.file
    /\ save.phase \in {"applied", "awaiting", "saved"} => vis[save.file] = save.to
    /\ save.phase \in {"awaiting", "saved"} =>
           /\ save.to \in {rows[save.file], told[save.file]}
           /\ detailsFetch.phase = "answered" => detailsFetch.answer[save.file] = save.to
    /\ detailsPath # NoFile /\ save.phase \notin {"awaiting", "saved"} =>
           currentVisibility \in {rows[detailsPath], told[detailsPath]}

LEMMA MatchStep ==
    ASSUME NoFile \notin Files, ~Switches, ~Others, DetailsInv, DetailsInv', MatchInv,
           [DetailsNext]_detailsVars
    PROVE  MatchInv'
<1> USE DetailsNull DEF DetailsInv, DetailsTypes
<1>1. ASSUME NEW f \in Files, setDetailsPath(f)
      PROVE  MatchInv'
  <2>1. save.phase = "idle"
    <3>1. detailsPath = NoFile
      BY <1>1 DEF setDetailsPath
    <3>2. save.phase # "idle" => detailsPath = save.file /\ save.file \in Files
      BY DEF MatchInv
    <3> QED BY <3>1, <3>2
  <2> QED BY <1>1, <2>1 DEF setDetailsPath, MatchInv
<1>2. CASE closeDetails
  BY <1>2 DEF closeDetails, MatchInv, isSavingVisibility
<1>3. ASSUME NEW v \in Visibilities, setSelectedVisibility(v)
      PROVE  MatchInv'
  BY <1>3 DEF setSelectedVisibility, MatchInv
<1>4. CASE handleSaveVisibility
  BY <1>4 DEF handleSaveVisibility, MatchInv, detailsDialog, isSavingVisibility
<1>5. CASE ServerSaves
  BY <1>5 DEF ServerSaves, MatchInv, detailsDialog, Saves, Visibilities
<1>6. CASE onSuccess
  <2>1. RowsDated /\ RowsDated' /\ save.file \in Files /\ save' = [save EXCEPT !.phase = "awaiting"]
        /\ told' = [told EXCEPT ![save.file] = save.to] /\ detailsFetch' = Restarted
        /\ written' = written \cup detailsFetch.changed
        /\ UNCHANGED <<vis, rows, detailsPath, currentVisibility>> /\ save.phase = "applied"
    BY <1>6 DEF onSuccess, detailsDialog
  <2>2. save'.phase = "awaiting" /\ save'.file = save.file /\ save'.to = save.to
    BY <2>1 DEF Saves
  <2>3. ASSUME NEW f \in Files, told'[f] # rows'[f] PROVE f \in written'
    <3>1. CASE f = save.file
      BY <2>1, <2>3, <3>1 DEF MatchInv, RowsDated
    <3>2. CASE f # save.file
      BY <2>1, <2>3, <3>2 DEF MatchInv
    <3> QED BY <3>1, <3>2
  <2> QED BY <2>1, <2>2, <2>3 DEF MatchInv
<1>7. CASE SaveEnds
  BY <1>7 DEF SaveEnds, MatchInv
<1>8. CASE SaveFails
  BY <1>8 DEF SaveFails, MatchInv, detailsDialog
<1>9. CASE Refetch \/ ListingFails
  <2>1. /\ UNCHANGED <<vis, rows, detailsPath, currentVisibility, told>>
        /\ detailsFetch'.phase # "answered" /\ written' = written \cup detailsFetch.changed
        /\ SaveReleased
    BY <1>9 DEF Refetch, ListingFails, detailsDialog
  <2>2. /\ save'.file = save.file /\ save'.to = save.to
        /\ save'.phase = IF save.phase = "awaiting" THEN "saved" ELSE save.phase
    BY <2>1, SaveGoesOn
  <2> QED BY <2>1, <2>2 DEF MatchInv
<1>10. CASE ServerReadsRows
  BY <1>10 DEF ServerReadsRows, MatchInv, detailsDialog, RowsDated
<1>11. CASE ListingArrives
  <2>1. /\ rows' = detailsFetch.answer /\ told' = detailsFetch.answer /\ detailsFetch' = Ended
        /\ vis' = vis /\ written' = written /\ detailsFetch.phase = "answered" /\ SaveReleased
    BY <1>11 DEF ListingArrives
  <2>2. /\ save'.file = save.file /\ save'.to = save.to
        /\ save'.phase = IF save.phase = "awaiting" THEN "saved" ELSE save.phase
    BY <2>1, SaveGoesOn
  <2>3. detailsPath' = detailsPath
    BY <1>11, <2>1 DEF ListingArrives, EntryEffect, detailsDialog, MatchInv, DetailsFetches
  <2>4. ASSUME detailsPath # NoFile, save.phase \notin {"awaiting", "saved"}
        PROVE  currentVisibility' = rows'[detailsPath]
    <3>1. CASE detailsPath \in detailsFetch.changed
      BY <1>11, <2>1, <2>4, <3>1 DEF ListingArrives, EntryEffect, MatchInv
    <3>2. CASE detailsPath \notin detailsFetch.changed
      BY <1>11, <2>1, <2>4, <3>2 DEF ListingArrives, detailsDialog, MatchInv, RowsDated
    <3> QED BY <3>1, <3>2
  <2> QED BY <2>1, <2>2, <2>3, <2>4 DEF MatchInv
<1>12. ~(\E f \in Files, v \in Shown : OtherClientSets(f, v))
  BY DEF OtherClientSets
<1>13. CASE UNCHANGED detailsVars
  BY <1>13 DEF detailsVars, detailsDialog, MatchInv
<1> QED BY <1>1, <1>2, <1>3, <1>4, <1>5, <1>6, <1>7, <1>8, <1>9, <1>10, <1>11, <1>12, <1>13
        DEF DetailsNext

\* A dialog that stays open while it saves shows the visibility, and the public
\* URL, of its own file, for any number of files and however often the listing
\* is fetched again (handleSaveVisibility), as long as nobody else changes it.
THEOREM DetailsOfOwnFile ==
    DetailsAssumption /\ ~Switches /\ ~Others /\ DetailsSpec => []DetailsMatch
<1> SUFFICES ASSUME NoFile \notin Files, ~Switches, ~Others
             PROVE  DetailsSpec => []DetailsMatch
  BY DEF DetailsAssumption
<1>1. DetailsInit => MatchInv
  BY DetailsNull DEF DetailsInit, MatchInv, Visibilities
<1>2. DetailsInv /\ DetailsInv' /\ MatchInv /\ [DetailsNext]_detailsVars => MatchInv'
  BY MatchStep
<1>3. MatchInv => DetailsMatch
  BY DEF MatchInv, DetailsMatch, isSavingVisibility
<1> QED BY <1>1, <1>2, <1>3, DetailsInvariant, PTL DEF DetailsSpec

-----------------------------------------------------------------------------
(* The recycle bin                                                         *)

BinPages == [known : BOOLEAN, items : SUBSET Items, next : Cursors]
BinFetches == [phase : {"idle", "sent", "answered"}, answer : BinPages]
Confirmations == [kind : {"none", "restore", "delete"}, items : SUBSET Items]
BinActions == [kind : {"none", "restore", "delete"},
               phase : {"idle", "sent", "applied", "affected", "fetching"},
               items : SUBSET Items, failed : SUBSET Items, wait : Cursors]

BinTypes ==
    /\ bin \subseteq Items /\ nextId \in 1..(MaxId + 1) /\ binOpen \in BOOLEAN
    /\ cursor \in Cursors /\ cursorHistory \in Seq(Cursors)
    /\ data \in [Cursors -> BinPages] /\ fetch \in [Cursors -> BinFetches]
    /\ failing \subseteq Cursors
    /\ selectedIds \subseteq Items
    /\ confirm \in Confirmations /\ mut \in BinActions
    /\ failedItems \subseteq Items
    /\ restored \subseteq Items /\ purged \subseteq Items

\* A request keeps its confirmation on the screen.
ConfirmStays ==
    mut.phase \in {"sent", "applied"} => confirm = [kind |-> mut.kind, items |-> mut.items]

\* The cursor of a page is below the cursor that the page was asked for with.
PagesDescend ==
    \A c \in Cursors :
        /\ data[c].next # 0 /\ c # 0 => data[c].next < c
        /\ fetch[c].answer.next # 0 /\ c # 0 => fetch[c].answer.next < c

\* TrailDescends, without the sequence.
HistoryDescends ==
    /\ cursorHistory = <<>> => cursor = 0
    /\ cursorHistory # <<>> => /\ cursorHistory[1] = 0 /\ cursor # 0
                               /\ cursorHistory[Len(cursorHistory)] # 0
                                      => cursor < cursorHistory[Len(cursorHistory)]
    /\ \A k \in 2..Len(cursorHistory) :
           /\ cursorHistory[k] # 0
           /\ k > 2 => cursorHistory[k] < cursorHistory[k - 1]

BinInv == BinTypes /\ ConfirmStays /\ PagesDescend /\ HistoryDescends /\ SelectionShown

\* A page of the server is a set of items with the least of them as the cursor
\* of the next one.
LEMMA PageFacts ==
    ASSUME BinAssumption, NEW b \in SUBSET Items, NEW c \in Cursors
    PROVE  /\ Page(b, c) \in BinPages /\ Page(b, c).known
           /\ Page(b, c).items \subseteq b
           /\ Page(b, c).next # 0 /\ c # 0 => Page(b, c).next < c
<1> DEFINE rest == {i \in b : c = 0 \/ i < c}
           shown == {i \in rest : Cardinality({j \in rest : j > i}) < PageSize}
<1>1. MaxId \in Nat /\ PageSize \in Nat \ {0} /\ rest \subseteq Nat /\ rest \subseteq Items
      /\ shown \subseteq rest /\ rest \subseteq b /\ c \in Nat
  <2>1. MaxId \in Nat /\ PageSize \in Nat \ {0}
    BY DEF BinAssumption
  <2>2. c \in Nat
    BY <2>1 DEF Cursors
  <2>3. rest \subseteq b /\ shown \subseteq rest
    OBVIOUS
  <2>4. Items \subseteq Nat
    BY <2>1 DEF Items
  <2> QED BY <2>1, <2>2, <2>3, <2>4
<1>2. ASSUME rest # {} PROVE shown # {}
  <2> DEFINE above == {n \in Nat : \A j \in rest : j <= n}
  <2>1. MaxId \in above
    BY <1>1 DEF Items
  <2>2. PICK m \in above : \A n \in above : m <= n
    BY <2>1, LeastElement
  <2>3. m \in rest
    <3>1. PICK j \in rest : TRUE
      BY <1>2
    <3> SUFFICES ASSUME m \notin rest PROVE FALSE
      OBVIOUS
    <3>2. \A i \in rest : i \in Nat /\ i <= m /\ i # m
      BY <1>1, <2>2
    <3>3. m - 1 \in Nat /\ \A i \in rest : i <= m - 1
      BY <2>2, <3>1, <3>2
    <3>4. m - 1 \in above
      BY <3>3
    <3> QED BY <2>2, <3>4
  <2>4. {j \in rest : j > m} = {}
    BY <1>1, <2>2
  <2>5. Cardinality({j \in rest : j > m}) < PageSize
    BY <1>1, <2>4, FS_EmptySet
  <2> QED BY <2>3, <2>5
<1> DEFINE least == CHOOSE i \in shown : \A j \in shown : i <= j
<1>3. ASSUME shown # rest PROVE least \in shown
  <2>1. shown # {} /\ shown \subseteq Nat
    BY <1>1, <1>2, <1>3
  <2> HIDE DEF shown
  <2>2. \E i \in shown : \A j \in shown : i <= j
    BY <2>1, LeastElement
  <2> QED BY <2>2
<1>4. Page(b, c) = [known |-> TRUE, items |-> shown, next |-> IF shown = rest THEN 0 ELSE least]
  BY DEF Page
<1>5. \A i \in rest : i \in Cursors /\ (c # 0 => i < c)
  BY <1>1 DEF Items, Cursors
<1>6. 0 \in Cursors
  BY <1>1 DEF Cursors
<1>7. shown \in SUBSET Items
  BY <1>1
<1>8. (IF shown = rest THEN 0 ELSE least) \in Cursors
  BY <1>1, <1>3, <1>5, <1>6
<1> HIDE DEF least, shown, rest
<1>9. Page(b, c) \in BinPages
  BY <1>4, <1>7, <1>8 DEF BinPages
<1>10. ASSUME Page(b, c).next # 0, c # 0 PROVE Page(b, c).next < c
  <2>1. shown # rest /\ Page(b, c).next = least
    BY <1>4, <1>10
  <2> QED BY <2>1, <1>1, <1>3, <1>5, <1>10
<1>11. Page(b, c).known /\ Page(b, c).items \subseteq b
  BY <1>1, <1>4
<1> QED BY <1>9, <1>10, <1>11

LEMMA BinNull ==
    ASSUME BinAssumption
    PROVE  /\ 0 \in Cursors /\ NoPage \in BinPages
           /\ NoFetch \in BinFetches /\ Sent \in BinFetches
           /\ NoConfirm \in Confirmations /\ NoMut \in BinActions
           /\ NoMut.phase = "idle" /\ NoConfirm.items = {}
           /\ NoFetch.phase = "idle" /\ Sent.phase = "sent"
           /\ NoFetch.answer.next = 0 /\ Sent.answer.next = 0
           /\ NoPage.next = 0 /\ NoPage.items = {} /\ ~NoPage.known
<1>1. 0 \in Cursors
  BY DEF BinAssumption, Cursors
<1> QED BY <1>1 DEF NoPage, NoFetch, Sent, NoConfirm, NoMut, BinPages, BinFetches,
                    Confirmations, BinActions

\* Looking at a page, invalidating and releasing keep the types and the order.
LEMMA FetchKept ==
    ASSUME BinAssumption, BinTypes, PagesDescend, NEW f,
           \/ f = fetch
           \/ \E c \in Cursors : f = [fetch EXCEPT ![c] = Sent]
           \/ \E c \in Cursors : f = [fetch EXCEPT ![c] = NoFetch]
    PROVE  /\ f \in [Cursors -> BinFetches]
           /\ \A c \in Cursors : f[c].answer.next # 0 /\ c # 0 => f[c].answer.next < c
<1>1. fetch \in [Cursors -> BinFetches]
      /\ \A c \in Cursors : fetch[c].answer.next # 0 /\ c # 0 => fetch[c].answer.next < c
  BY DEF BinTypes, PagesDescend
<1>2. CASE f = fetch
  BY <1>1, <1>2
<1>3. ASSUME NEW d \in Cursors, NEW v \in {Sent, NoFetch}, f = [fetch EXCEPT ![d] = v]
      PROVE  /\ f \in [Cursors -> BinFetches]
             /\ \A c \in Cursors : f[c].answer.next # 0 /\ c # 0 => f[c].answer.next < c
  <2>1. v \in BinFetches /\ v.answer.next = 0
    BY BinNull
  <2>2. f \in [Cursors -> BinFetches]
    BY <1>1, <1>3, <2>1
  <2>3. ASSUME NEW c \in Cursors PROVE f[c] = IF c = d THEN v ELSE fetch[c]
    BY <1>1, <1>3
  <2> QED BY <1>1, <2>1, <2>2, <2>3
<1> QED BY <1>2, <1>3

\* A release leaves the action as it is or ends it.
LEMMA ReleaseKeeps ==
    ASSUME BinAssumption, BinTypes, NEW c, Released(c)
    PROVE  mut' \in BinActions /\ (mut' = mut \/ mut'.phase = "idle")
BY BinNull DEF BinTypes, Released

\* A trail without its last cursor.
LEMMA WithoutLast ==
    ASSUME NEW S, NEW s \in Seq(S), s # <<>>
    PROVE  /\ SubSeq(s, 1, Len(s) - 1) \in Seq(S)
           /\ Len(SubSeq(s, 1, Len(s) - 1)) = Len(s) - 1
           /\ \A k \in 1..(Len(s) - 1) : SubSeq(s, 1, Len(s) - 1)[k] = s[k]
<1> DEFINE n == Len(s)
           t == SubSeq(s, 1, n - 1)
<1>1. n \in Nat \ {0} /\ \A k \in 1..n : s[k] \in S
  OBVIOUS
<1>2. t = [k \in 1..(n - 1) |-> s[k]]
  BY <1>1
<1>3. t \in Seq(S)
  BY <1>1, <1>2
<1>4. DOMAIN t = 1..(n - 1) /\ DOMAIN t = 1..Len(t) /\ Len(t) \in Nat /\ n - 1 \in Nat
  BY <1>1, <1>2, <1>3
<1> HIDE DEF n, t
<1>5. Len(t) = n - 1
  <2>1. ASSUME NEW a \in Nat, NEW b \in Nat, 1..a = 1..b PROVE a = b
    <3>1. a \in 1..a => a \in 1..b
      BY <2>1
    <3>2. b \in 1..b => b \in 1..a
      BY <2>1
    <3> QED BY ONLY a \in Nat, b \in Nat, <3>1, <3>2
  <2>2. 1..Len(t) = 1..(n - 1)
    BY <1>4
  <2> QED BY <1>4, <2>1, <2>2
<1>6. \A k \in 1..(n - 1) : t[k] = s[k]
  BY <1>2
<1> QED BY <1>3, <1>5, <1>6 DEF t, n

LEMMA BinStep ==
    ASSUME BinAssumption, BinInv, [BinNext]_binVars
    PROVE  BinInv'
<1>0. BinTypes /\ ConfirmStays /\ PagesDescend /\ HistoryDescends /\ SelectionShown
      /\ items \subseteq Items
  <2>1. BinTypes /\ ConfirmStays /\ PagesDescend /\ HistoryDescends /\ SelectionShown
    BY DEF BinInv
  <2>2. data[cursor] \in BinPages
    BY <2>1 DEF BinTypes
  <2> QED BY <2>1, <2>2 DEF items, BinPages
<1> USE DEF BinInv, server, pages, queries, done
<1>1. CASE openDialog
  <2>1. fetch' = fetch \/ \E c \in Cursors : fetch' = [fetch EXCEPT ![c] = Sent]
    BY <1>0, <1>1 DEF openDialog, Observed, BinTypes
  <2>2. fetch' \in [Cursors -> BinFetches]
        /\ \A c \in Cursors : fetch'[c].answer.next # 0 /\ c # 0 => fetch'[c].answer.next < c
    BY <1>0, <2>1, FetchKept
  <2>3. BinTypes' /\ PagesDescend'
    BY <1>0, <1>1, <2>2 DEF openDialog, BinTypes, PagesDescend
  <2>4. ConfirmStays' /\ HistoryDescends' /\ SelectionShown'
    BY <1>0, <1>1 DEF openDialog, ConfirmStays, HistoryDescends, SelectionShown, items
  <2> QED BY <2>3, <2>4
<1>2. CASE closeDialog
  <2>0. <<>> \in Seq(Cursors) /\ 0 \in Cursors
    BY BinNull
  <2>1. BinTypes' /\ PagesDescend'
    BY <1>0, <1>2, <2>0 DEF closeDialog, BinTypes, PagesDescend
  <2>2. ConfirmStays' /\ HistoryDescends' /\ SelectionShown'
    BY <1>0, <1>2 DEF closeDialog, ConfirmStays, HistoryDescends, SelectionShown, items
  <2> QED BY <2>1, <2>2
<1>3. ASSUME NEW c \in Cursors, TurnTo(c), cursorHistory' \in Seq(Cursors), HistoryDescends'
      PROVE  BinInv'
  <2>1. fetch' = fetch \/ \E d \in Cursors : fetch' = [fetch EXCEPT ![d] = Sent]
    BY <1>3 DEF TurnTo, Observed
  <2>2. fetch' \in [Cursors -> BinFetches]
        /\ \A d \in Cursors : fetch'[d].answer.next # 0 /\ d # 0 => fetch'[d].answer.next < d
    BY <1>0, <2>1, FetchKept
  <2>3. BinTypes' /\ PagesDescend'
    BY <1>0, <1>3, <2>2 DEF TurnTo, Prune, BinTypes, PagesDescend
  <2>4. ConfirmStays' /\ SelectionShown'
    BY <1>0, <1>3 DEF TurnTo, Prune, ConfirmStays, SelectionShown, items
  <2> QED BY <1>3, <2>3, <2>4
<1>4. CASE handleNextPage
  <2> DEFINE c == data[cursor].next
  <2>1. cursor \in Cursors /\ cursorHistory \in Seq(Cursors) /\ c \in Cursors /\ c # 0
        /\ (cursor # 0 => c < cursor)
    BY <1>0, <1>4 DEF handleNextPage, BinTypes, PagesDescend, BinPages
  <2>2. TurnTo(c) /\ cursor' = c /\ cursorHistory' = Append(cursorHistory, cursor)
    BY <1>4 DEF handleNextPage, TurnTo
  <2> HIDE DEF c
  <2>3. cursorHistory' \in Seq(Cursors) /\ Len(cursorHistory') = Len(cursorHistory) + 1
        /\ cursorHistory'[Len(cursorHistory')] = cursor /\ Len(cursorHistory) \in Nat
        /\ cursorHistory' # <<>>
        /\ \A k \in 1..Len(cursorHistory) : cursorHistory'[k] = cursorHistory[k]
    BY <2>1, <2>2
  <2>4. cursorHistory'[1] = 0
    BY <1>0, <2>1, <2>3 DEF HistoryDescends
  <2>5. ASSUME NEW k \in 2..Len(cursorHistory')
        PROVE  cursorHistory'[k] # 0 /\ (k > 2 => cursorHistory'[k] < cursorHistory'[k - 1])
    <3>1. CASE k \in 2..Len(cursorHistory)
      <4>1. k \in 1..Len(cursorHistory) /\ k - 1 \in 1..Len(cursorHistory)
        BY <2>3, <3>1
      <4>2. cursorHistory'[k] = cursorHistory[k] /\ cursorHistory'[k - 1] = cursorHistory[k - 1]
        BY <2>3, <4>1
      <4> QED BY <1>0, <3>1, <4>2 DEF HistoryDescends
    <3>2. CASE k = Len(cursorHistory) + 1
      <4>1. cursorHistory # <<>> /\ Len(cursorHistory) >= 1 /\ cursorHistory'[k] = cursor
            /\ cursorHistory'[k - 1] = cursorHistory[Len(cursorHistory)]
        BY <2>1, <2>3, <3>2
      <4>2. k > 2 => Len(cursorHistory) \in 2..Len(cursorHistory)
        BY <2>3, <3>2
      <4> QED BY <1>0, <4>1, <4>2 DEF HistoryDescends
    <3> QED BY <2>3, <2>5, <3>1, <3>2
  <2>6. HistoryDescends'
    BY <2>1, <2>2, <2>3, <2>4, <2>5 DEF HistoryDescends
  <2> QED BY <1>3, <2>1, <2>2, <2>3, <2>6
<1>5. CASE handlePrevPage
  <2> DEFINE c == cursorHistory[Len(cursorHistory)]
             n == Len(cursorHistory)
  <2>1. cursorHistory \in Seq(Cursors) /\ cursorHistory # <<>> /\ n \in Nat \ {0}
        /\ c \in Cursors
    BY <1>0, <1>5 DEF handlePrevPage, BinTypes
  <2>2. TurnTo(c) /\ cursor' = c /\ cursorHistory' = SubSeq(cursorHistory, 1, n - 1)
    BY <1>5 DEF handlePrevPage, TurnTo
  <2>3. cursorHistory' \in Seq(Cursors) /\ Len(cursorHistory') = n - 1
        /\ \A k \in 1..(n - 1) : cursorHistory'[k] = cursorHistory[k]
    BY <2>1, <2>2, WithoutLast
  <2>4. cursorHistory' = <<>> => n = 1
    BY <2>1, <2>3
  <2>5. cursorHistory' # <<>> => n - 1 \in 1..(n - 1) /\ n \in 2..n
    BY <2>1, <2>3
  <2>6. cursorHistory' # <<>> => cursorHistory'[1] = 0 /\ cursor' # 0
            /\ (cursorHistory'[n - 1] # 0 => cursor' < cursorHistory'[n - 1])
    <3> SUFFICES ASSUME cursorHistory' # <<>>
                 PROVE  cursorHistory'[1] = 0 /\ cursor' # 0
                        /\ (cursorHistory'[n - 1] # 0 => cursor' < cursorHistory'[n - 1])
      OBVIOUS
    <3>1. cursorHistory'[1] = cursorHistory[1] /\ cursorHistory[1] = 0
          /\ cursorHistory'[n - 1] = cursorHistory[n - 1] /\ cursorHistory[n] # 0
          /\ (n > 2 => cursorHistory[n] < cursorHistory[n - 1])
      BY <1>0, <2>1, <2>3, <2>5 DEF HistoryDescends
    <3>2. n = 2 \/ n > 2
      <4>1. n \in Nat /\ n \in 2..n
        BY <2>1, <2>5
      <4> HIDE DEF n
      <4> QED BY <4>1
    <3> QED BY <2>2, <3>1, <3>2
  <2>7. cursorHistory' = <<>> => cursor' = 0
    BY <1>0, <2>1, <2>2, <2>4 DEF HistoryDescends
  <2>8. \A k \in 2..(n - 1) : cursorHistory'[k] # 0
            /\ (k > 2 => cursorHistory'[k] < cursorHistory'[k - 1])
    BY <1>0, <2>1, <2>3 DEF HistoryDescends
  <2> HIDE DEF c, n
  <2>9. HistoryDescends'
    BY <2>3, <2>6, <2>7, <2>8 DEF HistoryDescends
  <2> QED BY <1>3, <2>1, <2>2, <2>3, <2>9
<1>6. CASE handleRefresh
  <2>1. fetch' = fetch \/ \E c \in Cursors : fetch' = [fetch EXCEPT ![c] = Sent]
    BY <1>0, <1>6 DEF handleRefresh, Invalidated, BinTypes
  <2>2. fetch' \in [Cursors -> BinFetches]
        /\ \A c \in Cursors : fetch'[c].answer.next # 0 /\ c # 0 => fetch'[c].answer.next < c
    BY <1>0, <2>1, FetchKept
  <2>3. mut' \in BinActions /\ (mut' = mut \/ mut'.phase = "idle")
    <3>1. mut \in BinActions
      BY <1>0 DEF BinTypes
    <3>2. mut' = mut \/ Released(cursor)
      BY <1>6 DEF handleRefresh
    <3> QED BY <1>0, <3>1, <3>2, ReleaseKeeps
  <2>4. BinTypes' /\ PagesDescend'
    BY <1>0, <1>6, <2>2, <2>3 DEF handleRefresh, BinTypes, PagesDescend
  <2>5. ConfirmStays' /\ HistoryDescends' /\ SelectionShown'
    BY <1>0, <1>6, <2>3 DEF handleRefresh, ConfirmStays, HistoryDescends, SelectionShown, items
  <2> QED BY <2>4, <2>5
<1>7. ASSUME NEW c \in Cursors, ServerLists(c) PROVE BinInv'
  <2> DEFINE answered == [phase |-> "answered", answer |-> Page(bin, c)]
  <2>1. Page(bin, c) \in BinPages /\ (Page(bin, c).next # 0 /\ c # 0 => Page(bin, c).next < c)
    BY <1>0, PageFacts DEF BinTypes
  <2>2. answered \in BinFetches /\ answered.answer = Page(bin, c)
    BY <2>1 DEF BinFetches
  <2>3. fetch \in [Cursors -> BinFetches] /\ fetch' = [fetch EXCEPT ![c] = answered]
    BY <1>0, <1>7 DEF ServerLists, BinTypes
  <2> HIDE DEF answered
  <2>4. fetch' \in [Cursors -> BinFetches]
        /\ \A d \in Cursors : fetch'[d] = IF d = c THEN answered ELSE fetch[d]
    BY <2>2, <2>3
  <2>5. BinTypes'
    BY <1>0, <1>7, <2>4 DEF ServerLists, BinTypes
  <2>6. PagesDescend'
    BY <1>0, <1>7, <2>1, <2>2, <2>4 DEF ServerLists, PagesDescend
  <2>7. ConfirmStays' /\ HistoryDescends' /\ SelectionShown'
    BY <1>0, <1>7 DEF ServerLists, ConfirmStays, HistoryDescends, SelectionShown, items
  <2> QED BY <2>5, <2>6, <2>7
<1>8. ASSUME NEW c \in Cursors, PageArrives(c) PROVE BinInv'
  <2>1. fetch' \in [Cursors -> BinFetches]
        /\ \A d \in Cursors : fetch'[d].answer.next # 0 /\ d # 0 => fetch'[d].answer.next < d
    BY <1>0, <1>8, FetchKept DEF PageArrives
  <2>2. mut' \in BinActions /\ (mut' = mut \/ mut'.phase = "idle")
    BY <1>0, <1>8, ReleaseKeeps DEF PageArrives
  <2>3. fetch[c].answer \in BinPages
        /\ (fetch[c].answer.next # 0 /\ c # 0 => fetch[c].answer.next < c)
    BY <1>0 DEF BinTypes, BinFetches, PagesDescend
  <2>4. data' \in [Cursors -> BinPages]
        /\ \A d \in Cursors : data'[d] = IF d = c THEN fetch[c].answer ELSE data[d]
    BY <1>0, <1>8, <2>3 DEF PageArrives, BinTypes
  <2>5. selectedIds' \subseteq selectedIds
        /\ (c = cursor => selectedIds' \subseteq fetch[c].answer.items)
    BY <1>8 DEF PageArrives, Prune
  <2>6. BinTypes'
    BY <1>0, <1>8, <2>1, <2>2, <2>4, <2>5 DEF PageArrives, BinTypes
  <2>7. PagesDescend'
    BY <1>0, <2>1, <2>3, <2>4 DEF PagesDescend
  <2>8. SelectionShown'
    BY <1>0, <1>8, <2>4, <2>5 DEF PageArrives, SelectionShown, items, BinTypes
  <2>9. ConfirmStays' /\ HistoryDescends'
    BY <1>0, <1>8, <2>2 DEF PageArrives, ConfirmStays, HistoryDescends
  <2> QED BY <2>6, <2>7, <2>8, <2>9
<1>9. ASSUME NEW c \in Cursors, PageFails(c) PROVE BinInv'
  <2>1. fetch' \in [Cursors -> BinFetches]
        /\ \A d \in Cursors : fetch'[d].answer.next # 0 /\ d # 0 => fetch'[d].answer.next < d
    BY <1>0, <1>9, FetchKept DEF PageFails
  <2>2. mut' \in BinActions /\ (mut' = mut \/ mut'.phase = "idle")
    BY <1>0, <1>9, ReleaseKeeps DEF PageFails
  <2>3. BinTypes' /\ PagesDescend'
    BY <1>0, <1>9, <2>1, <2>2 DEF PageFails, BinTypes, PagesDescend
  <2>4. ConfirmStays' /\ HistoryDescends' /\ SelectionShown'
    BY <1>0, <1>9, <2>2 DEF PageFails, ConfirmStays, HistoryDescends, SelectionShown, items
  <2> QED BY <2>3, <2>4
<1>10. CASE (\E i \in Items : handleSelectRow(i)) \/ handleSelectAll \/ clearSelection
  <2>1. selectedIds' \subseteq items
    BY <1>0, <1>10 DEF handleSelectRow, handleSelectAll, clearSelection, SelectionShown
  <2>2. UNCHANGED <<server, binOpen, pages, queries, confirm, mut, failedItems, done>>
    BY <1>10 DEF handleSelectRow, handleSelectAll, clearSelection
  <2>3. BinTypes' /\ PagesDescend'
    BY <1>0, <2>1, <2>2 DEF BinTypes, PagesDescend
  <2>4. ConfirmStays' /\ HistoryDescends' /\ SelectionShown'
    BY <1>0, <2>1, <2>2 DEF ConfirmStays, HistoryDescends, SelectionShown, items
  <2> QED BY <2>3, <2>4
<1>11. ASSUME NEW kind \in {"restore", "delete"}, NEW targets \in SUBSET Items,
              openConfirmation(kind, targets)
       PROVE  BinInv'
  <2>1. [kind |-> kind, items |-> targets] \in Confirmations
    BY DEF Confirmations
  <2>2. BinTypes' /\ PagesDescend'
    BY <1>0, <1>11, <2>1 DEF openConfirmation, BinTypes, PagesDescend
  <2>3. ConfirmStays' /\ HistoryDescends' /\ SelectionShown'
    BY <1>0, <1>11 DEF openConfirmation, isPending, ConfirmStays, HistoryDescends,
                       SelectionShown, items
  <2> QED BY <2>2, <2>3
<1>12. CASE cancelConfirmation
  <2>1. BinTypes' /\ PagesDescend'
    BY <1>0, <1>12, BinNull DEF cancelConfirmation, BinTypes, PagesDescend
  <2>2. ConfirmStays' /\ HistoryDescends' /\ SelectionShown'
    BY <1>0, <1>12 DEF cancelConfirmation, isPending, ConfirmStays, HistoryDescends,
                       SelectionShown, items
  <2> QED BY <2>1, <2>2
<1>13. CASE handleConfirmed
  <2>1. confirm \in Confirmations
    BY <1>0 DEF BinTypes
  <2>2. mut' \in BinActions /\ confirm = [kind |-> mut'.kind, items |-> mut'.items]
    BY <1>13, <2>1, BinNull DEF handleConfirmed, BinActions, Confirmations
  <2>3. BinTypes' /\ PagesDescend'
    BY <1>0, <1>13, <2>2 DEF handleConfirmed, BinTypes, PagesDescend
  <2>4. ConfirmStays' /\ HistoryDescends' /\ SelectionShown'
    BY <1>0, <1>13, <2>2 DEF handleConfirmed, ConfirmStays, HistoryDescends,
                       SelectionShown, items
  <2> QED BY <2>3, <2>4
<1>14. ASSUME NEW failed \in SUBSET Items, ServerActs(failed) PROVE BinInv'
  <2>1. mut \in BinActions
    BY <1>0 DEF BinTypes
  <2>2. mut' = [mut EXCEPT !.phase = "applied", !.failed = failed]
    BY <1>14 DEF ServerActs
  <2>3. mut' \in BinActions /\ mut'.kind = mut.kind /\ mut'.items = mut.items
    BY <2>1, <2>2 DEF BinActions
  <2>4. BinTypes' /\ PagesDescend'
    BY <1>0, <1>14, <2>3 DEF ServerActs, BinTypes, PagesDescend
  <2>5. ConfirmStays' /\ HistoryDescends' /\ SelectionShown'
    BY <1>0, <1>14, <2>3 DEF ServerActs, ConfirmStays, HistoryDescends,
                       SelectionShown, items
  <2> QED BY <2>4, <2>5
<1>15. CASE RestoreSucceeds
  <2> DEFINE gone == mut.items \ mut.failed
  <2>1. mut \in BinActions /\ gone \subseteq Items /\ mut.failed \subseteq Items
    BY <1>0 DEF BinTypes, BinActions
  <2>2. mut' \in BinActions /\ mut'.phase = "affected"
    BY <1>15, <2>1 DEF RestoreSucceeds, BinActions
  <2>3. data' = [c \in Cursors |-> [data[c] EXCEPT !.items = @ \ gone]]
    BY <1>15 DEF RestoreSucceeds, Removed
  <2> HIDE DEF gone
  <2>4. \A c \in Cursors : data[c] \in BinPages
    BY <1>0 DEF BinTypes
  <2>5. \A c \in Cursors : data'[c] \in BinPages /\ data'[c].next = data[c].next
    BY <2>3, <2>4 DEF BinPages
  <2>6. data' \in [Cursors -> BinPages]
    BY <2>3, <2>5
  <2>7. selectedIds' \subseteq selectedIds /\ selectedIds' \subseteq data'[cursor].items
        /\ restored' = restored \cup gone
    BY <1>15 DEF RestoreSucceeds, gone
  <2>8. BinTypes'
    BY <1>0, <1>15, <2>1, <2>2, <2>6, <2>7, BinNull DEF RestoreSucceeds, BinTypes
  <2>9. PagesDescend'
    BY <1>0, <1>15, <2>5 DEF RestoreSucceeds, PagesDescend
  <2>10. ConfirmStays' /\ HistoryDescends' /\ SelectionShown'
    BY <1>0, <1>15, <2>2, <2>7 DEF RestoreSucceeds, ConfirmStays, HistoryDescends,
                       SelectionShown, items
  <2> QED BY <2>8, <2>9, <2>10
<1>16. CASE DeleteSucceeds
  <2> DEFINE gone == mut.items \ mut.failed
  <2>1. mut \in BinActions /\ gone \subseteq Items
    BY <1>0 DEF BinTypes, BinActions
  <2>2. mut' \in BinActions /\ mut'.phase = "affected"
    BY <1>16, <2>1 DEF DeleteSucceeds, BinActions
  <2>3. BinTypes'
    BY <1>0, <1>16, <2>1, <2>2, BinNull DEF DeleteSucceeds, BinTypes
  <2>4. PagesDescend' /\ ConfirmStays' /\ HistoryDescends' /\ SelectionShown'
    BY <1>0, <1>16, <2>2 DEF DeleteSucceeds, PagesDescend, ConfirmStays, HistoryDescends,
                       SelectionShown, items
  <2> QED BY <2>3, <2>4
<1>17. CASE AffectedFetched
  <2>1. fetch' = fetch \/ \E c \in Cursors : fetch' = [fetch EXCEPT ![c] = Sent]
    BY <1>0, <1>17 DEF AffectedFetched, Invalidated, BinTypes
  <2>2. fetch' \in [Cursors -> BinFetches]
        /\ \A c \in Cursors : fetch'[c].answer.next # 0 /\ c # 0 => fetch'[c].answer.next < c
    BY <1>0, <2>1, FetchKept
  <2>3. mut \in BinActions /\ cursor \in Cursors
    BY <1>0 DEF BinTypes
  <2>4. mut' \in BinActions /\ mut'.phase \in {"idle", "fetching"}
    BY <1>17, <2>3, BinNull DEF AffectedFetched, BinActions
  <2>5. BinTypes' /\ PagesDescend'
    BY <1>0, <1>17, <2>2, <2>4 DEF AffectedFetched, BinTypes, PagesDescend
  <2>6. ConfirmStays' /\ HistoryDescends' /\ SelectionShown'
    BY <1>0, <1>17, <2>4 DEF AffectedFetched, ConfirmStays, HistoryDescends,
                       SelectionShown, items
  <2> QED BY <2>5, <2>6
<1>18. CASE MutationFails \/ closeFailures
  <2>1. mut' = mut \/ mut' = NoMut
    BY <1>18 DEF MutationFails, closeFailures
  <2>2. failedItems' = failedItems \/ failedItems' = {}
    BY <1>18 DEF MutationFails, closeFailures
  <2>3. UNCHANGED <<server, binOpen, pages, queries, selectedIds, confirm, done>>
    BY <1>18 DEF MutationFails, closeFailures
  <2>4. BinTypes' /\ PagesDescend'
    BY <1>0, <2>1, <2>2, <2>3, BinNull DEF BinTypes, PagesDescend
  <2>5. ConfirmStays' /\ HistoryDescends' /\ SelectionShown'
    BY <1>0, <2>1, <2>3, BinNull DEF ConfirmStays, HistoryDescends, SelectionShown, items
  <2> QED BY <2>4, <2>5
<1>19. CASE (\E i \in Items : OtherClientTakes(i)) \/ OtherClientAdds
  <2>0. bin \subseteq Items /\ nextId \in 1..(MaxId + 1) /\ MaxId \in Nat
    BY <1>0 DEF BinTypes, BinAssumption
  <2>1. bin' \subseteq Items /\ nextId' \in 1..(MaxId + 1)
    <3>1. CASE \E i \in Items : OtherClientTakes(i)
      BY <2>0, <3>1 DEF OtherClientTakes
    <3>2. CASE OtherClientAdds
      BY <2>0, <3>2 DEF OtherClientAdds, Items
    <3> QED BY <1>19, <3>1, <3>2
  <2>2. UNCHANGED <<binOpen, pages, queries, selectedIds, confirm, mut, failedItems, done>>
    BY <1>19 DEF OtherClientTakes, OtherClientAdds
  <2>3. BinTypes' /\ PagesDescend'
    BY <1>0, <2>1, <2>2 DEF BinTypes, PagesDescend
  <2>4. ConfirmStays' /\ HistoryDescends' /\ SelectionShown'
    BY <1>0, <2>2 DEF ConfirmStays, HistoryDescends, SelectionShown, items
  <2> QED BY <2>3, <2>4
<1>20. CASE UNCHANGED binVars
  BY <1>0, <1>20 DEF binVars, BinTypes, ConfirmStays, PagesDescend, HistoryDescends,
                     SelectionShown, items
<1>21. CASE BinNext
  BY <1>1, <1>2, <1>4, <1>5, <1>6, <1>7, <1>8, <1>9, <1>10, <1>11, <1>12, <1>13, <1>14,
     <1>15, <1>16, <1>17, <1>18, <1>19, <1>21 DEF BinNext
<1> QED BY <1>20, <1>21

LEMMA BinStart ==
    ASSUME BinAssumption, BinInit
    PROVE  BinInv
<1>1. <<>> \in Seq(Cursors) /\ MaxId \in Nat
  BY DEF BinAssumption
<1>2. BinTypes
  BY <1>1, BinNull DEF BinInit, BinTypes, Items
<1>3. PagesDescend
  BY BinNull DEF BinInit, PagesDescend
<1>4. ConfirmStays /\ SelectionShown
  BY BinNull DEF BinInit, ConfirmStays, SelectionShown
<1>5. HistoryDescends
  BY DEF BinInit, HistoryDescends
<1> QED BY <1>2, <1>3, <1>4, <1>5 DEF BinInv

\* BinInv holds in every state of the recycle bin dialog: types, a request on
\* the screen with its confirmation, pages and trail that descend, and a
\* selection that the page shows.
THEOREM BinInvariant == BinAssumption /\ BinSpec => []BinInv
<1> SUFFICES ASSUME BinAssumption PROVE BinSpec => []BinInv
  OBVIOUS
<1>1. BinInit => BinInv
  BY BinStart
<1>2. BinInv /\ [BinNext]_binVars => BinInv'
  BY BinStep
<1> QED BY <1>1, <1>2, PTL DEF BinSpec

\* BinTypeOK, and with it: while the server works on a restore or a deletion,
\* the confirmation on the screen is the one of exactly these items, so a retry
\* after an error repeats the same request.
THEOREM BinTyped == BinAssumption /\ BinSpec => []BinTypeOK
<1>1. ASSUME BinInv PROVE BinTypeOK
  BY <1>1 DEF BinInv, BinTypes, ConfirmStays, BinTypeOK, BinPages, BinFetches,
              Confirmations, BinActions
<1> QED BY <1>1, BinInvariant, PTL

\* handleRestore and handleDelete of the selection act on rows that are shown:
\* the selection is within the page however pages are turned, arrive late,
\* fail, or lose their items to a restore.
THEOREM BinSelectionShown == BinAssumption /\ BinSpec => []SelectionShown
<1>1. BinInv => SelectionShown
  BY DEF BinInv
<1> QED BY <1>1, BinInvariant, PTL

\* The trail of cursors in cursorHistory begins at the first page and descends,
\* so handlePrevPage leads to newer pages and ends at the first.
THEOREM BinTrailDescends == BinAssumption /\ BinSpec => []TrailDescends
<1>1. ASSUME BinTypes, HistoryDescends PROVE TrailDescends
  <2> DEFINE n == Len(cursorHistory)
             trail == Append(cursorHistory, cursor)
  <2>1. cursorHistory \in Seq(Cursors) /\ cursor \in Cursors /\ n \in Nat
    BY <1>1 DEF BinTypes
  <2>2. Len(trail) = n + 1 /\ trail[n + 1] = cursor
        /\ \A k \in 1..n : trail[k] = cursorHistory[k]
    BY <2>1
  <2>3. n # 0 => cursorHistory # <<>>
    BY <2>1
  <2>4. n = 0 => cursorHistory = <<>>
    BY <2>1
  <2>5. trail[1] = 0
    <3>1. CASE n = 0
      BY <1>1, <2>2, <2>4, <3>1 DEF HistoryDescends
    <3>2. CASE n # 0
      BY <1>1, <2>1, <2>2, <2>3, <3>2 DEF HistoryDescends
    <3> QED BY <3>1, <3>2
  <2>6. ASSUME NEW k \in 2..Len(trail)
        PROVE  trail[k] # 0 /\ (k > 2 => trail[k] < trail[k - 1])
    <3>1. CASE k = n + 1
      <4>1. n # 0 /\ cursorHistory # <<>> /\ trail[k] = cursor /\ trail[k - 1] = cursorHistory[n]
        BY <2>1, <2>2, <2>3, <2>6, <3>1
      <4>2. k > 2 => n \in 2..n
        BY <2>1, <3>1
      <4> QED BY <1>1, <4>1, <4>2 DEF HistoryDescends
    <3>2. CASE k # n + 1
      <4>1. k \in 2..n /\ k \in 1..n /\ k - 1 \in 1..n
        BY <2>1, <2>2, <2>6, <3>2
      <4>2. trail[k] = cursorHistory[k] /\ trail[k - 1] = cursorHistory[k - 1]
        BY <2>2, <4>1
      <4> QED BY <1>1, <4>1, <4>2 DEF HistoryDescends
    <3> QED BY <3>1, <3>2
  <2> QED BY <2>5, <2>6 DEF TrailDescends
<1>2. BinInv => TrailDescends
  BY <1>1 DEF BinInv
<1> QED BY <1>2, BinInvariant, PTL

-----------------------------------------------------------------------------
(* Permanent deletion, on one page and with a patient user                 *)

Gone == mut.items \ mut.failed

\* Where a deleted item can still be seen: nowhere, once a fetch that was sent
\* after the deletion has answered; until the listing of the bucket is there,
\* no such fetch need have been sent.
PageClean ==
    /\ fetch[0].phase = "answered" => fetch[0].answer.items \cap purged = {}
    /\ fetch[0].phase = "idle" /\ 0 \notin failing => data[0].items \cap purged = {}

PurgeInv ==
    /\ cursor = 0 /\ cursorHistory = <<>>
    /\ \A i \in bin \cup purged : i < nextId
    /\ purged \cap bin = {}
    /\ mut.kind = "delete" /\ mut.phase \in {"applied", "affected"}
           => Gone \cap bin = {} /\ \A i \in Gone : i < nextId
    /\ (confirm # NoConfirm \/ isPending) => binOpen /\ data[0].known
    /\ ~data[0].known => data[0].items = {}
    /\ fetch[0].phase = "answered" => fetch[0].answer.known
    /\ (mut.kind = "delete" /\ mut.phase = "affected") \/ PageClean

\* An answer of the server has none of the items that are gone from the bin.
LEMMA PurgeStep ==
    ASSUME BinAssumption, Depth = 0, ~Hurried, BinInv, PurgeInv, [BinNext]_binVars
    PROVE  PurgeInv'
<1>0. BinTypes /\ 0 \in Cursors /\ fetch \in [Cursors -> BinFetches]
      /\ data \in [Cursors -> BinPages] /\ mut \in BinActions /\ nextId \in Nat
  <2>1. BinTypes
    BY DEF BinInv
  <2>2. MaxId \in Nat
    BY DEF BinAssumption
  <2> QED BY <2>1, <2>2, BinNull DEF BinTypes
<1> USE DEF server, pages, queries, done
<1>1. CASE openDialog
  <2>1. fetch'[0] = IF fetch[0].phase = "idle" THEN Sent ELSE fetch[0]
    BY <1>0, <1>1 DEF openDialog, Observed, PurgeInv
  <2>2. PageClean => PageClean'
    BY <1>1, <2>1, BinNull DEF openDialog, PageClean, PurgeInv
  <2> QED BY <1>1, <2>1, <2>2, BinNull DEF openDialog, PurgeInv, Gone, isPending
<1>2. CASE closeDialog
  <2>1. confirm = NoConfirm /\ ~isPending
    BY <1>2 DEF closeDialog, Covered
  <2> QED BY <1>2, <2>1 DEF closeDialog, PurgeInv, PageClean, Gone, isPending
<1>3. CASE handleNextPage \/ handlePrevPage
  <2>1. Len(cursorHistory) = 0
    BY DEF PurgeInv
  <2> QED BY <1>3, <2>1 DEF handleNextPage, handlePrevPage, PurgeInv
<1>4. CASE handleRefresh
  <2>1. fetch'[0] = fetch[0] \/ fetch'[0] = Sent
    BY <1>0, <1>4 DEF handleRefresh, Invalidated, PurgeInv
  <2>2. mut' = mut \/ (mut' = NoMut /\ mut.phase = "fetching")
    BY <1>4 DEF handleRefresh, Released
  <2>3. PageClean => PageClean'
    BY <1>4, <2>1, BinNull DEF handleRefresh, PageClean
  <2>4. isPending' => isPending
    BY <2>2, BinNull DEF isPending
  <2>5. (mut.kind = "delete" /\ mut.phase = "affected") => mut' = mut
    BY <2>2
  <2> QED BY <1>4, <2>1, <2>2, <2>3, <2>4, <2>5, BinNull DEF handleRefresh, PurgeInv, Gone
<1>5. ASSUME NEW c \in Cursors, ServerLists(c) PROVE PurgeInv'
  <2>1. bin \in SUBSET Items
    BY <1>0 DEF BinTypes
  <2>2. Page(bin, 0).known /\ Page(bin, 0).items \subseteq bin
    BY <1>0, <2>1, PageFacts
  <2>3. fetch'[0] = fetch[0]
        \/ fetch'[0] = [phase |-> "answered", answer |-> Page(bin, 0)]
    BY <1>0, <1>5 DEF ServerLists
  <2>4. PageClean => PageClean'
    BY <1>5, <2>2, <2>3 DEF ServerLists, PageClean, PurgeInv
  <2> QED BY <1>5, <2>2, <2>3, <2>4 DEF ServerLists, PurgeInv, Gone, isPending
<1>6. ASSUME NEW c \in Cursors, PageArrives(c) PROVE PurgeInv'
  <2>1. mut' = mut \/ (mut' = NoMut /\ mut.phase = "fetching")
    BY <1>6 DEF PageArrives, Released
  <2>2. isPending' => isPending
    BY <2>1, BinNull DEF isPending
  <2>3. CASE c = 0
    <3>1. fetch'[0] = NoFetch /\ data'[0] = fetch[0].answer /\ fetch[0].phase = "answered"
      BY <1>0, <1>6, <2>3 DEF PageArrives
    <3>2. PageClean => PageClean'
      BY <1>6, <3>1, BinNull DEF PageArrives, PageClean
    <3> QED BY <1>6, <2>1, <2>2, <3>1, <3>2, BinNull DEF PageArrives, PurgeInv, Gone
  <2>4. CASE c # 0
    <3>1. fetch'[0] = fetch[0] /\ data'[0] = data[0] /\ (0 \in failing' <=> 0 \in failing)
      BY <1>0, <1>6, <2>4 DEF PageArrives
    <3>2. PageClean => PageClean'
      BY <1>6, <3>1 DEF PageArrives, PageClean
    <3> QED BY <1>6, <2>1, <2>2, <3>1, <3>2, BinNull DEF PageArrives, PurgeInv, Gone
  <2> QED BY <2>3, <2>4
<1>7. ASSUME NEW c \in Cursors, PageFails(c) PROVE PurgeInv'
  <2>1. mut' = mut \/ (mut' = NoMut /\ mut.phase = "fetching")
    BY <1>7 DEF PageFails, Released
  <2>2. isPending' => isPending
    BY <2>1, BinNull DEF isPending
  <2>3. \/ fetch'[0] = NoFetch /\ 0 \in failing'
        \/ fetch'[0] = fetch[0] /\ (0 \in failing' <=> 0 \in failing)
    BY <1>0, <1>7 DEF PageFails
  <2>4. PageClean => PageClean'
    BY <1>7, <2>3, BinNull DEF PageFails, PageClean
  <2> QED BY <1>7, <2>1, <2>2, <2>3, <2>4, BinNull DEF PageFails, PurgeInv, Gone
<1>8. CASE (\E i \in Items : handleSelectRow(i)) \/ handleSelectAll \/ clearSelection
  <2>1. UNCHANGED <<server, binOpen, pages, queries, confirm, mut, failedItems, done>>
    BY <1>8 DEF handleSelectRow, handleSelectAll, clearSelection
  <2> QED BY <2>1 DEF PurgeInv, PageClean, Gone, isPending
<1>9. ASSUME NEW kind \in {"restore", "delete"}, NEW targets \in SUBSET Items,
             openConfirmation(kind, targets)
      PROVE  PurgeInv'
  <2>1. items # {} /\ binOpen
    BY <1>9 DEF openConfirmation, selectedItems
  <2>2. data[0].known
    BY <2>1 DEF items, PurgeInv
  <2> QED BY <1>9, <2>1, <2>2 DEF openConfirmation, PurgeInv, PageClean, Gone, isPending
<1>10. CASE cancelConfirmation
  BY <1>10 DEF cancelConfirmation, PurgeInv, PageClean, Gone, isPending
<1>11. CASE handleConfirmed
  <2>1. mut'.phase = "sent" /\ mut.phase = "idle" /\ confirm # NoConfirm
    BY <1>11 DEF handleConfirmed, isPending
  <2> QED BY <1>11, <2>1 DEF handleConfirmed, PurgeInv, PageClean, Gone, isPending
<1>12. ASSUME NEW failed \in SUBSET Items, ServerActs(failed) PROVE PurgeInv'
  <2>1. mut' = [mut EXCEPT !.phase = "applied", !.failed = failed] /\ mut.phase = "sent"
    BY <1>12 DEF ServerActs
  <2>2. mut'.items = mut.items /\ mut'.failed = failed /\ mut'.phase = "applied"
    BY <1>0, <2>1 DEF BinActions
  <2>3. Gone' \subseteq bin /\ bin' = bin \ Gone'
    BY <1>12, <2>2 DEF ServerActs, Gone
  <2>4. PageClean => PageClean'
    BY <1>12 DEF ServerActs, PageClean
  <2>5. isPending /\ isPending'
    BY <2>1, <2>2 DEF isPending
  <2> HIDE DEF Gone
  <2> QED BY <1>12, <2>1, <2>2, <2>3, <2>4, <2>5 DEF ServerActs, PurgeInv
<1>13. CASE RestoreSucceeds
  <2>1. mut' = [mut EXCEPT !.phase = "affected"] /\ mut.kind = "restore"
        /\ mut.phase = "applied"
    BY <1>13 DEF RestoreSucceeds
  <2>2. mut'.kind = "restore" /\ mut'.phase = "affected"
    BY <1>0, <2>1 DEF BinActions
  <2>3. data[0] \in BinPages /\ data'[0] = [data[0] EXCEPT !.items = @ \ Gone]
    BY <1>0, <1>13 DEF RestoreSucceeds, Removed, Gone
  <2>4. data'[0].known = data[0].known /\ data'[0].items \subseteq data[0].items
    BY <2>3 DEF BinPages
  <2>5. PageClean => PageClean'
    BY <1>13, <2>4 DEF RestoreSucceeds, PageClean
  <2>6. isPending /\ confirm' = NoConfirm
    BY <1>13, <2>1 DEF RestoreSucceeds, isPending
  <2> QED BY <1>13, <2>1, <2>2, <2>4, <2>5, <2>6 DEF RestoreSucceeds, PurgeInv
<1>14. CASE DeleteSucceeds
  <2>1. mut' = [mut EXCEPT !.phase = "affected"] /\ mut.kind = "delete"
        /\ mut.phase = "applied"
    BY <1>14 DEF DeleteSucceeds
  <2>2. mut'.kind = "delete" /\ mut'.phase = "affected" /\ Gone' = Gone
    BY <1>0, <2>1 DEF BinActions, Gone
  <2>3. purged' = purged \cup Gone
    BY <1>14 DEF DeleteSucceeds, Gone
  <2>4. isPending /\ confirm' = NoConfirm
    BY <1>14, <2>1 DEF DeleteSucceeds, isPending
  <2> QED BY <1>14, <2>1, <2>2, <2>3, <2>4 DEF DeleteSucceeds, PurgeInv
<1>15. CASE AffectedFetched
  <2>1. binOpen /\ data[0].known /\ cursor = 0 /\ mut.phase = "affected"
    BY <1>15 DEF AffectedFetched, PurgeInv, isPending
  <2>2. CASE mut.kind = "delete"
    <3>1. fetch'[0] = Sent
      BY <1>0, <1>15, <2>1, <2>2 DEF AffectedFetched, Invalidated, Joins
    <3>2. mut'.phase = "fetching"
      BY <1>0, <1>15, <2>1, <2>2 DEF AffectedFetched, BinActions
    <3>3. PageClean'
      BY <3>1, BinNull DEF PageClean
    <3> QED BY <1>15, <2>1, <3>1, <3>2, <3>3, BinNull DEF AffectedFetched, PurgeInv
  <2>3. CASE mut.kind # "delete"
    <3>1. mut' = NoMut /\ fetch' = fetch
      BY <1>15, <2>3 DEF AffectedFetched
    <3>2. PageClean'
      BY <1>15, <2>3, <3>1 DEF AffectedFetched, PurgeInv, PageClean
    <3> QED BY <1>15, <2>1, <3>1, <3>2, BinNull DEF AffectedFetched, PurgeInv
  <2> QED BY <2>2, <2>3
<1>16. CASE MutationFails
  <2>1. mut' = NoMut /\ mut.phase # "affected" /\ isPending
    BY <1>16 DEF MutationFails, isPending
  <2>2. PageClean'
    BY <1>16, <2>1 DEF MutationFails, PurgeInv, PageClean
  <2> QED BY <1>16, <2>1, <2>2, BinNull DEF MutationFails, PurgeInv
<1>17. CASE closeFailures
  BY <1>17 DEF closeFailures, PurgeInv, PageClean, Gone, isPending
<1>18. ASSUME NEW i \in Items, OtherClientTakes(i) PROVE PurgeInv'
  BY <1>18 DEF OtherClientTakes, PurgeInv, PageClean, Gone, isPending
<1>19. CASE OtherClientAdds
  <2>1. \A i \in Items : i \in Nat
    BY DEF Items, BinAssumption
  <2>2. purged \subseteq Items /\ bin \subseteq Items
    BY <1>0 DEF BinTypes
  <2>3. (mut.kind = "delete" /\ mut.phase \in {"applied", "affected"})
            => Gone \subseteq Items
    BY <1>0 DEF BinActions, Gone
  <2>4. nextId' = nextId + 1 /\ bin' = bin \cup {nextId}
    BY <1>19 DEF OtherClientAdds
  <2>5. \A i \in bin' \cup purged : i < nextId'
    BY <1>0, <2>1, <2>2, <2>4 DEF PurgeInv
  <2>6. nextId \notin purged
    BY <1>0 DEF PurgeInv
  <2>7. (mut.kind = "delete" /\ mut.phase \in {"applied", "affected"})
            => Gone \cap bin' = {} /\ \A i \in Gone : i < nextId'
    BY <1>0, <2>1, <2>3, <2>4 DEF PurgeInv
  <2>8. Gone' = Gone /\ (PageClean => PageClean') /\ isPending' = isPending
    BY <1>19 DEF OtherClientAdds, Gone, PageClean, isPending
  <2> HIDE DEF Gone
  <2> QED BY <1>19, <2>4, <2>5, <2>6, <2>7, <2>8 DEF OtherClientAdds, PurgeInv
<1>20. CASE UNCHANGED binVars
  BY <1>20 DEF binVars, PurgeInv, PageClean, Gone, isPending
<1>21. CASE BinNext
  BY <1>1, <1>2, <1>3, <1>4, <1>5, <1>6, <1>7, <1>8, <1>9, <1>10, <1>11, <1>12, <1>13,
     <1>14, <1>15, <1>16, <1>17, <1>18, <1>19, <1>21 DEF BinNext
<1> QED BY <1>20, <1>21

\* For a user who turns no page and lets an action end before the dialog is
\* closed, what deleteMutation reports as deleted is not listed any more once
\* the dialog is at rest: the answers of the server that are older than the
\* deletion are discarded by the fetch that follows it.
THEOREM BinPurgedGone ==
    BinAssumption /\ Depth = 0 /\ ~Hurried /\ BinSpec => []PurgedGone
<1> SUFFICES ASSUME BinAssumption, Depth = 0, ~Hurried
             PROVE  BinSpec => []PurgedGone
  OBVIOUS
<1>1. BinInit => PurgeInv
  <2> SUFFICES ASSUME BinInit PROVE PurgeInv
    OBVIOUS
  <2>1. 0 \in Cursors /\ nextId \in Nat /\ \A i \in bin : i < nextId
    BY BinNull DEF BinInit, BinAssumption
  <2> QED BY <2>1, BinNull DEF BinInit, PurgeInv, PageClean, isPending
<1>2. BinInv /\ PurgeInv /\ [BinNext]_binVars => PurgeInv'
  BY PurgeStep
<1>3. PurgeInv => PurgedGone
  BY DEF PurgeInv, PageClean, PurgedGone, isPending, Fetching, items
<1> QED BY <1>1, <1>2, <1>3, BinInvariant, PTL DEF BinSpec

-----------------------------------------------------------------------------
(* The sort popovers                                                       *)

Urls == {Unsorted} \cup [by : Columns, order : Orders]

SortInv ==
    /\ url \in Urls /\ past \in Seq(Urls)
    /\ openSortBy \in Columns \cup {None}
    /\ draft \in [Columns -> Orders \cup {None}]
    /\ touched \in BOOLEAN
    /\ DraftFollows

LEMMA AppliedTypes ==
    ASSUME SortAssumption, NEW u \in Urls, NEW c \in Columns
    PROVE  Applied(u, c) \in Orders \cup {None}
  BY DEF SortAssumption, Applied, Urls, Unsorted

\* The effect leaves an untouched draft of the open popover at the order applied.
LEMMA EffectFollows ==
    ASSUME SortAssumption, SortInv, NEW u \in Urls, NEW open \in Columns \cup {None},
           DraftEffect(u, open), open # openSortBy => u = url
    PROVE  /\ draft' \in [Columns -> Orders \cup {None}] /\ touched' \in BOOLEAN
           /\ open # None /\ ~touched' => draft'[open] = Applied(u, open)
<1>1. CASE open # None /\ (open # openSortBy \/ Applied(u, open) # Applied(url, open))
  <2>1. open \in Columns /\ Applied(u, open) \in Orders \cup {None}
    BY <1>1, AppliedTypes
  <2>2. draft' = [draft EXCEPT ![open] = Applied(u, open)] /\ touched' = FALSE
    BY <1>1 DEF DraftEffect
  <2> QED BY <2>1, <2>2 DEF SortInv
<1>2. CASE ~(open # None /\ (open # openSortBy \/ Applied(u, open) # Applied(url, open)))
  <2>1. draft' = draft /\ touched' = touched
    BY <1>2 DEF DraftEffect
  <2> QED BY <1>2, <2>1 DEF SortInv, DraftFollows
<1> QED BY <1>1, <1>2

LEMMA SortStep ==
    ASSUME SortAssumption, SortInv, [SortNext]_sortVars
    PROVE  SortInv'
<1>0. url \in Urls /\ past \in Seq(Urls) /\ openSortBy \in Columns \cup {None}
      /\ None \notin Columns /\ None \notin Orders
  BY DEF SortInv, SortAssumption
<1>1. ASSUME NEW c \in Columns, NEW open \in BOOLEAN, onOpenChange(c, open)
      PROVE  SortInv'
  <2>1. openSortBy' \in Columns \cup {None} /\ DraftEffect(url, openSortBy')
        /\ url' = url /\ past' = past
    BY <1>1 DEF onOpenChange
  <2>2. /\ draft' \in [Columns -> Orders \cup {None}] /\ touched' \in BOOLEAN
        /\ openSortBy' # None /\ ~touched' => draft'[openSortBy'] = Applied(url, openSortBy')
    BY <1>0, <2>1, EffectFollows
  <2> QED BY <1>0, <2>1, <2>2 DEF SortInv, DraftFollows
<1>2. ASSUME NEW o \in Orders, setDraftSortOrder(o)
      PROVE  SortInv'
  BY <1>0, <1>2 DEF setDraftSortOrder, SortInv, DraftFollows
<1>3. ASSUME NEW u \in Urls, Apply(u), openSortBy' = None, UNCHANGED <<draft, touched>>
      PROVE  SortInv'
  <2>1. url' \in Urls /\ past' \in Seq(Urls)
    BY <1>0, <1>3 DEF Apply
  <2> QED BY <1>3, <2>1 DEF SortInv, DraftFollows
<1>4. CASE handleConfirm
  <2>1. [by |-> openSortBy, order |-> draft[openSortBy]] \in Urls
    BY <1>0, <1>4 DEF handleConfirm, SortInv, Urls
  <2> QED BY <1>3, <1>4, <2>1 DEF handleConfirm
<1>5. CASE handleCancel
  BY <1>0, <1>5 DEF handleCancel, SortInv, DraftFollows
<1>6. CASE handleClear
  <2>1. Unsorted \in Urls
    BY DEF Urls
  <2> QED BY <1>3, <1>6, <2>1 DEF handleClear
<1>7. CASE browserBack
  <2>1. past # <<>> /\ url' = past[Len(past)] /\ past' = SubSeq(past, 1, Len(past) - 1)
        /\ DraftEffect(url', openSortBy) /\ openSortBy' = openSortBy
    BY <1>7 DEF browserBack
  <2>2. url' \in Urls
    BY <1>0, <2>1
  <2>3. past' \in Seq(Urls)
    BY <1>0, <2>1
  <2>4. /\ draft' \in [Columns -> Orders \cup {None}] /\ touched' \in BOOLEAN
        /\ openSortBy # None /\ ~touched' => draft'[openSortBy] = Applied(url', openSortBy)
    BY <1>0, <2>1, <2>2, EffectFollows
  <2> QED BY <1>0, <2>1, <2>2, <2>3, <2>4 DEF SortInv, DraftFollows
<1>8. CASE UNCHANGED sortVars
  BY <1>8 DEF sortVars, SortInv, DraftFollows
<1> QED BY <1>1, <1>2, <1>4, <1>5, <1>6, <1>7, <1>8 DEF SortNext

\* For any columns and a history of any length, every variable of the popovers
\* has its type, and the open popover of a column starts from, and follows, the
\* order that the URL applies to it until the user chooses one (SortableHeader).
THEOREM SortFollows == SortAssumption /\ SortSpec => [](SortTypeOK /\ DraftFollows)
<1> SUFFICES ASSUME SortAssumption
             PROVE  SortSpec => [](SortTypeOK /\ DraftFollows)
  OBVIOUS
<1>1. SortInit => SortInv
  <2> SUFFICES ASSUME SortInit PROVE SortInv
    OBVIOUS
  <2>1. url \in Urls
    BY DEF SortInit, Urls
  <2>2. \A c \in Columns : Applied(url, c) \in Orders \cup {None}
    BY <2>1, AppliedTypes
  <2>3. <<>> \in Seq(Urls) /\ draft = [c \in Columns |-> Applied(url, c)]
    BY DEF SortInit
  <2>4. draft \in [Columns -> Orders \cup {None}]
    BY <2>2, <2>3
  <2> QED BY <2>1, <2>3, <2>4 DEF SortInit, SortInv, DraftFollows
<1>2. SortInv /\ [SortNext]_sortVars => SortInv'
  BY SortStep
<1>3. SortInv => SortTypeOK /\ DraftFollows
  BY DEF SortInv, SortTypeOK, Urls
<1> QED BY <1>1, <1>2, <1>3, PTL DEF SortSpec

-----------------------------------------------------------------------------
(* Downloads                                                               *)

LoopItems == [path : Entries, visibility : {"public", "private", "gone"}]

RowsTyped ==
    /\ DOMAIN rowDownloads = Slots
    /\ \A s \in Slots : rowDownloads[s] = NoRow
           \/ /\ rowDownloads[s] \in [path : Entries, phase : {"sign", "trigger", "archive"}]
              /\ rowDownloads[s].phase = "archive" <=> rowDownloads[s].path \in Directories

BulkTyped ==
    /\ bulk \in [phase : {"idle", "sign", "trigger", "archive"}, rest : Seq(LoopItems),
                 ok : Nat, failed : Nat, got : Nat]
    /\ bulk.phase = "idle" <=> bulk.rest = <<>>
    /\ bulk.ok + bulk.failed + Len(bulk.rest) <= Len(Table)
    /\ bulk.rest # <<>> =>
          (bulk.phase = "archive" <=> bulk.rest[1].path \in Directories)

MarksTyped ==
    /\ downloadingFilePath \in (Entries \ Directories) \cup {NoPath}
    /\ downloadingFolderPath \in Directories \cup {NoPath}

PageTyped ==
    /\ changes \in 0..MaxChanges
    /\ objects \in [Entries -> {"public", "private", "gone"}]
    /\ listed \in [Entries -> {"public", "private", "gone"}]
    /\ here \in BOOLEAN
    /\ selectedPaths \subseteq {e \in Entries : ShownRow(e)}

\* What the loop has asked for and what it has left are, entry by entry, what was
\* selected when it started; the first of the rest is the one it last asked for.
AskedInOrder ==
    /\ asked \in Seq(Entries) /\ wanted \in Seq(Entries)
    /\ bulk.rest = <<>> => asked = wanted
    /\ bulk.rest # <<>> =>
          /\ Len(asked) + Len(bulk.rest) = Len(wanted) + 1
          /\ \A i \in 1..Len(asked) : asked[i] = wanted[i]
          /\ \A i \in 1..Len(bulk.rest) :
                 bulk.rest[i].path = wanted[Len(asked) - 1 + i]

\* Beside no bulk download, each mark belongs to a row that is being downloaded.
MarksOwned ==
    bulk.phase = "idle" =>
      /\ downloadingFilePath # NoPath =>
            \E s \in Slots : rowDownloads[s] # NoRow /\ rowDownloads[s].path \notin Directories
      /\ downloadingFolderPath # NoPath =>
            \E s \in Slots : rowDownloads[s] # NoRow /\ rowDownloads[s].path \in Directories

DownloadsInv ==
    /\ PageTyped /\ RowsTyped /\ BulkTyped /\ MarksTyped /\ AskedInOrder /\ MarksOwned

LEMMA FirstPhases ==
    ASSUME NEW e, NEW v
    PROVE  /\ FirstPhase(e, v) \in {"sign", "trigger", "archive"}
           /\ FirstPhase(e, v) = "archive" <=> e \in Directories
  BY DEF FirstPhase

\* What a bulk download starts from.
LEMMA CapturedFacts ==
    ASSUME DownloadsAssumption, PageTyped
    PROVE  /\ selectedEntries \in Seq(Entries) /\ Captured \in Seq(LoopItems)
           /\ Len(Captured) = Len(selectedEntries) /\ Len(Captured) <= Len(Table)
           /\ \A i \in 1..Len(Captured) :
                 /\ Captured[i].path = selectedEntries[i]
                 /\ Captured[i].visibility = listed[selectedEntries[i]]
<1>1. selectedEntries \in Seq(Entries) /\ Len(selectedEntries) <= Len(Table)
  BY KeptFacts DEF DownloadsAssumption, selectedEntries
<1> DEFINE sel == selectedEntries
<1>2. Captured = [i \in 1..Len(sel) |-> [path |-> sel[i], visibility |-> listed[sel[i]]]]
  BY <1>1 DEF Captured
<1>3. \A i \in 1..Len(sel) : sel[i] \in Entries
  BY <1>1
<1> HIDE DEF sel
<1>4. \A i \in 1..Len(sel) : [path |-> sel[i], visibility |-> listed[sel[i]]] \in LoopItems
  BY <1>3 DEF LoopItems, PageTyped
<1>5. Len(sel) \in Nat
  BY <1>1 DEF sel
<1>6. Captured \in Seq(LoopItems) /\ Len(Captured) = Len(sel)
  BY <1>2, <1>4, <1>5
<1> QED BY <1>1, <1>2, <1>6 DEF sel

LEMMA TailFacts ==
    ASSUME NEW S, NEW q \in Seq(S), q # <<>>
    PROVE  /\ Tail(q) \in Seq(S) /\ Len(Tail(q)) = Len(q) - 1 /\ Len(q) \in Nat \ {0}
           /\ \A i \in 1..Len(q) - 1 : Tail(q)[i] = q[i + 1]
           /\ Len(q) = 1 <=> Tail(q) = <<>>
<1>1. Len(q) \in Nat \ {0} /\ Tail(q) \in Seq(S) /\ Len(Tail(q)) = Len(q) - 1
  OBVIOUS
<1>2. \A i \in 1..Len(q) - 1 : Tail(q)[i] = q[i + 1]
  OBVIOUS
<1>3. Tail(q) = <<>> <=> Len(Tail(q)) = 0
  BY <1>1, EmptySeq
<1> QED BY <1>1, <1>2, <1>3

\* The step of the loop to the next entry, or its end.
LEMMA NextItemStep ==
    ASSUME DownloadsAssumption, DownloadsInv, bulk.phase # "idle", NEW ok \in Nat,
           NEW failed \in Nat, NEW got \in Nat,
           ok + failed = bulk.ok + bulk.failed + 1,
           NextItem(Tail(bulk.rest), ok, failed, got)
    PROVE  BulkTyped' /\ MarksTyped' /\ AskedInOrder' /\ MarksOwned'
<1> DEFINE rest == bulk.rest
           e == rest[2].path
           first == FirstPhase(e, rest[2].visibility)
<1>1. /\ rest \in Seq(LoopItems) /\ rest # <<>> /\ bulk.ok + bulk.failed + Len(rest) <= Len(Table)
      /\ bulk.ok \in Nat /\ bulk.failed \in Nat
  BY DEF DownloadsInv, BulkTyped
<1>2. /\ Tail(rest) \in Seq(LoopItems) /\ Len(Tail(rest)) = Len(rest) - 1 /\ Len(rest) \in Nat \ {0}
      /\ \A i \in 1..Len(rest) - 1 : Tail(rest)[i] = rest[i + 1]
      /\ Len(rest) = 1 <=> Tail(rest) = <<>>
  <2> HIDE DEF rest
  <2> QED BY <1>1, TailFacts
<1>3. /\ asked \in Seq(Entries) /\ wanted \in Seq(Entries)
      /\ Len(asked) + Len(rest) = Len(wanted) + 1
      /\ \A i \in 1..Len(asked) : asked[i] = wanted[i]
      /\ \A i \in 1..Len(rest) : rest[i].path = wanted[Len(asked) - 1 + i]
  BY <1>1 DEF DownloadsInv, AskedInOrder
<1>4. Len(Table) \in Nat
  BY DEF DownloadsAssumption
<1>5. CASE Len(rest) = 1
  <2>1. /\ bulk' = [NoBulk EXCEPT !.ok = ok, !.failed = failed, !.got = got]
        /\ downloadingFilePath' = NoPath /\ downloadingFolderPath' = NoPath
        /\ asked' = asked /\ wanted' = wanted
    BY <1>2, <1>5 DEF NextItem, history
  <2>2. bulk' = [phase |-> "idle", rest |-> <<>>, ok |-> ok, failed |-> failed, got |-> got]
    BY <2>1 DEF NoBulk
  <2>3. BulkTyped'
    <3>1. <<>> \in Seq(LoopItems) /\ Len(<<>>) = 0 /\ ok + failed <= Len(Table)
      BY <1>1, <1>4, <1>5
    <3> QED BY <2>2, <3>1 DEF BulkTyped
  <2>4. asked = wanted
    BY <1>3, <1>5
  <2>5. AskedInOrder'
    <3>1. bulk'.rest = <<>>
      BY <2>2
    <3>2. asked' \in Seq(Entries) /\ wanted' \in Seq(Entries) /\ asked' = wanted'
      BY <1>3, <2>1, <2>4
    <3> QED BY <3>1, <3>2 DEF AskedInOrder
  <2> QED BY <2>1, <2>3, <2>5 DEF MarksTyped, MarksOwned
<1>6. CASE Len(rest) # 1
  <2>1. Tail(rest)[1] = rest[2] /\ rest[2] \in LoopItems /\ Tail(rest) # <<>>
    BY <1>1, <1>2, <1>6
  <2>2. /\ bulk' = [phase |-> first, rest |-> Tail(rest), ok |-> ok, failed |-> failed,
                    got |-> IF first = "trigger" /\ Served(e, FALSE) THEN got + 1 ELSE got]
        /\ downloadingFilePath' = IF e \in Directories THEN NoPath ELSE e
        /\ downloadingFolderPath' = IF e \in Directories THEN e ELSE NoPath
        /\ asked' = Append(asked, e) /\ wanted' = wanted
    BY <2>1 DEF NextItem
  <2>3. e \in Entries
    BY <2>1 DEF LoopItems
  <2>4. first \in {"sign", "trigger", "archive"} /\ (first = "archive" <=> e \in Directories)
    BY FirstPhases
  <2>5. BulkTyped'
    <3>1. ok + failed + Len(Tail(rest)) <= Len(Table)
      <4> HIDE DEF rest
      <4> QED BY <1>1, <1>2, <1>4
    <3> DEFINE g == IF first = "trigger" /\ Served(e, FALSE) THEN got + 1 ELSE got
    <3>2. g \in Nat
      <4>1. g = got \/ g = got + 1
        OBVIOUS
      <4> HIDE DEF g
      <4> QED BY <4>1
    <3>3. Tail(rest)[1].path = e
      BY <2>1
    <3> HIDE DEF g, first, e, rest
    <3>4. bulk' = [phase |-> first, rest |-> Tail(rest), ok |-> ok, failed |-> failed, got |-> g]
      BY <2>2 DEF g, first, e, rest
    <3> QED BY <1>2, <2>1, <2>4, <3>1, <3>2, <3>3, <3>4 DEF BulkTyped
  <2>6. AskedInOrder'
    <3> HIDE DEF first
    <3>1. bulk'.rest = Tail(rest)
      BY <2>2
    <3> DEFINE a == Append(asked, e)
               t == Tail(rest)
               r == rest
               w == wanted
    <3>2. a \in Seq(Entries) /\ Len(a) = Len(asked) + 1 /\ Len(asked) \in Nat
          /\ a[Len(asked) + 1] = e /\ \A i \in 1..Len(asked) : a[i] = asked[i]
      BY <1>3, <2>3
    <3>3. e = w[Len(asked) + 1]
      BY <1>2, <1>3, <1>6, <3>2
    <3>4. \A i \in 1..Len(a) : a[i] = w[i]
      BY <1>3, <3>2, <3>3
    <3>5. ASSUME NEW i \in 1..Len(t)
          PROVE  t[i].path = w[Len(a) - 1 + i]
      <4>1. t[i] = r[i + 1] /\ i + 1 \in 1..Len(r)
        BY <1>2
      <4>2. r[i + 1].path = w[Len(asked) - 1 + (i + 1)]
        BY <1>3, <4>1
      <4>3. Len(asked) - 1 + (i + 1) = Len(a) - 1 + i
        BY <1>2, <3>2
      <4> QED BY <4>1, <4>2, <4>3
    <3>6. Len(a) + Len(t) = Len(w) + 1 /\ t # <<>>
      <4>1. Len(w) \in Nat /\ t # <<>>
        BY <1>3, <2>1
      <4> HIDE DEF rest, a, t
      <4> QED BY <1>2, <1>3, <3>2, <4>1 DEF t
    <3> QED BY <1>3, <2>2, <3>1, <3>2, <3>4, <3>5, <3>6 DEF AskedInOrder
  <2> QED BY <2>2, <2>3, <2>4, <2>5, <2>6 DEF MarksTyped, MarksOwned
<1> QED BY <1>5, <1>6

\* A mark that is set again belongs to the row that sets it.
LEMMA RowStep ==
    ASSUME DownloadsAssumption, DownloadsInv, NEW s \in Slots,
           \/ \E e \in Entries : handleDownload(s, e)
           \/ RowSigned(s) \/ RowEnds(s)
    PROVE  DownloadsInv'
<1>1. /\ DOMAIN rowDownloads = Slots /\ NoPath \notin Entries /\ Directories \subseteq Entries
      /\ \A t \in Slots : rowDownloads[t] = NoRow
           \/ /\ rowDownloads[t] \in [path : Entries, phase : {"sign", "trigger", "archive"}]
              /\ rowDownloads[t].phase = "archive" <=> rowDownloads[t].path \in Directories
  BY DEF DownloadsInv, RowsTyped, DownloadsAssumption
<1>2. /\ UNCHANGED <<changes, objects, listed, here, selectedPaths, bulk, asked, wanted>>
  BY DEF handleDownload, RowSigned, RowEnds, page, history
<1>3. PageTyped' /\ BulkTyped' /\ AskedInOrder'
  BY <1>2 DEF DownloadsInv, PageTyped, BulkTyped, AskedInOrder, ShownRow
<1>4. ASSUME NEW e \in Entries, handleDownload(s, e)
      PROVE  RowsTyped' /\ MarksTyped' /\ MarksOwned'
  <2> DEFINE row == [path |-> e, phase |-> FirstPhase(e, listed[e])]
  <2>1. /\ rowDownloads' = [rowDownloads EXCEPT ![s] = row]
        /\ Mark(e) /\ rowDownloads[s] = NoRow
    BY <1>4 DEF handleDownload
  <2>2. /\ row \in [path : Entries, phase : {"sign", "trigger", "archive"}]
        /\ row.phase = "archive" <=> row.path \in Directories
        /\ row # NoRow /\ row.path = e
    BY <1>1, FirstPhases DEF NoRow
  <2> HIDE DEF row
  <2>3. /\ DOMAIN rowDownloads' = Slots /\ rowDownloads'[s] = row
        /\ \A t \in Slots : t # s => rowDownloads'[t] = rowDownloads[t]
    BY <1>1, <2>1
  <2>4. RowsTyped'
    BY <1>1, <2>2, <2>3 DEF RowsTyped
  <2>5. MarksTyped'
    BY <1>1, <2>1 DEF Mark, DownloadsInv, MarksTyped
  <2>6. \A t \in Slots : rowDownloads[t] # NoRow => rowDownloads'[t] = rowDownloads[t]
    BY <2>1, <2>3
  <2>7. MarksOwned'
    BY <1>2, <2>1, <2>2, <2>3, <2>6 DEF Mark, DownloadsInv, MarksOwned
  <2> QED BY <2>4, <2>5, <2>7
<1>5. CASE RowSigned(s)
  <2>1. /\ rowDownloads[s].phase = "sign" /\ UNCHANGED marks
        /\ rowDownloads' = [rowDownloads EXCEPT ![s].phase = "trigger"]
    BY <1>5 DEF RowSigned
  <2>2. rowDownloads[s] # NoRow
    BY <2>1 DEF NoRow
  <2>3. /\ rowDownloads[s] \in [path : Entries, phase : {"sign", "trigger", "archive"}]
        /\ rowDownloads[s].path \notin Directories
    BY <1>1, <2>1, <2>2
  <2>4. /\ DOMAIN rowDownloads' = Slots
        /\ rowDownloads'[s] = [path |-> rowDownloads[s].path, phase |-> "trigger"]
        /\ \A t \in Slots : t # s => rowDownloads'[t] = rowDownloads[t]
    BY <1>1, <2>1, <2>3
  <2>5. RowsTyped'
    BY <1>1, <2>3, <2>4 DEF RowsTyped
  <2>6. \A t \in Slots : rowDownloads[t] # NoRow =>
            rowDownloads'[t] # NoRow /\ rowDownloads'[t].path = rowDownloads[t].path
    BY <2>4 DEF NoRow
  <2>7. MarksTyped' /\ MarksOwned'
    BY <1>2, <2>1, <2>6 DEF marks, DownloadsInv, MarksTyped, MarksOwned
  <2> QED BY <1>3, <2>5, <2>7 DEF DownloadsInv
<1>6. CASE RowEnds(s)
  <2>1. /\ rowDownloads[s] # NoRow /\ rowDownloads' = [rowDownloads EXCEPT ![s] = NoRow]
        /\ IF rowDownloads[s].path \in Directories
           THEN downloadingFolderPath' = NoPath /\ UNCHANGED downloadingFilePath
           ELSE downloadingFilePath' = NoPath /\ UNCHANGED downloadingFolderPath
    BY <1>6 DEF RowEnds
  <2>2. /\ DOMAIN rowDownloads' = Slots /\ rowDownloads'[s] = NoRow
        /\ \A t \in Slots : t # s => rowDownloads'[t] = rowDownloads[t]
    BY <1>1, <2>1
  <2>3. RowsTyped'
    BY <1>1, <2>2 DEF RowsTyped
  <2>4. MarksTyped'
    BY <2>1 DEF DownloadsInv, MarksTyped
  <2>5. MarksOwned'
    BY <1>2, <2>1, <2>2 DEF DownloadsInv, MarksOwned
  <2> QED BY <1>3, <2>3, <2>4, <2>5 DEF DownloadsInv
<1> QED BY <1>3, <1>4, <1>5, <1>6 DEF DownloadsInv

LEMMA BulkStep ==
    ASSUME DownloadsAssumption, DownloadsInv, BulkNext
    PROVE  DownloadsInv'
<1>1. /\ UNCHANGED <<changes, objects, listed, here, selectedPaths, rowDownloads>>
  BY DEF BulkNext, handleBulkDownload, BulkSigned, BulkTriggered, BulkArchived,
         BulkItemFails, page
<1>2. PageTyped' /\ RowsTyped'
  BY <1>1 DEF DownloadsInv, PageTyped, RowsTyped, ShownRow
<1>3. /\ bulk \in [phase : {"idle", "sign", "trigger", "archive"}, rest : Seq(LoopItems),
                   ok : Nat, failed : Nat, got : Nat]
      /\ bulk.phase = "idle" <=> bulk.rest = <<>>
  BY DEF DownloadsInv, BulkTyped
<1>4. CASE handleBulkDownload
  <2> DEFINE e == Captured[1].path
             phase == FirstPhase(e, Captured[1].visibility)
             g == IF phase = "trigger" /\ Served(e, FALSE) THEN 1 ELSE 0
             sel == selectedEntries
             cap == Captured
  <2>1. /\ sel # <<>> /\ Mark(e) /\ asked' = <<e>> /\ wanted' = sel
        /\ bulk' = [phase |-> phase, rest |-> cap, ok |-> 0, failed |-> 0, got |-> g]
    BY <1>4 DEF handleBulkDownload
  <2>2. /\ sel \in Seq(Entries) /\ cap \in Seq(LoopItems)
        /\ Len(cap) = Len(sel) /\ Len(cap) <= Len(Table)
        /\ \A i \in 1..Len(cap) : cap[i].path = sel[i]
    BY CapturedFacts DEF DownloadsInv
  <2>3. phase \in {"sign", "trigger", "archive"} /\ (phase = "archive" <=> e \in Directories)
    BY FirstPhases
  <2>4. g = 0 \/ g = 1
    OBVIOUS
  <2>5. e = cap[1].path
    OBVIOUS
  <2> HIDE DEF g, phase, sel, cap
  <2>6. Len(sel) \in Nat \ {0} /\ cap # <<>>
    BY <2>1, <2>2, EmptySeq
  <2>7. e = sel[1] /\ e \in Entries
    BY <2>2, <2>5, <2>6
  <2> HIDE DEF e
  <2>8. BulkTyped'
    <3>1. 0 + 0 + Len(cap) <= Len(Table) /\ g \in Nat
      BY <2>2, <2>4, <2>6
    <3> QED BY <2>1, <2>2, <2>3, <2>5, <2>6, <3>1 DEF BulkTyped
  <2>9. MarksTyped' /\ MarksOwned'
    BY <2>1, <2>3, <2>7 DEF Mark, DownloadsInv, MarksTyped, MarksOwned
  <2>10. AskedInOrder'
    <3>1. /\ asked' \in Seq(Entries) /\ Len(asked') = 1 /\ asked'[1] = e
      BY <2>1, <2>7
    <3>2. \A i \in 1..Len(asked') : asked'[i] = wanted'[i]
      BY <2>1, <2>7, <3>1
    <3>3. \A i \in 1..Len(cap) : cap[i].path = wanted'[1 - 1 + i]
      BY <2>1, <2>2
    <3>4. bulk'.rest = cap
      BY <2>1
    <3>5. 1 + Len(cap) = Len(wanted') + 1 /\ wanted' \in Seq(Entries)
      BY <2>1, <2>2, <2>6
    <3> QED BY <2>6, <3>1, <3>2, <3>3, <3>4, <3>5 DEF AskedInOrder
  <2> QED BY <1>2, <2>8, <2>9, <2>10 DEF DownloadsInv
<1>5. CASE BulkSigned
  <2> DEFINE g == IF Served(bulk.rest[1].path, TRUE) THEN bulk.got + 1 ELSE bulk.got
  <2>1. /\ bulk.phase = "sign" /\ UNCHANGED <<asked, wanted, marks>>
        /\ bulk' = [bulk EXCEPT !.phase = "trigger", !.got = g]
    BY <1>5 DEF BulkSigned, history
  <2>2. g = bulk.got \/ g = bulk.got + 1
    OBVIOUS
  <2> HIDE DEF g
  <2>3. g \in Nat
    BY <1>3, <2>2
  <2>4. /\ bulk' \in [phase : {"idle", "sign", "trigger", "archive"}, rest : Seq(LoopItems),
                      ok : Nat, failed : Nat, got : Nat]
        /\ bulk'.phase = "trigger" /\ bulk'.rest = bulk.rest
        /\ bulk'.ok = bulk.ok /\ bulk'.failed = bulk.failed
    BY <1>3, <2>1, <2>3
  <2>5. BulkTyped'
    BY <1>3, <2>1, <2>4 DEF DownloadsInv, BulkTyped
  <2>6. MarksTyped' /\ MarksOwned' /\ AskedInOrder'
    BY <2>1, <2>4 DEF marks, DownloadsInv, MarksTyped, MarksOwned, AskedInOrder
  <2> QED BY <1>2, <2>5, <2>6 DEF DownloadsInv
<1>6. ASSUME NEW ok \in Nat, NEW failed \in Nat, NEW got \in Nat,
             bulk.phase # "idle", ok + failed = bulk.ok + bulk.failed + 1,
             NextItem(Tail(bulk.rest), ok, failed, got)
      PROVE  DownloadsInv'
  BY <1>2, <1>6, NextItemStep DEF DownloadsInv
<1>7. CASE BulkTriggered
  BY <1>3, <1>6, <1>7 DEF BulkTriggered
<1>8. CASE BulkArchived
  BY <1>3, <1>6, <1>8 DEF BulkArchived
<1>9. CASE BulkItemFails
  BY <1>3, <1>6, <1>9 DEF BulkItemFails
<1> QED BY <1>4, <1>5, <1>7, <1>8, <1>9 DEF BulkNext

LEMMA PageStep ==
    ASSUME DownloadsAssumption, DownloadsInv, PageNext \/ OtherNext
    PROVE  DownloadsInv'
<1>1. UNCHANGED <<rowDownloads, bulk, asked, wanted, downloadingFilePath, downloadingFolderPath>>
  BY DEF PageNext, OtherNext, handleSelectEntry, ListingRefreshed, ChangeView,
         OtherChange, history, marks
<1>2. RowsTyped' /\ BulkTyped' /\ MarksTyped' /\ AskedInOrder' /\ MarksOwned'
  BY <1>1 DEF DownloadsInv, RowsTyped, BulkTyped, MarksTyped, AskedInOrder, MarksOwned
<1>3. /\ changes \in 0..MaxChanges /\ MaxChanges \in Nat
      /\ objects \in [Entries -> {"public", "private", "gone"}]
      /\ listed \in [Entries -> {"public", "private", "gone"}]
      /\ here \in BOOLEAN
      /\ selectedPaths \subseteq {e \in Entries : here /\ listed[e] # "gone"}
  BY DEF DownloadsInv, PageTyped, ShownRow, DownloadsAssumption
<1>4. ASSUME NEW e \in Entries, handleSelectEntry(e)
      PROVE  PageTyped'
  BY <1>3, <1>4 DEF handleSelectEntry, PageTyped, ShownRow
<1>5. CASE ListingRefreshed
  <2>1. /\ listed' = objects /\ here' = here /\ here = TRUE
        /\ selectedPaths' = {e \in selectedPaths : objects[e] # "gone"}
        /\ changes' = changes /\ objects' = objects
    BY <1>3, <1>5 DEF ListingRefreshed
  <2>2. selectedPaths' \subseteq {e \in Entries : here' /\ listed'[e] # "gone"}
    BY <1>3, <2>1
  <2>3. PageTyped'
    BY <1>3, <2>1, <2>2 DEF PageTyped, ShownRow
  <2> QED BY <1>2, <2>3 DEF DownloadsInv
<1>6. CASE ChangeView
  <2>1. selectedPaths' = {} /\ here' \in BOOLEAN /\ UNCHANGED <<changes, objects, listed>>
    BY <1>6 DEF ChangeView
  <2>2. PageTyped'
    BY <1>3, <2>1 DEF PageTyped
  <2> QED BY <1>2, <2>2 DEF DownloadsInv
<1>7. ASSUME NEW e \in Entries, NEW to \in {"public", "private", "gone"}, OtherChange(e, to)
      PROVE  PageTyped'
  <2>1. UNCHANGED <<listed, here, selectedPaths>> /\ changes' \in 0..MaxChanges
    BY <1>3, <1>7 DEF OtherChange, page
  <2>2. objects' \in [Entries -> {"public", "private", "gone"}]
    BY <1>3, <1>7 DEF OtherChange
  <2> QED BY <1>3, <2>1, <2>2 DEF PageTyped, ShownRow
<1> QED BY <1>2, <1>4, <1>5, <1>6, <1>7 DEF PageNext, OtherNext, DownloadsInv

LEMMA DownloadsStart ==
    ASSUME DownloadsAssumption, DownloadsInit
    PROVE  DownloadsInv
<1>1. /\ objects \in [Entries -> {"public", "private", "gone"}] /\ listed = objects
      /\ changes = 0 /\ here = TRUE /\ selectedPaths = {}
      /\ rowDownloads = [s \in Slots |-> NoRow] /\ bulk = NoBulk
      /\ asked = <<>> /\ wanted = <<>>
      /\ downloadingFilePath = NoPath /\ downloadingFolderPath = NoPath
  BY DEF DownloadsInit
<1>2. PageTyped
  BY <1>1 DEF PageTyped, DownloadsAssumption
<1>3. Len(Table) \in Nat
  BY DEF DownloadsAssumption
<1>4. <<>> \in Seq(LoopItems) /\ <<>> \in Seq(Entries) /\ Len(<<>>) = 0
  BY EmptySeq
<1>5. /\ bulk \in [phase : {"idle", "sign", "trigger", "archive"}, rest : Seq(LoopItems),
                   ok : Nat, failed : Nat, got : Nat]
      /\ bulk.phase = "idle" /\ bulk.rest = <<>> /\ bulk.ok = 0 /\ bulk.failed = 0
  BY <1>1, <1>4 DEF NoBulk
<1>6. BulkTyped
  <2>1. 0 + 0 + Len(bulk.rest) <= Len(Table)
    BY <1>3, <1>4, <1>5
  <2> QED BY <1>5, <2>1 DEF BulkTyped
<1> QED BY <1>1, <1>2, <1>4, <1>5, <1>6
        DEF DownloadsInv, RowsTyped, MarksTyped, MarksOwned, AskedInOrder

LEMMA DownloadsStep ==
    ASSUME DownloadsAssumption, DownloadsInv, [DownloadsNext]_downloadVars
    PROVE  DownloadsInv'
<1>1. CASE RowNext
  BY <1>1, RowStep DEF RowNext
<1>2. CASE UNCHANGED downloadVars
  BY <1>2 DEF downloadVars, page, history, marks, DownloadsInv, PageTyped, ShownRow,
              RowsTyped, BulkTyped, MarksTyped, AskedInOrder, MarksOwned
<1> QED BY <1>1, <1>2, BulkStep, PageStep DEF DownloadsNext

\* Entry by entry is as a whole.
LEMMA AsksAll ==
    ASSUME DownloadsInv
    PROVE  BulkAsksAll
<1>1. bulk.rest \in Seq(LoopItems)
  BY DEF DownloadsInv, BulkTyped
<1>2. /\ asked \in Seq(Entries) /\ wanted \in Seq(Entries)
      /\ Len(asked) \in Nat /\ Len(wanted) \in Nat /\ Len(bulk.rest) \in Nat
  BY <1>1 DEF DownloadsInv, AskedInOrder
<1> DEFINE n == Len(bulk.rest)
           left == [i \in 1..(n - 1) |-> bulk.rest[i + 1].path]
<1>3. CASE bulk.rest = <<>>
  <2>1. n = 0 /\ asked = wanted
    BY <1>3, EmptySeq DEF DownloadsInv, AskedInOrder
  <2>2. left = <<>>
    BY <2>1
  <2>3. asked \o <<>> = asked
    BY <1>2, ConcatEmptySeq
  <2> QED BY <2>1, <2>2, <2>3 DEF BulkAsksAll
<1>4. CASE bulk.rest # <<>>
  <2>1. /\ n \in Nat \ {0} /\ Len(asked) + n = Len(wanted) + 1
        /\ \A i \in 1..Len(asked) : asked[i] = wanted[i]
        /\ \A i \in 1..n : bulk.rest[i].path = wanted[Len(asked) - 1 + i]
    BY <1>1, <1>4, EmptySeq DEF DownloadsInv, AskedInOrder
  <2> HIDE DEF n
  <2>2. left \in Seq(Entries) /\ Len(left) = n - 1
    <3>1. \A i \in 1..(n - 1) : bulk.rest[i + 1] \in LoopItems
      BY <1>1, <2>1 DEF n
    <3>2. \A i \in 1..(n - 1) : bulk.rest[i + 1].path \in Entries
      BY <3>1 DEF LoopItems
    <3>3. n - 1 \in Nat
      BY <2>1
    <3> QED BY <3>2, <3>3
  <2>3. \A i \in 1..(n - 1) : left[i] = wanted[Len(asked) + i]
    <3> SUFFICES ASSUME NEW i \in 1..(n - 1) PROVE left[i] = wanted[Len(asked) + i]
      OBVIOUS
    <3>1. i + 1 \in 1..n /\ Len(asked) - 1 + (i + 1) = Len(asked) + i
      BY <1>2, <2>1
    <3>2. bulk.rest[i + 1].path = wanted[Len(asked) + i]
      BY <2>1, <3>1
    <3> QED BY <3>2
  <2> HIDE DEF left
  <2>4. asked \o left \in Seq(Entries) /\ Len(asked \o left) = Len(wanted)
    BY <1>2, <2>1, <2>2
  <2>5. ASSUME NEW i \in 1..Len(wanted)
        PROVE  (asked \o left)[i] = wanted[i]
    <3>1. CASE i <= Len(asked)
      <4>1. i \in 1..Len(asked)
        BY <1>2, <3>1
      <4> QED BY <1>2, <2>1, <2>2, <4>1
    <3>2. CASE i > Len(asked)
      <4>1. i - Len(asked) \in 1..(n - 1)
        BY <1>2, <2>1, <3>2
      <4>2. (asked \o left)[i] = left[i - Len(asked)]
        BY <1>2, <2>1, <2>2, <3>2
      <4>3. Len(asked) + (i - Len(asked)) = i
        BY <1>2
      <4> QED BY <2>3, <4>1, <4>2, <4>3
    <3>3. i <= Len(asked) \/ i > Len(asked)
      BY <1>2
    <3> QED BY <3>1, <3>2, <3>3
  <2>6. asked \o left = wanted
    BY <1>2, <2>4, <2>5, SeqEqual
  <2> QED BY <2>6 DEF BulkAsksAll, left, n
<1> QED BY <1>3, <1>4

LEMMA DownloadsHolds ==
    ASSUME DownloadsInv, DownloadsAssumption
    PROVE  DownloadsTypeOK /\ NoMarkLeft /\ BulkAsksAll
<1>1. DownloadsTypeOK
  <2>1. \A s \in Slots : rowDownloads[s] = NoRow
           \/ /\ rowDownloads[s].path \in Entries
              /\ rowDownloads[s].phase = "archive" <=> rowDownloads[s].path \in Directories
    BY DEF DownloadsInv, RowsTyped
  <2>2. bulk.ok + bulk.failed + Len(bulk.rest) \in 0..Len(Table)
    <3>1. /\ bulk.ok \in Nat /\ bulk.failed \in Nat /\ bulk.rest \in Seq(LoopItems)
          /\ bulk.ok + bulk.failed + Len(bulk.rest) <= Len(Table)
      BY DEF DownloadsInv, BulkTyped
    <3>2. Len(bulk.rest) \in Nat /\ Len(Table) \in Nat
      BY <3>1 DEF DownloadsAssumption
    <3> QED BY <3>1, <3>2
  <2>3. bulkDownloadPending <=> bulk.rest # <<>>
    BY DEF DownloadsInv, BulkTyped, bulkDownloadPending
  <2> QED BY <2>1, <2>2, <2>3 DEF DownloadsTypeOK, DownloadsInv, PageTyped, MarksTyped
<1>2. NoMarkLeft
  BY DEF NoMarkLeft, Pending, bulkDownloadPending, DownloadsInv, MarksOwned
<1> QED BY <1>1, <1>2, AsksAll

\* For any folder, any number of row downloads and any order in which they and
\* the bulk download proceed, fail and end: every variable has its type, no mark
\* is left when all have ended, and handleBulkDownload asks once for each entry
\* that was selected when it started, in the order of the table.
THEOREM DownloadsSound ==
    DownloadsAssumption /\ DownloadsSpec => [](DownloadsTypeOK /\ NoMarkLeft /\ BulkAsksAll)
<1> SUFFICES ASSUME DownloadsAssumption
             PROVE  DownloadsSpec => [](DownloadsTypeOK /\ NoMarkLeft /\ BulkAsksAll)
  OBVIOUS
<1>1. DownloadsInit => DownloadsInv
  BY DownloadsStart
<1>2. DownloadsInv /\ [DownloadsNext]_downloadVars => DownloadsInv'
  BY DownloadsStep
<1>3. DownloadsInv => DownloadsTypeOK /\ NoMarkLeft /\ BulkAsksAll
  BY DownloadsHolds
<1> QED BY <1>1, <1>2, <1>3, PTL DEF DownloadsSpec

-----------------------------------------------------------------------------
(* One download at a time                                                  *)

OneAtATime ==
    /\ \A s \in Slots, t \in Slots :
           rowDownloads[s] # NoRow /\ rowDownloads[t] # NoRow => s = t
    /\ bulk.phase # "idle" => \A s \in Slots : rowDownloads[s] = NoRow

RunningInv == DownloadsInv /\ OneAtATime /\ RunningMarked

LEMMA RunningStep ==
    ASSUME DownloadsAssumption, Overlaps = FALSE, RunningInv, [DownloadsNext]_downloadVars
    PROVE  RunningInv'
<1>1. DownloadsInv' /\ DownloadsInv
  BY DownloadsStep DEF RunningInv
<1>2. /\ DOMAIN rowDownloads = Slots /\ NoPath \notin Entries
      /\ \A t \in Slots : rowDownloads[t] = NoRow \/ rowDownloads[t].path \in Entries
      /\ OneAtATime /\ RunningMarked
  BY DEF RunningInv, DownloadsInv, RowsTyped, DownloadsAssumption
<1>3. ASSUME NEW s \in Slots, NEW e \in Entries, handleDownload(s, e)
      PROVE  OneAtATime' /\ RunningMarked'
  <2> DEFINE row == [path |-> e, phase |-> FirstPhase(e, listed[e])]
  <2>1. /\ ~Pending /\ rowDownloads' = [rowDownloads EXCEPT ![s] = row]
        /\ Mark(e) /\ bulk' = bulk
    BY <1>3 DEF handleDownload
  <2>2. row.path = e
    OBVIOUS
  <2> HIDE DEF row
  <2>3. /\ rowDownloads'[s] = row /\ bulk.phase = "idle"
        /\ \A t \in Slots : t # s => rowDownloads'[t] = NoRow
    BY <1>2, <2>1 DEF Pending, bulkDownloadPending
  <2>4. OneAtATime'
    BY <2>1, <2>3 DEF OneAtATime
  <2>5. RunningMarked'
    BY <2>1, <2>2, <2>3 DEF RunningMarked, MarkedAs, Mark, bulkDownloadPending
  <2> QED BY <2>4, <2>5
<1>4. ASSUME NEW s \in Slots, RowSigned(s)
      PROVE  OneAtATime' /\ RunningMarked'
  <2>1. /\ rowDownloads[s].phase = "sign" /\ UNCHANGED <<bulk, marks>>
        /\ rowDownloads' = [rowDownloads EXCEPT ![s].phase = "trigger"]
    BY <1>4 DEF RowSigned
  <2>2. rowDownloads[s] # NoRow
    BY <2>1 DEF NoRow
  <2>3. /\ rowDownloads'[s].path = rowDownloads[s].path
        /\ \A t \in Slots : t # s => rowDownloads'[t] = rowDownloads[t]
    BY <1>2, <2>1
  <2>4. OneAtATime'
    BY <1>2, <2>1, <2>2, <2>3 DEF OneAtATime
  <2>5. RunningMarked'
    BY <1>2, <2>1, <2>2, <2>3 DEF RunningMarked, MarkedAs, marks, bulkDownloadPending
  <2> QED BY <2>4, <2>5
<1>5. ASSUME NEW s \in Slots, RowEnds(s)
      PROVE  OneAtATime' /\ RunningMarked'
  <2>1. /\ rowDownloads[s] # NoRow /\ bulk' = bulk
        /\ rowDownloads' = [rowDownloads EXCEPT ![s] = NoRow]
    BY <1>5 DEF RowEnds
  <2>2. bulk.phase = "idle" /\ \A t \in Slots : rowDownloads'[t] = NoRow
    BY <1>2, <2>1 DEF OneAtATime
  <2> QED BY <2>1, <2>2 DEF OneAtATime, RunningMarked, bulkDownloadPending
<1>6. ASSUME NEW ok, NEW failed, NEW got, bulk.phase # "idle",
             NextItem(Tail(bulk.rest), ok, failed, got), rowDownloads' = rowDownloads
      PROVE  OneAtATime' /\ RunningMarked'
  <2>1. \A s \in Slots : rowDownloads'[s] = NoRow
    BY <1>2, <1>6 DEF OneAtATime
  <2>2. bulk'.phase # "idle" => MarkedAs(bulk.rest[1].path)'
    <3>1. CASE Tail(bulk.rest) = <<>>
      BY <1>6, <3>1 DEF NextItem, NoBulk
    <3>2. CASE Tail(bulk.rest) # <<>>
      <4> DEFINE e == Tail(bulk.rest)[1].path
      <4>1. /\ bulk'.rest[1].path = e
            /\ downloadingFilePath' = IF e \in Directories THEN NoPath ELSE e
            /\ downloadingFolderPath' = IF e \in Directories THEN e ELSE NoPath
        BY <1>6, <3>2 DEF NextItem
      <4> QED BY <4>1 DEF MarkedAs
    <3> QED BY <3>1, <3>2
  <2> QED BY <2>1, <2>2 DEF OneAtATime, RunningMarked, bulkDownloadPending
<1>7. CASE handleBulkDownload
  <2>1. /\ ~Pending /\ rowDownloads' = rowDownloads /\ Mark(Captured[1].path)
        /\ bulk'.rest = Captured
    BY <1>7 DEF handleBulkDownload
  <2>2. \A s \in Slots : rowDownloads'[s] = NoRow
    BY <2>1 DEF Pending
  <2>3. OneAtATime'
    BY <2>2 DEF OneAtATime
  <2>4. MarkedAs(bulk.rest[1].path)'
    BY <2>1 DEF MarkedAs, Mark
  <2> QED BY <1>1, <2>2, <2>3, <2>4 DEF RunningInv, RunningMarked
<1>8. CASE BulkSigned
  <2>1. /\ bulk.phase = "sign" /\ UNCHANGED <<rowDownloads, marks>>
        /\ bulk'.rest = bulk.rest
    BY <1>1, <1>8 DEF BulkSigned, DownloadsInv, BulkTyped
  <2>2. \A s \in Slots : rowDownloads'[s] = NoRow
    BY <1>2, <2>1 DEF OneAtATime
  <2>3. MarkedAs(bulk.rest[1].path)'
    BY <1>2, <2>1 DEF RunningMarked, bulkDownloadPending, MarkedAs, marks
  <2> QED BY <1>1, <2>2, <2>3 DEF RunningInv, OneAtATime, RunningMarked
<1>9. CASE BulkTriggered \/ BulkArchived \/ BulkItemFails
  <2>1. CASE BulkTriggered
    BY <1>1, <1>6, <2>1 DEF BulkTriggered, RunningInv
  <2>2. CASE BulkArchived
    BY <1>1, <1>6, <2>2 DEF BulkArchived, RunningInv
  <2>3. CASE BulkItemFails
    BY <1>1, <1>6, <2>3 DEF BulkItemFails, RunningInv
  <2> QED BY <1>9, <2>1, <2>2, <2>3
<1>10. CASE PageNext \/ OtherNext \/ UNCHANGED downloadVars
  <2>1. UNCHANGED <<rowDownloads, bulk, downloadingFilePath, downloadingFolderPath>>
    BY <1>10 DEF PageNext, OtherNext, handleSelectEntry, ListingRefreshed, ChangeView,
         OtherChange, marks, downloadVars
  <2>2. OneAtATime'
    BY <1>2, <2>1 DEF OneAtATime
  <2>3. RunningMarked'
    BY <1>2, <2>1 DEF RunningMarked, MarkedAs, bulkDownloadPending
  <2> QED BY <1>1, <2>2, <2>3 DEF RunningInv
<1> QED BY <1>1, <1>3, <1>4, <1>5, <1>7, <1>8, <1>9, <1>10
        DEF RunningInv, DownloadsNext, RowNext, BulkNext

\* With one download at a time, the entry that is being downloaded, from its row
\* or as part of the selection, has its button marked and cannot be started again
\* (ExplorerFileActions, DownloadFolderZipButton).
THEOREM RunningIsMarked ==
    DownloadsAssumption /\ Overlaps = FALSE /\ DownloadsSpec => []RunningMarked
<1> SUFFICES ASSUME DownloadsAssumption, Overlaps = FALSE
             PROVE  DownloadsSpec => []RunningMarked
  OBVIOUS
<1>1. DownloadsInit => RunningInv
  <2> SUFFICES ASSUME DownloadsInit PROVE RunningInv
    OBVIOUS
  <2>1. rowDownloads = [s \in Slots |-> NoRow] /\ bulk.phase = "idle"
    BY DEF DownloadsInit, NoBulk
  <2> QED BY <2>1, DownloadsStart DEF RunningInv, OneAtATime, RunningMarked,
             bulkDownloadPending
<1>2. RunningInv /\ [DownloadsNext]_downloadVars => RunningInv'
  BY RunningStep
<1>3. RunningInv => RunningMarked
  BY DEF RunningInv
<1> QED BY <1>1, <1>2, <1>3, PTL DEF DownloadsSpec

-----------------------------------------------------------------------------
(* Objects that do not change                                              *)

\* The listing is what the server holds, the loop has the visibility of its
\* entries right, and of the file that it waits for the link was good.
CountInv ==
    /\ objects \in [Entries -> {"public", "private"}] /\ listed = objects
    /\ changes = 0
    /\ \A i \in 1..Len(bulk.rest) : bulk.rest[i].visibility = objects[bulk.rest[i].path]
    /\ bulk.got = IF bulk.phase = "trigger" THEN bulk.ok + 1 ELSE bulk.ok

LEMMA CountStep ==
    ASSUME DownloadsAssumption, MaxChanges = 0, DownloadsInv, CountInv,
           [DownloadsNext]_downloadVars
    PROVE  CountInv'
<1>1. /\ bulk \in [phase : {"idle", "sign", "trigger", "archive"}, rest : Seq(LoopItems),
                   ok : Nat, failed : Nat, got : Nat]
      /\ bulk.phase = "idle" <=> bulk.rest = <<>>
      /\ objects \in [Entries -> {"public", "private"}] /\ listed = objects /\ changes = 0
      /\ \A i \in 1..Len(bulk.rest) : bulk.rest[i].visibility = objects[bulk.rest[i].path]
      /\ bulk.got = IF bulk.phase = "trigger" THEN bulk.ok + 1 ELSE bulk.ok
  BY DEF DownloadsInv, BulkTyped, CountInv
<1>2. \A e \in Entries : objects[e] \in {"public", "private"}
  BY <1>1
<1>3. \A i \in 1..Len(bulk.rest) : bulk.rest[i].path \in Entries
  <2>1. bulk.rest \in Seq(LoopItems)
    BY <1>1
  <2>2. \A i \in 1..Len(bulk.rest) : bulk.rest[i] \in LoopItems
    BY <2>1
  <2> QED BY <2>2 DEF LoopItems
<1>4. ASSUME NEW e \in Entries
      PROVE  FirstPhase(e, objects[e]) = "trigger" => Served(e, FALSE)
  BY DEF FirstPhase, Served
<1>5. CASE \/ \E s \in Slots : RowSigned(s) \/ RowEnds(s)
           \/ \E s \in Slots, e \in Entries : handleDownload(s, e)
           \/ \E e \in Entries : handleSelectEntry(e)
           \/ ListingRefreshed \/ ChangeView \/ UNCHANGED downloadVars
  <2>1. objects' = objects /\ listed' = listed /\ changes' = changes /\ bulk' = bulk
    BY <1>1, <1>5 DEF RowSigned, RowEnds, handleDownload, handleSelectEntry,
       ListingRefreshed, ChangeView, downloadVars, page
  <2> QED BY <2>1 DEF CountInv
<1>6. ~OtherNext
  BY <1>1 DEF OtherNext, OtherChange
<1>7. ASSUME NEW ok \in Nat, NEW failed, bulk.phase # "idle",
             NextItem(Tail(bulk.rest), ok, failed, ok),
             UNCHANGED <<changes, objects, page>>
      PROVE  CountInv'
  <2> DEFINE rest == Tail(bulk.rest)
             e == rest[1].path
             first == FirstPhase(e, rest[1].visibility)
  <2>1. /\ rest \in Seq(LoopItems) /\ Len(rest) = Len(bulk.rest) - 1
        /\ Len(bulk.rest) \in Nat \ {0}
        /\ \A i \in 1..Len(bulk.rest) - 1 : rest[i] = bulk.rest[i + 1]
    BY <1>1, <1>7, TailFacts
  <2>2. \A i \in 1..Len(rest) :
            rest[i].path \in Entries /\ rest[i].visibility = objects[rest[i].path]
    <3> SUFFICES ASSUME NEW i \in 1..Len(rest)
                 PROVE  rest[i].path \in Entries /\ rest[i].visibility = objects[rest[i].path]
      OBVIOUS
    <3>1. i + 1 \in 1..Len(bulk.rest) /\ rest[i] = bulk.rest[i + 1]
      BY <2>1
    <3> QED BY <1>1, <1>3, <3>1
  <2>3. UNCHANGED <<changes, objects, listed>>
    BY <1>7 DEF page
  <2>4. CASE rest = <<>>
    <3>1. bulk' = [NoBulk EXCEPT !.ok = ok, !.failed = failed, !.got = ok]
      BY <1>7, <2>4 DEF NextItem
    <3>2. bulk'.rest = <<>> /\ bulk'.phase = "idle" /\ bulk'.ok = ok /\ bulk'.got = ok
      BY <3>1 DEF NoBulk
    <3>3. Len(bulk'.rest) = 0
      BY <3>2, EmptySeq
    <3> QED BY <1>1, <2>3, <3>2, <3>3 DEF CountInv
  <2>5. CASE rest # <<>>
    <3>1. bulk' = [phase |-> first, rest |-> rest, ok |-> ok, failed |-> failed,
                   got |-> IF first = "trigger" /\ Served(e, FALSE) THEN ok + 1 ELSE ok]
      BY <1>7, <2>5 DEF NextItem
    <3>2. e \in Entries /\ rest[1].visibility = objects[e]
      BY <2>1, <2>2, <2>5, EmptySeq
    <3>3. first = "trigger" => Served(e, FALSE)
      BY <1>4, <3>2
    <3> HIDE DEF first, e, rest
    <3>4. /\ bulk'.rest = rest /\ bulk'.phase = first /\ bulk'.ok = ok
          /\ bulk'.got = IF first = "trigger" THEN ok + 1 ELSE ok
      BY <3>1, <3>3
    <3> QED BY <1>1, <2>2, <2>3, <3>4 DEF CountInv
  <2> QED BY <2>4, <2>5
<1>8. CASE handleBulkDownload
  <2> DEFINE cap == Captured
             e == cap[1].path
             phase == FirstPhase(e, cap[1].visibility)
  <2>1. /\ selectedEntries # <<>> /\ UNCHANGED <<changes, objects, page>>
        /\ bulk' = [phase |-> phase, rest |-> cap, ok |-> 0, failed |-> 0,
                    got |-> IF phase = "trigger" /\ Served(e, FALSE) THEN 1 ELSE 0]
    BY <1>8 DEF handleBulkDownload
  <2>2. /\ selectedEntries \in Seq(Entries) /\ Len(cap) = Len(selectedEntries)
        /\ \A i \in 1..Len(cap) : /\ cap[i].path = selectedEntries[i]
                                  /\ cap[i].visibility = listed[selectedEntries[i]]
    BY CapturedFacts DEF DownloadsInv
  <2> HIDE DEF cap
  <2>3. /\ Len(cap) \in Nat \ {0}
        /\ \A i \in 1..Len(cap) : cap[i].path \in Entries
                                  /\ cap[i].visibility = objects[cap[i].path]
    BY <1>1, <2>1, <2>2, EmptySeq
  <2>4. phase = "trigger" => Served(e, FALSE)
    <3>1. e \in Entries /\ cap[1].visibility = objects[e]
      BY <2>3
    <3> QED BY <1>4, <3>1
  <2> HIDE DEF phase, e
  <2>5. /\ bulk'.rest = cap /\ bulk'.phase = phase /\ bulk'.ok = 0
        /\ bulk'.got = IF phase = "trigger" THEN bulk'.ok + 1 ELSE bulk'.ok
    <3>1. /\ bulk'.rest = cap /\ bulk'.phase = phase /\ bulk'.ok = 0
          /\ bulk'.got = IF phase = "trigger" /\ Served(e, FALSE) THEN 1 ELSE 0
      BY <2>1
    <3>2. CASE phase = "trigger"
      BY <2>4, <3>1, <3>2
    <3>3. CASE phase # "trigger"
      BY <3>1, <3>3
    <3> QED BY <3>1, <3>2, <3>3
  <2> QED BY <1>1, <2>1, <2>3, <2>5 DEF CountInv, page
<1>9. CASE BulkSigned
  <2>1. /\ bulk.phase = "sign" /\ UNCHANGED <<changes, objects, page>>
        /\ bulk' = [bulk EXCEPT !.phase = "trigger",
                                !.got = IF Served(bulk.rest[1].path, TRUE)
                                        THEN bulk.got + 1 ELSE bulk.got]
    BY <1>9 DEF BulkSigned
  <2>2. bulk.rest[1].path \in Entries
    BY <1>1, <1>3, <2>1, EmptySeq
  <2>3. Served(bulk.rest[1].path, TRUE)
    BY <1>2, <2>2 DEF Served
  <2>4. /\ bulk'.rest = bulk.rest /\ bulk'.phase = "trigger" /\ bulk'.ok = bulk.ok
        /\ bulk'.got = bulk.ok + 1
    BY <1>1, <2>1, <2>3
  <2> QED BY <1>1, <2>1, <2>4 DEF CountInv, page
<1>10. CASE BulkTriggered
  <2>1. /\ bulk.phase = "trigger" /\ UNCHANGED <<changes, objects, page>>
        /\ NextItem(Tail(bulk.rest), bulk.ok + 1, bulk.failed, bulk.got)
    BY <1>10 DEF BulkTriggered
  <2>2. bulk.got = bulk.ok + 1 /\ bulk.ok + 1 \in Nat /\ bulk.phase # "idle"
    BY <1>1, <2>1
  <2> QED BY <1>7, <2>1, <2>2
<1>11. CASE BulkArchived
  <2>1. /\ bulk.phase = "archive" /\ UNCHANGED <<changes, objects, page>>
        /\ NextItem(Tail(bulk.rest), bulk.ok + 1, bulk.failed, bulk.got + 1)
    BY <1>11 DEF BulkArchived
  <2>2. bulk.got + 1 = bulk.ok + 1 /\ bulk.ok + 1 \in Nat /\ bulk.phase # "idle"
    BY <1>1, <2>1
  <2> QED BY <1>7, <2>1, <2>2
<1>12. CASE BulkItemFails
  <2>1. /\ bulk.phase \in {"sign", "archive"} /\ UNCHANGED <<changes, objects, page>>
        /\ NextItem(Tail(bulk.rest), bulk.ok, bulk.failed + 1, bulk.got)
    BY <1>12 DEF BulkItemFails
  <2>2. bulk.got = bulk.ok /\ bulk.ok \in Nat /\ bulk.phase # "idle"
    BY <1>1, <2>1
  <2> QED BY <1>7, <2>1, <2>2
<1> QED BY <1>5, <1>6, <1>8, <1>9, <1>10, <1>11, <1>12
        DEF DownloadsNext, RowNext, BulkNext, PageNext

\* While no other client changes the objects, what a finished bulk download
\* reports as downloaded is what the browser got, whatever else is downloaded
\* beside it, fails or is opened meanwhile (toast.bulkDownloadCompleted).
THEOREM CountIsDelivered ==
    DownloadsAssumption /\ MaxChanges = 0 /\ DownloadsSpec => []CountedDelivered
<1> SUFFICES ASSUME DownloadsAssumption, MaxChanges = 0
             PROVE  DownloadsSpec => []CountedDelivered
  OBVIOUS
<1>1. DownloadsInit => DownloadsInv /\ CountInv
  <2> SUFFICES ASSUME DownloadsInit PROVE DownloadsInv /\ CountInv
    OBVIOUS
  <2>1. /\ bulk.rest = <<>> /\ bulk.phase = "idle" /\ bulk.ok = 0 /\ bulk.got = 0
        /\ Len(<<>>) = 0
    BY EmptySeq DEF DownloadsInit, NoBulk
  <2>2. CountInv
    BY <2>1 DEF DownloadsInit, CountInv
  <2> QED BY <2>2, DownloadsStart
<1>2. DownloadsInv /\ CountInv /\ [DownloadsNext]_downloadVars => DownloadsInv' /\ CountInv'
  BY DownloadsStep, CountStep
<1>3. DownloadsInv /\ CountInv => CountedDelivered
  BY DEF CountInv, CountedDelivered, bulkDownloadPending
<1> QED BY <1>1, <1>2, <1>3, PTL DEF DownloadsSpec
=============================================================================
