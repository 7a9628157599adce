----------------------------- MODULE UploadFlow -----------------------------
(***************************************************************************)
(* Uploads from the object explorer: the upload dialog asks the server     *)
(* whether the object exists (HEAD), asks the user before it overwrites,   *)
(* and sends the file; a folder is sent in one request that overwrites;    *)
(* a site is uploaded and published from a dialog of its own.              *)
(*                                                                         *)
(* An upload is a sequence of awaits, and what is read after one of them   *)
(* is the state of the latest render: the folder an object is sent to is   *)
(* the one on the screen when the request starts, not when the user        *)
(* pressed the button.  Other clients write to the bucket all the time.    *)
(***************************************************************************)
EXTENDS Naturals, FiniteSets

CONSTANTS
    Folders,   \* folders of the bucket
    Names,     \* names of files
    Wanders,   \* the user may open another folder while an upload is under way
    NoName

Keys == Folders \X Names
NoKey == <<NoName, NoName>>

ASSUME UploadAssumption ==
    /\ Wanders \in BOOLEAN
    /\ NoName \notin Names \cup Folders
    /\ Folders # {}

VARIABLES
    objs,           \* the objects on the server
    prefix,         \* the folder on the screen
    dialog,         \* the upload dialog: open, and the file chosen
    upload,         \* handleUpload, uploadMutation, handleConfirmOverwriteUpload
    pendingOverwrite,  \* pendingOverwriteUpload: the file and the target named
    folderUpload,   \* the folder upload dialog and its mutation
    site,           \* the upload-and-publish dialog and its mutation
    uploadProgress, \* shared by all of them
    replaced,       \* objects that an object upload overwrote, each with the
                    \* target the user had agreed to overwrite
    landed          \* objects stored, each with the folder the dialog showed

uploadVars == <<objs, prefix, dialog, upload, pendingOverwrite, folderUpload, site,
                uploadProgress, replaced, landed>>

NoUpload == [phase |-> "idle", name |-> NoName, key |-> NoKey, agreed |-> NoKey,
             shown |-> NoName, overwrite |-> FALSE]
NoOverwrite == [name |-> NoName, target |-> NoKey, shown |-> NoName]
Closed == [open |-> FALSE, name |-> NoName]

\* Upload and folder upload wait for every upload, the site dialog only for
\* its own.
uploadPending ==
    \/ upload.phase # "idle"
    \/ folderUpload.phase # "idle"
    \/ site.phase # "idle"

\* A dialog on the screen keeps the page behind it out of reach.
ModalOpen == dialog.open \/ folderUpload.open \/ site.open
                 \/ pendingOverwrite # NoOverwrite

-----------------------------------------------------------------------------
(* The page                                                                *)

\* Folders are opened on the page, or with the browser's history although a
\* dialog is open.
Navigate(f) ==
    /\ f # prefix
    /\ uploadPending \/ ModalOpen => Wanders
    /\ prefix' = f
    /\ UNCHANGED <<objs, dialog, upload, pendingOverwrite, folderUpload, site,
                   uploadProgress, replaced, landed>>

OtherClient(k) ==
    /\ objs' = IF k \in objs THEN objs \ {k} ELSE objs \cup {k}
    /\ UNCHANGED <<prefix, dialog, upload, pendingOverwrite, folderUpload, site,
                   uploadProgress, replaced, landed>>

\* UploadObjectDialog: open it, choose a file, close it again even while the
\* upload is pending; the choice survives until resetDialogState.
setOpen(open) ==
    /\ open # dialog.open
    /\ open => ~uploadPending /\ ~ModalOpen
    /\ pendingOverwrite = NoOverwrite
    /\ dialog' = [dialog EXCEPT !.open = open]
    /\ UNCHANGED <<objs, prefix, upload, pendingOverwrite, folderUpload, site,
                   uploadProgress, replaced, landed>>

setSelectedFile(n) ==
    /\ dialog.open /\ ~uploadPending /\ pendingOverwrite = NoOverwrite
    /\ dialog' = [dialog EXCEPT !.name = n]
    /\ UNCHANGED <<objs, prefix, upload, pendingOverwrite, folderUpload, site,
                   uploadProgress, replaced, landed>>

-----------------------------------------------------------------------------
(* One object                                                              *)

\* handleUpload: the existence check of the key under the folder shown.
handleUpload ==
    /\ dialog.open /\ dialog.name # NoName
    /\ ~uploadPending /\ pendingOverwrite = NoOverwrite
    /\ upload' = [NoUpload EXCEPT !.phase = "checking", !.name = dialog.name,
                                  !.key = <<prefix, dialog.name>>,
                                  !.shown = prefix]
    /\ uploadProgress' = 0
    /\ UNCHANGED <<objs, prefix, dialog, pendingOverwrite, folderUpload, site,
                   replaced, landed>>

\* The server's answer to the check.
checkObjectExists ==
    /\ upload.phase = "checking"
    /\ upload' = [upload EXCEPT !.phase = IF upload.key \in objs THEN "exists"
                                          ELSE "absent"]
    /\ UNCHANGED <<objs, prefix, dialog, pendingOverwrite, folderUpload, site,
                   uploadProgress, replaced, landed>>

\* The check failed: handleUpload returns as if it had uploaded, and the
\* dialog resets.
CheckFails ==
    /\ upload.phase = "checking"
    /\ upload' = NoUpload
    /\ dialog' = Closed
    /\ UNCHANGED <<objs, prefix, pendingOverwrite, folderUpload, site,
                   uploadProgress, replaced, landed>>

\* A conflict: the user is asked about the target that was checked.
ConflictFound ==
    /\ upload.phase = "exists"
    /\ pendingOverwrite' = [name |-> upload.name, target |-> upload.key,
                            shown |-> upload.shown]
    /\ upload' = NoUpload
    /\ UNCHANGED <<objs, prefix, dialog, folderUpload, site, uploadProgress,
                   replaced, landed>>

\* uploadObjectRequest: the key is joined with the folder on the screen.
uploadObjectRequest(name, agreed, shown) ==
    [phase |-> "sending", name |-> name, key |-> <<prefix, name>>,
     agreed |-> agreed, shown |-> shown, overwrite |-> agreed # NoKey]

\* uploadMutation never allows an overwrite.
uploadMutation_Mutant ==
    /\ upload.phase = "absent"
    /\ upload' = [uploadObjectRequest(upload.name, NoKey, upload.shown)
                      EXCEPT !.overwrite = TRUE]
    /\ UNCHANGED <<objs, prefix, dialog, pendingOverwrite, folderUpload, site,
                   uploadProgress, replaced, landed>>

uploadMutation ==
    /\ upload.phase = "absent"
    /\ upload' = uploadObjectRequest(upload.name, NoKey, upload.shown)
    /\ UNCHANGED <<objs, prefix, dialog, pendingOverwrite, folderUpload, site,
                   uploadProgress, replaced, landed>>

\* The overwrite dialog: confirm sends the file again, to the folder on the
\* screen; cancel forgets it and leaves the upload dialog as it was.
handleConfirmOverwriteUpload ==
    /\ pendingOverwrite # NoOverwrite
    /\ upload.phase = "idle"
    /\ upload' = uploadObjectRequest(pendingOverwrite.name, pendingOverwrite.target,
                                     pendingOverwrite.shown)
    /\ pendingOverwrite' = NoOverwrite
    /\ UNCHANGED <<objs, prefix, dialog, folderUpload, site, uploadProgress,
                   replaced, landed>>

handleCancelOverwriteUpload ==
    /\ pendingOverwrite # NoOverwrite
    /\ upload.phase = "idle"
    /\ pendingOverwrite' = NoOverwrite
    /\ uploadProgress' = 0
    /\ UNCHANGED <<objs, prefix, dialog, upload, folderUpload, site, replaced,
                   landed>>

\* onUploadProgress, before the answer.
onProgress ==
    /\ \/ upload.phase = "sending"
       \/ folderUpload.phase = "sending"
       \/ site.phase = "sending"
    /\ uploadProgress' = 1
    /\ UNCHANGED <<objs, prefix, dialog, upload, pendingOverwrite, folderUpload,
                   site, replaced, landed>>

\* The server stores the object, or refuses to overwrite.
ServerStores ==
    /\ upload.phase = "sending"
    /\ IF upload.key \in objs /\ ~upload.overwrite
       THEN /\ upload' = [upload EXCEPT !.phase = "conflict"]
            /\ UNCHANGED <<objs, replaced, landed>>
       ELSE /\ upload' = [upload EXCEPT !.phase = "stored"]
            /\ objs' = objs \cup {upload.key}
            /\ replaced' = IF upload.key \in objs
                           THEN replaced \cup {<<upload.key, upload.agreed>>}
                           ELSE replaced
            /\ landed' = landed \cup {<<upload.key, upload.shown>>}
    /\ UNCHANGED <<prefix, dialog, pendingOverwrite, folderUpload, site,
                   uploadProgress>>

\* The file is stored; the dialog resets when the listing has been fetched.
UploadSucceeds ==
    /\ upload.phase = "stored"
    /\ upload' = [upload EXCEPT !.phase = "settling"]
    /\ uploadProgress' = IF upload.agreed = NoKey THEN 0 ELSE uploadProgress
    /\ dialog' = IF upload.agreed # NoKey THEN Closed ELSE dialog
    /\ UNCHANGED <<objs, prefix, pendingOverwrite, folderUpload, site, replaced,
                   landed>>

UploadSettles ==
    /\ upload.phase = "settling"
    /\ upload' = NoUpload
    /\ dialog' = IF upload.agreed = NoKey THEN Closed ELSE dialog
    /\ uploadProgress' = IF upload.agreed # NoKey THEN 0 ELSE uploadProgress
    /\ UNCHANGED <<objs, prefix, pendingOverwrite, folderUpload, site, replaced,
                   landed>>

\* object_exists: somebody created the object since the check.
UploadConflicts ==
    /\ upload.phase = "conflict"
    /\ upload' = NoUpload
    /\ uploadProgress' = 0
    /\ pendingOverwrite' = [name |-> upload.name, target |-> <<prefix, upload.name>>,
                            shown |-> upload.shown]
    /\ UNCHANGED <<objs, prefix, dialog, folderUpload, site, replaced, landed>>

\* The request fails, or its answer is lost after the server stored the file.
UploadFails ==
    /\ upload.phase \in {"sending", "conflict", "stored"}
    /\ upload' = NoUpload
    /\ uploadProgress' = 0
    /\ UNCHANGED <<objs, prefix, dialog, pendingOverwrite, folderUpload, site,
                   replaced, landed>>

-----------------------------------------------------------------------------
(* A folder, and a site                                                    *)

\* UploadFolderDialog and handleUploadFolder: everything in one request that
\* allows overwriting, to the folder on the screen when it is submitted.
openFolderUpload(open) ==
    /\ open # folderUpload.open
    /\ open => ~uploadPending /\ ~ModalOpen
    /\ folderUpload' = [folderUpload EXCEPT !.open = open]
    /\ UNCHANGED <<objs, prefix, dialog, upload, pendingOverwrite, site,
                   uploadProgress, replaced, landed>>

handleUploadFolder ==
    /\ folderUpload.open /\ ~uploadPending
    /\ folderUpload' = [folderUpload EXCEPT !.phase = "sending", !.at = prefix]
    /\ uploadProgress' = 0
    /\ UNCHANGED <<objs, prefix, dialog, upload, pendingOverwrite, site, replaced,
                   landed>>

FolderStored ==
    /\ folderUpload.phase = "sending"
    /\ objs' = objs \cup ({folderUpload.at} \X Names)
    /\ folderUpload' = [folderUpload EXCEPT !.phase = "stored"]
    /\ UNCHANGED <<prefix, dialog, upload, pendingOverwrite, site, uploadProgress,
                   replaced, landed>>

FolderUploadEnds(succeeds) ==
    /\ folderUpload.phase \in {"sending", "stored"}
    /\ succeeds => folderUpload.phase = "stored"
    /\ folderUpload' = [open |-> IF succeeds THEN FALSE ELSE folderUpload.open,
                        phase |-> "idle", at |-> NoName]
    /\ uploadProgress' = 0
    /\ UNCHANGED <<objs, prefix, dialog, upload, pendingOverwrite, site, replaced,
                   landed>>

\* UploadAndPublishSiteDialog: its value holds the folder it was opened with.
openSite(open) ==
    /\ open # site.open
    /\ open => ~ModalOpen
    /\ site' = [site EXCEPT !.open = open]
    /\ UNCHANGED <<objs, prefix, dialog, upload, pendingOverwrite, folderUpload,
                   uploadProgress, replaced, landed>>

handleUploadAndPublishSite ==
    /\ site.open /\ site.phase = "idle"
    /\ site' = [site EXCEPT !.phase = "sending"]
    /\ UNCHANGED <<objs, prefix, dialog, upload, pendingOverwrite, folderUpload,
                   uploadProgress, replaced, landed>>

SiteEnds(succeeds) ==
    /\ site.phase = "sending"
    /\ site' = [open |-> IF succeeds THEN FALSE ELSE site.open, phase |-> "idle"]
    /\ uploadProgress' = 0
    /\ UNCHANGED <<objs, prefix, dialog, upload, pendingOverwrite, folderUpload,
                   replaced, landed>>

-----------------------------------------------------------------------------
UploadInit ==
    /\ objs \in SUBSET Keys
    /\ prefix \in Folders
    /\ dialog = Closed
    /\ upload = NoUpload
    /\ pendingOverwrite = NoOverwrite
    /\ folderUpload = [open |-> FALSE, phase |-> "idle", at |-> NoName]
    /\ site = [open |-> FALSE, phase |-> "idle"]
    /\ uploadProgress = 0
    /\ replaced = {}
    /\ landed = {}

UploadNext ==
    \/ \E f \in Folders : Navigate(f)
    \/ \E k \in Keys : OtherClient(k)
    \/ \E open \in BOOLEAN : setOpen(open) \/ openFolderUpload(open) \/ openSite(open)
    \/ \E n \in Names \cup {NoName} : setSelectedFile(n)
    \/ handleUpload
    \/ checkObjectExists
    \/ CheckFails
    \/ ConflictFound
    \/ uploadMutation
    \/ handleConfirmOverwriteUpload
    \/ handleCancelOverwriteUpload
    \/ onProgress
    \/ ServerStores
    \/ UploadSucceeds
    \/ UploadSettles
    \/ UploadConflicts
    \/ UploadFails
    \/ handleUploadFolder
    \/ FolderStored
    \/ \E succeeds \in BOOLEAN : FolderUploadEnds(succeeds) \/ SiteEnds(succeeds)
    \/ handleUploadAndPublishSite

UploadSpec == UploadInit /\ [][UploadNext]_uploadVars

-----------------------------------------------------------------------------
(* Properties                                                              *)

\* Every variable has its type, and at most one object upload is between its
\* first request and its end: a question to the user and a request exclude
\* each other.
UploadTypeOK ==
    /\ objs \subseteq Keys
    /\ prefix \in Folders
    /\ dialog \in [open : BOOLEAN, name : Names \cup {NoName}]
    /\ upload \in [phase : {"idle", "checking", "exists", "absent", "sending",
                            "conflict", "stored", "settling"},
                   name : Names \cup {NoName}, key : Keys \cup {NoKey},
                   agreed : Keys \cup {NoKey}, shown : Folders \cup {NoName},
                   overwrite : BOOLEAN]
    /\ pendingOverwrite \in [name : Names \cup {NoName}, target : Keys \cup {NoKey},
                             shown : Folders \cup {NoName}]
    /\ folderUpload \in [open : BOOLEAN, phase : {"idle", "sending", "stored"},
                         at : Folders \cup {NoName}]
    /\ site \in [open : BOOLEAN, phase : {"idle", "sending"}]
    /\ uploadProgress \in {0, 1}
    /\ replaced \subseteq Keys \X (Keys \cup {NoKey})
    /\ landed \subseteq Keys \X Folders
    /\ upload.phase # "idle" => pendingOverwrite = NoOverwrite

\* No object that exists is overwritten by an object upload unless the user
\* was asked first, also when it was created between the check and the upload.
AskedFirst == \A r \in replaced : r[2] # NoKey

\* The user was asked about the very object that is overwritten.
ConfirmedTarget == \A r \in replaced : r[2] = r[1]

\* An object is stored in the folder that the upload dialog showed as the
\* current folder when it was submitted.
StoredWhereShown == \A l \in landed : l[1][1] = l[2]

\* The progress of an upload that failed or ended is not left behind for the
\* next one, although three kinds of upload share it.
NoStaleProgress == uploadProgress # 0 => uploadPending
=============================================================================
