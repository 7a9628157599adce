---------------------------- MODULE MCManagement ----------------------------
(***************************************************************************)
(* Bounded instances of the management pages: buckets with their pins,     *)
(* sites and settings.  A tab shows one of them at a time and they share   *)
(* no state, so a behaviour plays one scene and the other pages stay in an *)
(* initial state:                                                          *)
(*   "pins"      one service, and the list with its search (constants of   *)
(*               the configuration);                                       *)
(*   "tabs"      a second tab of the browser pins and unpins, and the      *)
(*               storage may fail;                                         *)
(*   "services"  two services with a bucket of the same number each;       *)
(*   "replaced"  a bucket deleted and created again under its name, with   *)
(*               a storage that may fail;                                  *)
(*   "edit"      the form of a site that other clients change;             *)
(*   "upload"    upload-and-publish while buckets come and go;             *)
(*   "writes"    sites created, edited and deleted here;                   *)
(*   "tests"     connection tests, drafts and saves in any order;          *)
(*   "limit"     the storage limit, in tenths of a GiB, saved to the       *)
(*               connection it was shown for.                              *)
(***************************************************************************)
EXTENDS BucketPins, Sites, Settings, TLC

CONSTANTS A, B, r1, r2, c1, c2

VARIABLE scene

MCNames == {"alpha", "beta"}
MCNameOf == 1 :> "alpha" @@ 2 :> "beta"
OneBucket == 1 :> "alpha"
\* 2 is a replacement of 1.
Replaced == 1 :> "alpha" @@ 2 :> "alpha"

TwoServices == INSTANCE BucketPins WITH
    Services <- {A, B}, MaxId <- 1, NameOf <- OneBucket, Searches <- {"full"},
    OthersDelete <- FALSE

OtherTabs == INSTANCE BucketPins WITH
    Searches <- {"full"}, OthersDelete <- FALSE, MaxTabs <- 1,
    StorageFails <- TRUE

Replacement == INSTANCE BucketPins WITH
    NameOf <- Replaced, Searches <- {"full"}, MaxCreates <- 1,
    StorageFails <- TRUE

EditScene == INSTANCE Sites WITH MaxBucket <- 1, Dialogs <- {"s1"}

UploadScene == INSTANCE Sites WITH
    Rests <- {r1}, MaxChanges <- 1, Dialogs <- {"upload"}

WritesScene == INSTANCE Sites WITH
    MaxBucket <- 1, MaxChanges <- 0, Dialogs <- {"create", "s1"}

LimitScene == INSTANCE Settings WITH OthersSave <- FALSE, Switches <- FALSE

ASSUME ScenesAssumption ==
    /\ OtherTabs!PinsAssumption /\ TwoServices!PinsAssumption
    /\ Replacement!PinsAssumption
    /\ EditScene!SitesAssumption /\ UploadScene!SitesAssumption
    /\ WritesScene!SitesAssumption
    /\ LimitScene!SettingsAssumption

-----------------------------------------------------------------------------
PinsStart ==
    \/ scene = "pins" /\ Init
    \/ scene = "tabs" /\ OtherTabs!Init
    \/ scene = "services" /\ TwoServices!Init
    \/ scene = "replaced" /\ Replacement!Init
    \/ /\ scene \notin {"pins", "tabs", "services", "replaced"}
       /\ Init
       /\ \A s \in Services : live[s] = {} /\ stored[s] = <<>>

SitesStart ==
    \/ scene = "edit" /\ EditScene!SitesInit
    \/ scene = "upload" /\ UploadScene!SitesInit
    \/ scene = "writes" /\ WritesScene!SitesInit
    \/ /\ scene \notin {"edit", "upload", "writes"}
       /\ EditScene!SitesInit
       /\ bucket = {} /\ ~bucketList.known

SettingsStart ==
    \/ scene = "tests" /\ SettingsInit
    \/ scene = "limit" /\ LimitScene!SettingsInit
    \/ /\ scene \notin {"tests", "limit"}
       /\ SettingsInit
       /\ settings = NoConn
       /\ \A c \in Conns : limit[c] = 3

ScenesInit ==
    /\ scene \in {"pins", "tabs", "services", "replaced", "edit", "upload",
                  "writes", "tests", "limit"}
    /\ PinsStart /\ SitesStart /\ SettingsStart

PinsPlay ==
    /\ \/ scene = "pins" /\ Next
       \/ scene = "tabs" /\ OtherTabs!Next
       \/ scene = "services" /\ TwoServices!Next
       \/ scene = "replaced" /\ Replacement!Next
    /\ UNCHANGED <<scene, sitesVars, settingsVars>>

SitesPlay ==
    /\ \/ scene = "edit" /\ EditScene!SitesNext
       \/ scene = "upload" /\ UploadScene!SitesNext
       \/ scene = "writes" /\ WritesScene!SitesNext
    /\ UNCHANGED <<scene, vars, settingsVars>>

SettingsPlay ==
    /\ \/ scene = "tests" /\ SettingsNext
       \/ scene = "limit" /\ LimitScene!SettingsNext
    /\ UNCHANGED <<scene, vars, sitesVars>>

ScenesSpec ==
    /\ ScenesInit
    /\ [][PinsPlay \/ SitesPlay \/ SettingsPlay]_<<scene, vars, sitesVars, settingsVars>>

-----------------------------------------------------------------------------
(* The properties of the pages in their scenes; DeletedUnpinned, PinsKept, *)
(* OwnWritesListed, DraftKept and TestOfDraft hold in all of them.         *)

\* The pages are consistent in themselves: every variable has its type; at
\* rest the pins on the screen are the stored ones, although a deletion may
\* outlive the page that sent it (usePinnedBuckets; when the whole list is the
\* only one: its first fetch, which an invalidation joins, then ends before any
\* deletion); an open edit form was filled from the site as the list has it, so
\* saving puts back no value that the list had replaced (SiteFormDialog); the
\* upload form names a bucket that the list still has, although buckets
\* disappear while it is open (UploadAndPublishSiteDialog); the test button is
\* disabled exactly while the answer that will be shown is still to come
\* (handleTestConnection); at rest a limit field that the user did not touch
\* holds the limit of the connected server (storageQuotaMutation).
ManagementSound ==
    /\ scene = "pins" => TypeOK
    /\ scene = "tabs" => OtherTabs!TypeOK /\ PinsShown
    /\ scene = "services" => TwoServices!TypeOK /\ PinsShown
    /\ scene = "replaced" => Replacement!TypeOK /\ PinsShown
    /\ scene = "edit" => EditScene!SitesTypeOK /\ EditScene!BasedOnListing
    /\ scene = "upload" => UploadScene!SitesTypeOK /\ UploadScene!BucketOffered
    /\ scene = "writes" => WritesScene!SitesTypeOK
    /\ scene = "tests" => SettingsTypeOK /\ TestingFlag
    /\ scene = "limit" => LimitScene!SettingsTypeOK /\ LimitScene!LimitShown
=============================================================================
