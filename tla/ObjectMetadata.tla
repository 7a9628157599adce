--------------------------- MODULE ObjectMetadata ---------------------------
(***************************************************************************)
(* The rows that name blobs: the objects of a bucket and its recycle bin,  *)
(* under the transactions of several servers.  One bucket holds one folder *)
(* with its marker and its files; a blob is charged to exactly one row.    *)
(*                                                                         *)
(* A transaction that locks what it reads is one step.  Restore, purge and *)
(* bucket deletion read a snapshot (REPEATABLE READ, the default of MySQL) *)
(* and write to the current rows: they are a step that reads and one that  *)
(* writes, or rolls back.  An insert locks the row of its bucket (foreign  *)
(* key), so that it waits for a deletion of the bucket.                    *)
(***************************************************************************)
EXTENDS Naturals, FiniteSets

CONSTANTS
    Files,      \* keys of the files in the folder
    Marker,     \* key of the folder's marker
    Calls,      \* requests that may be under way together
    MaxBlobs,   \* bound on the uploads
    MaxGroups   \* bound on the deletions, each with its delete_group_id

ObjectKeys == Files \cup {Marker}
NamedBlobs == 1..MaxBlobs
NoBlob == 0     \* the empty storage path

MetadataAssumption == Marker \notin Files /\ MaxBlobs \in Nat /\ MaxGroups \in Nat

ObjectRow == [key : ObjectKeys, blob : NamedBlobs]
BinRow == [group : 1..MaxGroups, key : ObjectKeys, blob : NamedBlobs \cup {NoBlob}]

VARIABLES
    bucket,     \* whether its row is there
    objects,    \* rows of objects
    bin,        \* rows of recycle_bin_objects
    status,     \* of the row in storage_blobs; an active one has ref_count 1
    groups,     \* delete groups made so far
    tx          \* the transactions under way, with what they read

metadataVars == <<bucket, objects, bin, status, groups, tx>>

-----------------------------------------------------------------------------
(* Helpers                                                                 *)

Idle == [kind |-> "none", objs |-> {}, items |-> {}]

\* LockByName of a bucket deletion.
Locked == \E c \in Calls : tx[c].kind = "bucket"
Insertable == bucket /\ ~Locked

\* ReleaseReferences: every path is that of an active blob, as often as its
\* count allows.
Named(rows, b) == Cardinality({r \in rows : r.blob = b})
References(b) == IF status[b] = "active" THEN 1 ELSE 0
CanReleaseRows(objs, items) ==
    \A b \in NamedBlobs : Named(objs, b) + Named(items, b) <= References(b)
Released(objs, items) ==
    [b \in NamedBlobs |-> IF Named(objs, b) + Named(items, b) > 0 THEN "released" ELSE status[b]]

\* recycleBinObjectFromObject.
Binned(o) == [group |-> groups + 1, key |-> o.key, blob |-> o.blob]

\* recycleBinObjectsFromFolderDelete: a folder without a marker object gets a
\* row for one, without a storage path.
FolderRows(objs) ==
    {Binned(o) : o \in objs}
    \cup IF \E o \in objs : o.key = Marker THEN {}
         ELSE {Binned([key |-> Marker, blob |-> NoBlob])}

\* loadRecycleBinActionItems: the whole group for a marker.
ActionItems(i) == IF i.key = Marker THEN {j \in bin : j.group = i.group} ELSE {i}

\* shouldSkipRecycleBinRestoreItem.
RestoreTargets(items) == {i \in items : i.blob # NoBlob}
Restored(items) == {[key |-> i.key, blob |-> i.blob] : i \in RestoreTargets(items)}
Taken(items) == \E o \in objects, i \in RestoreTargets(items) : o.key = i.key

End(c) == tx' = [tx EXCEPT ![c] = Idle]

-----------------------------------------------------------------------------
(* Transactions that lock what they read                                   *)

CreateBucket ==
    /\ ~bucket
    /\ bucket' = TRUE
    /\ UNCHANGED <<objects, bin, status, groups, tx>>

\* The new blob is activated, and the one it replaces released.
Upload(k, allowOverwrite) ==
    LET existing == {o \in objects : o.key = k} IN
    \E b \in NamedBlobs :
        /\ status[b] = "fresh" /\ \A a \in NamedBlobs : a < b => status[a] # "fresh"
        /\ Insertable
        /\ existing = {} \/ allowOverwrite
        /\ CanReleaseRows(existing, {})
        /\ objects' = (objects \ existing) \cup {[key |-> k, blob |-> b]}
        /\ status' = [Released(existing, {}) EXCEPT ![b] = "active"]
        /\ UNCHANGED <<bucket, bin, groups, tx>>

\* Moves the rows to the bin, under a new group.
Move(objs, items) ==
    /\ Insertable
    /\ groups < MaxGroups
    /\ groups' = groups + 1
    /\ bin' = bin \cup items
    /\ objects' = objects \ objs
    /\ UNCHANGED <<bucket, status, tx>>

DeleteObject(o) == o \in objects /\ Move({o}, {Binned(o)})

DeleteFolder(recursive) ==
    /\ objects # {}
    /\ recursive \/ \A o \in objects : o.key = Marker
    /\ Move(objects, IF recursive THEN FolderRows(objects) ELSE {Binned(o) : o \in objects})

-----------------------------------------------------------------------------
(* Transactions with a snapshot                                            *)

Begin(c, kind, objs, items) ==
    /\ tx[c] = Idle
    /\ tx' = [tx EXCEPT ![c] = [kind |-> kind, objs |-> objs, items |-> items]]
    /\ UNCHANGED <<bucket, objects, bin, status, groups>>

\* The item, its group and the keys in use are read; without the bucket, or
\* with a key in use, the request ends here.
RestoreReads(c, i) ==
    /\ i \in bin
    /\ bucket /\ ~Taken(ActionItems(i))
    /\ Begin(c, "restore", {}, ActionItems(i))

PurgeReads(c, i) == i \in bin /\ Begin(c, "purge", {}, ActionItems(i))

\* LockByName comes before the snapshot.
BucketDeleteReads(c) == bucket /\ ~Locked /\ Begin(c, "bucket", objects, bin)

\* The inserts meet the unique key and the foreign key of the current rows,
\* HardDeleteByIDs counts the rows that are still there.
RestoreWrites_Mutant(c) ==
    /\ tx[c].kind = "restore"
    /\ RestoreTargets(tx[c].items) # {} => Insertable
    /\ ~Taken(tx[c].items)
    /\ objects' = objects \cup Restored(tx[c].items)
    /\ bin' = bin \ tx[c].items
    /\ End(c)
    /\ UNCHANGED <<bucket, status, groups>>

RestoreWrites(c) ==
    /\ tx[c].kind = "restore"
    /\ RestoreTargets(tx[c].items) # {} => Insertable
    /\ ~Taken(tx[c].items)
    /\ tx[c].items \subseteq bin
    /\ objects' = objects \cup Restored(tx[c].items)
    /\ bin' = bin \ tx[c].items
    /\ End(c)
    /\ UNCHANGED <<bucket, status, groups>>

PurgeWrites(c) ==
    /\ tx[c].kind = "purge"
    /\ tx[c].items \subseteq bin
    /\ CanReleaseRows({}, tx[c].items)
    /\ bin' = bin \ tx[c].items
    /\ status' = Released({}, tx[c].items)
    /\ End(c)
    /\ UNCHANGED <<bucket, objects, groups>>

\* The rows of the bucket are deleted as they are now, the paths are those of
\* the snapshot.
BucketDeleteWrites(c) ==
    /\ tx[c].kind = "bucket"
    /\ CanReleaseRows(tx[c].objs, tx[c].items)
    /\ bucket' = FALSE
    /\ objects' = {} /\ bin' = {}
    /\ status' = Released(tx[c].objs, tx[c].items)
    /\ End(c)
    /\ UNCHANGED groups

\* A condition of the writes does not hold, a deadlock, a lost connection: the
\* transaction is rolled back.
RollBack(c) ==
    /\ tx[c] # Idle
    /\ End(c)
    /\ UNCHANGED <<bucket, objects, bin, status, groups>>

-----------------------------------------------------------------------------
MetadataInit ==
    /\ bucket = FALSE
    /\ objects = {} /\ bin = {}
    /\ status = [b \in NamedBlobs |-> "fresh"]
    /\ groups = 0
    /\ tx = [c \in Calls |-> Idle]

MetadataNext ==
    \/ CreateBucket
    \/ \E k \in ObjectKeys, overwrite \in BOOLEAN : Upload(k, overwrite)
    \/ \E o \in objects : DeleteObject(o)
    \/ \E recursive \in BOOLEAN : DeleteFolder(recursive)
    \/ \E c \in Calls :
          \/ \E i \in bin : RestoreReads(c, i) \/ PurgeReads(c, i)
          \/ BucketDeleteReads(c)
          \/ RestoreWrites(c) \/ PurgeWrites(c) \/ BucketDeleteWrites(c)
          \/ RollBack(c)

MetadataSpec == MetadataInit /\ [][MetadataNext]_metadataVars

-----------------------------------------------------------------------------
(* Properties                                                              *)

\* Every variable has its type.
MetadataTypeOK ==
    /\ bucket \in BOOLEAN
    /\ objects \subseteq ObjectRow
    /\ bin \subseteq BinRow
    /\ status \in [NamedBlobs -> {"fresh", "active", "released"}]
    /\ groups \in 0..MaxGroups
    /\ \A c \in Calls :
          /\ tx[c].kind \in {"none", "restore", "purge", "bucket"}
          /\ tx[c].objs \subseteq ObjectRow /\ tx[c].items \subseteq BinRow

\* A key is that of one object, and the reference count of a blob is the number
\* of rows that name it: no restore, purge or deletion that read rows which are
\* gone by now leaves an object without its blob, names a blob twice, or leaks
\* one that nothing names (restoreObject, deleteObject, BucketService.Delete).
\* The variables have their types.
ReferencesMatch ==
    /\ MetadataTypeOK
    /\ \A o, p \in objects : o.key = p.key => o = p
    /\ \A b \in NamedBlobs : Named(objects, b) + Named(bin, b) = References(b)
    /\ objects \cup bin # {} => bucket
=============================================================================
