------------------------- MODULE ServerParts_proofs -------------------------
(***************************************************************************)
(* Proofs about four parts of the server that work beside the blobs.       *)
(*                                                                         *)
(* Operations on rows work from snapshots: the rows of objects and of the  *)
(* recycle bin name every blob as often as its reference count says, for   *)
(* every number of files, calls, uploads and deletions.  Counting is done  *)
(* once, in NamedOnce: as long as no two rows of a set share a blob, a     *)
(* count is the answer to whether a row names it, and the rest of the      *)
(* argument is about who names what.  Scans of a root compare files with   *)
(* rows: the second part.  The third is about walks through the pages of a *)
(* folder.  The fourth is about servers that share their token buckets:    *)
(* they count them right and grant no client more than its burst and       *)
(* refill, in any setting of the limiter in which an unused bucket is full *)
(* again before it expires.                                                *)
(***************************************************************************)
EXTENDS ObjectMetadata, Reconciliation, ExplorerPages, SharedRateLimit,
        FiniteSetTheorems, WellFoundedInduction, TLAPS

-----------------------------------------------------------------------------
(* The inductive invariant                                                 *)

Tx == [kind : {"none", "restore", "purge", "bucket"},
       objs : SUBSET ObjectRow, items : SUBSET BinRow]

\* No two rows share a storage path, the empty one apart.
OneEach(rows) == \A r, s \in rows : r.blob = s.blob /\ r.blob # NoBlob => r = s
Names(rows, b) == \E r \in rows : r.blob = b

\* A blob is active as long as a row names it, and an object and a row of the
\* bin never name the same one.
Charged ==
    /\ OneEach(objects) /\ OneEach(bin)
    /\ \A o \in objects, i \in bin : o.blob # i.blob
    /\ \A b \in NamedBlobs : status[b] = "active" <=> Names(objects, b) \/ Names(bin, b)

\* A key is that of one object, and of one row in every group of the bin.
KeysUnique ==
    /\ \A o, p \in objects : o.key = p.key => o = p
    /\ \A i, j \in bin : i.group = j.group /\ i.key = j.key => i = j
    /\ \A i \in bin : i.group <= groups

\* What a snapshot still says of the rows when its transaction writes.  That of
\* a bucket deletion is current for the objects, because an insert waits for the
\* lock; rows may have left the bin meanwhile, and none can have come.
SnapshotSound(c) ==
    /\ OneEach(tx[c].objs) /\ OneEach(tx[c].items)
    /\ tx[c].kind = "restore" =>
          \A i, j \in tx[c].items : i.key = j.key => i = j
    /\ tx[c].kind = "bucket" =>
          /\ bucket /\ tx[c].objs = objects /\ bin \subseteq tx[c].items
          /\ \A d \in Calls : tx[d].kind = "bucket" => d = c

\* The inductive invariant of the object and recycle bin rows.
MetadataInv ==
    /\ MetadataTypeOK /\ tx \in [Calls -> Tx]
    /\ Charged /\ KeysUnique
    /\ \A c \in Calls : SnapshotSound(c)
    /\ objects \cup bin # {} => bucket

-----------------------------------------------------------------------------
(* Counting                                                                *)

\* Rows that share no blob name one at most once.
LEMMA NamedOnce ==
    ASSUME NEW rows, OneEach(rows), NEW b \in NamedBlobs, MetadataAssumption
    PROVE  Named(rows, b) = IF Names(rows, b) THEN 1 ELSE 0
<1>0. b # NoBlob
  BY DEF NamedBlobs, NoBlob, MetadataAssumption
<1>1. CASE Names(rows, b)
  <2>1. PICK r \in rows : r.blob = b
    BY <1>1 DEF Names
  <2>2. {s \in rows : s.blob = b} = {r}
    BY <1>0, <2>1 DEF OneEach
  <2> QED BY <1>1, <2>2, FS_Singleton DEF Named
<1>2. CASE ~Names(rows, b)
  <2>1. {s \in rows : s.blob = b} = {}
    BY <1>2 DEF Names
  <2> QED BY <1>2, <2>1, FS_EmptySet DEF Named
<1> QED BY <1>1, <1>2

\* ReleaseReferences in terms of who names what: it goes through only for blobs
\* that are active, and releases exactly those that are named.
LEMMA ReleaseNamed ==
    ASSUME NEW objs, NEW items, OneEach(objs), OneEach(items), MetadataAssumption
    PROVE  /\ CanReleaseRows(objs, items) =>
                \A b \in NamedBlobs : Names(objs, b) \/ Names(items, b) => status[b] = "active"
           /\ Released(objs, items) =
                [b \in NamedBlobs |-> IF Names(objs, b) \/ Names(items, b)
                                 THEN "released" ELSE status[b]]
<1>1. \A b \in NamedBlobs : /\ Named(objs, b) = IF Names(objs, b) THEN 1 ELSE 0
                       /\ Named(items, b) = IF Names(items, b) THEN 1 ELSE 0
  BY NamedOnce
<1>2. \A b \in NamedBlobs : Named(objs, b) + Named(items, b) > 0
                       <=> Names(objs, b) \/ Names(items, b)
  BY <1>1
<1>3. CanReleaseRows(objs, items) =>
        \A b \in NamedBlobs : Names(objs, b) \/ Names(items, b) => status[b] = "active"
  <2> SUFFICES ASSUME CanReleaseRows(objs, items), NEW b \in NamedBlobs,
                      Names(objs, b) \/ Names(items, b)
               PROVE  status[b] = "active"
    OBVIOUS
  <2> QED BY <1>1 DEF CanReleaseRows, References
<1>4. Released(objs, items) =
        [b \in NamedBlobs |-> IF Names(objs, b) \/ Names(items, b)
                         THEN "released" ELSE status[b]]
  BY <1>2 DEF Released
<1> QED BY <1>3, <1>4

\* The reference counts and the keys are right whenever the invariant holds.
LEMMA MetadataInvMatches ==
    ASSUME MetadataInv, MetadataAssumption
    PROVE  ReferencesMatch
<1>1. \A b \in NamedBlobs : Named(objects, b) + Named(bin, b) = References(b)
  <2> TAKE b \in NamedBlobs
  <2>1. /\ Named(objects, b) = IF Names(objects, b) THEN 1 ELSE 0
        /\ Named(bin, b) = IF Names(bin, b) THEN 1 ELSE 0
    BY NamedOnce DEF MetadataInv, Charged
  <2>2. ~(Names(objects, b) /\ Names(bin, b))
    BY DEF MetadataInv, Charged, Names
  <2>3. status[b] = "active" <=> Names(objects, b) \/ Names(bin, b)
    BY DEF MetadataInv, Charged
  <2> QED BY <2>1, <2>2, <2>3 DEF References
<1> QED BY <1>1 DEF MetadataInv, KeysUnique, ReferencesMatch

-----------------------------------------------------------------------------
(* Transactions under way                                                  *)

\* A step that no bucket deletion waits out, or that only takes rows from the
\* bin, leaves the snapshots as sound as they were.
LEMMA SnapshotsKept ==
    ASSUME MetadataInv, tx' = tx,
           ~Locked \/ (objects' = objects /\ bin' \subseteq bin /\ (bucket => bucket'))
    PROVE  (tx \in [Calls -> Tx])' /\ \A c \in Calls : SnapshotSound(c)'
<1> SUFFICES ASSUME NEW c \in Calls PROVE SnapshotSound(c)'
  BY DEF MetadataInv
<1>1. SnapshotSound(c)
  BY DEF MetadataInv
<1> QED BY <1>1 DEF SnapshotSound, Locked, OneEach

\* The end of a transaction leaves the others as sound as they were; that of a
\* bucket deletion leaves no other one.
LEMMA SnapshotsEnd ==
    ASSUME MetadataInv, NEW c \in Calls, End(c),
           \/ ~Locked
           \/ tx[c].kind = "bucket"
           \/ objects' = objects /\ bin' \subseteq bin /\ bucket' = bucket
    PROVE  (tx \in [Calls -> Tx])' /\ \A d \in Calls : SnapshotSound(d)'
<1>1. tx' = [tx EXCEPT ![c] = Idle] /\ tx \in [Calls -> Tx]
  BY DEF End, MetadataInv
<1>2. Idle \in Tx
  BY DEF Idle, Tx
<1>3. tx' \in [Calls -> Tx]
  BY <1>1, <1>2
<1>4. ASSUME NEW d \in Calls PROVE SnapshotSound(d)'
  <2>1. CASE d = c
    <3>1. tx'[d] = Idle
      BY <1>1, <2>1
    <3> QED BY <3>1 DEF SnapshotSound, Idle, OneEach
  <2>2. CASE d # c
    <3>1. tx'[d] = tx[d] /\ \A e \in Calls : tx'[e] = tx[e] \/ tx'[e].kind = "none"
      BY <1>1, <2>2 DEF Idle
    <3>2. SnapshotSound(d) /\ SnapshotSound(c)
      BY DEF MetadataInv
    <3> QED BY <2>2, <3>1, <3>2 DEF SnapshotSound, Locked, OneEach
  <2> QED BY <2>1, <2>2
<1> QED BY <1>3, <1>4

\* The types that the invariant adds to MetadataTypeOK.
LEMMA TypeFromTx ==
    ASSUME tx \in [Calls -> Tx]
    PROVE  \A c \in Calls :
             /\ tx[c].kind \in {"none", "restore", "purge", "bucket"}
             /\ tx[c].objs \subseteq ObjectRow /\ tx[c].items \subseteq BinRow
BY DEF Tx

-----------------------------------------------------------------------------
(* One lemma per operation                                                 *)

\* Creating the bucket changes no row.
LEMMA CreateBucketSound ==
    ASSUME MetadataInv, CreateBucket PROVE MetadataInv'
<1>1. (tx \in [Calls -> Tx])' /\ \A c \in Calls : SnapshotSound(c)'
  BY SnapshotsKept DEF CreateBucket
<1> QED BY <1>1 DEF CreateBucket, MetadataInv, MetadataTypeOK, Charged, KeysUnique, OneEach, Names

\* An upload names its blob, and no longer the one that it replaces.
LEMMA UploadSound ==
    ASSUME MetadataInv, MetadataAssumption,
           NEW k \in ObjectKeys, NEW overwrite \in BOOLEAN, Upload(k, overwrite)
    PROVE  MetadataInv'
<1> DEFINE existing == {o \in objects : o.key = k}
<1>1. PICK b \in NamedBlobs :
        /\ status[b] = "fresh" /\ Insertable /\ CanReleaseRows(existing, {})
        /\ objects' = (objects \ existing) \cup {[key |-> k, blob |-> b]}
        /\ status' = [Released(existing, {}) EXCEPT ![b] = "active"]
        /\ UNCHANGED <<bucket, bin, groups, tx>>
  BY DEF Upload
<1>2. (tx \in [Calls -> Tx])' /\ \A c \in Calls : SnapshotSound(c)'
  BY <1>1, SnapshotsKept DEF Insertable
<1>3. /\ OneEach(objects) /\ OneEach(bin) /\ MetadataTypeOK
      /\ \A o \in objects, i \in bin : o.blob # i.blob
      /\ \A a \in NamedBlobs : status[a] = "active" <=> Names(objects, a) \/ Names(bin, a)
  BY DEF MetadataInv, Charged
<1>4. OneEach(existing) /\ OneEach({}) /\ \A a \in NamedBlobs : ~Names({}, a)
  BY <1>3 DEF OneEach, Names
<1>5. status' = [a \in NamedBlobs |-> IF a = b THEN "active"
                                 ELSE IF Names(existing, a) THEN "released" ELSE status[a]]
  BY <1>1, <1>4, ReleaseNamed
<1>6. b # NoBlob /\ ~Names(objects, b) /\ ~Names(bin, b)
  BY <1>1, <1>3 DEF NamedBlobs, NoBlob, MetadataAssumption
<1>7. \A a \in NamedBlobs : Names(objects', a) <=>
                         a = b \/ (Names(objects, a) /\ ~Names(existing, a))
  <2> TAKE a \in NamedBlobs
  <2>1. a # NoBlob
    BY DEF NamedBlobs, NoBlob, MetadataAssumption
  <2>2. Names(objects \ existing, a) <=> Names(objects, a) /\ ~Names(existing, a)
    BY <1>3, <2>1 DEF OneEach, Names
  <2>3. \A r : r \in objects' <=> r \in objects \ existing \/ r = [key |-> k, blob |-> b]
    BY <1>1
  <2>4. [key |-> k, blob |-> b].blob = b
    OBVIOUS
  <2>5. Names(objects', a) <=> a = b \/ Names(objects \ existing, a)
    BY <2>3, <2>4 DEF Names
  <2> QED BY <2>2, <2>5
<1>8. bin' = bin
  BY <1>1
<1>9. \A a \in NamedBlobs : ~(Names(existing, a) /\ Names(bin, a))
  BY <1>3 DEF Names
<1>10. \A a \in NamedBlobs : status'[a] = "active" <=> Names(objects', a) \/ Names(bin', a)
  BY <1>3, <1>5, <1>7, <1>8, <1>9
<1>11. OneEach(objects') /\ \A o \in objects', i \in bin' : o.blob # i.blob
  BY <1>1, <1>3, <1>6 DEF OneEach, Names
<1>12. Charged'
  BY <1>1, <1>3, <1>10, <1>11 DEF Charged, OneEach
<1>13. KeysUnique'
  BY <1>1 DEF MetadataInv, KeysUnique
<1>14. MetadataTypeOK'
  <2>1. objects' \subseteq ObjectRow
    BY <1>1, <1>3 DEF MetadataTypeOK, ObjectRow
  <2>2. status' \in [NamedBlobs -> {"fresh", "active", "released"}]
    BY <1>3, <1>5 DEF MetadataTypeOK
  <2> QED BY <1>1, <1>3, <2>1, <2>2 DEF MetadataTypeOK
<1>15. (objects \cup bin # {} => bucket)'
  BY <1>1 DEF Insertable
<1> QED BY <1>2, <1>12, <1>13, <1>14, <1>15 DEF MetadataInv

\* Moving objects to the bin keeps their blobs named: each by a row of the new
\* group, one for every key.
LEMMA MoveSound ==
    ASSUME MetadataInv, MetadataAssumption,
           NEW objs, NEW items, objs \subseteq objects, items \subseteq BinRow,
           Move(objs, items),
           {Binned(o) : o \in objs} \subseteq items,
           \A i \in items :
             \/ \E o \in objs : i = Binned(o)
             \/ /\ i.group = groups + 1 /\ i.key = Marker /\ i.blob = NoBlob
                /\ \A o \in objs : o.key # Marker
                /\ \A j \in items : j.key = Marker => j = i
    PROVE  MetadataInv'
<1>1. /\ Insertable /\ groups < MaxGroups /\ groups' = groups + 1
      /\ bin' = bin \cup items /\ objects' = objects \ objs
      /\ UNCHANGED <<bucket, status, tx>>
  BY DEF Move
<1>2. (tx \in [Calls -> Tx])' /\ \A c \in Calls : SnapshotSound(c)'
  BY <1>1, SnapshotsKept DEF Insertable
<1>3. /\ OneEach(objects) /\ OneEach(bin) /\ MetadataTypeOK
      /\ \A o \in objects, i \in bin : o.blob # i.blob
      /\ \A a \in NamedBlobs : status[a] = "active" <=> Names(objects, a) \/ Names(bin, a)
  BY DEF MetadataInv, Charged
<1>4. \A i \in items : i.group = groups + 1
  BY DEF Binned
<1>5. \A o \in objects : o.blob \in NamedBlobs /\ o.blob # NoBlob
  BY <1>3 DEF MetadataTypeOK, ObjectRow, NamedBlobs, NoBlob, MetadataAssumption
<1>6. \A i \in items : i.blob # NoBlob =>
        \E o \in objs : i = Binned(o) /\ i.blob = o.blob /\ i.key = o.key
  BY DEF Binned
<1>7. OneEach(items)
  BY <1>3, <1>6 DEF OneEach
<1>8. \A i \in items, j \in bin : i.blob = j.blob => i.blob = NoBlob
  BY <1>3, <1>6
<1>9. OneEach(bin')
  BY <1>1, <1>3, <1>7, <1>8 DEF OneEach
<1>10. \A o \in objects', i \in bin' : o.blob # i.blob
  <2> SUFFICES ASSUME NEW o \in objects, o \notin objs, NEW i \in items
               PROVE  o.blob # i.blob
    BY <1>1, <1>3
  <2> QED BY <1>3, <1>5, <1>6 DEF OneEach
<1>11. \A a \in NamedBlobs : /\ Names(objects', a) <=> Names(objects \ objs, a)
                        /\ Names(bin', a) <=> Names(bin, a) \/ Names(objs, a)
  <2> TAKE a \in NamedBlobs
  <2>1. a # NoBlob
    BY DEF NamedBlobs, NoBlob, MetadataAssumption
  <2>2. \A o \in objs : Binned(o) \in items /\ Binned(o).blob = o.blob
    BY DEF Binned
  <2>3. Names(items, a) <=> Names(objs, a)
    BY <1>6, <2>1, <2>2 DEF Names
  <2> QED BY <1>1, <2>3 DEF Names
<1>12. \A a \in NamedBlobs : Names(objects, a) <=> Names(objects \ objs, a) \/ Names(objs, a)
  BY DEF Names
<1>13. \A a \in NamedBlobs : status'[a] = "active" <=> Names(objects', a) \/ Names(bin', a)
  BY <1>1, <1>3, <1>11, <1>12
<1>14. Charged'
  BY <1>1, <1>3, <1>9, <1>10, <1>13 DEF Charged, OneEach
<1>15. \A i, j \in items : i.key = j.key => i = j
  <2> SUFFICES ASSUME NEW i \in items, NEW j \in items, i.key = j.key PROVE i = j
    OBVIOUS
  <2> QED BY DEF Binned, MetadataInv, KeysUnique
<1>16. KeysUnique'
  <2>1. groups \in Nat /\ \A i \in bin : i.group \in Nat /\ i.group <= groups
    BY <1>3 DEF MetadataTypeOK, BinRow, MetadataInv, KeysUnique, MetadataAssumption
  <2>2. \A i \in items, j \in bin : i.group # j.group
    BY <1>4, <2>1
  <2>3. \A i \in bin' : i.group <= groups'
    BY <1>1, <1>4, <2>1
  <2> QED BY <1>1, <1>15, <2>2, <2>3 DEF MetadataInv, KeysUnique
<1>17. MetadataTypeOK'
  <2>1. bin' \subseteq BinRow
    BY <1>1, <1>3 DEF MetadataTypeOK, BinRow, ObjectKeys, NamedBlobs
  <2>2. groups' \in 0..MaxGroups
    BY <1>1, <1>3 DEF MetadataTypeOK, MetadataAssumption
  <2> QED BY <1>1, <1>3, <2>1, <2>2 DEF MetadataTypeOK
<1>18. (objects \cup bin # {} => bucket)'
  BY <1>1 DEF Insertable
<1> QED BY <1>2, <1>14, <1>16, <1>17, <1>18 DEF MetadataInv

\* The row of the bin for an object has the type of one.
LEMMA BinnedType ==
    ASSUME MetadataInv, MetadataAssumption, groups < MaxGroups, NEW o \in objects
    PROVE  Binned(o) \in BinRow
BY DEF MetadataInv, MetadataAssumption, MetadataTypeOK, ObjectRow, BinRow, Binned

\* Deleting an object moves that one.
LEMMA DeleteObjectSound ==
    ASSUME MetadataInv, MetadataAssumption, NEW o \in objects, DeleteObject(o)
    PROVE  MetadataInv'
<1>1. Move({o}, {Binned(o)}) /\ groups < MaxGroups
  BY DEF DeleteObject, Move
<1>2. {Binned(o)} \subseteq BinRow
  BY <1>1, BinnedType
<1> QED BY <1>1, <1>2, MoveSound

\* Deleting a folder moves all of its objects, and makes a row for the marker
\* when there is no marker object.
LEMMA DeleteFolderSound ==
    ASSUME MetadataInv, MetadataAssumption, NEW recursive \in BOOLEAN,
           DeleteFolder(recursive)
    PROVE  MetadataInv'
<1> DEFINE moved == {Binned(o) : o \in objects}
           mark == Binned([key |-> Marker, blob |-> NoBlob])
<1>1. groups < MaxGroups
  BY DEF DeleteFolder, Move
<1>2. moved \subseteq BinRow
  BY <1>1, BinnedType
<1>3. CASE Move(objects, moved)
  BY <1>2, <1>3, MoveSound
<1>4. CASE Move(objects, moved \cup {mark}) /\ \A o \in objects : o.key # Marker
  <2>1. mark.group = groups + 1 /\ mark.key = Marker /\ mark.blob = NoBlob
    BY DEF Binned
  <2>2. mark \in BinRow
    BY <1>1 DEF MetadataInv, MetadataAssumption, MetadataTypeOK, BinRow, Binned, ObjectKeys
  <2>3. \A j \in moved \cup {mark} : j.key = Marker => j = mark
    BY <1>4 DEF Binned
  <2>4. \A i \in moved \cup {mark} :
          \/ \E o \in objects : i = Binned(o)
          \/ /\ i.group = groups + 1 /\ i.key = Marker /\ i.blob = NoBlob
             /\ \A o \in objects : o.key # Marker
             /\ \A j \in moved \cup {mark} : j.key = Marker => j = i
    BY <1>4, <2>1, <2>3
  <2> HIDE DEF mark
  <2> QED BY <1>2, <1>4, <2>2, <2>4, MoveSound
<1>5. \/ Move(objects, moved)
      \/ Move(objects, moved \cup {mark}) /\ \A o \in objects : o.key # Marker
  BY DEF DeleteFolder, FolderRows
<1> QED BY <1>3, <1>4, <1>5

\* A transaction that begins reads rows as they are, and changes none.
LEMMA BeginSound ==
    ASSUME MetadataInv, NEW c \in Calls, NEW kind \in {"restore", "purge", "bucket"},
           NEW objs \in SUBSET objects, NEW items \in SUBSET bin,
           Begin(c, kind, objs, items),
           kind = "restore" => \A i, j \in items : i.key = j.key => i = j,
           kind = "bucket" => bucket /\ ~Locked /\ objs = objects /\ items = bin
    PROVE  MetadataInv'
<1> DEFINE began == [kind |-> kind, objs |-> objs, items |-> items]
<1>1. /\ tx' = [tx EXCEPT ![c] = began] /\ UNCHANGED <<bucket, objects, bin, status, groups>>
      /\ tx \in [Calls -> Tx] /\ tx[c].kind = "none"
  BY DEF Begin, MetadataInv, Idle
<1>2. began \in Tx
  BY DEF MetadataInv, MetadataTypeOK, Tx
<1>3. tx' \in [Calls -> Tx] /\ tx'[c] = began
  BY <1>1, <1>2
<1>4. ASSUME NEW d \in Calls PROVE SnapshotSound(d)'
  <2>1. CASE d = c
    <3>1. OneEach(objs) /\ OneEach(items)
      BY DEF MetadataInv, Charged, OneEach
    <3>2. /\ tx'[d].objs = objs /\ tx'[d].items = items /\ tx'[d].kind = kind
      BY <1>3, <2>1
    <3>3. kind = "bucket" => \A e \in Calls : tx'[e].kind = "bucket" => e = d
      BY <1>1, <2>1 DEF Locked
    <3> QED BY <1>1, <3>1, <3>2, <3>3 DEF SnapshotSound, OneEach
  <2>2. CASE d # c
    <3>1. tx'[d] = tx[d]
      BY <1>1, <2>2
    <3>2. SnapshotSound(d)
      BY DEF MetadataInv
    <3>3. tx[d].kind = "bucket" => \A e \in Calls : tx'[e].kind = "bucket" => e = d
      <4>1. tx[d].kind = "bucket" => kind # "bucket"
        BY DEF Locked
      <4> QED BY <1>1, <3>2, <4>1 DEF SnapshotSound
    <3> QED BY <1>1, <3>1, <3>2, <3>3 DEF SnapshotSound, OneEach
  <2> QED BY <2>1, <2>2
<1>5. MetadataTypeOK'
  BY <1>1, <1>3 DEF MetadataInv, MetadataTypeOK, Tx
<1>6. Charged' /\ KeysUnique' /\ (objects \cup bin # {} => bucket)'
  BY <1>1 DEF MetadataInv, Charged, KeysUnique, OneEach, Names
<1> QED BY <1>3, <1>4, <1>5, <1>6 DEF MetadataInv

\* The rows that a request for an item of the bin acts on are of one group.
LEMMA ReadsSound ==
    ASSUME MetadataInv, NEW c \in Calls, NEW i \in bin
    PROVE  /\ RestoreReads(c, i) => MetadataInv'
           /\ PurgeReads(c, i) => MetadataInv'
<1> DEFINE items == ActionItems(i)
<1>1. items \in SUBSET bin /\ \A j, k \in items : j.key = k.key => j = k
  BY DEF ActionItems, MetadataInv, KeysUnique
<1>2. RestoreReads(c, i) => MetadataInv'
  <2> HIDE DEF items
  <2>1. RestoreReads(c, i) => Begin(c, "restore", {}, items)
    BY DEF RestoreReads, items
  <2> QED BY <1>1, <2>1, BeginSound
<1>3. PurgeReads(c, i) => MetadataInv'
  <2> HIDE DEF items
  <2>1. PurgeReads(c, i) => Begin(c, "purge", {}, items)
    BY DEF PurgeReads, items
  <2> QED BY <1>1, <2>1, BeginSound
<1> QED BY <1>2, <1>3

\* A bucket deletion reads all rows, under the lock.
LEMMA BucketDeleteReadsSound ==
    ASSUME MetadataInv, NEW c \in Calls, BucketDeleteReads(c) PROVE MetadataInv'
BY BeginSound DEF BucketDeleteReads

\* A restore names with objects what the bin named, and no key twice: none of the
\* keys is in use, and the items of a group have one each.
LEMMA RestoreWritesSound ==
    ASSUME MetadataInv, MetadataAssumption, NEW c \in Calls, RestoreWrites(c)
    PROVE  MetadataInv'
<1> DEFINE items == tx[c].items
           back == Restored(items)
<1>1. /\ RestoreTargets(items) # {} => Insertable
      /\ ~Taken(items) /\ items \subseteq bin
      /\ objects' = objects \cup back /\ bin' = bin \ items
      /\ End(c) /\ UNCHANGED <<bucket, status, groups>>
  BY DEF RestoreWrites
<1>2. \A i, j \in items : i.key = j.key => i = j
  BY DEF RestoreWrites, MetadataInv, SnapshotSound
<1>3. /\ OneEach(objects) /\ OneEach(bin) /\ MetadataTypeOK
      /\ \A o \in objects, i \in bin : o.blob # i.blob
      /\ \A a \in NamedBlobs : status[a] = "active" <=> Names(objects, a) \/ Names(bin, a)
  BY DEF MetadataInv, Charged
<1>4. \A o \in back : \E i \in items : /\ i.blob # NoBlob /\ o = [key |-> i.key, blob |-> i.blob]
                                       /\ o.key = i.key /\ o.blob = i.blob
  BY DEF Restored, RestoreTargets
<1>5. \A i \in items : i.blob # NoBlob => \E o \in back : o.blob = i.blob
  <2> SUFFICES ASSUME NEW i \in items, i.blob # NoBlob PROVE \E o \in back : o.blob = i.blob
    OBVIOUS
  <2>1. [key |-> i.key, blob |-> i.blob] \in back
    BY DEF Restored, RestoreTargets
  <2> QED BY <2>1
<1>6. back \subseteq ObjectRow
  BY <1>1, <1>3, <1>4 DEF MetadataTypeOK, BinRow, ObjectRow
<1>7. back = {} \/ Insertable
  BY <1>1 DEF Restored
<1>8. (tx \in [Calls -> Tx])' /\ \A d \in Calls : SnapshotSound(d)'
  <2>1. ~Locked \/ (objects' = objects /\ bin' \subseteq bin /\ bucket' = bucket)
    BY <1>1, <1>7 DEF Insertable
  <2> QED BY <1>1, <2>1, SnapshotsEnd
<1> HIDE DEF items, back
<1>9. OneEach(back)
  <2> SUFFICES ASSUME NEW o \in back, NEW p \in back, o.blob = p.blob PROVE o = p
    BY DEF OneEach
  <2>1. PICK i \in items : i.blob # NoBlob /\ o = [key |-> i.key, blob |-> i.blob]
    BY <1>4
  <2>2. PICK j \in items : j.blob # NoBlob /\ p = [key |-> j.key, blob |-> j.blob]
    BY <1>4
  <2>3. i = j
    BY <1>1, <1>3, <2>1, <2>2 DEF OneEach
  <2> QED BY <2>1, <2>2, <2>3
<1>10. \A o \in objects, p \in back : o.blob # p.blob
  BY <1>1, <1>3, <1>4
<1>11. OneEach(objects') /\ OneEach(bin')
  BY <1>1, <1>3, <1>9, <1>10 DEF OneEach
<1>12. \A o \in objects', i \in bin' : o.blob # i.blob
  <2> SUFFICES ASSUME NEW o \in back, NEW i \in bin, i \notin items PROVE o.blob # i.blob
    BY <1>1, <1>3
  <2> QED BY <1>1, <1>3, <1>4 DEF OneEach
<1>13. \A a \in NamedBlobs : Names(objects', a) \/ Names(bin', a)
                        <=> Names(objects, a) \/ Names(bin, a)
  <2> TAKE a \in NamedBlobs
  <2>1. a # NoBlob
    BY DEF NamedBlobs, NoBlob, MetadataAssumption
  <2>2. Names(objects', a) <=> Names(objects, a) \/ Names(back, a)
    BY <1>1 DEF Names
  <2>3. Names(back, a) <=> Names(items, a)
    BY <1>4, <1>5, <2>1 DEF Names
  <2>4. Names(bin, a) <=> Names(bin', a) \/ Names(items, a)
    BY <1>1 DEF Names
  <2> QED BY <2>2, <2>3, <2>4
<1>14. Charged'
  BY <1>1, <1>3, <1>11, <1>12, <1>13 DEF Charged
<1>15. KeysUnique'
  <2>1. \A o, p \in back : o.key = p.key => o = p
    BY <1>2, <1>4
  <2>2. \A o \in objects, p \in back : o.key # p.key
    <3>1. \A o \in objects, i \in items : i.blob # NoBlob => o.key # i.key
      BY <1>1 DEF Taken, RestoreTargets
    <3> QED BY <1>4, <3>1
  <2>3. \A o, p \in objects' : o.key = p.key => o = p
    BY <1>1, <2>1, <2>2 DEF MetadataInv, KeysUnique
  <2> QED BY <1>1, <2>3 DEF MetadataInv, KeysUnique
<1>16. MetadataTypeOK'
  <2>1. objects' \subseteq ObjectRow /\ bin' \subseteq BinRow
    BY <1>1, <1>3, <1>6 DEF MetadataTypeOK
  <2> QED BY <1>1, <1>3, <1>8, <2>1 DEF MetadataTypeOK, Tx
<1>17. (objects \cup bin # {} => bucket)'
  BY <1>1, <1>7 DEF MetadataInv, Insertable
<1> QED BY <1>8, <1>14, <1>15, <1>16, <1>17 DEF MetadataInv

\* A purge releases the blobs whose rows it removes, and no others.
LEMMA PurgeWritesSound ==
    ASSUME MetadataInv, MetadataAssumption, NEW c \in Calls, PurgeWrites(c)
    PROVE  MetadataInv'
<1> DEFINE items == tx[c].items
<1>1. /\ items \subseteq bin /\ bin' = bin \ items
      /\ status' = Released({}, items) /\ CanReleaseRows({}, items)
      /\ End(c) /\ UNCHANGED <<bucket, objects, groups>>
  BY DEF PurgeWrites
<1>2. (tx \in [Calls -> Tx])' /\ \A d \in Calls : SnapshotSound(d)'
  <2>1. objects' = objects /\ bin' \subseteq bin /\ bucket' = bucket
    BY <1>1
  <2> QED BY <1>1, <2>1, SnapshotsEnd
<1>3. /\ OneEach(objects) /\ OneEach(bin) /\ OneEach(items) /\ OneEach({}) /\ MetadataTypeOK
      /\ \A o \in objects, i \in bin : o.blob # i.blob
      /\ \A a \in NamedBlobs : status[a] = "active" <=> Names(objects, a) \/ Names(bin, a)
  BY DEF MetadataInv, Charged, SnapshotSound, OneEach
<1> HIDE DEF items
<1>4. status' = [a \in NamedBlobs |-> IF Names(items, a) THEN "released" ELSE status[a]]
  <2>1. \A a \in NamedBlobs : ~Names({}, a)
    BY DEF Names
  <2> QED BY <1>1, <1>3, <2>1, ReleaseNamed
<1>5. \A a \in NamedBlobs : /\ Names(bin', a) <=> Names(bin, a) /\ ~Names(items, a)
                       /\ ~(Names(objects, a) /\ Names(items, a))
  <2> TAKE a \in NamedBlobs
  <2>1. a # NoBlob
    BY DEF NamedBlobs, NoBlob, MetadataAssumption
  <2> QED BY <1>1, <1>3, <2>1 DEF Names, OneEach
<1>6. \A a \in NamedBlobs : status'[a] = "active" <=> Names(objects', a) \/ Names(bin', a)
  BY <1>1, <1>3, <1>4, <1>5
<1>7. Charged'
  <2>1. OneEach(objects') /\ OneEach(bin')
    BY <1>1, <1>3 DEF OneEach
  <2> QED BY <1>1, <1>3, <1>6, <2>1 DEF Charged
<1>8. KeysUnique'
  BY <1>1 DEF MetadataInv, KeysUnique
<1>9. MetadataTypeOK'
  <2>1. status' \in [NamedBlobs -> {"fresh", "active", "released"}]
    BY <1>3, <1>4 DEF MetadataTypeOK
  <2> QED BY <1>1, <1>2, <1>3, <2>1 DEF MetadataTypeOK, Tx
<1>10. (objects \cup bin # {} => bucket)'
  BY <1>1 DEF MetadataInv
<1> QED BY <1>2, <1>7, <1>8, <1>9, <1>10 DEF MetadataInv

\* A bucket deletion releases every blob that a row still names: its snapshot has
\* all of the objects and at least the rows of the bin that are left.
LEMMA BucketDeleteWritesSound ==
    ASSUME MetadataInv, MetadataAssumption, NEW c \in Calls, BucketDeleteWrites(c)
    PROVE  MetadataInv'
<1> DEFINE objs == tx[c].objs
           items == tx[c].items
<1>1. /\ tx[c].kind = "bucket" /\ status' = Released(objs, items)
      /\ objects' = {} /\ bin' = {} /\ groups' = groups /\ bucket' = FALSE /\ End(c)
  BY DEF BucketDeleteWrites
<1>2. (tx \in [Calls -> Tx])' /\ \A d \in Calls : SnapshotSound(d)'
  BY <1>1, SnapshotsEnd
<1>3. OneEach(objs) /\ OneEach(items) /\ objs = objects /\ bin \subseteq items
  BY <1>1 DEF MetadataInv, SnapshotSound
<1>4. /\ MetadataTypeOK
      /\ \A a \in NamedBlobs : status[a] = "active" <=> Names(objects, a) \/ Names(bin, a)
  BY DEF MetadataInv, Charged
<1> HIDE DEF objs, items
<1>5. status' = [a \in NamedBlobs |-> IF Names(objs, a) \/ Names(items, a)
                                 THEN "released" ELSE status[a]]
  BY <1>1, <1>3, ReleaseNamed
<1>6. \A a \in NamedBlobs : Names(bin, a) => Names(items, a)
  BY <1>3 DEF Names
<1>7. \A a \in NamedBlobs : status'[a] # "active"
  BY <1>3, <1>4, <1>5, <1>6
<1>8. Charged'
  BY <1>1, <1>7 DEF Charged, OneEach, Names
<1>9. KeysUnique'
  BY <1>1 DEF KeysUnique
<1>10. MetadataTypeOK'
  <2>1. status' \in [NamedBlobs -> {"fresh", "active", "released"}]
    BY <1>4, <1>5 DEF MetadataTypeOK
  <2> QED BY <1>1, <1>2, <1>4, <2>1 DEF MetadataTypeOK, Tx
<1>11. (objects \cup bin # {} => bucket)'
  BY <1>1
<1> QED BY <1>2, <1>8, <1>9, <1>10, <1>11 DEF MetadataInv

\* A transaction that is rolled back changes no row.
LEMMA RollBackSound ==
    ASSUME MetadataInv, NEW c \in Calls, RollBack(c) PROVE MetadataInv'
<1>1. /\ End(c) /\ UNCHANGED <<bucket, objects, bin, status, groups>>
  BY DEF RollBack
<1>2. (tx \in [Calls -> Tx])' /\ \A d \in Calls : SnapshotSound(d)'
  BY <1>1, SnapshotsEnd
<1>3. MetadataTypeOK'
  BY <1>1, <1>2 DEF MetadataInv, MetadataTypeOK, Tx
<1> QED BY <1>1, <1>2, <1>3 DEF MetadataInv, Charged, KeysUnique, OneEach, Names

-----------------------------------------------------------------------------
(* Theorems                                                                *)

\* The inductive invariant holds of every reachable state of the rows.
THEOREM MetadataInvariant ==
    ASSUME MetadataAssumption
    PROVE  MetadataSpec => []MetadataInv
<1>1. MetadataInit => MetadataInv
  <2> SUFFICES ASSUME MetadataInit PROVE MetadataInv
    OBVIOUS
  <2>1. tx \in [Calls -> Tx] /\ \A c \in Calls : tx[c] = Idle
    BY DEF MetadataInit, Idle, Tx
  <2>2. \A c \in Calls : SnapshotSound(c)
    BY <2>1 DEF SnapshotSound, Idle, OneEach
  <2>3. MetadataTypeOK
    <3>1. groups \in 0..MaxGroups
      BY DEF MetadataInit, MetadataAssumption
    <3>2. status \in [NamedBlobs -> {"fresh", "active", "released"}]
      BY DEF MetadataInit
    <3>3. bucket \in BOOLEAN /\ objects \subseteq ObjectRow /\ bin \subseteq BinRow
      BY DEF MetadataInit
    <3> QED BY <2>1, <3>1, <3>2, <3>3, TypeFromTx DEF MetadataTypeOK
  <2>4. Charged /\ KeysUnique
    BY DEF MetadataInit, Charged, KeysUnique, OneEach, Names
  <2> QED BY <2>1, <2>2, <2>3, <2>4 DEF MetadataInit, MetadataInv
<1>2. MetadataInv /\ [MetadataNext]_metadataVars => MetadataInv'
  <2> SUFFICES ASSUME MetadataInv, [MetadataNext]_metadataVars PROVE MetadataInv'
    OBVIOUS
  <2>1. CASE CreateBucket
    BY <2>1, CreateBucketSound
  <2>2. CASE \E k \in ObjectKeys, overwrite \in BOOLEAN : Upload(k, overwrite)
    BY <2>2, UploadSound
  <2>3. CASE \E o \in objects : DeleteObject(o)
    BY <2>3, DeleteObjectSound
  <2>4. CASE \E recursive \in BOOLEAN : DeleteFolder(recursive)
    BY <2>4, DeleteFolderSound
  <2>5. ASSUME NEW c \in Calls, \E i \in bin : RestoreReads(c, i) \/ PurgeReads(c, i)
        PROVE  MetadataInv'
    BY <2>5, ReadsSound
  <2>6. ASSUME NEW c \in Calls, BucketDeleteReads(c) PROVE MetadataInv'
    BY <2>6, BucketDeleteReadsSound
  <2>7. ASSUME NEW c \in Calls, RestoreWrites(c) PROVE MetadataInv'
    BY <2>7, RestoreWritesSound
  <2>8. ASSUME NEW c \in Calls, PurgeWrites(c) PROVE MetadataInv'
    BY <2>8, PurgeWritesSound
  <2>9. ASSUME NEW c \in Calls, BucketDeleteWrites(c) PROVE MetadataInv'
    BY <2>9, BucketDeleteWritesSound
  <2>10. ASSUME NEW c \in Calls, RollBack(c) PROVE MetadataInv'
    BY <2>10, RollBackSound
  <2>11. CASE UNCHANGED metadataVars
    BY <2>11 DEF metadataVars, MetadataInv, MetadataTypeOK, Charged, KeysUnique, SnapshotSound,
                 OneEach, Names
  <2> QED BY <2>1, <2>2, <2>3, <2>4, <2>5, <2>6, <2>7, <2>8, <2>9, <2>10, <2>11 DEF MetadataNext
<1> QED BY <1>1, <1>2, PTL DEF MetadataSpec

\* The reference count of a blob is the number of object and recycle bin rows
\* that name it, whatever restores, purges and bucket deletions made of rows that
\* they had read before (restoreObject, deleteObject, BucketService.Delete).
THEOREM RowsReferencesMatch ==
    ASSUME MetadataAssumption
    PROVE  MetadataSpec => []ReferencesMatch
<1>1. MetadataInv => ReferencesMatch
  BY MetadataInvMatches DEF MetadataInv
<1> QED BY <1>1, MetadataInvariant, PTL

-----------------------------------------------------------------------------
(* Scans.  The reconciliation scan and the deletion of orphans leave the   *)
(* files of live blobs alone, and a reconciled root has no file that the   *)
(* ledger does not name.  A path is that of a stray, or one of the two of  *)
(* a blob: the lemmas on paths say so once, and the rest does not look     *)
(* into a path.                                                            *)

-----------------------------------------------------------------------------
(* The inductive invariant                                                 *)

StrayPaths == Namespaces \X Strays
Running == {"created", "written", "renamed", "aborting"}

\* The row of a blob follows its request and its cleanup.
RowFollows(b) ==
    /\ blobRow[b] = "none" <=> up[b] = "none"
    /\ up[b] \in Running => blobRow[b] = "staging"
    /\ up[b] = "over" => blobRow[b] \in {"active", "pending", "gone"}
    /\ up[b] = "dead" => blobRow[b] \in {"staging", "sealed", "gone"}
    /\ deleting[b] # "nothing" => blobRow[b] \in {"sealed", "pending"}

\* Its files are there only while the row names them, and as far as the request
\* or the cleanup has come.
FilesFollow(b) ==
    /\ Staging(b) \in disk =>
          /\ blobRow[b] \in {"staging", "sealed"} /\ up[b] \in {"written", "dead"}
          /\ deleting[b] = "nothing"
    /\ Object(b) \in disk =>
          /\ blobRow[b] \notin {"none", "gone"} /\ up[b] \in {"renamed", "dead", "over"}
          /\ deleting[b] # "both"
    /\ blobRow[b] = "active" => Object(b) \in disk
    /\ up[b] = "written" => Staging(b) \in disk
    /\ up[b] = "renamed" => Object(b) \in disk

\* A path that the scan is about to register, or has registered, is one that
\* its blob does not use any more: it was seen on disk, so that the blob had a
\* row, and then it was not named by one.
Doomed(p) == orphan[p] # "none" \/ (scan = "register" /\ toWalk = {p})
OrphansUnused(b) ==
    /\ Doomed(Object(b)) => blobRow[b] = "gone"
    /\ Doomed(Staging(b)) => blobRow[b] \in {"active", "pending", "gone"}
    /\ Object(b) \in files \/ Staging(b) \in files => blobRow[b] # "none"

\* A stray that is still there is on the scan's list until it is an orphan.
StrayFollows(p) ==
    /\ orphan[p] = "deleted" => p \notin disk
    /\ p \in disk =>
          /\ p \in tracked \/ reconciled => orphan[p] # "none"
          /\ scan = "walk" => p \in toWalk \/ p \in files \/ orphan[p] # "none"
          /\ scan \in {"check", "register"} => p \in files \/ orphan[p] # "none"

\* The inductive invariant of the scan beside the servers.
ReconciliationInv ==
    /\ ReconciliationTypeOK
    /\ \A b \in BlobIds : RowFollows(b) /\ FilesFollow(b) /\ OrphansUnused(b)
    /\ \A p \in StrayPaths : StrayFollows(p)

-----------------------------------------------------------------------------
(* Paths                                                                   *)

\* The two paths of a blob are paths, and neither is that of another blob or of
\* a stray.
LEMMA BlobPaths ==
    ASSUME ReconciliationAssumption, NEW a \in BlobIds, NEW b \in BlobIds
    PROVE  /\ Object(b) \in Paths /\ Staging(b) \in Paths
           /\ Object(b) \notin StrayPaths /\ Staging(b) \notin StrayPaths
           /\ Object(a) # Staging(b)
           /\ a # b => Object(a) # Object(b) /\ Staging(a) # Staging(b)
BY DEF ReconciliationAssumption, Object, Staging, Paths, Namespaces, StrayPaths

\* There are no other paths.
LEMMA PathKinds ==
    ASSUME NEW p \in Paths
    PROVE  p \in StrayPaths \/ \E b \in BlobIds : p = Object(b) \/ p = Staging(b)
<1>1. PICK n \in Namespaces, x \in BlobIds \cup Strays : p = <<n, x>>
  BY DEF Paths
<1> QED BY <1>1 DEF StrayPaths, Namespaces, Object, Staging

\* A stray is a path.
LEMMA StraysArePaths == StrayPaths \subseteq Paths
BY DEF StrayPaths, Paths

\* What the ledger names: the paths of the rows and those of the orphans.
LEMMA ManagedPaths ==
    ASSUME ReconciliationAssumption
    PROVE  /\ \A b \in BlobIds :
                /\ Object(b) \in StoragePaths
                     <=> blobRow[b] \notin {"none", "gone"} \/ orphan[Object(b)] # "none"
                /\ Object(b) \in Managed
                     <=> blobRow[b] \notin {"none", "gone"} \/ orphan[Object(b)] # "none"
                /\ Staging(b) \in StoragePaths <=> orphan[Staging(b)] # "none"
                /\ Staging(b) \in Managed
                     <=> blobRow[b] \in {"staging", "sealed"} \/ orphan[Staging(b)] # "none"
           /\ \A p \in StrayPaths :
                /\ p \in StoragePaths <=> orphan[p] # "none"
                /\ p \in Managed <=> orphan[p] # "none"
<1>1. ASSUME NEW b \in BlobIds
      PROVE  /\ Object(b) \in StoragePaths
                  <=> blobRow[b] \notin {"none", "gone"} \/ orphan[Object(b)] # "none"
             /\ Staging(b) \in StoragePaths <=> orphan[Staging(b)] # "none"
             /\ Object(b) \notin StagingPaths
             /\ Staging(b) \in StagingPaths <=> blobRow[b] \in {"staging", "sealed"}
  <2> DEFINE RowPaths == {Object(a) : a \in {x \in BlobIds : blobRow[x] \notin {"none", "gone"}}}
             OrphanPaths == {q \in Paths : orphan[q] # "none"}
  <2>1. StoragePaths = RowPaths \cup OrphanPaths
    BY DEF StoragePaths
  <2>2. /\ Object(b) \in RowPaths <=> blobRow[b] \notin {"none", "gone"}
        /\ Staging(b) \notin RowPaths
    BY DEF Object, Staging
  <2>3. Object(b) \in Paths /\ Staging(b) \in Paths
    BY BlobPaths
  <2>4. /\ Object(b) \in OrphanPaths <=> orphan[Object(b)] # "none"
        /\ Staging(b) \in OrphanPaths <=> orphan[Staging(b)] # "none"
    BY <2>3
  <2>5. /\ Object(b) \notin StagingPaths
        /\ Staging(b) \in StagingPaths <=> blobRow[b] \in {"staging", "sealed"}
    BY DEF StagingPaths, Object, Staging
  <2> HIDE DEF RowPaths, OrphanPaths
  <2> QED BY <2>1, <2>2, <2>4, <2>5
<1>2. ASSUME NEW p \in StrayPaths
      PROVE  (p \in StoragePaths <=> orphan[p] # "none") /\ p \notin StagingPaths
  <2>1. p \in Paths /\ \A b \in BlobIds : p # Object(b) /\ p # Staging(b)
    BY BlobPaths, StraysArePaths
  <2> QED BY <2>1 DEF StoragePaths, StagingPaths
<1> QED BY <1>1, <1>2 DEF Managed

-----------------------------------------------------------------------------
(* Steps of the servers                                                    *)

\* A step on behalf of b touches nothing else.
Apart(b) ==
    /\ \A a \in BlobIds : a # b =>
          /\ blobRow'[a] = blobRow[a] /\ up'[a] = up[a] /\ deleting'[a] = deleting[a]
          /\ Object(a) \in disk' <=> Object(a) \in disk
          /\ Staging(a) \in disk' <=> Staging(a) \in disk
    /\ \A p \in StrayPaths : p \in disk' <=> p \in disk
    /\ UNCHANGED <<orphan, reconciled, scan, scanned, scans>>

\* A row never goes back to what it was.
Onward(b) ==
    /\ blobRow[b] # "none" => blobRow'[b] # "none"
    /\ blobRow[b] \in {"active", "pending", "gone"} => blobRow'[b] \in {"active", "pending", "gone"}
    /\ blobRow[b] = "gone" => blobRow'[b] = "gone"

\* It is enough to look at the blob of the step.
LEMMA ServerStep ==
    ASSUME ReconciliationInv, NEW b \in BlobIds, Apart(b), Onward(b),
           ReconciliationTypeOK', RowFollows(b)', FilesFollow(b)'
    PROVE  ReconciliationInv'
<1>1. ASSUME NEW a \in BlobIds
      PROVE  RowFollows(a)' /\ FilesFollow(a)' /\ OrphansUnused(a)'
  <2>1. RowFollows(a) /\ FilesFollow(a) /\ OrphansUnused(a)
    BY DEF ReconciliationInv
  <2>2. OrphansUnused(a)'
    BY <2>1 DEF Apart, Onward, OrphansUnused, Doomed, scanned
  <2>3. CASE a = b
    BY <2>2, <2>3
  <2>4. CASE a # b
    <3>1. RowFollows(a)'
      BY <2>1, <2>4 DEF Apart, RowFollows
    <3>2. FilesFollow(a)'
      BY <2>1, <2>4 DEF Apart, FilesFollow
    <3> QED BY <2>2, <3>1, <3>2
  <2> QED BY <2>3, <2>4
<1>2. ASSUME NEW p \in StrayPaths PROVE StrayFollows(p)'
  BY DEF ReconciliationInv, StrayFollows, Apart, scanned
<1> QED BY <1>1, <1>2 DEF ReconciliationInv

\* What happens to the files of b happens to no other.
LEMMA DiskApart ==
    ASSUME ReconciliationAssumption, NEW b \in BlobIds,
           \A p : p \notin {Object(b), Staging(b)} => (p \in disk' <=> p \in disk)
    PROVE  /\ \A a \in BlobIds : a # b =>
                /\ Object(a) \in disk' <=> Object(a) \in disk
                /\ Staging(a) \in disk' <=> Staging(a) \in disk
           /\ \A p \in StrayPaths : p \in disk' <=> p \in disk
BY BlobPaths

\* The upload, from its row to its end.
LEMMA UploadSteps ==
    ASSUME ReconciliationInv, ReconciliationAssumption, NEW b \in BlobIds,
           \/ CreateStaging(b) \/ OpenFile(b) \/ CommitFile(b) \/ Publish(b)
           \/ AbortDelete(b) \/ AbortRelease(b) \/ UploaderCrashes(b)
    PROVE  ReconciliationInv'
<1>1. RowFollows(b) /\ FilesFollow(b) /\ ReconciliationTypeOK
  BY DEF ReconciliationInv
<1>2. Object(b) \in Paths /\ Staging(b) \in Paths /\ Object(b) # Staging(b)
  BY BlobPaths
<1>3. \A p : p \notin {Object(b), Staging(b)} => (p \in disk' <=> p \in disk)
  BY DEF CreateStaging, OpenFile, CommitFile, Publish, AbortDelete, AbortRelease,
         UploaderCrashes
<1>4. /\ \A a \in BlobIds : a # b =>
            blobRow'[a] = blobRow[a] /\ up'[a] = up[a] /\ deleting'[a] = deleting[a]
      /\ UNCHANGED <<orphan, reconciled, scan, scanned, scans>>
  BY <1>1 DEF ReconciliationTypeOK, CreateStaging, OpenFile, CommitFile, Publish, AbortDelete,
              AbortRelease, UploaderCrashes
<1>5. Apart(b)
  BY <1>3, <1>4, DiskApart DEF Apart
<1>6. ReconciliationTypeOK'
  BY <1>1, <1>2 DEF ReconciliationTypeOK, CreateStaging, OpenFile, CommitFile, Publish, AbortDelete,
                    AbortRelease, UploaderCrashes, scanned
<1>7. Onward(b)
  BY <1>1 DEF ReconciliationTypeOK, RowFollows, Running, Onward, CreateStaging, OpenFile,
        CommitFile,
              Publish, AbortDelete, AbortRelease, UploaderCrashes
<1>8. RowFollows(b)'
  BY <1>1 DEF ReconciliationTypeOK, RowFollows, Running, CreateStaging, OpenFile, CommitFile,
        Publish,
              AbortDelete, AbortRelease, UploaderCrashes
<1>9. FilesFollow(b)'
  BY <1>1, <1>2 DEF ReconciliationTypeOK, RowFollows, FilesFollow, Running, CreateStaging, OpenFile,
              CommitFile, Publish, AbortDelete, AbortRelease, UploaderCrashes
<1> QED BY <1>5, <1>6, <1>7, <1>8, <1>9, ServerStep

\* The cleanup of an expired upload or of a purged object.
LEMMA CleanupSteps ==
    ASSUME ReconciliationInv, ReconciliationAssumption, NEW b \in BlobIds,
           \/ EnqueueExpiredStaging(b) \/ ReleaseReferences(b) \/ WorkerDeletesStaging(b)
           \/ WorkerDeletesStorage(b) \/ ServerCompletesCleanup(b)
    PROVE  ReconciliationInv'
<1>1. RowFollows(b) /\ FilesFollow(b) /\ ReconciliationTypeOK
  BY DEF ReconciliationInv
<1>2. Object(b) \in Paths /\ Staging(b) \in Paths /\ Object(b) # Staging(b)
  BY BlobPaths
<1>3. \A p : p \notin {Object(b), Staging(b)} => (p \in disk' <=> p \in disk)
  BY DEF EnqueueExpiredStaging, ReleaseReferences, WorkerDeletesStaging,
         WorkerDeletesStorage, ServerCompletesCleanup
<1>4. /\ \A a \in BlobIds : a # b =>
            blobRow'[a] = blobRow[a] /\ up'[a] = up[a] /\ deleting'[a] = deleting[a]
      /\ UNCHANGED <<orphan, reconciled, scan, scanned, scans>>
  BY <1>1 DEF ReconciliationTypeOK, EnqueueExpiredStaging, ReleaseReferences, WorkerDeletesStaging,
              WorkerDeletesStorage, ServerCompletesCleanup
<1>5. Apart(b)
  BY <1>3, <1>4, DiskApart DEF Apart
<1>6. ReconciliationTypeOK'
  BY <1>1, <1>2 DEF ReconciliationTypeOK, EnqueueExpiredStaging, ReleaseReferences,
                    WorkerDeletesStaging, WorkerDeletesStorage, ServerCompletesCleanup, scanned
<1>7. Onward(b)
  BY <1>1 DEF ReconciliationTypeOK, RowFollows, Running, Onward, EnqueueExpiredStaging, Expired,
              ReleaseReferences, WorkerDeletesStaging, WorkerDeletesStorage,
              ServerCompletesCleanup
<1>8. RowFollows(b)'
  BY <1>1 DEF ReconciliationTypeOK, RowFollows, Running, EnqueueExpiredStaging, Expired,
              ReleaseReferences, WorkerDeletesStaging, WorkerDeletesStorage,
              ServerCompletesCleanup
<1>9. FilesFollow(b)'
  BY <1>1, <1>2 DEF ReconciliationTypeOK, RowFollows, FilesFollow, Running, EnqueueExpiredStaging,
              Expired, ReleaseReferences, WorkerDeletesStaging, WorkerDeletesStorage,
              ServerCompletesCleanup
<1> QED BY <1>5, <1>6, <1>7, <1>8, <1>9, ServerStep

-----------------------------------------------------------------------------
(* Orphans                                                                 *)

\* An orphan is no file that a blob still uses, so that its deletion takes none.
LEMMA OrphanSteps ==
    ASSUME ReconciliationInv, ReconciliationAssumption, NEW p \in Paths,
           OperatorSchedulesCleanup(p) \/ WorkerDeletesOrphan(p) \/ CompleteOrphan(p)
    PROVE  ReconciliationInv'
<1>1. ReconciliationTypeOK /\ orphan[p] # "none" /\ Doomed(p)
  BY DEF ReconciliationInv, OperatorSchedulesCleanup, WorkerDeletesOrphan, CompleteOrphan, Doomed
<1>2. /\ UNCHANGED <<blobRow, up, deleting, reconciled, scan, scanned, scans>>
      /\ \A q \in Paths : q # p => orphan'[q] = orphan[q] /\ (q \in disk' <=> q \in disk)
      /\ disk' \subseteq disk
      /\ orphan'[p] = "none" => orphan[p] = "deleted" /\ disk' = disk
      /\ orphan'[p] = "deleted" => p \notin disk'
      /\ \A q \in Paths : orphan'[q] # "none" => orphan[q] # "none"
      /\ orphan' \in [Paths -> {"none", "orphaned", "pending", "deleted"}]
  BY <1>1 DEF ReconciliationTypeOK, OperatorSchedulesCleanup, WorkerDeletesOrphan,
        CompleteOrphan, server
<1>3. ReconciliationTypeOK'
  BY <1>1, <1>2 DEF ReconciliationTypeOK, scanned
<1>4. ASSUME NEW b \in BlobIds
      PROVE  RowFollows(b)' /\ FilesFollow(b)' /\ OrphansUnused(b)'
  <2>1. RowFollows(b) /\ FilesFollow(b) /\ OrphansUnused(b)
    BY DEF ReconciliationInv
  <2>2. Object(b) \in Paths /\ Staging(b) \in Paths
    BY BlobPaths
  <2>3. p = Object(b) => Object(b) \notin disk
    BY <1>1, <2>1 DEF OrphansUnused, FilesFollow
  <2>4. p = Staging(b) => Staging(b) \notin disk
    BY <1>1, <2>1 DEF OrphansUnused, FilesFollow
  <2>5. /\ Object(b) \in disk' <=> Object(b) \in disk
        /\ Staging(b) \in disk' <=> Staging(b) \in disk
    BY <1>2, <2>2, <2>3, <2>4
  <2>6. RowFollows(b)'
    BY <1>2, <2>1 DEF RowFollows
  <2>7. FilesFollow(b)'
    BY <1>2, <2>1, <2>5 DEF FilesFollow
  <2>8. OrphansUnused(b)'
    BY <1>2, <2>1, <2>2 DEF OrphansUnused, Doomed, scanned
  <2> QED BY <2>6, <2>7, <2>8
<1>5. ASSUME NEW q \in StrayPaths PROVE StrayFollows(q)'
  <2>1. StrayFollows(q) /\ q \in Paths
    BY StraysArePaths DEF ReconciliationInv
  <2> QED BY <1>2, <2>1 DEF StrayFollows, scanned
<1> QED BY <1>3, <1>4, <1>5 DEF ReconciliationInv

-----------------------------------------------------------------------------
(* The scan                                                                *)

\* The scan leaves the rows and the files of the blobs alone.
LEMMA ScanStep ==
    ASSUME ReconciliationInv, UNCHANGED <<server, disk>>, ReconciliationTypeOK',
           \A b \in BlobIds : OrphansUnused(b)',
           \A p \in StrayPaths : StrayFollows(p)'
    PROVE  ReconciliationInv'
<1>1. ASSUME NEW b \in BlobIds PROVE RowFollows(b)' /\ FilesFollow(b)'
  <2>1. RowFollows(b) /\ FilesFollow(b)
    BY DEF ReconciliationInv
  <2> QED BY <2>1 DEF server, RowFollows, FilesFollow
<1> QED BY <1>1 DEF ReconciliationInv

\* The end of a scan, wherever it comes, leaves nothing of it but the orphans; the
\* mark is set only by a scan that has looked at all files it found.
LEMMA EndSound ==
    ASSUME ReconciliationInv, Ended, UNCHANGED <<server, disk, orphan, scans>>,
           \/ reconciled' = reconciled
           \/ reconciled' = TRUE /\ scan = "check" /\ files = {}
    PROVE  ReconciliationInv'
<1>1. ReconciliationTypeOK'
  BY DEF ReconciliationInv, ReconciliationTypeOK, Ended, server
<1>2. ASSUME NEW b \in BlobIds PROVE OrphansUnused(b)'
  BY DEF ReconciliationInv, OrphansUnused, Doomed, Ended, server
<1>3. ASSUME NEW p \in StrayPaths PROVE StrayFollows(p)'
  BY DEF ReconciliationInv, StrayFollows, Ended
<1> QED BY <1>1, <1>2, <1>3, ScanStep

\* A scan that starts takes the mark away.
LEMMA StartSound ==
    ASSUME ReconciliationInv, Start PROVE ReconciliationInv'
<1>1. ReconciliationTypeOK'
  BY DEF ReconciliationInv, ReconciliationTypeOK, Start, server, scanned
<1>2. ASSUME NEW b \in BlobIds PROVE OrphansUnused(b)'
  BY DEF ReconciliationInv, OrphansUnused, Doomed, Start, server, scanned
<1>3. ASSUME NEW p \in StrayPaths PROVE StrayFollows(p)'
  BY DEF ReconciliationInv, StrayFollows, Start, scanned
<1> QED BY <1>1, <1>2, <1>3, ScanStep DEF Start

\* Only uploads whose process is dead are sealed.
LEMMA SealSound ==
    ASSUME ReconciliationInv, SealExpiredStaging PROVE ReconciliationInv'
<1>1. /\ scan = "seal" /\ scan' = "list"
      /\ blobRow' = [b \in BlobIds |-> IF Expired(b) THEN "sealed" ELSE blobRow[b]]
      /\ UNCHANGED <<up, deleting, disk, orphan, reconciled, scanned, scans>>
  BY DEF SealExpiredStaging
<1>2. ReconciliationTypeOK'
  BY <1>1 DEF ReconciliationInv, ReconciliationTypeOK, scanned
<1>3. ASSUME NEW b \in BlobIds
      PROVE  RowFollows(b)' /\ FilesFollow(b)' /\ OrphansUnused(b)'
  <2>1. RowFollows(b) /\ FilesFollow(b) /\ OrphansUnused(b)
    BY DEF ReconciliationInv
  <2>2. \/ blobRow'[b] = blobRow[b]
        \/ blobRow[b] = "staging" /\ up[b] = "dead" /\ blobRow'[b] = "sealed"
    BY <1>1 DEF Expired
  <2>3. RowFollows(b)'
    BY <1>1, <2>1, <2>2 DEF RowFollows, Running
  <2>4. FilesFollow(b)'
    BY <1>1, <2>1, <2>2 DEF FilesFollow
  <2>5. OrphansUnused(b)'
    BY <1>1, <2>1, <2>2 DEF OrphansUnused, Doomed, scanned
  <2> QED BY <2>3, <2>4, <2>5
<1>4. ASSUME NEW p \in StrayPaths PROVE StrayFollows(p)'
  BY <1>1 DEF ReconciliationInv, StrayFollows, scanned
<1> QED BY <1>2, <1>3, <1>4 DEF ReconciliationInv

\* A stray is listed only as an orphan.
LEMMA ListAllSound ==
    ASSUME ReconciliationInv, ReconciliationAssumption, ListAll PROVE ReconciliationInv'
<1>1. Managed \subseteq Paths
  BY BlobPaths DEF Managed, StoragePaths, StagingPaths
<1>2. ReconciliationTypeOK'
  BY <1>1 DEF ReconciliationInv, ReconciliationTypeOK, ListAll, server
<1>3. ASSUME NEW b \in BlobIds PROVE OrphansUnused(b)'
  BY DEF ReconciliationInv, OrphansUnused, Doomed, ListAll, server
<1>4. ASSUME NEW p \in StrayPaths PROVE StrayFollows(p)'
  <2>1. p \in tracked' <=> orphan[p] # "none"
    BY ManagedPaths DEF ListAll
  <2> QED BY <2>1 DEF ReconciliationInv, StrayFollows, ListAll
<1> QED BY <1>2, <1>3, <1>4, ScanStep DEF ListAll

\* A listed object whose file is there is passed.
LEMMA StatActiveSound ==
    ASSUME ReconciliationInv, NEW b \in BlobIds, StatActive(b) PROVE ReconciliationInv'
<1>1. CASE Ended
  BY <1>1, EndSound DEF StatActive
<1>2. CASE toStat' = toStat \ {b} /\ UNCHANGED <<scan, tracked, toWalk, files>>
  <2>1. ReconciliationTypeOK'
    BY <1>2 DEF ReconciliationInv, ReconciliationTypeOK, StatActive, server
  <2>2. ASSUME NEW a \in BlobIds PROVE OrphansUnused(a)'
    BY <1>2 DEF ReconciliationInv, OrphansUnused, Doomed, StatActive, server
  <2>3. ASSUME NEW p \in StrayPaths PROVE StrayFollows(p)'
    BY <1>2 DEF ReconciliationInv, StrayFollows, StatActive
  <2> QED BY <2>1, <2>2, <2>3, ScanStep DEF StatActive
<1> QED BY <1>1, <1>2 DEF StatActive

\* The walk begins with every path, and what it finds of a blob has a row.
LEMMA WalkSound ==
    ASSUME ReconciliationInv, ReconciliationAssumption,
           StartWalk \/ \E p \in Paths : WalkManaged(p)
    PROVE  ReconciliationInv'
<1>1. CASE StartWalk
  <2>1. ReconciliationTypeOK'
    BY <1>1 DEF ReconciliationInv, ReconciliationTypeOK, StartWalk, server
  <2>2. ASSUME NEW b \in BlobIds PROVE OrphansUnused(b)'
    BY <1>1 DEF ReconciliationInv, OrphansUnused, Doomed, StartWalk, server
  <2>3. ASSUME NEW p \in StrayPaths PROVE StrayFollows(p)'
    BY <1>1, StraysArePaths DEF ReconciliationInv, StrayFollows, StartWalk
  <2> QED BY <1>1, <2>1, <2>2, <2>3, ScanStep DEF StartWalk
<1>2. ASSUME NEW p \in Paths, WalkManaged(p) PROVE ReconciliationInv'
  <2>1. /\ scan = "walk" /\ toWalk' = toWalk \ {p} /\ files' = files \cup ({p} \cap disk)
        /\ scan' = "walk" \/ (scan' = "check" /\ toWalk' = {})
        /\ UNCHANGED <<server, disk, orphan, reconciled, tracked, toStat, scans>>
    BY <1>2 DEF WalkManaged
  <2>2. ReconciliationTypeOK'
    BY <2>1 DEF ReconciliationInv, ReconciliationTypeOK, server
  <2>3. ASSUME NEW b \in BlobIds PROVE OrphansUnused(b)'
    <3>1. FilesFollow(b) /\ OrphansUnused(b)
      BY DEF ReconciliationInv
    <3>2. Object(b) \in files' \/ Staging(b) \in files' => blobRow'[b] # "none"
      BY <2>1, <3>1 DEF FilesFollow, OrphansUnused, server
    <3> QED BY <2>1, <3>1, <3>2 DEF OrphansUnused, Doomed, server
  <2>4. ASSUME NEW q \in StrayPaths PROVE StrayFollows(q)'
    BY <2>1 DEF ReconciliationInv, StrayFollows
  <2> QED BY <2>1, <2>2, <2>3, <2>4, ScanStep
<1> QED BY <1>1, <1>2

\* A file that is found, was not listed and is not named now is that of a stray,
\* or of a blob that has given it up.
LEMMA CheckFileSound ==
    ASSUME ReconciliationInv, ReconciliationAssumption, NEW p \in Paths, CheckFile(p)
    PROVE  ReconciliationInv'
<1>1. /\ scan = "check" /\ p \in files
      /\ UNCHANGED <<server, disk, orphan, reconciled, tracked, toStat, scans>>
  BY DEF CheckFile
<1>2. CASE /\ p \in tracked \cup Managed
           /\ files' = files \ {p} /\ UNCHANGED <<scan, toWalk>>
  <2>1. ReconciliationTypeOK'
    BY <1>1, <1>2 DEF ReconciliationInv, ReconciliationTypeOK, server
  <2>2. ASSUME NEW b \in BlobIds PROVE OrphansUnused(b)'
    BY <1>1, <1>2 DEF ReconciliationInv, OrphansUnused, Doomed, server
  <2>3. ASSUME NEW q \in StrayPaths PROVE StrayFollows(q)'
    <3>1. q = p /\ q \in disk => orphan[q] # "none"
      BY <1>2, ManagedPaths DEF ReconciliationInv, StrayFollows
    <3> QED BY <1>1, <1>2, <3>1 DEF ReconciliationInv, StrayFollows
  <2> QED BY <1>1, <2>1, <2>2, <2>3, ScanStep
<1>3. CASE /\ p \notin Managed
           /\ scan' = "register" /\ toWalk' = {p} /\ files' = files
  <2>1. ReconciliationTypeOK'
    BY <1>1, <1>3 DEF ReconciliationInv, ReconciliationTypeOK, server
  <2>2. ASSUME NEW b \in BlobIds PROVE OrphansUnused(b)'
    <3>1. OrphansUnused(b) /\ ReconciliationTypeOK
      BY DEF ReconciliationInv
    <3>2. p = Object(b) => blobRow[b] = "gone"
      BY <1>1, <1>3, <3>1, ManagedPaths DEF OrphansUnused
    <3>3. p = Staging(b) => blobRow[b] \in {"active", "pending", "gone"}
      BY <1>1, <1>3, <3>1, ManagedPaths DEF OrphansUnused, ReconciliationTypeOK
    <3>4. /\ Doomed(Object(b))' => orphan[Object(b)] # "none" \/ p = Object(b)
          /\ Doomed(Staging(b))' => orphan[Staging(b)] # "none" \/ p = Staging(b)
      BY <1>1, <1>3 DEF Doomed
    <3> QED BY <1>1, <1>3, <3>1, <3>2, <3>3, <3>4 DEF OrphansUnused, Doomed, server
  <2>3. ASSUME NEW q \in StrayPaths PROVE StrayFollows(q)'
    BY <1>1, <1>3 DEF ReconciliationInv, StrayFollows
  <2> QED BY <1>1, <2>1, <2>2, <2>3, ScanStep
<1> QED BY <1>2, <1>3 DEF CheckFile

\* The path that is registered is one that CheckFile has found to be unused.
LEMMA RegisterOrphanSound ==
    ASSUME ReconciliationInv, ReconciliationAssumption, NEW p \in Paths, ScanRegistersOrphan(p)
    PROVE  ReconciliationInv'
<1>1. /\ scan = "register" /\ toWalk = {p} /\ Doomed(p)
      /\ files' = files \ {p} /\ toWalk' = {} /\ scan' = "check"
      /\ UNCHANGED <<server, disk, reconciled, tracked, toStat, scans>>
      /\ \A q \in Paths : q # p => orphan'[q] = orphan[q]
      /\ \/ p \in StoragePaths /\ orphan' = orphan
         \/ p \notin StoragePaths /\ orphan'[p] = "orphaned"
      /\ orphan' \in [Paths -> {"none", "orphaned", "pending", "deleted"}]
  BY DEF ScanRegistersOrphan, Doomed, ReconciliationInv, ReconciliationTypeOK
<1>2. ReconciliationTypeOK'
  BY <1>1 DEF ReconciliationInv, ReconciliationTypeOK, server
<1>3. ASSUME NEW b \in BlobIds PROVE OrphansUnused(b)'
  <2>1. OrphansUnused(b) /\ Object(b) \in Paths /\ Staging(b) \in Paths
    BY BlobPaths DEF ReconciliationInv
  <2>2. /\ Doomed(Object(b))' => Doomed(Object(b))
        /\ Doomed(Staging(b))' => Doomed(Staging(b))
    BY <1>1, <2>1 DEF Doomed
  <2> QED BY <1>1, <2>1, <2>2 DEF OrphansUnused, server
<1>4. ASSUME NEW q \in StrayPaths PROVE StrayFollows(q)'
  <2>1. StrayFollows(q) /\ q \in Paths
    BY StraysArePaths DEF ReconciliationInv
  <2>2. CASE q # p
    BY <1>1, <2>1, <2>2 DEF StrayFollows
  <2>3. CASE q = p
    <3>1. orphan'[q] # "none" /\ (orphan'[q] = "deleted" => orphan[q] = "deleted")
      BY <1>1, <2>3, ManagedPaths
    <3> QED BY <1>1, <2>1, <3>1 DEF StrayFollows
  <2> QED BY <2>2, <2>3
<1> QED BY <1>1, <1>2, <1>3, <1>4, ScanStep

-----------------------------------------------------------------------------
(* Theorems                                                                *)

\* The inductive invariant holds of every reachable state of the scan beside the
\* servers.
THEOREM ReconciliationInvariant ==
    ASSUME ReconciliationAssumption
    PROVE  ReconciliationSpec => []ReconciliationInv
<1>1. ReconciliationInit => ReconciliationInv
  <2> SUFFICES ASSUME ReconciliationInit PROVE ReconciliationInv
    OBVIOUS
  <2>1. disk \subseteq StrayPaths
    BY DEF ReconciliationInit, StrayPaths
  <2>2. ReconciliationTypeOK
    BY <2>1, StraysArePaths DEF ReconciliationInit, ReconciliationTypeOK
  <2>3. ASSUME NEW b \in BlobIds PROVE RowFollows(b) /\ FilesFollow(b) /\ OrphansUnused(b)
    <3>1. Object(b) \notin disk /\ Staging(b) \notin disk
      BY <2>1, BlobPaths
    <3>2. orphan[Object(b)] = "none" /\ orphan[Staging(b)] = "none"
      BY BlobPaths DEF ReconciliationInit
    <3> QED BY <3>1, <3>2 DEF ReconciliationInit, RowFollows, FilesFollow, OrphansUnused,
          Doomed, Running
  <2>4. ASSUME NEW p \in StrayPaths PROVE StrayFollows(p)
    BY StraysArePaths DEF ReconciliationInit, StrayFollows
  <2> QED BY <2>2, <2>3, <2>4 DEF ReconciliationInv
<1>2. ReconciliationInv /\ [ReconciliationNext]_reconciliationVars => ReconciliationInv'
  <2> SUFFICES ASSUME ReconciliationInv, [ReconciliationNext]_reconciliationVars
               PROVE  ReconciliationInv'
    OBVIOUS
  <2>1. CASE ServerNext
    BY <2>1, UploadSteps, CleanupSteps DEF ServerNext
  <2>2. CASE OrphanNext
    BY <2>2, OrphanSteps DEF OrphanNext
  <2>3. CASE ScanNext
    <3>1. CASE Start \/ SealExpiredStaging \/ ListAll
      BY <3>1, StartSound, SealSound, ListAllSound
    <3>2. CASE \E b \in BlobIds : StatActive(b)
      BY <3>2, StatActiveSound
    <3>3. CASE StartWalk \/ \E p \in Paths : WalkManaged(p)
      BY <3>3, WalkSound
    <3>4. CASE \E p \in Paths : CheckFile(p) \/ ScanRegistersOrphan(p)
      BY <3>4, CheckFileSound, RegisterOrphanSound
    <3>5. CASE MarkReconciled \/ ScanFails
      BY <3>5, EndSound DEF MarkReconciled, ScanFails
    <3> QED BY <2>3, <3>1, <3>2, <3>3, <3>4, <3>5 DEF ScanNext
  <2>4. CASE UNCHANGED reconciliationVars
    <3>1. ReconciliationTypeOK'
      BY <2>4 DEF reconciliationVars, server, scanned, ReconciliationInv, ReconciliationTypeOK
    <3>2. ASSUME NEW b \in BlobIds PROVE OrphansUnused(b)'
      BY <2>4 DEF reconciliationVars, server, scanned, ReconciliationInv, OrphansUnused, Doomed
    <3>3. ASSUME NEW p \in StrayPaths PROVE StrayFollows(p)'
      BY <2>4 DEF reconciliationVars, scanned, ReconciliationInv, StrayFollows
    <3> QED BY <2>4, <3>1, <3>2, <3>3, ScanStep DEF reconciliationVars
  <2> QED BY <2>1, <2>2, <2>3, <2>4 DEF ReconciliationNext
<1> QED BY <1>1, <1>2, PTL DEF ReconciliationSpec

\* Whatever the scan takes for an orphan, and whatever the operator then has
\* deleted, an object and an upload that is going on keep their files
\* (reconcileLocked, with the second lookup of ManagedPathExists).
THEOREM ScanLiveFilesKept ==
    ASSUME ReconciliationAssumption
    PROVE  ReconciliationSpec => []LiveFilesKept
<1>1. ReconciliationInv => LiveFilesKept
  BY DEF ReconciliationInv, FilesFollow, LiveFilesKept
<1> QED BY <1>1, ReconciliationInvariant, PTL

\* A reconciled root has no file that the ledger does not name, although uploads,
\* cleanups and scans that died half-way went on meanwhile.
THEOREM ScanReconciledTracked ==
    ASSUME ReconciliationAssumption
    PROVE  ReconciliationSpec => []ReconciledTracked
<1>1. ReconciliationInv => ReconciledTracked
  <2> SUFFICES ASSUME ReconciliationInv, reconciled, NEW p \in disk PROVE p \in Managed
    BY DEF ReconciledTracked
  <2>1. p \in StrayPaths \/ \E b \in BlobIds : p = Object(b) \/ p = Staging(b)
    BY PathKinds DEF ReconciliationInv, ReconciliationTypeOK
  <2>2. CASE p \in StrayPaths
    BY <2>2, ManagedPaths DEF ReconciliationInv, StrayFollows
  <2>3. ASSUME NEW b \in BlobIds, p = Object(b) \/ p = Staging(b) PROVE p \in Managed
    BY <2>3, ManagedPaths DEF ReconciliationInv, FilesFollow
  <2> QED BY <2>1, <2>2, <2>3
<1> QED BY <1>1, ReconciliationInvariant, PTL

-----------------------------------------------------------------------------
(* The order of a folder                                                   *)

Rows == [type : {"directory", "file"}, name : Nat, size : Nat]
Fields == {"name", "size"}
Orders == {"asc", "desc"}

LEMMA EntriesAreRows ==
    /\ AllEntries \subseteq Rows /\ NoEntry \notin Rows
    /\ \A e \in AllEntries, by \in Fields : CursorOf(e, by) \in AllEntries
<1>0. EntryNames \subseteq Nat /\ Directories \subseteq EntryNames /\ MaxEntrySize \in Nat
  BY PagesAssumption
<1>1. AllEntries \subseteq Rows /\ NoEntry \notin Rows
  BY <1>0 DEF AllEntries, Entry, Rows, NoEntry
<1>2. ASSUME NEW e \in AllEntries
      PROVE  [e EXCEPT !.size = 0] \in AllEntries
  <2>1. CASE \E n \in Directories : e = Entry(n, 0)
    <3>1. PICK n \in Directories : e = Entry(n, 0)
      BY <2>1
    <3>2. [e EXCEPT !.size = 0] = e
      BY <3>1 DEF Entry
    <3> QED BY <3>2
  <2>2. CASE \E n \in EntryNames \ Directories, k \in 0..MaxEntrySize : e = Entry(n, k)
    <3>1. PICK n \in EntryNames \ Directories, k \in 0..MaxEntrySize : e = Entry(n, k)
      BY <2>2
    <3>2. [e EXCEPT !.size = 0] = Entry(n, 0)
      BY <3>1 DEF Entry
    <3> QED BY <1>0, <3>2 DEF AllEntries
  <2> QED BY <2>1, <2>2 DEF AllEntries
<1> QED BY <1>1, <1>2 DEF CursorOf

\* compareExplorerEntries is a strict order, total on entries of different
\* names; a cursor stands where its entry stood.
LEMMA PrecedesOrder ==
    ASSUME NEW by \in Fields, NEW order \in Orders, NEW a \in Rows, NEW b \in Rows
    PROVE  /\ ~Precedes(a, a, by, order)
           /\ Precedes(a, b, by, order) => ~Precedes(b, a, by, order)
           /\ a.name # b.name => Precedes(a, b, by, order) \/ Precedes(b, a, by, order)
           /\ Precedes(CursorOf(a, by), b, by, order) <=> Precedes(a, b, by, order)
<1>1. a.type \in {"directory", "file"} /\ b.type \in {"directory", "file"}
      /\ a.name \in Nat /\ b.name \in Nat /\ a.size \in Nat /\ b.size \in Nat
  BY DEF Rows
<1>2. ~Precedes(a, a, by, order)
  BY <1>1 DEF Precedes, Less
<1>3. Precedes(a, b, by, order) => ~Precedes(b, a, by, order)
  BY <1>1 DEF Precedes, Less
<1>4. a.name # b.name => Precedes(a, b, by, order) \/ Precedes(b, a, by, order)
  BY <1>1 DEF Precedes, Less
<1>5. Precedes(CursorOf(a, by), b, by, order) <=> Precedes(a, b, by, order)
  <2>1. CASE by = "size"
    BY <2>1 DEF CursorOf
  <2>2. CASE by = "name"
    <3> DEFINE c == [a EXCEPT !.size = 0]
    <3>1. c.type = a.type /\ c.name = a.name /\ CursorOf(a, by) = c
      BY <2>2 DEF CursorOf, Rows
    <3> HIDE DEF c
    <3> QED BY <2>2, <3>1 DEF Precedes
  <2> QED BY <2>1, <2>2 DEF Fields
<1> QED BY <1>2, <1>3, <1>4, <1>5

LEMMA PrecedesTransitive ==
    ASSUME NEW by \in Fields, NEW order \in Orders,
           NEW a \in Rows, NEW b \in Rows, NEW c \in Rows,
           Precedes(a, b, by, order), Precedes(b, c, by, order)
    PROVE  Precedes(a, c, by, order)
<1>1. /\ a.type \in {"directory", "file"} /\ b.type \in {"directory", "file"}
      /\ c.type \in {"directory", "file"}
      /\ a.name \in Nat /\ b.name \in Nat /\ c.name \in Nat
      /\ a.size \in Nat /\ b.size \in Nat /\ c.size \in Nat
  BY DEF Rows
<1> QED BY <1>1 DEF Precedes, Less

-----------------------------------------------------------------------------
(* Sorting                                                                 *)

LEMMA LeastNumber ==
    ASSUME NEW T, T \subseteq Nat, T # {}
    PROVE  \E x \in T : \A y \in T : x <= y
<1>1. PICK x \in T : \A y \in T : ~(<<y, x>> \in OpToRel(<, Nat))
  BY NatLessThanWellFounded, WFMin
<1>2. ASSUME NEW y \in T, y < x PROVE FALSE
  <2>1. x \in Nat /\ y \in Nat
    OBVIOUS
  <2>2. <<y, x>> \in OpToRel(<, Nat)
    BY <1>2, <2>1 DEF OpToRel
  <2> QED BY <1>1, <2>2
<1>3. x \in Nat /\ \A y \in T : y \in Nat
  OBVIOUS
<1> QED BY <1>2, <1>3

\* The entries of es, each once and in order.
InOrder(q, es, by, order) ==
    /\ q \in [1..Cardinality(es) -> es]
    /\ \A e \in es : \E i \in DOMAIN q : q[i] = e
    /\ \A i, j \in DOMAIN q : i < j => Precedes(q[i], q[j], by, order)

Folder(es) == es \subseteq Rows /\ IsFiniteSet(es) /\ OneOfAName(es)

LEMMA FolderShrinks ==
    ASSUME NEW es, Folder(es), NEW ds \in SUBSET es
    PROVE  Folder(ds)
  BY FS_Subset DEF Folder, OneOfAName

\* A folder that is not empty has a last entry, if its smaller parts can be
\* put in order.
LEMMA LastEntry ==
    ASSUME NEW by \in Fields, NEW order \in Orders, NEW es, Folder(es), es # {},
           \A x \in es : \E q : InOrder(q, es \ {x}, by, order)
    PROVE  \E e \in es : \A d \in es \ {e} : Precedes(d, e, by, order)
<1>1. PICK x \in es : TRUE
  OBVIOUS
<1>2. PICK q : InOrder(q, es \ {x}, by, order)
  OBVIOUS
<1> DEFINE n == Cardinality(es \ {x})
<1>3. n \in Nat /\ (n = 0 <=> es \ {x} = {})
  BY FS_RemoveElement, FS_CardinalityType, FS_EmptySet DEF Folder
<1>4. CASE n = 0
  BY <1>1, <1>3, <1>4
<1>5. CASE n # 0
  <2> DEFINE l == q[n]
  <2>0. n \in 1..n
    <3> HIDE DEF n
    <3> QED BY <1>3, <1>5
  <2>1. n \in DOMAIN q /\ DOMAIN q = 1..n /\ l \in es \ {x}
    BY <1>2, <2>0 DEF InOrder
  <2>2. ASSUME NEW d \in es \ {x}, d # l
        PROVE  Precedes(d, l, by, order)
    <3>1. PICK i \in DOMAIN q : q[i] = d
      BY <1>2 DEF InOrder
    <3>2. i < n
      BY <1>3, <2>1, <2>2, <3>1
    <3> QED BY <1>2, <2>1, <3>1, <3>2 DEF InOrder
  <2>3. x \in Rows /\ l \in Rows /\ x.name # l.name
    BY <2>1 DEF Folder, OneOfAName
  <2>4. CASE Precedes(x, l, by, order)
    BY <2>1, <2>2, <2>4
  <2>5. CASE Precedes(l, x, by, order)
    <3>1. ASSUME NEW d \in es \ {x}
          PROVE  Precedes(d, x, by, order)
      <4>1. d \in Rows
        BY DEF Folder
      <4> QED BY <2>2, <2>3, <2>5, <4>1, PrecedesTransitive
    <3> QED BY <3>1
  <2> QED BY <2>3, <2>4, <2>5, PrecedesOrder
<1> QED BY <1>4, <1>5

\* A part in order, and the last entry after it.
LEMMA LastAdded ==
    ASSUME NEW by \in Fields, NEW order \in Orders, NEW es, Folder(es), NEW e \in es,
           \A d \in es \ {e} : Precedes(d, e, by, order),
           NEW q, InOrder(q, es \ {e}, by, order)
    PROVE  \E r : InOrder(r, es, by, order)
<1> DEFINE m == Cardinality(es \ {e})
           r == [i \in 1..(m + 1) |-> IF i = m + 1 THEN e ELSE q[i]]
<1>1. m \in Nat /\ Cardinality(es) = m + 1
  <2>1. Cardinality(es \ {e}) = Cardinality(es) - 1 /\ Cardinality(es) \in Nat
        /\ Cardinality(es \ {e}) \in Nat
    BY FS_RemoveElement, FS_CardinalityType DEF Folder
  <2> QED BY <2>1
<1>2. /\ q \in [1..m -> es \ {e}] /\ \A d \in es \ {e} : \E i \in 1..m : q[i] = d
      /\ \A i, j \in 1..m : i < j => Precedes(q[i], q[j], by, order)
  BY DEF InOrder
<1> HIDE DEF m
<1>3. /\ r \in [1..(m + 1) -> es] /\ r[m + 1] = e /\ \A i \in 1..m : r[i] = q[i]
      /\ DOMAIN r = 1..(m + 1)
  BY <1>1, <1>2
<1> HIDE DEF r
<1>4. \A d \in es : \E i \in 1..(m + 1) : r[i] = d
  <2>1. 1..m \subseteq 1..(m + 1) /\ m + 1 \in 1..(m + 1)
    BY <1>1
  <2> QED BY <1>2, <1>3, <2>1
<1>5. ASSUME NEW i \in 1..(m + 1), NEW j \in 1..(m + 1), i < j
      PROVE  Precedes(r[i], r[j], by, order)
  <2>1. i \in 1..m /\ (j \in 1..m \/ j = m + 1)
    BY <1>1, <1>5
  <2> QED BY <1>2, <1>3, <1>5, <2>1
<1> QED BY <1>1, <1>3, <1>4, <1>5 DEF InOrder

LEMMA OrderExists ==
    ASSUME NEW by \in Fields, NEW order \in Orders, NEW es, Folder(es)
    PROVE  \E q : InOrder(q, es, by, order)
<1> DEFINE Fails(ds) == ~\E q : InOrder(q, ds, by, order)
           T == {Cardinality(ds) : ds \in {ds \in SUBSET es : Fails(ds)}}
<1> SUFFICES ASSUME T # {} PROVE FALSE
  OBVIOUS
<1>1. ASSUME NEW ds \in SUBSET es
      PROVE  Folder(ds) /\ Cardinality(ds) \in Nat
  BY FolderShrinks, FS_CardinalityType DEF Folder
<1>2. T \subseteq Nat
  BY <1>1
<1>3. PICK n \in T : \A k \in T : n <= k
  BY <1>2, LeastNumber
<1>4. PICK ds \in SUBSET es : Fails(ds) /\ Cardinality(ds) = n
  OBVIOUS
<1>5. CASE ds = {}
  <2>1. InOrder(<<>>, {}, by, order)
    BY FS_EmptySet DEF InOrder
  <2> QED BY <1>4, <1>5, <2>1
<1>6. CASE ds # {}
  <2>1. ASSUME NEW x \in ds
        PROVE  \E q : InOrder(q, ds \ {x}, by, order)
    <3>1. Cardinality(ds \ {x}) = n - 1 /\ n \in Nat /\ ds \ {x} \in SUBSET es
      BY <1>1, <1>4, FS_RemoveElement DEF Folder
    <3>2. n - 1 \notin T
      BY <1>2, <1>3, <3>1
    <3> QED BY <3>1, <3>2
  <2> HIDE DEF Fails
  <2>2. PICK e \in ds : \A d \in ds \ {e} : Precedes(d, e, by, order)
    BY <1>1, <1>6, <2>1, LastEntry
  <2>3. PICK q : InOrder(q, ds \ {e}, by, order)
    BY <2>1
  <2>4. \E r : InOrder(r, ds, by, order)
    BY <1>1, <2>2, <2>3, LastAdded
  <2> QED BY <1>4, <2>4 DEF Fails
<1> QED BY <1>5, <1>6

\* sort.Slice returns the entries of the folder, each once and in order.
LEMMA SortedFacts ==
    ASSUME NEW by \in Fields, NEW order \in Orders, NEW es, Folder(es)
    PROVE  InOrder(Sorted(es, by, order), es, by, order)
<1> DEFINE n == Cardinality(es)
           Sorts(q) == \A i, j \in DOMAIN q :
                           i < j => q[i] # q[j] /\ ~Precedes(q[j], q[i], by, order)
           s == Sorted(es, by, order)
<1>0. n \in Nat /\ es \subseteq Rows
  BY FS_CardinalityType DEF Folder
<1>1. PICK q : InOrder(q, es, by, order)
  BY OrderExists
<1>2. q \in [1..n -> es] /\ Sorts(q)
  <2>1. q \in [1..n -> es]
    BY <1>1 DEF InOrder
  <2>2. ASSUME NEW i \in DOMAIN q, NEW j \in DOMAIN q, i < j
        PROVE  q[i] # q[j] /\ ~Precedes(q[j], q[i], by, order)
    <3>1. Precedes(q[i], q[j], by, order) /\ q[i] \in Rows /\ q[j] \in Rows
      BY <1>0, <1>1, <2>1, <2>2 DEF InOrder
    <3> QED BY <3>1, PrecedesOrder
  <2> QED BY <2>1, <2>2
<1>3. s \in [1..n -> es] /\ Sorts(s)
  <2>1. s = CHOOSE r \in [1..n -> es] : Sorts(r)
    BY DEF Sorted
  <2> HIDE DEF Sorts, s
  <2> QED BY <1>2, <2>1
<1> HIDE DEF s
<1>4. ASSUME NEW i \in 1..n, NEW j \in 1..n, s[i] = s[j]
      PROVE  i = j
  <2>1. DOMAIN s = 1..n /\ i \in Int /\ j \in Int
    BY <1>0, <1>3
  <2>2. ~(i < j) /\ ~(j < i)
    BY <1>3, <1>4, <2>1
  <2> QED BY <2>1, <2>2
<1>5. s \in Injection(1..n, es)
  BY <1>3, <1>4 DEF Injection, IsInjective
<1>6. Cardinality(1..n) = n
  BY <1>0, FS_Interval
<1>7. s \in Surjection(1..n, es)
  BY <1>5, <1>6, FS_Injection DEF Folder
<1>8. \A e \in es : \E i \in 1..n : s[i] = e
  BY <1>7 DEF Surjection
<1>9. ASSUME NEW i \in 1..n, NEW j \in 1..n, i < j
      PROVE  Precedes(s[i], s[j], by, order)
  <2>1. s[i] \in es /\ s[j] \in es /\ s[i] # s[j] /\ ~Precedes(s[j], s[i], by, order)
    BY <1>3, <1>9
  <2>2. s[i] \in Rows /\ s[j] \in Rows /\ s[i].name # s[j].name
    BY <1>0, <2>1 DEF Folder, OneOfAName
  <2> QED BY <2>1, <2>2, PrecedesOrder
<1> QED BY <1>3, <1>8, <1>9 DEF InOrder, s

-----------------------------------------------------------------------------
(* A walk through the pages                                                *)

Once(q, e) == \E i \in DOMAIN q : q[i] = e /\ \A j \in DOMAIN q : q[j] = e => j = i
Nowhere(q, e) == \A i \in DOMAIN q : q[i] # e

\* The entries that a page from this cursor looks at.
After(from, by, order) == {e \in entries : from # NoEntry => Precedes(from, e, by, order)}

LEMMA JoinedPages ==
    ASSUME NEW S, NEW p \in Seq(S), NEW q \in Seq(S), NEW e
    PROVE  /\ Once(p, e) /\ Nowhere(q, e) => Once(p \o q, e)
           /\ Nowhere(p, e) /\ Once(q, e) => Once(p \o q, e)
           /\ Nowhere(p, e) /\ Nowhere(q, e) => Nowhere(p \o q, e)
<1> DEFINE r == p \o q
           m == Len(p)
           n == Len(q)
<1>1. /\ m \in Nat /\ n \in Nat /\ DOMAIN p = 1..m /\ DOMAIN q = 1..n /\ DOMAIN r = 1..(m + n)
      /\ \A i \in 1..m : r[i] = p[i]
      /\ \A i \in 1..n : r[m + i] = q[i]
  OBVIOUS
<1> HIDE DEF r, m, n
<1>2. ASSUME NEW i \in 1..(m + n)
      PROVE  i \in 1..m \/ (i - m \in 1..n /\ i = m + (i - m))
  BY <1>1
<1>3. ASSUME NEW i \in 1..(m + n)
      PROVE  \/ i \in 1..m /\ r[i] = p[i]
             \/ i - m \in 1..n /\ r[i] = q[i - m]
  BY <1>1, <1>2
<1>4. ASSUME Once(p, e), Nowhere(q, e) PROVE Once(r, e)
  <2>1. PICK i \in 1..m : p[i] = e /\ \A j \in 1..m : p[j] = e => j = i
    BY <1>1, <1>4 DEF Once
  <2>2. i \in 1..(m + n) /\ r[i] = e
    BY <1>1, <2>1
  <2>3. ASSUME NEW j \in 1..(m + n), r[j] = e PROVE j = i
    BY <1>1, <1>3, <1>4, <2>1, <2>3 DEF Nowhere
  <2> QED BY <1>1, <2>2, <2>3 DEF Once
<1>5. ASSUME Nowhere(p, e), Once(q, e) PROVE Once(r, e)
  <2>1. PICK i \in 1..n : q[i] = e /\ \A j \in 1..n : q[j] = e => j = i
    BY <1>1, <1>5 DEF Once
  <2>2. m + i \in 1..(m + n) /\ r[m + i] = e
    BY <1>1, <2>1
  <2>3. ASSUME NEW j \in 1..(m + n), r[j] = e PROVE j = m + i
    <3>1. j - m \in 1..n /\ q[j - m] = e
      BY <1>1, <1>3, <1>5, <2>3 DEF Nowhere
    <3>2. j - m = i
      BY <2>1, <3>1
    <3> QED BY <1>1, <3>1, <3>2
  <2> QED BY <1>1, <2>2, <2>3 DEF Once
<1>6. ASSUME Nowhere(p, e), Nowhere(q, e) PROVE Nowhere(r, e)
  BY <1>1, <1>3, <1>6 DEF Nowhere
<1> QED BY <1>4, <1>5, <1>6 DEF r

\* A page lists every entry after the cursor once, or leaves it after the
\* cursor that it gives; it lists no other entry.
LEMMA PageFacts ==
    ASSUME NEW by \in Fields, NEW order \in Orders, Folder(entries), entries \subseteq AllEntries,
           NEW from
    PROVE  LET page == Page(from, by, order)
           IN /\ page.items \in Seq(AllEntries)
              /\ page.next \in AllEntries \cup {NoEntry}
              /\ \A e \in entries \ After(from, by, order) : Nowhere(page.items, e)
              /\ \A e \in After(from, by, order) :
                    IF page.next # NoEntry /\ Precedes(page.next, e, by, order)
                    THEN Nowhere(page.items, e) ELSE Once(page.items, e)
              /\ page.next # NoEntry =>
                    \E e \in After(from, by, order) : page.next = CursorOf(e, by)
<1> DEFINE after == After(from, by, order)
           n == Cardinality(after)
           rest == Sorted(after, by, order)
           page == Page(from, by, order)
<1>0. Limit \in Nat \ {0}
  BY PagesAssumption
<1>1. Folder(after) /\ after \subseteq entries /\ after \subseteq Rows /\ after \subseteq AllEntries
  <2>1. after \in SUBSET entries
    BY DEF After
  <2> QED BY <2>1, FolderShrinks, EntriesAreRows
<1>2. n \in Nat
  BY <1>1, FS_CardinalityType DEF Folder
<1>3. InOrder(rest, after, by, order)
  BY <1>1, SortedFacts
<1>4. /\ page.items = IF Len(rest) > Limit THEN SubSeq(rest, 1, Limit) ELSE rest
      /\ page.next = IF Len(rest) > Limit THEN CursorOf(rest[Limit], by) ELSE NoEntry
  BY DEF Page, After
<1> HIDE DEF page
<1> SUFFICES /\ page.items \in Seq(AllEntries)
             /\ page.next \in AllEntries \cup {NoEntry}
             /\ \A e \in entries \ after : Nowhere(page.items, e)
             /\ \A e \in after :
                   IF page.next # NoEntry /\ Precedes(page.next, e, by, order)
                   THEN Nowhere(page.items, e) ELSE Once(page.items, e)
             /\ page.next # NoEntry => \E e \in after : page.next = CursorOf(e, by)
  BY DEF page
<1> HIDE DEF after, rest, n
<1>5. /\ rest \in [1..n -> after] /\ \A e \in after : \E i \in 1..n : rest[i] = e
      /\ \A i, j \in 1..n : i < j => Precedes(rest[i], rest[j], by, order)
  BY <1>3 DEF InOrder, n
<1>6. rest \in Seq(after) /\ Len(rest) = n /\ rest \in Seq(AllEntries)
  BY <1>1, <1>2, <1>5
<1>7. ASSUME NEW i \in 1..n, NEW j \in 1..n, rest[i] = rest[j]
      PROVE  i = j
  <2>1. rest[i] \in Rows
    BY <1>1, <1>5
  <2>2. ~(i < j) /\ ~(j < i)
    BY <1>5, <1>7, <2>1, PrecedesOrder
  <2> QED BY <1>2, <2>2
<1>8. CASE n > Limit
  <2> DEFINE items == SubSeq(rest, 1, Limit)
             l == rest[Limit]
  <2>1. Limit \in 1..n /\ 1..Limit \subseteq 1..n /\ l \in after
    BY <1>0, <1>2, <1>5, <1>8
  <2>2. /\ items \in Seq(AllEntries) /\ DOMAIN items = 1..Limit
        /\ \A i \in 1..Limit : items[i] = rest[i]
    BY <1>0, <1>2, <1>6, <1>8
  <2>3. page.items = items /\ page.next = CursorOf(l, by)
    BY <1>4, <1>6, <1>8
  <2> HIDE DEF items, l
  <2>4. page.next \in AllEntries /\ page.next # NoEntry
    BY <1>1, <2>1, <2>3, EntriesAreRows
  <2>5. ASSUME NEW e \in entries \ after PROVE Nowhere(items, e)
    BY <1>5, <2>1, <2>2 DEF Nowhere
  <2>6. ASSUME NEW e \in after
        PROVE  IF Precedes(page.next, e, by, order) THEN Nowhere(items, e) ELSE Once(items, e)
    <3>1. PICK i \in 1..n : rest[i] = e
      BY <1>5
    <3>2. Precedes(page.next, e, by, order) <=> Precedes(l, e, by, order)
      BY <1>1, <2>1, <2>3, PrecedesOrder
    <3>3. CASE i <= Limit
      <4>1. ~Precedes(l, e, by, order)
        <5>1. CASE i = Limit
          BY <1>1, <3>1, <5>1, PrecedesOrder DEF l
        <5>2. CASE i < Limit
          <6>1. Precedes(e, l, by, order)
            BY <1>5, <2>1, <3>1, <5>2 DEF l
          <6> QED BY <1>1, <2>1, <6>1, PrecedesOrder
        <5> QED BY <1>0, <3>3, <5>1, <5>2
      <4>2. i \in 1..Limit
        BY <1>0, <3>3
      <4> QED BY <1>7, <2>1, <2>2, <3>1, <3>2, <4>1, <4>2 DEF Once
    <3>4. CASE i > Limit
      <4>1. Precedes(l, e, by, order)
        BY <1>5, <2>1, <3>1, <3>4 DEF l
      <4>2. ASSUME NEW j \in 1..Limit PROVE items[j] # e
        <5>1. j \in 1..n /\ j # i
          BY <1>0, <2>1, <3>4
        <5> QED BY <1>7, <2>2, <3>1, <5>1
      <4> QED BY <2>2, <3>2, <4>1, <4>2 DEF Nowhere
    <3> QED BY <1>0, <3>3, <3>4
  <2> QED BY <2>1, <2>2, <2>3, <2>4, <2>5, <2>6
<1>9. CASE ~(n > Limit)
  <2>1. page.items = rest /\ page.next = NoEntry
    BY <1>4, <1>6, <1>9
  <2>2. \A e \in entries \ after : Nowhere(rest, e)
    BY <1>5 DEF Nowhere
  <2>3. ASSUME NEW e \in after PROVE Once(rest, e)
    <3>1. PICK i \in 1..n : rest[i] = e
      BY <1>5
    <3> QED BY <1>5, <1>7, <3>1 DEF Once
  <2> QED BY <1>6, <2>1, <2>2, <2>3
<1> QED BY <1>8, <1>9

\* Between two pages, the entries that were there all the time and that the
\* cursor does not precede are listed, once each, and the others are not listed.
WalkInv ==
    /\ PagesTypeOK /\ IsFiniteSet(entries)
    /\ walk = "pages" => cursor # NoEntry
    /\ walk # "idle" =>
          \A e \in steady : IF walk = "pages" /\ Precedes(cursor, e, sortBy, sortOrder)
                            THEN Nowhere(listed, e) ELSE Once(listed, e)

LEMMA WalkFolder ==
    ASSUME WalkInv
    PROVE  Folder(entries) /\ entries \subseteq AllEntries
  BY EntriesAreRows DEF WalkInv, PagesTypeOK, Folder

LEMMA WalkBegins ==
    ASSUME WalkInv, NEW by \in Fields, NEW order \in Orders, FirstPage(by, order)
    PROVE  WalkInv'
<1> DEFINE page == Page(NoEntry, by, order)
<1>1. /\ sortBy' = by /\ sortOrder' = order /\ listed' = page.items /\ cursor' = page.next
      /\ steady' = entries /\ walk' = IF page.next = NoEntry THEN "end" ELSE "pages"
      /\ entries' = entries
  BY DEF FirstPage
<1>2. After(NoEntry, by, order) = entries
  BY DEF After
<1>3. /\ page.items \in Seq(AllEntries) /\ page.next \in AllEntries \cup {NoEntry}
      /\ \A e \in entries : IF page.next # NoEntry /\ Precedes(page.next, e, by, order)
                            THEN Nowhere(page.items, e) ELSE Once(page.items, e)
  BY <1>2, WalkFolder, PageFacts
<1> HIDE DEF page
<1>4. PagesTypeOK' /\ IsFiniteSet(entries')
  BY <1>1, <1>3 DEF WalkInv, PagesTypeOK, Fields, Orders
<1> QED BY <1>1, <1>3, <1>4 DEF WalkInv

LEMMA WalkGoesOn ==
    ASSUME WalkInv, NextPage
    PROVE  WalkInv'
<1> DEFINE page == Page(cursor, sortBy, sortOrder)
           after == After(cursor, sortBy, sortOrder)
<1>1. /\ walk = "pages" /\ listed' = listed \o page.items /\ cursor' = page.next
      /\ walk' = IF page.next = NoEntry THEN "end" ELSE "pages"
      /\ UNCHANGED <<entries, sortBy, sortOrder, steady>>
  BY DEF NextPage
<1>2. /\ sortBy \in Fields /\ sortOrder \in Orders /\ cursor \in AllEntries
      /\ cursor \in Rows /\ cursor # NoEntry
      /\ listed \in Seq(AllEntries) /\ steady \subseteq entries
      /\ entries \subseteq AllEntries /\ entries \subseteq Rows
  BY <1>1, EntriesAreRows DEF WalkInv, PagesTypeOK, Fields, Orders
<1>3. /\ page.items \in Seq(AllEntries) /\ page.next \in AllEntries \cup {NoEntry}
      /\ \A e \in entries \ after : Nowhere(page.items, e)
      /\ \A e \in after : IF page.next # NoEntry /\ Precedes(page.next, e, sortBy, sortOrder)
                          THEN Nowhere(page.items, e) ELSE Once(page.items, e)
      /\ page.next # NoEntry => \E e \in after : page.next = CursorOf(e, sortBy)
  BY <1>2, WalkFolder, PageFacts
<1>4. \A e \in entries : e \in after <=> Precedes(cursor, e, sortBy, sortOrder)
  BY <1>2 DEF After
<1> HIDE DEF page, after
<1>5. PagesTypeOK' /\ IsFiniteSet(entries')
  <2>1. listed' \in Seq(AllEntries)
    BY <1>1, <1>2, <1>3
  <2> QED BY <1>1, <1>3, <2>1 DEF WalkInv, PagesTypeOK
\* The new cursor is after the old one.
<1>6. ASSUME NEW e \in steady, page.next # NoEntry, Precedes(page.next, e, sortBy, sortOrder)
      PROVE  e \in after
  <2>1. PICK l \in after : page.next = CursorOf(l, sortBy)
    BY <1>3, <1>6
  <2>2. l \in Rows /\ e \in Rows /\ Precedes(cursor, l, sortBy, sortOrder)
    BY <1>2, <1>4, <2>1 DEF after, After
  <2>3. Precedes(l, e, sortBy, sortOrder)
    BY <1>2, <1>6, <2>1, <2>2, PrecedesOrder
  <2> QED BY <1>2, <1>4, <2>2, <2>3, PrecedesTransitive
<1>7. ASSUME NEW e \in steady
      PROVE  IF page.next # NoEntry /\ Precedes(page.next, e, sortBy, sortOrder)
             THEN Nowhere(listed', e) ELSE Once(listed', e)
  <2>1. CASE e \in after
    <3>1. Nowhere(listed, e)
      BY <1>1, <1>2, <1>4, <2>1 DEF WalkInv
    <3> QED BY <1>1, <1>2, <1>3, <2>1, <3>1, JoinedPages
  <2>2. CASE e \notin after
    <3>1. Once(listed, e) /\ Nowhere(page.items, e)
      BY <1>1, <1>2, <1>3, <1>4, <2>2 DEF WalkInv
    <3> QED BY <1>1, <1>2, <1>3, <1>6, <2>2, <3>1, JoinedPages
  <2> QED BY <2>1, <2>2
<1> QED BY <1>1, <1>3, <1>5, <1>7 DEF WalkInv

LEMMA WalkBesideChanges ==
    ASSUME WalkInv, NEW e \in AllEntries, Put(e) \/ Delete(e)
    PROVE  WalkInv'
<1> DEFINE kept == {d \in entries : d.name # e.name}
<1>1. /\ steady' \subseteq steady /\ steady' \subseteq entries'
      /\ UNCHANGED <<sortBy, sortOrder, cursor, listed, walk>>
      /\ entries' = kept \cup {e} \/ entries' = entries \ {e}
  BY DEF Put, Delete, WalkInv, PagesTypeOK
<1>2. IsFiniteSet(entries')
  <2>1. kept \in SUBSET entries /\ entries \ {e} \in SUBSET entries /\ IsFiniteSet(entries)
    BY DEF WalkInv
  <2> HIDE DEF kept
  <2> QED BY <1>1, <2>1, FS_Subset, FS_AddElement
<1>3. entries' \subseteq AllEntries /\ OneOfAName(entries')
  BY <1>1 DEF WalkInv, PagesTypeOK, OneOfAName
<1>4. PagesTypeOK'
  BY <1>1, <1>3 DEF WalkInv, PagesTypeOK
<1> QED BY <1>1, <1>2, <1>4 DEF WalkInv

LEMMA WalkStarted ==
    ASSUME PagesInit
    PROVE  WalkInv
<1>1. entries \subseteq AllEntries /\ OneOfAName(entries)
  BY DEF PagesInit
<1>2. ASSUME NEW e \in AllEntries PROVE e.name \in EntryNames
  BY PagesAssumption DEF AllEntries, Entry
<1> DEFINE f == [e \in entries |-> e.name]
<1>3. f \in Injection(entries, EntryNames)
  <2>1. f \in [entries -> EntryNames]
    BY <1>1, <1>2
  <2>2. \A a, b \in entries : f[a] = f[b] => a = b
    BY <1>1 DEF OneOfAName
  <2> HIDE DEF f
  <2> QED BY <2>1, <2>2 DEF Injection, IsInjective
<1>4. IsFiniteSet(entries)
  BY <1>3, FS_Injection, PagesAssumption
<1> QED BY <1>1, <1>4 DEF PagesInit, WalkInv, PagesTypeOK

THEOREM WalkInvariant == PagesSpec => []WalkInv
<1>1. PagesInit => WalkInv
  BY WalkStarted
<1>2. WalkInv /\ [PagesNext]_pagesVars => WalkInv'
  <2>1. ASSUME WalkInv, UNCHANGED pagesVars
        PROVE  WalkInv'
    BY <2>1 DEF WalkInv, PagesTypeOK, pagesVars
  <2>2. WalkInv /\ PagesNext => WalkInv'
    BY WalkBegins, WalkGoesOn, WalkBesideChanges DEF PagesNext, Fields, Orders
  <2> QED BY <2>1, <2>2
<1> QED BY <1>1, <1>2, PTL DEF PagesSpec

\* Whatever is created, replaced or deleted between two pages, the entry that
\* the cursor was made of included, an entry that is there from the first page
\* to the last is listed exactly once: for every folder, order and page size
\* (ListExplorerEntries, compareExplorerEntries, explorerCursorFromEntry).
THEOREM WalksComplete == PagesSpec => [](PagesTypeOK /\ WalkComplete)
<1>1. WalkInv => WalkComplete
  <2> SUFFICES ASSUME WalkInv, walk = "end", NEW e \in steady
               PROVE  Cardinality({i \in DOMAIN listed : listed[i] = e}) = 1
    BY DEF WalkComplete
  <2>1. Once(listed, e)
    BY DEF WalkInv
  <2>2. \E i : {j \in DOMAIN listed : listed[j] = e} = {i}
    BY <2>1 DEF Once
  <2> QED BY <2>2, FS_Singleton
<1>2. WalkInv => PagesTypeOK
  BY DEF WalkInv
<1> QED BY <1>1, <1>2, WalkInvariant, PTL

-----------------------------------------------------------------------------
(* Token buckets in the database: the inductive invariant                  *)

\* The tokens that come between two moments.
Refill(t, u) == Rate * (u - t)

\* The requests granted to a client from the i-th one on.
Since(k, i) == Len(granted[k]) - i + 1

\* A bucket holds no more than what the requests since any earlier one have left
\* of the burst and of the refill up to its last use.
BucketSound(k) ==
    /\ buckets[k].tokens \in 0..(Burst - 1)
    /\ buckets[k].refilled \in 0..now
    /\ buckets[k].expires = buckets[k].refilled + TTL
    /\ \A i \in DOMAIN granted[k] :
          /\ granted[k][i] <= buckets[k].refilled
          /\ Since(k, i) + buckets[k].tokens
               <= Burst + Refill(granted[k][i], buckets[k].refilled)

\* A client without a bucket has had the refill alone, so that a full bucket is
\* its due.
NoBucketSound(k) ==
    \A i \in DOMAIN granted[k] :
        granted[k][i] <= now /\ Since(k, i) <= Refill(granted[k][i], now)

ClientSound(k) ==
    /\ k \in DOMAIN buckets => BucketSound(k)
    /\ k \notin DOMAIN buckets => NoBucketSound(k)

Call == [step : {"idle", "update", "insert", "cleanup"}, key : Keys \cup {NoKey}]

CallsTyped ==
    /\ call \in [Servers -> Call]
    /\ \A s \in Servers : call[s].step # "idle" => call[s].key \in Keys
    /\ nextCleanup \in [Servers -> Nat]

\* The inductive invariant of the shared limiter.
LimitsInv ==
    /\ CallsTyped
    /\ now \in 0..MaxTime
    /\ granted \in [Keys -> Seq(Nat)]
    /\ DOMAIN buckets \subseteq Keys /\ IsFiniteSet(DOMAIN buckets)
    /\ EntriesCounted
    /\ \A k \in Keys : ClientSound(k)
    /\ BudgetKept

-----------------------------------------------------------------------------
(* Arithmetic                                                              *)

\* What is refilled is a number of tokens.
LEMMA RefillInt ==
    ASSUME LimitAssumption, NEW t \in Int, NEW u \in Int PROVE Refill(t, u) \in Int
BY DEF LimitAssumption, Refill

\* Tokens are never taken away by the passing of time.
LEMMA RefillNat ==
    ASSUME LimitAssumption, NEW t \in Int, NEW u \in Int, t <= u PROVE Refill(t, u) \in Nat
<1>1. Rate \in Nat
  BY DEF LimitAssumption
<1>2. ASSUME NEW d \in Nat PROVE Rate * d \in Nat
  BY <1>1
<1> QED BY <1>2 DEF Refill

\* Nor do they come in no time.
LEMMA RefillNone ==
    ASSUME LimitAssumption, NEW t \in Int PROVE Refill(t, t) = 0
BY DEF LimitAssumption, Refill

\* What is refilled adds up.
LEMMA RefillAdds ==
    ASSUME LimitAssumption, NEW t \in Int, NEW u \in Int, NEW v \in Int
    PROVE  Refill(t, u) + Refill(u, v) = Refill(t, v)
<1>1. Rate \in Int
  BY DEF LimitAssumption
<1> QED BY <1>1 DEF Refill

\* A bucket that is not used for its TTL is full again.
LEMMA ExpiryRefills ==
    ASSUME LimitAssumption, NEW u \in Int, NEW v \in Int, u + TTL <= v
    PROVE  Burst <= Refill(u, v)
<1>1. Rate \in Nat /\ TTL \in Nat /\ Burst \in Nat /\ Burst <= TTL * Rate
  BY DEF LimitAssumption
<1>2. Refill(u, u + TTL) = TTL * Rate
  BY <1>1 DEF Refill
<1>3. Refill(u, u + TTL) + Refill(u + TTL, v) = Refill(u, v)
  BY <1>1, RefillAdds
<1>4. Refill(u, u + TTL) \in Int /\ Refill(u + TTL, v) \in Nat
  BY <1>1, RefillInt, RefillNat
<1> QED BY <1>1, <1>2, <1>3, <1>4

\* The capped refill of a bucket.
LEMMA RefilledBounds ==
    ASSUME LimitAssumption, now \in Nat, NEW b,
           b.tokens \in 0..(Burst - 1), b.refilled \in 0..now
    PROVE  /\ Refilled(b) \in 0..Burst
           /\ Refilled(b) <= b.tokens + Refill(b.refilled, now)
<1>1. Burst \in Nat /\ b.tokens \in Nat /\ b.refilled \in Int /\ Rate \in Nat
  BY DEF LimitAssumption
<1>2. (now - b.refilled) * Rate = Refill(b.refilled, now)
  BY <1>1 DEF Refill
<1>3. Refill(b.refilled, now) \in Nat
  BY <1>1, RefillNat
<1> QED BY <1>1, <1>2, <1>3 DEF Refilled, Min2

\* One more request in the record of a client.
LEMMA Recorded ==
    ASSUME NEW g \in Seq(Nat), NEW n \in Nat
    PROVE  /\ Append(g, n) \in Seq(Nat) /\ Len(Append(g, n)) = Len(g) + 1
           /\ DOMAIN g = 1..Len(g) /\ DOMAIN Append(g, n) = 1..(Len(g) + 1)
           /\ \A i \in 1..Len(g) : Append(g, n)[i] = g[i] /\ g[i] \in Nat
           /\ Append(g, n)[Len(g) + 1] = n /\ Len(g) \in Nat
OBVIOUS

-----------------------------------------------------------------------------
(* One client                                                              *)

Budget(k) ==
    \A i, j \in DOMAIN granted[k] :
        i <= j => j - i + 1 <= Burst + Rate * (granted[k][j] - granted[k][i])

\* What an operation on the bucket of k owes the client: a request is granted
\* only if all that went before leaves it a token.
Owed(k, m) ==
    \A i \in DOMAIN granted[k] :
        granted[k][i] <= now /\ Since(k, i) + m <= Burst + Refill(granted[k][i], now)

\* A request that is granted, with m tokens left.
LEMMA GrantedSound ==
    ASSUME LimitAssumption, now \in Nat, now' = now, granted \in [Keys -> Seq(Nat)],
           NEW k \in Keys, Budget(k), Grant(k),
           NEW m \in 0..(Burst - 1), Owed(k, m + 1),
           buckets'[k] = [tokens |-> m, refilled |-> now, expires |-> now + TTL]
    PROVE  BucketSound(k)' /\ Budget(k)'
<1> DEFINE g == granted[k]
           n == Len(g)
<1>1. g \in Seq(Nat) /\ granted'[k] = Append(g, now)
  BY DEF Grant
<1>2. /\ n \in Nat /\ Len(granted'[k]) = n + 1 /\ DOMAIN g = 1..n
      /\ DOMAIN granted'[k] = 1..(n + 1)
      /\ \A i \in 1..n : granted'[k][i] = g[i] /\ g[i] \in Nat
      /\ granted'[k][n + 1] = now
  BY <1>1, Recorded
<1>3. Burst \in Nat /\ m \in Nat /\ Refill(now, now) = 0 /\ TTL \in Nat
  BY RefillNone DEF LimitAssumption
<1>4. \A i \in 1..n : g[i] <= now /\ n - i + 1 + (m + 1) <= Burst + Refill(g[i], now)
  BY <1>2 DEF Owed, Since
<1>5. \A i \in 1..n : Refill(g[i], now) \in Int
  <2> SUFFICES ASSUME NEW i \in 1..n PROVE Refill(g[i], now) \in Int
    OBVIOUS
  <2>1. g[i] \in Int /\ now \in Int
    BY <1>2
  <2> HIDE DEF g, n
  <2> QED BY <2>1, RefillInt
<1> HIDE DEF g, n
<1>6. ASSUME NEW i \in 1..(n + 1)
      PROVE  /\ granted'[k][i] <= now /\ granted'[k][i] \in Nat
             /\ Refill(granted'[k][i], now) \in Int
             /\ (n + 1) - i + 1 + m <= Burst + Refill(granted'[k][i], now)
  <2>1. CASE i = n + 1
    <3>1. granted'[k][i] = now /\ Refill(granted'[k][i], now) = 0
      BY <1>2, <1>3, <2>1
    <3>2. (n + 1) - i + 1 + m <= Burst
      BY <1>2, <1>3, <2>1
    <3> QED BY <1>3, <3>1, <3>2
  <2>2. CASE i \in 1..n
    <3>1. granted'[k][i] = g[i] /\ g[i] \in Nat /\ g[i] <= now
      BY <1>2, <1>4, <2>2
    <3>2. Refill(g[i], now) \in Int /\ n - i + 1 + (m + 1) <= Burst + Refill(g[i], now)
      BY <1>4, <1>5, <2>2
    <3>3. n - i + 1 + (m + 1) = (n + 1) - i + 1 + m
      BY <1>2, <1>3
    <3> QED BY <3>1, <3>2, <3>3
  <2> QED BY <1>2, <2>1, <2>2
<1>7. BucketSound(k)'
  <2>1. /\ buckets'[k].tokens = m /\ buckets'[k].refilled = now
        /\ buckets'[k].expires = now + TTL
    OBVIOUS
  <2>2. \A i \in DOMAIN granted'[k] :
          /\ granted'[k][i] <= buckets'[k].refilled
          /\ Since(k, i)' + buckets'[k].tokens
               <= Burst + Refill(granted'[k][i], buckets'[k].refilled)
    BY <1>2, <1>6, <2>1 DEF Since
  <2> QED BY <2>1, <2>2 DEF BucketSound, Refill
<1>8. Budget(k)'
  <2> SUFFICES ASSUME NEW i \in 1..(n + 1), NEW j \in 1..(n + 1), i <= j
               PROVE  j - i + 1 <= Burst + Rate * (granted'[k][j] - granted'[k][i])
    BY <1>2 DEF Budget
  <2>1. CASE j \in 1..n
    <3>1. i \in 1..n
      BY <1>2, <2>1
    <3>2. granted'[k][j] = g[j] /\ granted'[k][i] = g[i] /\ i \in DOMAIN g /\ j \in DOMAIN g
      BY <1>2, <2>1, <3>1
    <3> QED BY <3>2 DEF Budget, g
  <2>2. CASE j = n + 1
    <3>1. Refill(granted'[k][i], now) = Rate * (granted'[k][j] - granted'[k][i])
      BY <1>2, <2>2 DEF Refill
    <3>2. (n + 1) - i + 1 + m <= Burst + Refill(granted'[k][i], now)
      BY <1>6
    <3>3. j - i + 1 <= (n + 1) - i + 1 + m
      BY <1>2, <1>3, <2>2
    <3>4. Refill(granted'[k][i], now) \in Int
      BY <1>6
    <3> HIDE DEF Refill
    <3>5. j - i + 1 <= Burst + Refill(granted'[k][i], now)
      BY <1>2, <1>3, <3>2, <3>3, <3>4
    <3> QED BY <3>1, <3>5
  <2> QED BY <1>2, <2>1, <2>2
<1> QED BY <1>7, <1>8

\* A request that is refused leaves the record alone.
LEMMA RefusedSound ==
    ASSUME LimitAssumption, now \in Nat, now' = now, granted' = granted,
           NEW k \in Keys, Budget(k), NEW m \in 0..(Burst - 1), Owed(k, m),
           buckets'[k] = [tokens |-> m, refilled |-> now, expires |-> now + TTL]
    PROVE  BucketSound(k)' /\ Budget(k)'
<1>1. /\ buckets'[k].tokens = m /\ buckets'[k].refilled = now
      /\ buckets'[k].expires = now + TTL
  OBVIOUS
<1> QED BY <1>1 DEF BucketSound, Refill, Owed, Since, Budget

\* What was owed at the last refill is owed now, with the tokens refilled since.
LEMMA OwesLater ==
    ASSUME NEW since \in Int, NEW tokens \in Int, NEW filled \in Int, NEW burst \in Int,
           NEW before \in Int, NEW after \in Int,
           since + tokens <= burst + before, filled <= tokens + after
    PROVE  since + filled <= burst + (before + after)
OBVIOUS

\* A bucket that is used before it expires owes what it holds and the refill.
LEMMA UnexpiredOwes ==
    ASSUME LimitAssumption, now \in Nat, granted \in [Keys -> Seq(Nat)],
           NEW k \in Keys, BucketSound(k)
    PROVE  Owed(k, Refilled(buckets[k]))
<1> DEFINE b == buckets[k]
<1>1. /\ b.tokens \in Int /\ b.refilled \in Int /\ b.refilled <= now /\ Burst \in Int
      /\ b.tokens \in 0..(Burst - 1) /\ b.refilled \in 0..now
  BY DEF BucketSound, LimitAssumption
<1>2. Refilled(b) \in Int /\ Refilled(b) <= b.tokens + Refill(b.refilled, now)
  BY <1>1, RefilledBounds
<1> SUFFICES ASSUME NEW i \in DOMAIN granted[k]
             PROVE  /\ granted[k][i] <= now
                    /\ Since(k, i) + Refilled(b) <= Burst + Refill(granted[k][i], now)
  BY DEF Owed
<1>3. granted[k][i] \in Nat /\ Since(k, i) \in Int
  BY DEF Since
<1>4. granted[k][i] <= b.refilled
      /\ Since(k, i) + b.tokens <= Burst + Refill(granted[k][i], b.refilled)
  BY DEF BucketSound
<1>5. Refill(granted[k][i], b.refilled) + Refill(b.refilled, now) = Refill(granted[k][i], now)
  BY <1>1, <1>3, RefillAdds
<1>6. Refill(granted[k][i], b.refilled) \in Int /\ Refill(b.refilled, now) \in Int
  <2>1. granted[k][i] \in Int /\ b.refilled \in Int /\ now \in Int
    BY <1>1, <1>3
  <2>2. Refill(granted[k][i], b.refilled) \in Int
    BY <2>1, RefillInt
  <2>3. Refill(b.refilled, now) \in Int
    BY <2>1, RefillInt
  <2> QED BY <2>2, <2>3
<1> HIDE DEF b
<1>7. granted[k][i] <= now
  BY <1>1, <1>3, <1>4
<1>8. Since(k, i) + Refilled(b) <=
          Burst + (Refill(granted[k][i], b.refilled) + Refill(b.refilled, now))
  BY <1>1, <1>2, <1>3, <1>4, <1>6, OwesLater
<1> QED BY <1>5, <1>7, <1>8

\* Once a bucket has expired, its client has had the refill alone.
LEMMA ExpiredOwes ==
    ASSUME LimitAssumption, now \in Nat, granted \in [Keys -> Seq(Nat)],
           NEW k \in Keys, BucketSound(k), BucketExpired(buckets[k])
    PROVE  NoBucketSound(k)
<1> DEFINE b == buckets[k]
<1>1. /\ b.tokens \in Nat /\ b.refilled \in Int /\ b.refilled <= now /\ Burst \in Int
      /\ b.refilled + TTL <= now
  BY DEF BucketSound, LimitAssumption, BucketExpired
<1>2. Burst <= Refill(b.refilled, now)
  BY <1>1, ExpiryRefills
<1> SUFFICES ASSUME NEW i \in DOMAIN granted[k]
             PROVE  granted[k][i] <= now /\ Since(k, i) <= Refill(granted[k][i], now)
  BY DEF NoBucketSound
<1>3. granted[k][i] \in Nat /\ Since(k, i) \in Int
  BY DEF Since
<1>4. granted[k][i] <= b.refilled
      /\ Since(k, i) + b.tokens <= Burst + Refill(granted[k][i], b.refilled)
  BY DEF BucketSound
<1>5. Refill(granted[k][i], b.refilled) + Refill(b.refilled, now) = Refill(granted[k][i], now)
  BY <1>1, <1>3, RefillAdds
<1>6. Refill(granted[k][i], b.refilled) \in Int /\ Refill(b.refilled, now) \in Int
  <2>1. granted[k][i] \in Int /\ b.refilled \in Int /\ now \in Int
    BY <1>1, <1>3
  <2>2. Refill(granted[k][i], b.refilled) \in Int
    BY <2>1, RefillInt
  <2>3. Refill(b.refilled, now) \in Int
    BY <2>1, RefillInt
  <2> QED BY <2>2, <2>3
<1> HIDE DEF b
<1>7. granted[k][i] <= now
  BY <1>1, <1>3, <1>4
<1> QED BY <1>1, <1>2, <1>3, <1>4, <1>5, <1>6, <1>7

\* A client without a bucket is owed a full one.
LEMMA NoBucketOwes ==
    ASSUME LimitAssumption, now \in Nat, granted \in [Keys -> Seq(Nat)],
           NEW k \in Keys, NoBucketSound(k)
    PROVE  Owed(k, Burst)
<1> SUFFICES ASSUME NEW i \in DOMAIN granted[k]
             PROVE  /\ granted[k][i] <= now
                    /\ Since(k, i) + Burst <= Burst + Refill(granted[k][i], now)
  BY DEF Owed
<1>1. granted[k][i] \in Nat /\ Since(k, i) \in Int /\ Burst \in Int
  BY DEF Since, LimitAssumption
<1>2. Refill(granted[k][i], now) \in Int
  BY <1>1, RefillInt
<1> QED BY <1>1, <1>2 DEF NoBucketSound

\* A client that a step does not concern.
LEMMA OthersKept ==
    ASSUME NEW j \in Keys, ClientSound(j), Budget(j), now' = now,
           granted'[j] = granted[j],
           j \in DOMAIN buckets' <=> j \in DOMAIN buckets,
           j \in DOMAIN buckets => buckets'[j] = buckets[j]
    PROVE  ClientSound(j)' /\ Budget(j)'
<1>1. Budget(j)'
  BY DEF Budget
<1>2. j \in DOMAIN buckets => BucketSound(j)'
  BY DEF ClientSound, BucketSound, Since, Refill
<1>3. j \notin DOMAIN buckets => NoBucketSound(j)'
  BY DEF ClientSound, NoBucketSound, Since, Refill
<1> QED BY <1>1, <1>2, <1>3 DEF ClientSound

-----------------------------------------------------------------------------
(* The table                                                               *)

\* A batch holds expired buckets, each of which may be made anew.
LEMMA Removed ==
    ASSUME LimitsInv, LimitAssumption, NEW ks, ks = {} \/ ks \in Batches
    PROVE  /\ ks \subseteq DOMAIN buckets
           /\ IsFiniteSet(DOMAIN buckets \ ks)
           /\ Cardinality(ks) \in Nat /\ Cardinality(ks) <= entryCount
           /\ Cardinality(DOMAIN buckets \ ks) = entryCount - Cardinality(ks)
           /\ \A j \in ks : NoBucketSound(j)
<1>1. ks \subseteq DOMAIN buckets /\ \A j \in ks : BucketExpired(buckets[j])
  BY DEF Batches
<1>2. /\ IsFiniteSet(DOMAIN buckets) /\ entryCount = Cardinality(DOMAIN buckets)
      /\ DOMAIN buckets \subseteq Keys
  BY DEF LimitsInv, EntriesCounted
<1>3. IsFiniteSet(ks) /\ Cardinality(ks) <= Cardinality(DOMAIN buckets)
  BY <1>1, <1>2, FS_Subset
<1>4. Cardinality(ks) \in Nat /\ Cardinality(DOMAIN buckets) \in Nat
  BY <1>2, <1>3, FS_CardinalityType
<1>5. /\ IsFiniteSet(DOMAIN buckets \ ks)
      /\ Cardinality(DOMAIN buckets \ ks)
           = Cardinality(DOMAIN buckets) - Cardinality(DOMAIN buckets \cap ks)
  BY <1>2, FS_Difference
<1>6. DOMAIN buckets \cap ks = ks
  BY <1>1
<1>7. ASSUME NEW j \in ks PROVE NoBucketSound(j)
  <2>1. j \in Keys /\ BucketSound(j) /\ BucketExpired(buckets[j])
    BY <1>1, <1>2 DEF LimitsInv, ClientSound
  <2> QED BY <2>1, ExpiredOwes DEF LimitsInv
<1> QED BY <1>1, <1>2, <1>3, <1>4, <1>5, <1>6, <1>7

\* The clients after a request has used its bucket.
LEMMA UseSound ==
    ASSUME LimitsInv, LimitAssumption, NEW k \in Keys, k \in DOMAIN buckets,
           UseBucket(k), now' = now
    PROVE  /\ DOMAIN buckets' = DOMAIN buckets
           /\ granted' \in [Keys -> Seq(Nat)]
           /\ \A j \in Keys : ClientSound(j)' /\ Budget(j)'
<1>1. /\ now \in Nat /\ granted \in [Keys -> Seq(Nat)] /\ Burst \in Nat \ {0}
      /\ \A j \in Keys : ClientSound(j) /\ Budget(j)
  BY DEF LimitsInv, LimitAssumption, BudgetKept, Budget
<1>2. BucketSound(k)
  BY <1>1 DEF ClientSound
<1>3. /\ DOMAIN buckets' = DOMAIN buckets /\ buckets'[k] = Updated(buckets[k])
      /\ \A j \in DOMAIN buckets : j # k => buckets'[j] = buckets[j]
  BY DEF UseBucket, With
<1>4. Refilled(buckets[k]) \in 0..Burst
  BY <1>1, <1>2, RefilledBounds DEF BucketSound
<1>5. Owed(k, Refilled(buckets[k]))
  BY <1>1, <1>2, UnexpiredOwes
<1>6. BucketSound(k)' /\ Budget(k)'
  <2>1. CASE BucketExpired(buckets[k])
    <3>1. Owed(k, Burst)
      BY <1>1, <1>2, <2>1, ExpiredOwes, NoBucketOwes
    <3>2. Burst - 1 \in 0..(Burst - 1) /\ (Burst - 1) + 1 = Burst
      BY <1>1
    <3>3. Grant(k) /\ buckets'[k] = [tokens |-> Burst - 1, refilled |-> now, expires |-> now + TTL]
      BY <1>3, <2>1 DEF UseBucket, Allowed, Updated
    <3> QED BY <1>1, <3>1, <3>2, <3>3, GrantedSound
  <2>2. CASE ~BucketExpired(buckets[k]) /\ Refilled(buckets[k]) >= 1
    <3> DEFINE m == Refilled(buckets[k]) - 1
    <3>1. m \in 0..(Burst - 1) /\ m + 1 = Refilled(buckets[k])
      BY <1>1, <1>4, <2>2
    <3>2. Grant(k) /\ buckets'[k] = [tokens |-> m, refilled |-> now, expires |-> now + TTL]
      BY <1>3, <2>2 DEF UseBucket, Allowed, Updated
    <3> HIDE DEF m
    <3>3. Owed(k, m + 1)
      BY <1>5, <3>1
    <3> QED BY <1>1, <3>1, <3>2, <3>3, GrantedSound
  <2>3. CASE ~BucketExpired(buckets[k]) /\ ~(Refilled(buckets[k]) >= 1)
    <3> DEFINE m == Refilled(buckets[k])
    <3>1. m \in 0..(Burst - 1)
      BY <1>1, <1>4, <2>3
    <3>2. /\ granted' = granted
          /\ buckets'[k] = [tokens |-> m, refilled |-> now, expires |-> now + TTL]
      BY <1>3, <2>3 DEF UseBucket, Allowed, Updated
    <3> HIDE DEF m
    <3>3. Owed(k, m)
      BY <1>5 DEF m
    <3> QED BY <1>1, <3>1, <3>2, <3>3, RefusedSound
  <2> QED BY <2>1, <2>2, <2>3
<1>7. granted' \in [Keys -> Seq(Nat)] /\ \A j \in Keys : j # k => granted'[j] = granted[j]
  <2>1. Append(granted[k], now) \in Seq(Nat)
    BY <1>1, Recorded
  <2>2. granted' = granted \/ granted' = [granted EXCEPT ![k] = Append(granted[k], now)]
    BY DEF UseBucket, Grant
  <2> QED BY <1>1, <2>1, <2>2
<1>8. ASSUME NEW j \in Keys PROVE ClientSound(j)' /\ Budget(j)'
  <2>1. CASE j = k
    BY <1>3, <1>6, <2>1 DEF ClientSound
  <2>2. CASE j # k
    BY <1>1, <1>3, <1>7, <2>2, OthersKept
  <2> QED BY <2>1, <2>2
<1> QED BY <1>3, <1>7, <1>8

\* The clients after a batch has been removed: those of its buckets are owed full
\* ones.
LEMMA RemoveSound ==
    ASSUME LimitsInv, LimitAssumption, NEW ks, ks = {} \/ ks \in Batches,
           buckets' = Without(buckets, ks), granted' = granted, now' = now
    PROVE  \A j \in Keys : ClientSound(j)' /\ Budget(j)'
<1>1. \A j \in Keys : ClientSound(j) /\ Budget(j)
  BY DEF LimitsInv, BudgetKept, Budget
<1>2. /\ DOMAIN buckets' = DOMAIN buckets \ ks
      /\ \A j \in DOMAIN buckets' : buckets'[j] = buckets[j]
  BY DEF Without
<1> TAKE j \in Keys
<1>3. CASE j \in ks
  <2>1. NoBucketSound(j)
    BY <1>3, Removed
  <2>2. NoBucketSound(j)' /\ Budget(j)'
    BY <1>1, <2>1 DEF NoBucketSound, Since, Refill, Budget
  <2> QED BY <1>2, <1>3, <2>2 DEF ClientSound
<1>4. CASE j \notin ks
  BY <1>1, <1>2, <1>4, OthersKept
<1> QED BY <1>3, <1>4

\* The clients after one of them has been given a new bucket, and a batch was
\* removed for it.
LEMMA InsertSound ==
    ASSUME LimitsInv, LimitAssumption, NEW ks, ks = {} \/ ks \in Batches,
           NEW k \in Keys, k \notin DOMAIN buckets,
           buckets' = With(Without(buckets, ks), k, Inserted), Grant(k), now' = now
    PROVE  /\ DOMAIN buckets' = (DOMAIN buckets \ ks) \cup {k}
           /\ granted' \in [Keys -> Seq(Nat)]
           /\ \A j \in Keys : ClientSound(j)' /\ Budget(j)'
<1>1. /\ now \in Nat /\ granted \in [Keys -> Seq(Nat)] /\ Burst \in Nat \ {0}
      /\ \A j \in Keys : ClientSound(j) /\ Budget(j)
  BY DEF LimitsInv, LimitAssumption, BudgetKept, Budget
<1>2. /\ DOMAIN buckets' = (DOMAIN buckets \ ks) \cup {k}
      /\ buckets'[k] = [tokens |-> Burst - 1, refilled |-> now, expires |-> now + TTL]
      /\ \A j \in DOMAIN buckets \ ks : j # k => buckets'[j] = buckets[j]
  BY DEF With, Without, Inserted
<1>3. granted' \in [Keys -> Seq(Nat)] /\ \A j \in Keys : j # k => granted'[j] = granted[j]
  BY <1>1, Recorded DEF Grant
<1>4. BucketSound(k)' /\ Budget(k)'
  <2>1. Owed(k, Burst)
    BY <1>1, NoBucketOwes DEF ClientSound
  <2>2. Burst - 1 \in 0..(Burst - 1) /\ (Burst - 1) + 1 = Burst
    BY <1>1
  <2> QED BY <1>1, <1>2, <2>1, <2>2, GrantedSound
<1>5. ASSUME NEW j \in Keys PROVE ClientSound(j)' /\ Budget(j)'
  <2>1. CASE j = k
    BY <1>2, <1>4, <2>1 DEF ClientSound
  <2>2. CASE j # k /\ j \in ks
    <3>1. NoBucketSound(j)
      BY <2>2, Removed
    <3>2. NoBucketSound(j)' /\ Budget(j)'
      BY <1>1, <1>3, <2>2, <3>1 DEF NoBucketSound, Since, Refill, Budget
    <3> QED BY <1>2, <2>2, <3>2 DEF ClientSound
  <2>3. CASE j # k /\ j \notin ks
    BY <1>1, <1>2, <1>3, <2>3, OthersKept
  <2> QED BY <2>1, <2>2, <2>3
<1> QED BY <1>2, <1>3, <1>5

-----------------------------------------------------------------------------
(* One lemma per step                                                      *)

\* A request goes from one step to the next, and keeps its client.
LEMMA CallGoes ==
    ASSUME CallsTyped, NEW s \in Servers, call[s].step # "idle",
           NEW step \in {"insert", "cleanup"}, Goes(s, step), nextCleanup' = nextCleanup
    PROVE  CallsTyped'
<1>1. call' = [call EXCEPT ![s].step = step] /\ call \in [Servers -> Call]
  BY DEF Goes, CallsTyped
<1>2. /\ call' \in [Servers -> Call] /\ call'[s].key = call[s].key
      /\ \A t \in Servers : t # s => call'[t] = call[t]
  BY <1>1 DEF Call
<1> QED BY <1>2 DEF CallsTyped

\* A request ends, or a new one comes.
LEMMA CallSet ==
    ASSUME CallsTyped, NEW s \in Servers, NEW c \in Call, c.step # "idle" => c.key \in Keys,
           call' = [call EXCEPT ![s] = c], nextCleanup' \in [Servers -> Nat]
    PROVE  CallsTyped'
<1>1. /\ call' \in [Servers -> Call] /\ call'[s] = c
      /\ \A t \in Servers : t # s => call'[t] = call[t]
  BY DEF CallsTyped
<1> QED BY <1>1 DEF CallsTyped

\* A request waits in no state but idle.
LEMMA NoCallTyped == NoCall \in Call /\ NoCall.step = "idle"
BY DEF NoCall, Call

\* The clock passes without giving or taking anything.
LEMMA TickSound ==
    ASSUME LimitsInv, LimitAssumption, Tick PROVE LimitsInv'
<1>1. /\ now \in 0..MaxTime /\ MaxTime \in Nat /\ now' = now + 1 /\ now' \in 0..MaxTime
      /\ UNCHANGED <<buckets, entryCount, call, nextCleanup, granted>>
  BY DEF LimitsInv, LimitAssumption, Tick
<1>2. ASSUME NEW k \in Keys PROVE ClientSound(k)'
  <2>1. ClientSound(k) /\ granted[k] \in Seq(Nat)
    BY DEF LimitsInv
  <2>2. k \in DOMAIN buckets => BucketSound(k)'
    <3> SUFFICES ASSUME k \in DOMAIN buckets PROVE BucketSound(k)'
      OBVIOUS
    <3>1. BucketSound(k)
      BY <2>1 DEF ClientSound
    <3>2. buckets[k].refilled \in 0..now'
      BY <1>1, <3>1 DEF BucketSound
    <3> QED BY <1>1, <3>1, <3>2 DEF BucketSound, Since, Refill
  <2>3. k \notin DOMAIN buckets => NoBucketSound(k)'
    <3> SUFFICES ASSUME k \notin DOMAIN buckets, NEW i \in DOMAIN granted[k]
                 PROVE  granted[k][i] <= now' /\ Since(k, i) <= Refill(granted[k][i], now')
      BY <1>1 DEF NoBucketSound, Since, Refill
    <3>1. granted[k][i] <= now /\ Since(k, i) <= Refill(granted[k][i], now)
      BY <2>1 DEF ClientSound, NoBucketSound
    <3>2. granted[k][i] \in Int /\ now \in Int /\ now' \in Int /\ Since(k, i) \in Int
      BY <1>1, <2>1 DEF Since
    <3>3. Refill(granted[k][i], now) + Refill(now, now') = Refill(granted[k][i], now')
      BY <3>2, RefillAdds
    <3>4. Refill(now, now') \in Nat
      BY <1>1, <3>2, RefillNat
    <3>5. Refill(granted[k][i], now) \in Int
      BY <3>2, RefillInt
    <3>6. Since(k, i) <= Refill(granted[k][i], now) + Refill(now, now')
      BY <3>1, <3>2, <3>4, <3>5
    <3>7. granted[k][i] <= now'
      BY <1>1, <3>1, <3>2
    <3> QED BY <3>3, <3>6, <3>7
  <2> QED BY <1>1, <2>2, <2>3 DEF ClientSound
<1>3. CallsTyped' /\ EntriesCounted' /\ BudgetKept'
  BY <1>1 DEF LimitsInv, CallsTyped, EntriesCounted, BudgetKept
<1> QED BY <1>1, <1>2, <1>3 DEF LimitsInv

\* A step that changes neither the table nor the record.
LEMMA TableKept ==
    ASSUME LimitsInv, CallsTyped', UNCHANGED <<buckets, entryCount, now, granted>>
    PROVE  LimitsInv'
<1>1. ASSUME NEW k \in Keys PROVE ClientSound(k)'
  BY DEF LimitsInv, ClientSound, BucketSound, NoBucketSound, Since, Refill
<1>2. EntriesCounted' /\ BudgetKept'
  BY DEF LimitsInv, EntriesCounted, BudgetKept
<1> QED BY <1>1, <1>2 DEF LimitsInv

\* A request that finds its bucket uses it.
LEMMA UseKept ==
    ASSUME LimitsInv, LimitAssumption, NEW k \in Keys, k \in DOMAIN buckets,
           UseBucket(k), entryCount' = entryCount, now' = now, CallsTyped'
    PROVE  LimitsInv'
<1>1. /\ DOMAIN buckets' = DOMAIN buckets /\ granted' \in [Keys -> Seq(Nat)]
      /\ \A j \in Keys : ClientSound(j)' /\ Budget(j)'
  BY UseSound
<1>2. EntriesCounted' /\ BudgetKept'
  BY <1>1 DEF LimitsInv, EntriesCounted, BudgetKept, Budget
<1> QED BY <1>1, <1>2 DEF LimitsInv

\* The first transaction of a request.
LEMMA UpdateExistingSound ==
    ASSUME LimitsInv, LimitAssumption, NEW s \in Servers, UpdateExisting(s)
    PROVE  LimitsInv'
<1>1. CallsTyped /\ call[s].step = "update" /\ call[s].key \in Keys
  BY DEF LimitsInv, CallsTyped, UpdateExisting
<1>2. CASE call[s].key \in DOMAIN buckets
  <2>1. /\ UseBucket(call[s].key) /\ Goes(s, "cleanup")
        /\ UNCHANGED <<entryCount, now, nextCleanup>>
    BY <1>2 DEF UpdateExisting
  <2>2. CallsTyped'
    BY <1>1, <2>1, CallGoes
  <2> QED BY <1>1, <1>2, <2>1, <2>2, UseKept
<1>3. CASE call[s].key \notin DOMAIN buckets
  <2>1. Goes(s, "insert") /\ UNCHANGED <<buckets, granted, entryCount, now, nextCleanup>>
    BY <1>3 DEF UpdateExisting
  <2>2. CallsTyped'
    BY <1>1, <2>1, CallGoes
  <2> QED BY <2>1, <2>2, TableKept
<1> QED BY <1>2, <1>3

\* The second one: the counter is right after the removal of a batch and the
\* insertion, and an insertion needs room.
LEMMA InsertBoundedSound ==
    ASSUME LimitsInv, LimitAssumption, NEW s \in Servers, InsertBounded(s)
    PROVE  LimitsInv'
<1> DEFINE k == call[s].key
<1>1. CallsTyped /\ call[s].step = "insert" /\ k \in Keys
  BY DEF LimitsInv, CallsTyped, InsertBounded
<1>2. now' = now /\ CallsTyped'
  BY <1>1, CallGoes DEF InsertBounded
<1>3. CASE k \in DOMAIN buckets
  BY <1>1, <1>2, <1>3, UseKept DEF InsertBounded
<1>4. CASE k \notin DOMAIN buckets
  <2>1. PICK ks \in IF entryCount >= MaxEntries THEN Batches ELSE {{}} :
          LET left == entryCount - Cardinality(ks)
          IN IF left >= MaxEntries
             THEN buckets' = Without(buckets, ks) /\ entryCount' = left /\ UNCHANGED granted
             ELSE /\ buckets' = With(Without(buckets, ks), k, Inserted)
                  /\ entryCount' = left + 1
                  /\ Grant(k)
    BY <1>4 DEF InsertBounded
  <2>2. ks = {} \/ ks \in Batches
    BY <2>1
  <2> DEFINE left == entryCount - Cardinality(ks)
             rest == DOMAIN buckets \ ks
  <2>3. /\ IsFiniteSet(rest) /\ Cardinality(rest) = left /\ Cardinality(ks) \in Nat
        /\ Cardinality(ks) <= entryCount
    BY <2>2, Removed
  <2>4. /\ entryCount \in Nat /\ entryCount <= MaxEntries /\ MaxEntries \in Nat
        /\ DOMAIN buckets \subseteq Keys
    <3>1. entryCount = Cardinality(DOMAIN buckets) /\ IsFiniteSet(DOMAIN buckets)
      BY DEF LimitsInv, EntriesCounted
    <3>2. entryCount \in Nat
      BY <3>1, FS_CardinalityType
    <3> QED BY <3>2 DEF LimitsInv, EntriesCounted, LimitAssumption
  <2>5. left \in Nat /\ left <= MaxEntries
    BY <2>3, <2>4
  <2>6. CASE buckets' = Without(buckets, ks) /\ entryCount' = left /\ granted' = granted
    <3>1. DOMAIN buckets' = rest
      BY <2>6 DEF Without
    <3>2. \A j \in Keys : ClientSound(j)' /\ Budget(j)'
      BY <1>2, <2>2, <2>6, RemoveSound
    <3>3. EntriesCounted'
      BY <2>3, <2>5, <2>6, <3>1 DEF EntriesCounted
    <3>4. BudgetKept'
      BY <3>2 DEF BudgetKept, Budget
    <3> QED BY <1>2, <2>3, <2>4, <2>6, <3>1, <3>2, <3>3, <3>4 DEF LimitsInv
  <2>7. CASE /\ ~(left >= MaxEntries) /\ entryCount' = left + 1 /\ Grant(k)
             /\ buckets' = With(Without(buckets, ks), k, Inserted)
    <3>1. /\ DOMAIN buckets' = rest \cup {k} /\ granted' \in [Keys -> Seq(Nat)]
          /\ \A j \in Keys : ClientSound(j)' /\ Budget(j)'
      BY <1>1, <1>2, <1>4, <2>2, <2>7, InsertSound
    <3>2. IsFiniteSet(rest \cup {k}) /\ Cardinality(rest \cup {k}) = left + 1
      BY <1>4, <2>3, FS_AddElement
    <3>3. EntriesCounted'
      BY <2>4, <2>5, <2>7, <3>1, <3>2 DEF EntriesCounted
    <3>4. BudgetKept'
      BY <3>1 DEF BudgetKept, Budget
    <3>5. DOMAIN buckets' \subseteq Keys
      BY <1>1, <2>4, <3>1
    <3> QED BY <1>2, <3>1, <3>2, <3>3, <3>4, <3>5 DEF LimitsInv
  <2> QED BY <2>1, <2>6, <2>7
<1> QED BY <1>3, <1>4

\* The third one removes a batch, once in an interval.
LEMMA CleanupExpiredSound ==
    ASSUME LimitsInv, LimitAssumption, NEW s \in Servers, CleanupExpired(s)
    PROVE  LimitsInv'
<1>1. /\ CallsTyped /\ now \in Nat /\ Interval \in Nat
      /\ call' = [call EXCEPT ![s] = NoCall] /\ UNCHANGED <<now, granted>>
  BY DEF LimitsInv, LimitAssumption, CleanupExpired
<1>2. nextCleanup' \in [Servers -> Nat]
  BY <1>1 DEF CleanupExpired, CallsTyped
<1>3. CallsTyped'
  BY <1>1, <1>2, CallSet, NoCallTyped
<1>4. CASE UNCHANGED <<buckets, entryCount>>
  BY <1>1, <1>3, <1>4, TableKept
<1>5. ASSUME NEW ks \in Batches, buckets' = Without(buckets, ks),
             entryCount' = IF Cardinality(ks) <= entryCount
                           THEN entryCount - Cardinality(ks) ELSE 0
      PROVE  LimitsInv'
  <2> DEFINE rest == DOMAIN buckets \ ks
  <2>1. /\ IsFiniteSet(rest) /\ Cardinality(rest) = entryCount - Cardinality(ks)
        /\ Cardinality(ks) \in Nat /\ Cardinality(ks) <= entryCount
    BY Removed
  <2>2. /\ entryCount \in Nat /\ entryCount <= MaxEntries /\ MaxEntries \in Nat
        /\ DOMAIN buckets \subseteq Keys
    <3>1. entryCount = Cardinality(DOMAIN buckets) /\ IsFiniteSet(DOMAIN buckets)
      BY DEF LimitsInv, EntriesCounted
    <3>2. entryCount \in Nat
      BY <3>1, FS_CardinalityType
    <3> QED BY <3>2 DEF LimitsInv, EntriesCounted, LimitAssumption
  <2>3. entryCount' = Cardinality(rest) /\ entryCount' <= MaxEntries
    BY <1>5, <2>1, <2>2
  <2>4. DOMAIN buckets' = rest
    BY <1>5 DEF Without
  <2>5. \A j \in Keys : ClientSound(j)' /\ Budget(j)'
    BY <1>1, <1>5, RemoveSound
  <2>6. EntriesCounted' /\ BudgetKept'
    BY <2>3, <2>4, <2>5 DEF EntriesCounted, BudgetKept, Budget
  <2> QED BY <1>1, <1>3, <2>1, <2>2, <2>4, <2>5, <2>6 DEF LimitsInv
<1> QED BY <1>4, <1>5 DEF CleanupExpired

\* A request comes, or its transaction is rolled back.
LEMMA AllowOrFails ==
    ASSUME LimitsInv, LimitAssumption, NEW s \in Servers,
           StoreFails(s) \/ \E k \in Keys : Allow(s, k)
    PROVE  LimitsInv'
<1>1. CallsTyped /\ now \in Nat /\ Interval \in Nat
  BY DEF LimitsInv, LimitAssumption
<1>2. CASE StoreFails(s)
  <2>1. nextCleanup' \in [Servers -> Nat]
    BY <1>1, <1>2 DEF StoreFails, CallsTyped
  <2>2. CallsTyped'
    BY <1>1, <1>2, <2>1, CallSet, NoCallTyped DEF StoreFails
  <2> QED BY <1>2, <2>2, TableKept DEF StoreFails
<1>3. ASSUME NEW k \in Keys, Allow(s, k) PROVE LimitsInv'
  <2>1. [step |-> "update", key |-> k] \in Call
    BY DEF Call
  <2>2. CallsTyped'
    BY <1>1, <1>3, <2>1, CallSet DEF Allow, CallsTyped
  <2> QED BY <1>3, <2>2, TableKept DEF Allow
<1> QED BY <1>2, <1>3

-----------------------------------------------------------------------------
(* Theorems                                                                *)

\* The inductive invariant holds of every reachable state of the limiter.
THEOREM LimitsInvariant ==
    ASSUME LimitAssumption
    PROVE  LimitsSpec => []LimitsInv
<1>1. LimitsInit => LimitsInv
  <2> SUFFICES ASSUME LimitsInit PROVE LimitsInv
    OBVIOUS
  <2>1. DOMAIN buckets = {}
    BY DEF LimitsInit
  <2>2. IsFiniteSet(DOMAIN buckets) /\ EntriesCounted
    BY <2>1, FS_EmptySet DEF LimitsInit, EntriesCounted, LimitAssumption
  <2>3. granted \in [Keys -> Seq(Nat)] /\ \A k \in Keys : DOMAIN granted[k] = {}
    BY DEF LimitsInit
  <2>4. \A k \in Keys : ClientSound(k)
    BY <2>1, <2>3 DEF ClientSound, NoBucketSound
  <2>5. BudgetKept
    BY <2>3 DEF BudgetKept
  <2>6. CallsTyped
    BY DEF LimitsInit, CallsTyped, NoCall, Call, LimitAssumption
  <2>7. now \in 0..MaxTime
    BY DEF LimitsInit, LimitAssumption
  <2> QED BY <2>1, <2>2, <2>3, <2>4, <2>5, <2>6, <2>7 DEF LimitsInv
<1>2. LimitsInv /\ [LimitsNext]_limitsVars => LimitsInv'
  <2> SUFFICES ASSUME LimitsInv, [LimitsNext]_limitsVars PROVE LimitsInv'
    OBVIOUS
  <2>1. ASSUME NEW s \in Servers, UpdateExisting(s) PROVE LimitsInv'
    BY <2>1, UpdateExistingSound
  <2>2. ASSUME NEW s \in Servers, InsertBounded(s) PROVE LimitsInv'
    BY <2>2, InsertBoundedSound
  <2>3. ASSUME NEW s \in Servers, CleanupExpired(s) PROVE LimitsInv'
    BY <2>3, CleanupExpiredSound
  <2>4. ASSUME NEW s \in Servers, StoreFails(s) \/ \E k \in Keys : Allow(s, k)
        PROVE  LimitsInv'
    BY <2>4, AllowOrFails
  <2>5. CASE Tick
    BY <2>5, TickSound
  <2>6. CASE UNCHANGED limitsVars
    <3>1. CallsTyped'
      BY <2>6 DEF limitsVars, LimitsInv, CallsTyped
    <3> QED BY <2>6, <3>1, TableKept DEF limitsVars
  <2> QED BY <2>1, <2>2, <2>3, <2>4, <2>5, <2>6 DEF LimitsNext
<1> QED BY <1>1, <1>2, PTL DEF LimitsSpec

\* The capacity row counts the buckets, and there are never more than allowed,
\* however the servers' insertions and cleanups interleave (insertBounded,
\* cleanupExpired).
THEOREM LimiterEntriesCounted ==
    ASSUME LimitAssumption
    PROVE  LimitsSpec => [](LimitsTypeOK /\ EntriesCounted)
<1>1. LimitsInv => LimitsTypeOK /\ EntriesCounted
  <2> SUFFICES ASSUME LimitsInv PROVE LimitsTypeOK
    BY DEF LimitsInv
  <2>1. \A k \in DOMAIN buckets : buckets[k].tokens \in 0..(Burst - 1)
    BY DEF LimitsInv, ClientSound, BucketSound
  <2>2. entryCount \in Nat
    BY FS_CardinalityType DEF LimitsInv, EntriesCounted
  <2>3. \A s \in Servers : call[s].step \in {"idle", "update", "insert", "cleanup"}
    BY DEF LimitsInv, CallsTyped, Call
  <2> QED BY <2>1, <2>2, <2>3 DEF LimitsInv, CallsTyped, LimitsTypeOK
<1> QED BY <1>1, LimitsInvariant, PTL

\* Over any stretch of time a client is granted no more than the burst and what
\* was refilled, through whichever servers, and although its bucket may expire,
\* be deleted and be made anew meanwhile (updateRateLimitBucket).
THEOREM LimiterBudgetKept ==
    ASSUME LimitAssumption
    PROVE  LimitsSpec => []BudgetKept
<1>1. LimitsInv => BudgetKept
  BY DEF LimitsInv
<1> QED BY <1>1, LimitsInvariant, PTL

\* Whichever servers a client's requests go through, their one table keeps its
\* types, its count and its bound, and the client its budget.
THEOREM LimiterLimitsShared ==
    ASSUME LimitAssumption
    PROVE  LimitsSpec => []LimitsShared
<1>1. LimitsTypeOK /\ EntriesCounted /\ BudgetKept => LimitsShared
  BY DEF LimitsShared
<1> QED BY <1>1, LimiterEntriesCounted, LimiterBudgetKept, PTL
=============================================================================
