----------------------- MODULE ExplorerEntries_proofs -----------------------
(***************************************************************************)
(* The listing of the explorer, for any paths, listings and numbers of     *)
(* pending operations: types, marks of rows, read-your-writes, and that    *)
(* only rows on the screen are deleted.                                    *)
(***************************************************************************)
EXTENDS ExplorerEntries, TLAPS

Mutations == [kind : Kinds \cup {"idle"},
              phase : {"idle", "sent", "applied", "settling"},
              path : Paths \cup {NoPath}, at : 0..MaxClock,
              wait : Views \cup {NoView}]
Bulks == [phase : {"idle", "sent", "applied", "settling"},
          paths : SUBSET Paths, failed : SUBSET Paths, at : 0..MaxClock,
          wait : Views \cup {NoView}]
Fetches == [phase : {"idle", "sent", "answered"}, answer : Listings]

\* TypeOK in terms of these sets.
Types ==
    /\ objs \subseteq Paths /\ clock \in 0..MaxClock
    /\ view \in Views
    /\ data \in [Views -> Listings] /\ screen \in Listings
    /\ failing \subseteq Views
    /\ fetch \in [Views -> Fetches]
    /\ muts \in [Slots -> Mutations] /\ bulk \in Bulks
    /\ bulkDialog \in BOOLEAN
    /\ selectedPaths \subseteq Paths
    /\ {deleteDialog, deletingPath, publishingPath} \subseteq Paths \cup {NoPath}
    /\ acked \in [Views -> 0..MaxClock]
    /\ \A s \in Slots : muts[s].wait # NoView => muts[s].phase = "settling"

\* A request names a path.
Targets == \A s \in Slots : muts[s].phase # "idle" => muts[s].path \in Paths

\* A write is dated by the clock at which it happened; publishing a folder is
\* no write.
WritesDated ==
    /\ \A s \in Slots : /\ muts[s].at <= clock
                        /\ muts[s].kind = "publishSite" => muts[s].at = 0
    /\ bulk.at <= clock

\* An answer under way for v, and the data of v once its fetch has succeeded,
\* are no older than what was acknowledged while v was observed.
Dated(v) ==
    /\ acked[v] <= clock
    /\ fetch[v].phase = "answered" => fetch[v].answer.asOf >= acked[v]
    /\ fetch[v].phase = "idle" /\ v \notin failing => data[v].asOf >= acked[v]

\* At rest the screen shows the data of the key.
ScreenShown == ~Fetching /\ view \notin failing => screen = data[view]

\* The dialog of a deletion belongs to a row on the screen.
DialogShown == deleteDialog # NoPath => deleteDialog \in entries /\ "delete" \in Kinds

EntriesInv ==
    /\ Types /\ Targets /\ DialogShown /\ NoStuckMark
    /\ WritesDated /\ ScreenShown
    /\ \A v \in Views : Dated(v)

-----------------------------------------------------------------------------
(* Types                                                                   *)

LEMMA TypesForm == TypeOK <=> Types
BY DEF TypeOK, Types, Mutations, Bulks, Fetches

\* The null values are of their types.
LEMMA NullTypes ==
    ASSUME EntriesAssumption
    PROVE  /\ NoData \in Listings
           /\ NoFetch \in Fetches /\ Sent \in Fetches
           /\ Idle \in Mutations /\ NoBulk \in Bulks
<1>1. NoData \in Listings
  BY DEF EntriesAssumption, NoData, Listings
<1> QED BY <1>1 DEF EntriesAssumption, NoFetch, Sent, Fetches, Idle, Mutations, NoBulk, Bulks

\* What goes on when a fetch ends or is cancelled keeps its type.
LEMMA ReleasedTypes ==
    ASSUME EntriesAssumption, Types, NEW v, Released(v)
    PROVE  /\ muts' \in [Slots -> Mutations] /\ bulk' \in Bulks
           /\ \A s \in Slots : muts'[s].wait # NoView => muts'[s].phase = "settling"
<1>1. bulk' \in Bulks
  BY DEF Released, Types, Bulks
<1>2. ASSUME NEW s \in Slots
      PROVE  /\ muts'[s] \in Mutations
             /\ muts'[s].wait # NoView => muts'[s].phase = "settling"
  <2>1. muts[s] \in Mutations /\ (muts[s].wait # NoView => muts[s].phase = "settling")
    BY DEF Types
  <2>2. muts'[s] = IF muts[s].wait = v THEN [muts[s] EXCEPT !.wait = NoView] ELSE muts[s]
    BY DEF Released
  <2> QED BY <2>1, <2>2 DEF Mutations
<1> QED BY <1>1, <1>2 DEF Released

\* The fetch of an invalidation has its type.
LEMMA InvalidatedTypes ==
    ASSUME EntriesAssumption, Types
    PROVE  Invalidated \in [Views -> Fetches]
BY NullTypes DEF Types, Invalidated

\* A slot that is written keeps the types if what is written has its type.
LEMMA SlotTypes ==
    ASSUME Types, NEW s \in Slots, NEW m \in Mutations,
           m.wait # NoView => m.phase = "settling",
           muts' = [muts EXCEPT ![s] = m]
    PROVE  /\ muts' \in [Slots -> Mutations]
           /\ \A t \in Slots : muts'[t].wait # NoView => muts'[t].phase = "settling"
BY DEF Types

\* The steps of the queries keep the types.
LEMMA QueryTypes ==
    ASSUME EntriesAssumption, Types, QueryNext
    PROVE  Types'
<1> USE DEF Types
<1>1. ASSUME NEW v \in Views, ServerLists(v)
      PROVE  Types'
  <2>1. [phase |-> "answered",
         answer |-> [asOf |-> clock, items |-> objs \cap Lists[v], known |-> TRUE]] \in Fetches
    BY DEF Fetches, Listings
  <2> QED BY <1>1, <2>1 DEF ServerLists, server, marks
<1>2. ASSUME NEW v \in Views, ListingArrives(v)
      PROVE  Types'
  <2>1. fetch[v].answer \in Listings /\ fetch[v].answer.items \subseteq Paths
    BY DEF Fetches, Listings
  <2>2. selectedPaths' \subseteq Paths /\ screen' \in Listings
        /\ deleteDialog' \in Paths \cup {NoPath}
    BY <1>2, <2>1 DEF ListingArrives, Prune
  <2>3. fetch' \in [Views -> Fetches] /\ data' \in [Views -> Listings]
    BY <1>2, <2>1, NullTypes DEF ListingArrives
  <2>4. Released(v) /\ failing' \subseteq Views
        /\ UNCHANGED <<objs, clock, view, bulkDialog, deletingPath, publishingPath, acked>>
    BY <1>2 DEF ListingArrives, server, marks
  <2> QED BY <2>2, <2>3, <2>4, ReleasedTypes
<1>3. ASSUME NEW v \in Views, ListingFails(v)
      PROVE  Types'
  <2>1. selectedPaths' \subseteq Paths /\ deleteDialog' \in Paths \cup {NoPath}
    BY <1>3 DEF ListingFails, Prune
  <2>2. fetch' \in [Views -> Fetches]
    BY <1>3, NullTypes DEF ListingFails
  <2>3. Released(v) /\ failing' \subseteq Views
        /\ UNCHANGED <<objs, clock, view, data, screen, bulkDialog, deletingPath,
                       publishingPath, acked>>
    BY <1>3 DEF ListingFails, server, marks
  <2> QED BY <2>1, <2>2, <2>3, ReleasedTypes
<1>4. ASSUME NEW v \in Views, ChangeView(v)
      PROVE  Types'
  <2>1. screen' \in Listings /\ fetch' \in [Views -> Fetches]
    BY <1>4, NullTypes DEF ChangeView
  <2>2. deleteDialog' \in Paths \cup {NoPath}
    BY <1>4 DEF ChangeView
  <2> QED BY <1>4, <2>1, <2>2 DEF ChangeView, server, marks
<1>5. CASE handleRefreshEntries
  <2>1. Released(Cancelled) /\ fetch' \in [Views -> Fetches]
    BY <1>5, InvalidatedTypes DEF handleRefreshEntries
  <2> QED BY <1>5, <2>1, ReleasedTypes DEF handleRefreshEntries, server, marks
<1> QED BY <1>1, <1>2, <1>3, <1>4, <1>5 DEF QueryNext

\* A mutation that starts has its type.
LEMMA StartTypes ==
    ASSUME EntriesAssumption, Types, NEW s \in Slots, NEW kind \in Kinds, NEW p \in Paths,
           Start(s, kind, p)
    PROVE  /\ muts' \in [Slots -> Mutations]
           /\ \A t \in Slots : muts'[t].wait # NoView => muts'[t].phase = "settling"
<1> DEFINE m == [kind |-> kind, phase |-> "sent", path |-> p, at |-> 0, wait |-> NoView]
<1>1. m \in Mutations /\ m.wait = NoView
  BY DEF EntriesAssumption, Mutations
<1> QED BY <1>1, SlotTypes DEF Start

\* What is on the screen are paths.
LEMMA EntriesArePaths ==
    ASSUME Types
    PROVE  entries \subseteq Paths
BY DEF Types, entries, Listings

\* The clock of an acknowledgement has its type.
LEMMA AcknowledgedTypes ==
    ASSUME EntriesAssumption, Types, NEW at \in 0..MaxClock
    PROVE  Acknowledged(at) \in [Views -> 0..MaxClock]
BY DEF Types, Acknowledged

\* The steps of the mutations keep the types.
LEMMA MutationTypes ==
    ASSUME EntriesAssumption, Types, Targets, DialogShown, MutationNext
    PROVE  Types'
<1> USE DEF Types
<1>1. ASSUME NEW s \in Slots, NEW p \in Paths, handleUpload(s, p)
      PROVE  Types'
  <2>1. "upload" \in Kinds /\ Start(s, "upload", p)
    BY <1>1 DEF handleUpload
  <2> QED BY <1>1, <2>1, StartTypes DEF handleUpload, server, queries, marks
<1>2. ASSUME NEW s \in Slots, NEW p \in Paths, handleCreateFolder(s, p)
      PROVE  Types'
  <2>1. "createFolder" \in Kinds /\ Start(s, "createFolder", p)
    BY <1>2 DEF handleCreateFolder
  <2> QED BY <1>2, <2>1, StartTypes DEF handleCreateFolder, server, queries, marks
<1>3. ASSUME NEW s \in Slots, NEW p \in Paths, NEW kind \in Kinds, handlePublish(s, kind, p)
      PROVE  Types'
  <2>1. Start(s, kind, p)
    BY <1>3 DEF handlePublish
  <2> QED BY <1>3, <2>1, StartTypes DEF handlePublish, server, queries
<1>4. ASSUME NEW p \in Paths, openDelete(p)
      PROVE  Types'
  BY <1>4 DEF openDelete, server, queries, marks
<1>5. CASE closeDelete
  BY <1>5 DEF closeDelete, server, queries, marks
<1>6. ASSUME NEW s \in Slots, handleDelete(s)
      PROVE  Types'
  <2>1. "delete" \in Kinds /\ deleteDialog \in Paths /\ Start(s, "delete", deleteDialog)
    BY <1>6 DEF handleDelete, DialogShown
  <2> QED BY <1>6, <2>1, StartTypes DEF handleDelete, server, queries
<1>7. ASSUME NEW s \in Slots, ServerApplies(s)
      PROVE  Types'
  <2> DEFINE at == IF clock' = clock THEN 0 ELSE clock'
             m == [muts[s] EXCEPT !.phase = "applied", !.at = at]
  <2>6. muts[s] \in Mutations /\ muts[s].wait = NoView /\ muts[s].path \in Paths
    BY <1>7 DEF ServerApplies, Targets
  <2>1. objs' \subseteq Paths
    <3>1. objs' = Written(muts[s])
      BY <1>7 DEF ServerApplies
    <3> QED BY <2>6, <3>1 DEF Written
  <2>2. clock' \in 0..MaxClock
    BY <1>7 DEF ServerApplies, EntriesAssumption
  <2>3. m \in Mutations /\ m.wait = NoView
    <3>1. at \in 0..MaxClock
      BY <2>2 DEF EntriesAssumption
    <3> HIDE DEF at
    <3> QED BY <2>6, <3>1 DEF Mutations
  <2>4. muts' = [muts EXCEPT ![s] = m]
    BY <1>7 DEF ServerApplies
  <2>5. muts' \in [Slots -> Mutations]
        /\ \A t \in Slots : muts'[t].wait # NoView => muts'[t].phase = "settling"
    BY <2>3, <2>4, SlotTypes
  <2> QED BY <1>7, <2>1, <2>2, <2>5 DEF ServerApplies, queries, marks
<1>8. ASSUME NEW s \in Slots, MutationSucceeds(s)
      PROVE  Types'
  <2>1. acked' \in [Views -> 0..MaxClock]
    BY <1>8, AcknowledgedTypes DEF MutationSucceeds, Mutations
  <2>2. fetch' \in [Views -> Fetches] /\ bulk' \in Bulks
    BY <1>8, InvalidatedTypes DEF MutationSucceeds, Bulks
  <2>3. ASSUME NEW t \in Slots
        PROVE  /\ muts'[t] \in Mutations
               /\ muts'[t].wait # NoView => muts'[t].phase = "settling"
    <3>1. muts[t] \in Mutations /\ (muts[t].wait # NoView => muts[t].phase = "settling")
      OBVIOUS
    <3>2. CASE Awaits(muts[s])
      <4> DEFINE r == IF muts[t].wait = Cancelled THEN [muts[t] EXCEPT !.wait = NoView]
                      ELSE muts[t]
      <4>1. muts'[t] = IF t = s THEN [r EXCEPT !.phase = "settling", !.wait = view] ELSE r
        BY <1>8, <3>2 DEF MutationSucceeds
      <4>2. r \in Mutations /\ (r.wait # NoView => r.phase = "settling")
        BY <3>1 DEF Mutations
      <4> HIDE DEF r
      <4> QED BY <4>1, <4>2 DEF Mutations
    <3>3. CASE ~Awaits(muts[s])
      <4>1. muts'[t] = IF t = s THEN [muts[t] EXCEPT !.phase = "settling"] ELSE muts[t]
        BY <1>8, <3>3 DEF MutationSucceeds
      <4> QED BY <3>1, <4>1 DEF Mutations
    <3> QED BY <3>2, <3>3
  <2>4. muts' = [t \in Slots |-> muts'[t]]
    BY <1>8 DEF MutationSucceeds
  <2>5. muts' \in [Slots -> Mutations]
    BY <2>3, <2>4
  <2> QED BY <1>8, <2>1, <2>2, <2>3, <2>5 DEF MutationSucceeds, server, marks
<1>9. ASSUME NEW s \in Slots, MutationSettles(s) \/ MutationFails(s)
      PROVE  Types'
  <2>1. muts' = [muts EXCEPT ![s] = Idle] /\ Idle.wait = NoView /\ MarksCleared(muts[s])
    BY <1>9 DEF MutationSettles, MutationFails, Idle
  <2>2. muts' \in [Slots -> Mutations]
        /\ \A t \in Slots : muts'[t].wait # NoView => muts'[t].phase = "settling"
    BY <2>1, NullTypes, SlotTypes
  <2> QED BY <1>9, <2>1, <2>2
          DEF MutationSettles, MutationFails, MarksCleared, server, queries
<1> QED BY <1>1, <1>2, <1>3, <1>4, <1>5, <1>6, <1>7, <1>8, <1>9 DEF MutationNext

\* The steps of the bulk deletion keep the types.
LEMMA BulkTypes ==
    ASSUME EntriesAssumption, Types, BulkNext
    PROVE  Types'
<1> USE DEF Types
<1>1. CASE handleSelectAll
  BY <1>1, EntriesArePaths DEF handleSelectAll, server, queries, marks
<1>2. ASSUME NEW p \in Paths, handleSelectEntry(p)
      PROVE  Types'
  BY <1>2 DEF handleSelectEntry, server, queries, marks
<1>3. ASSUME NEW open \in BOOLEAN, setBulkDeleteDialogOpen(open)
      PROVE  Types'
  BY <1>3 DEF setBulkDeleteDialogOpen, server, queries, marks
<1>4. CASE handleConfirmBulkDelete
  <2>1. BulkPaths \subseteq Paths
    BY EntriesArePaths DEF BulkPaths, selectedEntries
  <2>2. bulk' \in Bulks
    BY <1>4, <2>1, NullTypes DEF handleConfirmBulkDelete, Bulks, NoBulk
  <2> QED BY <1>4, <2>2 DEF handleConfirmBulkDelete, server, queries, marks
<1>5. ASSUME NEW failed \in SUBSET Paths, ServerDeletesBatch(failed)
      PROVE  Types'
  <2>1. clock + 1 \in 0..MaxClock /\ objs' \subseteq Paths
    BY <1>5 DEF ServerDeletesBatch, EntriesAssumption
  <2>2. bulk' \in Bulks
    BY <1>5, <2>1 DEF ServerDeletesBatch, Bulks
  <2> QED BY <1>5, <2>1, <2>2 DEF ServerDeletesBatch, queries, marks
<1>6. CASE BulkSucceeds
  <2>1. acked' \in [Views -> 0..MaxClock] /\ selectedPaths' \subseteq Paths
    BY <1>6, AcknowledgedTypes DEF BulkSucceeds, Bulks
  <2>2. fetch' \in [Views -> Fetches] /\ bulk' \in Bulks
    BY <1>6, InvalidatedTypes DEF BulkSucceeds, Bulks
  <2>3. ASSUME NEW t \in Slots
        PROVE  /\ muts'[t] \in Mutations
               /\ muts'[t].wait # NoView => muts'[t].phase = "settling"
    <3>1. muts[t] \in Mutations /\ (muts[t].wait # NoView => muts[t].phase = "settling")
      OBVIOUS
    <3>2. muts'[t] = IF muts[t].wait = Cancelled THEN [muts[t] EXCEPT !.wait = NoView]
                     ELSE muts[t]
      BY <1>6 DEF BulkSucceeds
    <3> QED BY <3>1, <3>2 DEF Mutations
  <2>4. muts' = [t \in Slots |-> muts'[t]]
    BY <1>6 DEF BulkSucceeds
  <2>5. muts' \in [Slots -> Mutations]
    BY <2>3, <2>4
  <2> QED BY <1>6, <2>1, <2>2, <2>3, <2>5 DEF BulkSucceeds, server, marks
<1>7. CASE BulkSettles \/ BulkFails
  BY <1>7, NullTypes DEF BulkSettles, BulkFails, server, queries, marks
<1> QED BY <1>1, <1>2, <1>3, <1>4, <1>5, <1>6, <1>7 DEF BulkNext

\* The types are kept by every step.
LEMMA TypesStep ==
    ASSUME EntriesAssumption, Types, Targets, DialogShown, [Next]_vars
    PROVE  Types'
<1>1. ASSUME NEW p \in Paths, OtherClient(p)
      PROVE  Types'
  BY <1>1 DEF Types, OtherClient, queries, marks, EntriesAssumption
<1>2. CASE UNCHANGED vars
  BY <1>2 DEF vars, server, queries, marks, Types
<1> QED BY <1>1, <1>2, QueryTypes, MutationTypes, BulkTypes DEF Next

-----------------------------------------------------------------------------
(* What a step does to one mutation                                        *)

Keeps(s) ==
    /\ muts'[s].kind = muts[s].kind /\ muts'[s].path = muts[s].path
    /\ muts'[s].at = muts[s].at
    /\ muts'[s].phase = "idle" <=> muts[s].phase = "idle"
    /\ muts[s] = Idle => muts'[s] = Idle

Begins(s) ==
    /\ muts[s] = Idle
    /\ muts'[s].phase = "sent" /\ muts'[s].at = 0 /\ muts'[s].path \in Paths
    /\ muts'[s].kind = "delete" =>
          muts'[s].path = deleteDialog /\ deleteDialog # NoPath

Applied(s) ==
    /\ muts[s].phase = "sent"
    /\ muts'[s].kind = muts[s].kind /\ muts'[s].path = muts[s].path
    /\ muts'[s].phase = "applied"
    /\ muts'[s].at <= clock' /\ (muts'[s].kind = "publishSite" => muts'[s].at = 0)

Ends(s) == muts'[s] = Idle /\ MarksCleared(muts[s])

SlotMove(s) == Keeps(s) \/ Begins(s) \/ Applied(s) \/ Ends(s)

\* A mutation that is not touched is kept.
LEMMA UntouchedMove ==
    ASSUME NEW s, muts'[s] = muts[s]
    PROVE  SlotMove(s)
BY DEF SlotMove, Keeps

\* A mutation that goes on is kept.
LEMMA ReleasedMove ==
    ASSUME EntriesAssumption, Types, NEW s \in Slots, NEW v,
           muts'[s] = IF muts[s].wait = v THEN [muts[s] EXCEPT !.wait = NoView] ELSE muts[s]
    PROVE  SlotMove(s)
<1>1. muts[s] \in Mutations
  BY DEF Types
<1>2. [Idle EXCEPT !.wait = NoView] = Idle
  BY DEF Idle
<1> QED BY <1>1, <1>2 DEF SlotMove, Keeps, Mutations

\* A mutation that starts begins, and the others are untouched.
LEMMA StartMove ==
    ASSUME EntriesAssumption, Types, NEW s \in Slots, NEW t \in Slots,
           NEW kind, NEW p \in Paths, Start(t, kind, p),
           kind = "delete" => p = deleteDialog /\ deleteDialog # NoPath
    PROVE  SlotMove(s)
<1>1. CASE s # t
  BY <1>1, UntouchedMove DEF Start, Types
<1>2. CASE s = t
  BY <1>2 DEF Start, Types, SlotMove, Begins
<1> QED BY <1>1, <1>2

\* Every step makes one of these moves.
LEMMA SlotMoves ==
    ASSUME EntriesAssumption, Types, DialogShown, [Next]_vars, NEW s \in Slots
    PROVE  SlotMove(s)
<1>1. ASSUME NEW v, Released(v)
      PROVE  SlotMove(s)
  BY <1>1, ReleasedMove DEF Released
<1>2. ASSUME NEW t \in Slots, ServerApplies(t)
      PROVE  SlotMove(s)
  <2>1. CASE s # t
    BY <1>2, <2>1, UntouchedMove DEF ServerApplies, Types
  <2>2. CASE s = t
    <3>1. muts[s] \in Mutations /\ clock \in Nat
      BY DEF Types
    <3>2. clock' = IF muts[s].kind = "publishSite" THEN clock ELSE clock + 1
      BY <1>2, <2>2 DEF ServerApplies
    <3>3. muts'[s] = [muts[s] EXCEPT !.phase = "applied",
                                     !.at = IF clock' = clock THEN 0 ELSE clock']
      BY <1>2, <2>2 DEF ServerApplies, Types
    <3>4. muts[s].phase = "sent"
      BY <1>2, <2>2 DEF ServerApplies
    <3>5. Applied(s)
      BY <3>1, <3>2, <3>3, <3>4 DEF Applied, Mutations
    <3> QED BY <3>5 DEF SlotMove
  <2> QED BY <2>1, <2>2
<1>3. ASSUME NEW t \in Slots, MutationSucceeds(t)
      PROVE  SlotMove(s)
  <2>1. muts[s] \in Mutations /\ muts[t].phase = "applied"
    BY <1>3 DEF MutationSucceeds, Types
  <2>2. s = t => muts[s] # Idle /\ muts[s].phase # "idle"
    BY <2>1 DEF Idle
  <2>3. CASE Awaits(muts[t])
    <3> DEFINE r == IF muts[s].wait = Cancelled THEN [muts[s] EXCEPT !.wait = NoView]
                    ELSE muts[s]
    <3>1. muts'[s] = IF s = t THEN [r EXCEPT !.phase = "settling", !.wait = view] ELSE r
      BY <1>3, <2>3 DEF MutationSucceeds
    <3>2. CASE s # t
      BY <3>1, <3>2, ReleasedMove
    <3>3. CASE s = t
      BY <2>1, <2>2, <3>1, <3>3 DEF SlotMove, Keeps, Mutations
    <3> QED BY <3>2, <3>3
  <2>4. CASE ~Awaits(muts[t])
    <3>1. muts'[s] = IF s = t THEN [muts[s] EXCEPT !.phase = "settling"] ELSE muts[s]
      BY <1>3, <2>4 DEF MutationSucceeds, Types
    <3> QED BY <2>1, <2>2, <3>1 DEF SlotMove, Keeps, Mutations
  <2> QED BY <2>3, <2>4
<1>4. ASSUME NEW t \in Slots, MutationSettles(t) \/ MutationFails(t)
      PROVE  SlotMove(s)
  <2>1. muts' = [muts EXCEPT ![t] = Idle] /\ MarksCleared(muts[t])
    BY <1>4 DEF MutationSettles, MutationFails
  <2>2. CASE s # t
    BY <2>1, <2>2, UntouchedMove DEF Types
  <2>3. CASE s = t
    BY <2>1, <2>3 DEF Types, SlotMove, Ends
  <2> QED BY <2>2, <2>3
<1>5. ASSUME NEW t \in Slots, NEW p \in Paths, NEW kind \in Kinds,
             handleUpload(t, p) \/ handleCreateFolder(t, p) \/ handlePublish(t, kind, p)
      PROVE  SlotMove(s)
  <2>1. \E k \in AllKinds \ {"delete"} : Start(t, k, p)
    BY <1>5 DEF handleUpload, handleCreateFolder, handlePublish, AllKinds
  <2> QED BY <2>1, StartMove
<1>6. ASSUME NEW t \in Slots, handleDelete(t)
      PROVE  SlotMove(s)
  <2>1. deleteDialog \in Paths /\ deleteDialog # NoPath /\ Start(t, "delete", deleteDialog)
    BY <1>6 DEF handleDelete, Types
  <2> QED BY <2>1, StartMove
<1>7. CASE BulkSucceeds
  BY <1>7, ReleasedMove DEF BulkSucceeds
<1>8. CASE muts' = muts
  BY <1>8, UntouchedMove
<1>9. CASE QueryNext
  <2>1. \A v \in Views : ListingArrives(v) \/ ListingFails(v) => Released(v)
    BY DEF ListingArrives, ListingFails
  <2>2. handleRefreshEntries => Released(Cancelled)
    BY DEF handleRefreshEntries
  <2>3. \A v \in Views : ServerLists(v) \/ ChangeView(v) => muts' = muts
    BY DEF ServerLists, ChangeView
  <2> QED BY <1>1, <1>8, <1>9, <2>1, <2>2, <2>3 DEF QueryNext
<1>10. CASE MutationNext
  <2>1. closeDelete \/ (\E p \in Paths : openDelete(p)) => muts' = muts
    BY DEF closeDelete, openDelete
  <2>2. ASSUME NEW t \in Slots, NEW p \in Paths, handleUpload(t, p) \/ handleCreateFolder(t, p)
        PROVE  SlotMove(s)
    <3>1. \E kind \in Kinds : TRUE
      BY <2>2 DEF handleUpload, handleCreateFolder
    <3> QED BY <1>5, <2>2, <3>1
  <2> QED BY <1>2, <1>3, <1>4, <1>5, <1>6, <1>8, <1>10, <2>1, <2>2 DEF MutationNext
<1>11. CASE BulkNext
  <2>1. BulkNext => BulkSucceeds \/ muts' = muts
    BY DEF BulkNext, handleSelectAll, handleSelectEntry, setBulkDeleteDialogOpen,
           handleConfirmBulkDelete, ServerDeletesBatch, BulkSettles, BulkFails
  <2> QED BY <1>7, <1>8, <1>11, <2>1
<1>12. CASE (\E p \in Paths : OtherClient(p)) \/ UNCHANGED vars
  <2>1. muts' = muts
    BY <1>12 DEF OtherClient, vars
  <2> QED BY <2>1, <1>8
<1> QED BY <1>9, <1>10, <1>11, <1>12 DEF Next

-----------------------------------------------------------------------------
(* Targets, marks and dialogs                                              *)

LEMMA TargetsStep ==
    ASSUME EntriesAssumption, Types, Targets, DialogShown, [Next]_vars
    PROVE  Targets'
<1> SUFFICES ASSUME NEW s \in Slots
             PROVE  muts'[s].phase # "idle" => muts'[s].path \in Paths
  BY DEF Targets
<1>1. SlotMove(s)
  BY SlotMoves
<1> QED BY <1>1 DEF SlotMove, Keeps, Begins, Applied, Ends, Idle, Targets

\* The marks change only where a row operation starts or ends.
LEMMA MarkMoves ==
    ASSUME EntriesAssumption, Types, [Next]_vars
    PROVE  /\ deletingPath' \in {deletingPath, NoPath}
                 \/ \E s \in Slots : muts'[s].kind = "delete"
           /\ publishingPath' \in {publishingPath, NoPath}
                 \/ \E s \in Slots : muts'[s].kind \in {"publishSite", "publishObject"}
<1>1. ASSUME NEW s \in Slots, handleDelete(s)
      PROVE  muts'[s].kind = "delete" /\ publishingPath' = publishingPath
  BY <1>1 DEF handleDelete, Start, Types
<1>2. ASSUME NEW s \in Slots, NEW p \in Paths, NEW kind \in Kinds, handlePublish(s, kind, p)
      PROVE  muts'[s].kind \in {"publishSite", "publishObject"} /\ deletingPath' = deletingPath
  BY <1>2 DEF handlePublish, Start, Types
<1>3. ASSUME NEW s \in Slots, MutationSettles(s) \/ MutationFails(s)
      PROVE  /\ deletingPath' \in {deletingPath, NoPath}
             /\ publishingPath' \in {publishingPath, NoPath}
  BY <1>3 DEF MutationSettles, MutationFails, MarksCleared
<1>4. QueryNext \/ BulkNext \/ (\E p \in Paths : OtherClient(p)) \/ UNCHANGED vars
         => deletingPath' = deletingPath /\ publishingPath' = publishingPath
  BY DEF QueryNext, ServerLists, ListingArrives, ListingFails, ChangeView,
         handleRefreshEntries, BulkNext, handleSelectAll, handleSelectEntry,
         setBulkDeleteDialogOpen, handleConfirmBulkDelete, ServerDeletesBatch,
         BulkSucceeds, BulkSettles, BulkFails, OtherClient, marks, vars
<1>5. ASSUME NEW s \in Slots, NEW p \in Paths, handleUpload(s, p) \/ handleCreateFolder(s, p)
      PROVE  deletingPath' = deletingPath /\ publishingPath' = publishingPath
  BY <1>5 DEF handleUpload, handleCreateFolder, marks
<1>6. ASSUME \/ closeDelete
             \/ \E p \in Paths : openDelete(p)
             \/ \E s \in Slots : ServerApplies(s) \/ MutationSucceeds(s)
      PROVE  deletingPath' = deletingPath /\ publishingPath' = publishingPath
  BY <1>6 DEF openDelete, closeDelete, ServerApplies, MutationSucceeds, marks
<1> QED BY <1>1, <1>2, <1>3, <1>4, <1>5, <1>6 DEF Next, MutationNext

\* A row operation that ends takes the mark of its kind with it.
LEMMA StuckStep ==
    ASSUME EntriesAssumption, Types, DialogShown, NoStuckMark, [Next]_vars, Types'
    PROVE  NoStuckMark'
<1>1. DOMAIN muts = Slots /\ DOMAIN muts' = Slots
  BY DEF Types
<1>2. ASSUME NEW s \in Slots, muts[s].kind = "delete"
      PROVE  muts'[s].kind = "delete" \/ deletingPath' = NoPath
  <2>1. SlotMove(s)
    BY SlotMoves
  <2> QED BY <1>2, <2>1 DEF SlotMove, Keeps, Begins, Applied, Ends, Idle, MarksCleared
<1>3. ASSUME NEW s \in Slots, muts[s].kind \in {"publishSite", "publishObject"}
      PROVE  muts'[s].kind = muts[s].kind \/ publishingPath' = NoPath
  <2>1. SlotMove(s)
    BY SlotMoves
  <2> QED BY <1>3, <2>1 DEF SlotMove, Keeps, Begins, Applied, Ends, Idle, MarksCleared
<1>4. deletingPath' # NoPath => \E s \in Slots : muts'[s].kind = "delete"
  BY <1>1, <1>2, MarkMoves DEF NoStuckMark, Pending
<1>5. publishingPath' # NoPath
         => \E s \in Slots : muts'[s].kind \in {"publishSite", "publishObject"}
  BY <1>1, <1>3, MarkMoves DEF NoStuckMark, Pending
<1> QED BY <1>1, <1>4, <1>5 DEF NoStuckMark, Pending

\* A listing that replaces the one on the screen closes the dialog of a row
\* that it does not have.
LEMMA DialogStep ==
    ASSUME EntriesAssumption, Types, DialogShown, [Next]_vars
    PROVE  DialogShown'
<1>1. ASSUME NEW v \in Views, ListingArrives(v)
      PROVE  DialogShown'
  <2>1. CASE v = view
    BY <1>1, <2>1 DEF ListingArrives, Prune, DialogShown, entries
  <2>2. CASE v # view
    BY <1>1, <2>2 DEF ListingArrives, DialogShown, entries, Types
  <2> QED BY <2>1, <2>2
<1>2. ASSUME NEW v \in Views, ListingFails(v)
      PROVE  DialogShown'
  BY <1>2 DEF ListingFails, Prune, DialogShown, entries, Types
<1>3. ASSUME NEW v \in Views, ChangeView(v)
      PROVE  DialogShown'
  BY <1>3 DEF ChangeView, DialogShown, entries
<1>4. ASSUME NEW p \in Paths, openDelete(p)
      PROVE  DialogShown'
  BY <1>4 DEF openDelete, DialogShown, entries, queries
<1>5. ASSUME UNCHANGED <<view, data, failing, screen>>, deleteDialog' \in {deleteDialog, NoPath}
      PROVE  DialogShown'
  BY <1>5 DEF DialogShown, entries
<1>6. ASSUME NEW v \in Views, ServerLists(v)
      PROVE  DialogShown'
  BY <1>5, <1>6 DEF ServerLists
<1>7. CASE handleRefreshEntries
  BY <1>5, <1>7 DEF handleRefreshEntries
<1>8. ASSUME NEW s \in Slots, NEW p \in Paths, NEW kind \in Kinds, handlePublish(s, kind, p)
      PROVE  DialogShown'
  BY <1>5, <1>8 DEF handlePublish, queries
<1>9. ASSUME NEW s \in Slots,
             \/ handleDelete(s) \/ ServerApplies(s) \/ MutationSucceeds(s)
             \/ MutationSettles(s) \/ MutationFails(s)
      PROVE  DialogShown'
  BY <1>5, <1>9 DEF handleDelete, ServerApplies, MutationSucceeds,
                    MutationSettles, MutationFails, queries
<1>10. CASE closeDelete
  BY <1>5, <1>10 DEF closeDelete, queries
<1>11. CASE BulkNext \/ (\E p \in Paths : OtherClient(p)) \/ UNCHANGED vars
  BY <1>5, <1>11
     DEF BulkNext, handleSelectAll, handleSelectEntry, setBulkDeleteDialogOpen,
         handleConfirmBulkDelete, ServerDeletesBatch, BulkSucceeds, BulkSettles,
         BulkFails, OtherClient, queries, vars
<1>12. ASSUME NEW s \in Slots, NEW p \in Paths, handleUpload(s, p) \/ handleCreateFolder(s, p)
       PROVE  DialogShown'
  BY <1>5, <1>12 DEF handleUpload, handleCreateFolder, queries
<1> QED BY <1>1, <1>2, <1>3, <1>4, <1>6, <1>7, <1>8, <1>9, <1>10, <1>11, <1>12
        DEF Next, QueryNext, MutationNext

-----------------------------------------------------------------------------
(* Dates                                                                   *)

\* The clock does not go back.
LEMMA ClockMoves ==
    ASSUME Types, [Next]_vars
    PROVE  clock \in Nat /\ clock' \in Nat /\ clock <= clock'
<1>1. clock \in Nat
  BY DEF Types
<1>2. \/ clock' = clock
      \/ clock' = clock + 1
  BY DEF Next, QueryNext, ServerLists, ListingArrives, ListingFails, ChangeView,
         handleRefreshEntries, MutationNext, handleUpload, handleCreateFolder,
         handlePublish, openDelete, closeDelete, handleDelete, ServerApplies,
         MutationSucceeds, MutationSettles, MutationFails,
         BulkNext, handleSelectAll, handleSelectEntry,
         setBulkDeleteDialogOpen, handleConfirmBulkDelete, ServerDeletesBatch,
         BulkSucceeds, BulkSettles, BulkFails, OtherClient, server, vars
<1> QED BY <1>1, <1>2

\* The date of a bulk deletion changes when the server performs it.
LEMMA BulkDate ==
    ASSUME EntriesAssumption, Types, [Next]_vars
    PROVE  bulk'.at \in {bulk.at, 0, clock'}
<1>1. ASSUME NEW v, bulk' = IF bulk.wait = v THEN [bulk EXCEPT !.wait = NoView] ELSE bulk
      PROVE  bulk'.at = bulk.at
  BY <1>1 DEF Types, Bulks
<1>2. CASE QueryNext
  <2>1. ASSUME NEW v \in Views, ListingArrives(v) \/ ListingFails(v)
        PROVE  bulk'.at = bulk.at
    BY <1>1, <2>1 DEF ListingArrives, ListingFails, Released
  <2>2. handleRefreshEntries => bulk'.at = bulk.at
    BY <1>1 DEF handleRefreshEntries, Released
  <2> QED BY <1>2, <2>1, <2>2 DEF QueryNext, ServerLists, ChangeView
<1>3. CASE MutationNext
  <2>1. ASSUME NEW s \in Slots, MutationSucceeds(s)
        PROVE  bulk'.at = bulk.at
    BY <1>1, <2>1 DEF MutationSucceeds
  <2> QED BY <1>3, <2>1 DEF MutationNext, handleUpload, handleCreateFolder,
             handlePublish, openDelete, closeDelete, handleDelete, ServerApplies,
             MutationSettles, MutationFails
<1>4. CASE BulkNext
  <2>1. \A failed : ServerDeletesBatch(failed) => bulk'.at = clock'
    BY DEF ServerDeletesBatch, Types, Bulks
  <2>2. handleConfirmBulkDelete \/ BulkSettles \/ BulkFails => bulk'.at = 0
    <3>1. handleConfirmBulkDelete => bulk' = [NoBulk EXCEPT !.phase = "sent", !.paths = BulkPaths]
      BY DEF handleConfirmBulkDelete
    <3>2. BulkSettles \/ BulkFails => bulk' = NoBulk
      BY DEF BulkSettles, BulkFails
    <3>3. NoBulk.at = 0 /\ [NoBulk EXCEPT !.phase = "sent", !.paths = BulkPaths].at = 0
      BY DEF NoBulk
    <3> QED BY <3>1, <3>2, <3>3
  <2>3. BulkSucceeds => bulk'.at = bulk.at
    BY DEF BulkSucceeds, Types, Bulks
  <2> QED BY <1>4, <2>1, <2>2, <2>3
          DEF BulkNext, handleSelectAll, handleSelectEntry, setBulkDeleteDialogOpen
<1> QED BY <1>2, <1>3, <1>4 DEF Next, OtherClient, vars

LEMMA WritesStep ==
    ASSUME EntriesAssumption, Types, DialogShown, WritesDated, [Next]_vars
    PROVE  WritesDated'
<1>1. ASSUME NEW s \in Slots
      PROVE  muts'[s].at <= clock' /\ (muts'[s].kind = "publishSite" => muts'[s].at = 0)
  <2>1. SlotMove(s) /\ muts[s].at \in Nat
    BY SlotMoves DEF Types, Mutations
  <2>2. muts[s].at <= clock /\ (muts[s].kind = "publishSite" => muts[s].at = 0)
    BY DEF WritesDated
  <2> QED BY <2>1, <2>2, ClockMoves DEF SlotMove, Keeps, Begins, Applied, Ends, Idle
<1>2. bulk'.at <= clock'
  <2>1. bulk.at \in Nat /\ bulk.at <= clock
    BY DEF WritesDated, Types, Bulks
  <2> QED BY <2>1, BulkDate, ClockMoves
<1> QED BY <1>1, <1>2 DEF WritesDated

\* What a step does to the query of one key.
Rests(v) ==
    /\ fetch'[v] = fetch[v] /\ data'[v] = data[v] /\ acked'[v] = acked[v]
    /\ v \in failing' <=> v \in failing
Restarts(v) == fetch'[v].phase = "sent" /\ acked'[v] <= clock
Answered(v) ==
    /\ fetch'[v].phase = "answered" /\ fetch'[v].answer.asOf = clock
    /\ acked'[v] = acked[v]
Arrives(v) ==
    /\ fetch[v].phase = "answered" /\ data'[v] = fetch[v].answer
    /\ fetch'[v].phase = "idle" /\ acked'[v] = acked[v]
Fails(v) == fetch'[v].phase = "idle" /\ v \in failing' /\ acked'[v] = acked[v]
Watches(v) == fetch[v].phase # "idle" /\ fetch'[v] = fetch[v] /\ acked'[v] = acked[v]

QueryMove(v) ==
    Rests(v) \/ Restarts(v) \/ Answered(v) \/ Arrives(v) \/ Fails(v) \/ Watches(v)

\* An acknowledged write restarts the fetch of the key on the screen, or is not
\* owed to it.
LEMMA AcknowledgedMove ==
    ASSUME EntriesAssumption, Types, NEW v \in Views, acked[v] <= clock,
           NEW at \in 0..MaxClock, at <= clock,
           fetch' = Invalidated, acked' = Acknowledged(at), UNCHANGED <<data, failing>>
    PROVE  QueryMove(v)
<1>1. acked[v] \in Nat /\ clock \in Nat /\ v \in DOMAIN acked /\ v \in DOMAIN fetch
  BY DEF Types
<1>2. CASE v # view
  BY <1>1, <1>2 DEF Invalidated, Acknowledged, QueryMove, Rests, Types
<1>3. CASE v = view /\ Joins
  BY <1>1, <1>3 DEF Invalidated, Acknowledged, QueryMove, Rests, Joins, Types
<1>4. CASE v = view /\ ~Joins
  <2>1. fetch'[v].phase = "sent"
    BY <1>1, <1>4 DEF Invalidated, Sent, Types
  <2>2. acked'[v] <= clock
    BY <1>1, <1>4 DEF Acknowledged, Types
  <2> QED BY <2>1, <2>2 DEF QueryMove, Restarts
<1> QED BY <1>2, <1>3, <1>4

LEMMA QueryMoves ==
    ASSUME EntriesAssumption, Types, WritesDated, [Next]_vars, NEW v \in Views,
           acked[v] <= clock
    PROVE  QueryMove(v)
<1>1. ASSUME UNCHANGED <<data, failing, fetch, acked>>
      PROVE  QueryMove(v)
  BY <1>1 DEF QueryMove, Rests
<1>2. ASSUME NEW u \in Views, ServerLists(u)
      PROVE  QueryMove(v)
  BY <1>2 DEF ServerLists, QueryMove, Rests, Answered, Types
<1>3. ASSUME NEW u \in Views, ListingArrives(u)
      PROVE  QueryMove(v)
  BY <1>3 DEF ListingArrives, QueryMove, Rests, Arrives, NoFetch, Types
<1>4. ASSUME NEW u \in Views, ListingFails(u)
      PROVE  QueryMove(v)
  BY <1>4 DEF ListingFails, QueryMove, Rests, Fails, NoFetch, Types
<1>5. ASSUME NEW u \in Views, ChangeView(u)
      PROVE  QueryMove(v)
  BY <1>5 DEF ChangeView, QueryMove, Rests, Restarts, Watches, Sent, Types
<1>6. CASE handleRefreshEntries
  BY <1>6 DEF handleRefreshEntries, Invalidated, QueryMove, Rests, Restarts, Sent, Types
<1>7. ASSUME NEW s \in Slots, MutationSucceeds(s)
      PROVE  QueryMove(v)
  <2>1. muts[s].at \in 0..MaxClock /\ muts[s].at <= clock
    BY DEF Types, Mutations, WritesDated
  <2>2. acked' = Acknowledged(muts[s].at) /\ UNCHANGED <<data, failing>>
    BY <1>7 DEF MutationSucceeds
  <2>3. CASE Awaits(muts[s])
    <3>1. fetch' = Invalidated
      BY <1>7, <2>3 DEF MutationSucceeds
    <3> QED BY <2>1, <2>2, <3>1, AcknowledgedMove
  <2>4. CASE ~Awaits(muts[s])
    <3>1. muts[s].at = 0 /\ UNCHANGED fetch
      BY <1>7, <2>4 DEF MutationSucceeds, Awaits, WritesDated
    <3>2. acked' = acked
      BY <2>2, <3>1 DEF Acknowledged, Types
    <3> QED BY <1>1, <2>2, <3>1, <3>2
  <2> QED BY <2>3, <2>4
<1>8. CASE BulkSucceeds
  <2>1. bulk.at \in 0..MaxClock /\ bulk.at <= clock
    BY DEF Types, Bulks, WritesDated
  <2>2. acked' = Acknowledged(bulk.at) /\ fetch' = Invalidated /\ UNCHANGED <<data, failing>>
    BY <1>8 DEF BulkSucceeds
  <2> QED BY <2>1, <2>2, AcknowledgedMove
<1>9. MutationNext => (\E s \in Slots : MutationSucceeds(s))
                         \/ UNCHANGED <<data, failing, fetch, acked>>
  BY DEF MutationNext, handleUpload, handleCreateFolder, handlePublish, openDelete,
         closeDelete, handleDelete, ServerApplies, MutationSettles, MutationFails, queries
<1>10. BulkNext => BulkSucceeds \/ UNCHANGED <<data, failing, fetch, acked>>
  BY DEF BulkNext, handleSelectAll, handleSelectEntry, setBulkDeleteDialogOpen,
         handleConfirmBulkDelete, ServerDeletesBatch, BulkSettles, BulkFails, queries
<1>11. (\E p \in Paths : OtherClient(p)) \/ UNCHANGED vars
          => UNCHANGED <<data, failing, fetch, acked>>
  BY DEF OtherClient, vars, queries
<1> QED BY <1>1, <1>2, <1>3, <1>4, <1>5, <1>6, <1>7, <1>8, <1>9, <1>10, <1>11
        DEF Next, QueryNext

\* What is on its way, or has come, is no older than what was acknowledged.
LEMMA DatedStep ==
    ASSUME EntriesAssumption, Types, Types', WritesDated, [Next]_vars, NEW v \in Views,
           Dated(v)
    PROVE  Dated(v)'
<1>1. QueryMove(v)
  BY QueryMoves DEF Dated
<1>2. /\ acked[v] \in Nat /\ acked'[v] \in Nat
      /\ data[v].asOf \in Nat /\ data'[v].asOf \in Nat
      /\ fetch[v].answer.asOf \in Nat /\ fetch'[v].answer.asOf \in Nat
  BY DEF Types, Listings, Fetches
<1>3. /\ acked'[v] <= clock'
      /\ fetch'[v].phase = "answered" => fetch'[v].answer.asOf >= acked'[v]
      /\ fetch'[v].phase = "idle" /\ v \notin failing' => data'[v].asOf >= acked'[v]
  BY <1>1, <1>2, ClockMoves
     DEF QueryMove, Rests, Restarts, Answered, Arrives, Fails, Watches, Dated
<1> QED BY <1>3 DEF Dated

\* The screen changes with the data of the key.
LEMMA ScreenStep ==
    ASSUME EntriesAssumption, Types, ScreenShown, [Next]_vars
    PROVE  ScreenShown'
<1>1. ASSUME UNCHANGED <<view, data, failing, screen>>, fetch'[view] = fetch[view]
      PROVE  ScreenShown'
  BY <1>1 DEF ScreenShown, Fetching
<1>2. ASSUME UNCHANGED view, fetch'[view].phase # "idle"
      PROVE  ScreenShown'
  BY <1>2 DEF ScreenShown, Fetching
<1>3. ASSUME UNCHANGED <<view, data, failing, screen>>, fetch' = Invalidated
      PROVE  ScreenShown'
  <2>1. fetch'[view] = fetch[view] \/ fetch'[view] = Sent
    BY <1>3 DEF Invalidated, Types
  <2> QED BY <1>1, <1>2, <1>3, <2>1 DEF Sent
<1>4. ASSUME NEW v \in Views, ServerLists(v)
      PROVE  ScreenShown'
  <2>1. fetch'[view] = fetch[view] \/ fetch'[view].phase = "answered"
    BY <1>4 DEF ServerLists, Types
  <2> QED BY <1>1, <1>2, <1>4, <2>1 DEF ServerLists
<1>5. ASSUME NEW v \in Views, ListingArrives(v)
      PROVE  ScreenShown'
  <2>1. CASE v = view
    <3>1. screen' = data'[view] /\ view' = view
      BY <1>5, <2>1 DEF ListingArrives, Types
    <3> QED BY <3>1 DEF ScreenShown
  <2>2. CASE v # view
    <3>1. /\ UNCHANGED <<view, screen>> /\ fetch'[view] = fetch[view]
          /\ data'[view] = data[view] /\ (view \in failing' <=> view \in failing)
      BY <1>5, <2>2 DEF ListingArrives, Types
    <3> QED BY <3>1 DEF ScreenShown, Fetching
  <2> QED BY <2>1, <2>2
<1>6. ASSUME NEW v \in Views, ListingFails(v)
      PROVE  ScreenShown'
  <2>1. CASE v = view
    BY <1>6, <2>1 DEF ListingFails, ScreenShown
  <2>2. CASE v # view
    <3>1. /\ UNCHANGED <<view, screen, data>> /\ fetch'[view] = fetch[view]
          /\ view \in failing' <=> view \in failing
      BY <1>6, <2>2 DEF ListingFails, Types
    <3> QED BY <3>1 DEF ScreenShown, Fetching
  <2> QED BY <2>1, <2>2
<1>7. ASSUME NEW v \in Views, ChangeView(v)
      PROVE  ScreenShown'
  <2>1. view' = v /\ fetch'[v].phase # "idle"
    BY <1>7 DEF ChangeView, Types, Sent
  <2> QED BY <2>1 DEF ScreenShown, Fetching
<1>8. ASSUME \/ handleRefreshEntries \/ BulkSucceeds
             \/ \E s \in Slots : MutationSucceeds(s)
      PROVE  ScreenShown'
  <2>1. UNCHANGED <<view, data, failing, screen>> /\ (fetch' = Invalidated \/ fetch' = fetch)
    BY <1>8 DEF handleRefreshEntries, BulkSucceeds, MutationSucceeds
  <2> QED BY <1>1, <1>3, <2>1
<1>9. MutationNext => \/ \E s \in Slots : MutationSucceeds(s)
                      \/ UNCHANGED <<view, data, failing, fetch, screen>>
  BY DEF MutationNext, handleUpload, handleCreateFolder, handlePublish, openDelete,
         closeDelete, handleDelete, ServerApplies, MutationSettles, MutationFails, queries
<1>10. BulkNext => BulkSucceeds \/ UNCHANGED <<view, data, failing, fetch, screen>>
  BY DEF BulkNext, handleSelectAll, handleSelectEntry, setBulkDeleteDialogOpen,
         handleConfirmBulkDelete, ServerDeletesBatch, BulkSettles, BulkFails, queries
<1>11. (\E p \in Paths : OtherClient(p)) \/ UNCHANGED vars
          => UNCHANGED <<view, data, failing, fetch, screen>>
  BY DEF OtherClient, vars, queries
<1> QED BY <1>1, <1>4, <1>5, <1>6, <1>7, <1>8, <1>9, <1>10, <1>11 DEF Next, QueryNext

-----------------------------------------------------------------------------
(* The invariant and its consequences                                      *)

LEMMA EntriesInit == EntriesAssumption /\ Init => EntriesInv
<1> SUFFICES ASSUME EntriesAssumption, Init PROVE EntriesInv
  OBVIOUS
<1>1. Types
  <2>1. 0 \in 0..MaxClock
    BY DEF EntriesAssumption
  <2>2. data \in [Views -> Listings] /\ screen \in Listings /\ bulk \in Bulks
    BY NullTypes DEF Init
  <2>3. fetch \in [Views -> Fetches]
    BY NullTypes DEF Init
  <2>4. muts \in [Slots -> Mutations]
    BY NullTypes DEF Init
  <2>5. \A s \in Slots : muts[s].wait # NoView => muts[s].phase = "settling"
    BY DEF Init, Idle
  <2>6. acked \in [Views -> 0..MaxClock]
    BY <2>1 DEF Init
  <2>7. /\ objs \subseteq Paths /\ clock \in 0..MaxClock /\ view \in Views
        /\ failing \subseteq Views /\ selectedPaths \subseteq Paths
        /\ bulkDialog \in BOOLEAN
        /\ {deleteDialog, deletingPath, publishingPath} \subseteq Paths \cup {NoPath}
    BY <2>1 DEF Init
  <2> QED BY <2>2, <2>3, <2>4, <2>5, <2>6, <2>7 DEF Types
<1>2. Targets /\ WritesDated
  BY DEF Init, Targets, WritesDated, Idle, NoBulk
<1>3. DialogShown /\ NoStuckMark
  BY DEF Init, DialogShown, NoStuckMark
<1>4. ScreenShown
  BY DEF Init, ScreenShown, Fetching, Sent
<1>5. \A v \in Views : Dated(v)
  BY DEF Init, Dated, Sent, NoFetch, NoData
<1> QED BY <1>1, <1>2, <1>3, <1>4, <1>5 DEF EntriesInv

\* The invariant of the explorer's listing (BucketObjectsPage): types, what a
\* request names, marks and dialogs of rows, and the dates of listings against
\* the dates of the writes acknowledged.
THEOREM EntriesInvariant == Spec => []EntriesInv
<1>1. EntriesInv /\ [Next]_vars => EntriesInv'
  <2> SUFFICES ASSUME EntriesInv, [Next]_vars PROVE EntriesInv'
    OBVIOUS
  <2>1. /\ Types /\ Targets /\ DialogShown /\ NoStuckMark /\ WritesDated /\ ScreenShown
        /\ \A v \in Views : Dated(v)
    BY DEF EntriesInv
  <2>2. Types' /\ Targets' /\ DialogShown'
    BY <2>1, EntriesAssumption, TypesStep, TargetsStep, DialogStep
  <2>3. NoStuckMark' /\ WritesDated' /\ ScreenShown'
    BY <2>1, <2>2, EntriesAssumption, StuckStep, WritesStep, ScreenStep
  <2>4. \A v \in Views : Dated(v)'
    BY <2>1, <2>2, EntriesAssumption, DatedStep
  <2> QED BY <2>2, <2>3, <2>4 DEF EntriesInv
<1> QED BY <1>1, EntriesAssumption, EntriesInit, PTL DEF Spec

\* The page keeps its types, and no row stays marked when its operation is over
\* (deletingPath, publishingPath), for any number of overlapping operations.
THEOREM EntriesAlwaysSound == Spec => []EntriesSound
<1>1. EntriesInv => EntriesSound
  BY TypesForm DEF EntriesInv, EntriesSound
<1> QED BY <1>1, EntriesInvariant, PTL

\* Read your writes: at rest, the listing on the screen is no older than any
\* write that was acknowledged while it was observed, however many listings,
\* operations and changes of the view interleave (invalidateQueries).
THEOREM EntriesOwnWritesShown == Spec => []OwnWritesShown
<1>1. EntriesInv => OwnWritesShown
  <2> SUFFICES ASSUME EntriesInv, ~Fetching, view \notin failing
               PROVE  screen = data[view] /\ data[view].asOf >= acked[view]
    BY DEF OwnWritesShown
  <2>1. screen = data[view]
    BY DEF EntriesInv, ScreenShown
  <2>2. Dated(view) /\ fetch[view].phase = "idle"
    BY DEF EntriesInv, Types, Fetching
  <2> QED BY <2>1, <2>2 DEF Dated
<1> QED BY <1>1, EntriesInvariant, PTL

\* Only rows on the screen are deleted, one by one (handleDeleteFile,
\* handleDeleteFolder) or in bulk (handleConfirmBulkDelete).
THEOREM EntriesDeletesShown == Spec => DeletesShown
<1> DEFINE Step ==
      /\ bulk.phase = "idle" /\ bulk'.phase = "sent" => bulk'.paths \subseteq entries
      /\ \A s \in DOMAIN muts : muts[s] = Idle /\ muts'[s].kind = "delete"
            => muts'[s].path \in entries
<1>1. EntriesInv /\ [Next]_vars => [Step]_vars
  <2> SUFFICES ASSUME EntriesInv, Next PROVE Step
    OBVIOUS
  <2>1. Types /\ DialogShown /\ DOMAIN muts = Slots
    BY DEF EntriesInv, Types
  <2>2. ASSUME NEW s \in Slots, muts[s] = Idle, muts'[s].kind = "delete"
        PROVE  muts'[s].path \in entries
    <3>1. SlotMove(s)
      BY <2>1, EntriesAssumption, SlotMoves
    <3>2. Begins(s)
      BY <2>2, <3>1 DEF SlotMove, Keeps, Applied, Ends, Idle
    <3> QED BY <2>1, <2>2, <3>2 DEF Begins, DialogShown
  <2>3. ASSUME bulk.phase = "idle", bulk'.phase = "sent"
        PROVE  bulk'.paths \subseteq entries
    <3>1. handleConfirmBulkDelete
      <4>1. ASSUME NEW v, bulk' = IF bulk.wait = v THEN [bulk EXCEPT !.wait = NoView] ELSE bulk
            PROVE  FALSE
        BY <2>1, <2>3, <4>1 DEF Types, Bulks
      <4>2. ASSUME QueryNext PROVE FALSE
        BY <2>3, <4>1, <4>2 DEF QueryNext, ServerLists, ListingArrives, ListingFails,
                                ChangeView, handleRefreshEntries, Released
      <4>3. ASSUME MutationNext PROVE FALSE
        BY <2>3, <4>1, <4>3 DEF MutationNext, handleUpload, handleCreateFolder,
               handlePublish, openDelete, closeDelete, handleDelete, ServerApplies,
               MutationSucceeds, MutationSettles, MutationFails
      <4>4. ASSUME BulkNext, ~handleConfirmBulkDelete PROVE FALSE
        BY <2>3, <4>4 DEF BulkNext, handleSelectAll, handleSelectEntry,
               setBulkDeleteDialogOpen, ServerDeletesBatch, BulkSucceeds, BulkSettles,
               BulkFails
      <4> QED BY <2>3, <4>2, <4>3, <4>4 DEF Next, OtherClient
    <3>2. bulk'.paths = BulkPaths
      BY <3>1 DEF handleConfirmBulkDelete, NoBulk
    <3> QED BY <3>2 DEF BulkPaths, selectedEntries
  <2> QED BY <2>1, <2>2, <2>3
<1> QED BY <1>1, EntriesInvariant, PTL DEF Spec, DeletesShown
=============================================================================
