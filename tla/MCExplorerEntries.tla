------------------------- MODULE MCExplorerEntries -------------------------
(***************************************************************************)
(* Bounded instances of ExplorerEntries on the same variables.  The        *)
(* constants of the configuration are the union of those of the instances. *)
(* A behaviour plays one of four scenes:                                   *)
(*   "rows"     two deletions pending together and two listings that share *)
(*              a path, with two writes to the bucket;                     *)
(*   "marks"    every operation of the toolbar and of a row, two at a      *)
(*              time;                                                      *)
(*   "publish"  two rows published, together or one after the other;       *)
(*   "bulk"     selection and bulk deletion beside other clients.          *)
(***************************************************************************)
EXTENDS ExplorerEntries, TLC

CONSTANTS p1, p2, v1, v2, s1, s2

VARIABLE scene

TwoViews == v1 :> {p1, p2} @@ v2 :> {p2}
OnePath == v1 :> {p1} @@ v2 :> {}
RowKinds == {"upload", "createFolder", "delete", "publishSite", "publishObject"}

Rows == INSTANCE ExplorerEntries WITH Kinds <- {"delete"}

Marks == INSTANCE ExplorerEntries WITH
    Paths <- {p1}, Lists <- OnePath, Kinds <- RowKinds, MaxClock <- 1

Publish == INSTANCE ExplorerEntries WITH
    Kinds <- {"publishSite", "publishObject"}, MaxClock <- 1

Bulk == INSTANCE ExplorerEntries WITH Kinds <- {"bulk"}, MaxClock <- 1

ASSUME ScenesAssumption ==
    /\ Rows!EntriesAssumption /\ Marks!EntriesAssumption
    /\ Publish!EntriesAssumption /\ Bulk!EntriesAssumption

ScenesInit ==
    \/ scene = "rows" /\ Rows!Init
    \/ scene = "marks" /\ Marks!Init
    \/ scene = "publish" /\ Publish!Init
    \/ scene = "bulk" /\ Bulk!Init

ScenesNext ==
    \/ scene = "rows" /\ Rows!Next /\ UNCHANGED scene
    \/ scene = "marks" /\ Marks!Next /\ UNCHANGED scene
    \/ scene = "publish" /\ Publish!Next /\ UNCHANGED scene
    \/ scene = "bulk" /\ Bulk!Next /\ UNCHANGED scene

ScenesSpec == ScenesInit /\ [][ScenesNext]_<<vars, scene>>

Symmetry == Permutations({s1, s2})
=============================================================================
