-------------------------- MODULE MCStorageLedger --------------------------
(***************************************************************************)
(* Bounded instances of the server's state outside of the blob lifecycle.  *)
(* The parts share no state, so a behaviour plays one scene and the others *)
(* stay in an initial state:                                               *)
(*   "ledger"  the ledger with any caller: two blobs, so that a batch, a   *)
(*             bystander or an orphan coexist, and a quota that the two of *)
(*             them can exhaust;                                           *)
(*   "scan"    two scans of a root with a stray, beside an upload;         *)
(*   "pages"   a folder of four entries, walked one entry at a time;       *)
(*   "limits"  two servers, and two clients in a table for one;            *)
(*   "rows"    a folder of two files, three uploads, two deletions and two *)
(*             requests with a snapshot.                                   *)
(***************************************************************************)
EXTENDS StorageLedger, Reconciliation, SharedRateLimit, ObjectMetadata, ExplorerPages, TLC

CONSTANTS w1, w2

VARIABLE scene

MCWorkers == {w1, w2}
MCQuotaSettings == {3, 4}
MCSymmetry == Permutations(MCWorkers)

-----------------------------------------------------------------------------
ScenesInit ==
    /\ scene \in {"ledger", "scan", "pages", "limits", "rows"}
    /\ LedgerInit /\ ReconciliationInit /\ PagesInit /\ LimitsInit /\ MetadataInit
    /\ scene # "scan" => disk = {}
    /\ scene # "pages" => entries = {}

ScenesNext ==
    \/ scene = "ledger" /\ LedgerNext
       /\ UNCHANGED <<scene, reconciliationVars, pagesVars, limitsVars, metadataVars>>
    \/ scene = "scan" /\ ReconciliationNext
       /\ UNCHANGED <<scene, ledgerVars, pagesVars, limitsVars, metadataVars>>
    \/ scene = "pages" /\ PagesNext
       /\ UNCHANGED <<scene, ledgerVars, reconciliationVars, limitsVars, metadataVars>>
    \/ scene = "limits" /\ LimitsNext
       /\ UNCHANGED <<scene, ledgerVars, reconciliationVars, pagesVars, metadataVars>>
    \/ scene = "rows" /\ MetadataNext
       /\ UNCHANGED <<scene, ledgerVars, reconciliationVars, pagesVars, limitsVars>>

ScenesSpec ==
    ScenesInit /\ [][ScenesNext]_<<scene, ledgerVars, reconciliationVars, pagesVars, limitsVars,
                                   metadataVars>>
=============================================================================
