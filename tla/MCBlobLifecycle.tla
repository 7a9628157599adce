-------------------------- MODULE MCBlobLifecycle --------------------------
(***************************************************************************)
(* Instances of the blob lifecycle.  Two blobs let an upload replace, race *)
(* with or be batched with another; a file of one unit against a chunk of  *)
(* two makes rounded and exact reservations differ; a quota of three fits  *)
(* a rounded and an exact reservation, not two rounded ones.               *)
(***************************************************************************)
EXTENDS BlobLifecycle, TLC

CONSTANTS u1, u2, w1, w2, k1, k2

MCWorkers1 == {w1}
MCWorkers2 == {w1, w2}
MCUploaders1 == {u1}
MCUploaders2 == {u1, u2}
MCKeys1 == {k1}
MCKeys2 == {k1, k2}
MCQuota3 == {3}
MCQuota23 == {2, 3}
AllModes == {"stream", "known"}
KnownOnly == {"known"}
FaultsNoStall == {"crash", "io", "db", "ambiguous", "disconnect"}
StallOnly == {"stall"}
AllFaults == {"crash", "io", "db", "ambiguous", "disconnect", "stall"}
MCSymmetry == Permutations(MCWorkers2) \cup Permutations(MCUploaders2)
=============================================================================
