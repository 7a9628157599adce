---------------------------- MODULE MCRecycleBin ----------------------------
(* Small instances of RecycleBin.                                           *)
EXTENDS RecycleBin
=============================================================================
