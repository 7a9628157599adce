---------------------------- MODULE MCUploadFlow ----------------------------
(* Small instances of UploadFlow: two folders and one or two names.         *)
EXTENDS UploadFlow
=============================================================================
