---------------------------- MODULE MCFsStorage ----------------------------
(***************************************************************************)
(* Small instances of FsStorage: its constants are numbers.                *)
(***************************************************************************)
EXTENDS FsStorage
=============================================================================
