----------------------------- MODULE MCRecords -----------------------------
(***************************************************************************)
(* Small instances of Records: all constants are numbers and come from the *)
(* configuration.                                                          *)
(***************************************************************************)
EXTENDS Records
=============================================================================
