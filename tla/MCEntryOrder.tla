---------------------------- MODULE MCEntryOrder ----------------------------
(* Small instances of the order pipeline for TLC.                          *)
EXTENDS EntryOrder
=============================================================================
