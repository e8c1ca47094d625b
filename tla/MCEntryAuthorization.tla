------------------------ MODULE MCEntryAuthorization ------------------------
(* Small instances of the entry authorization for TLC.                     *)
EXTENDS EntryAuthorization
=============================================================================
