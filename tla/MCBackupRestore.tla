-------------------------- MODULE MCBackupRestore --------------------------
(***************************************************************************)
(* One data volume with its service and its scripts.                       *)
(***************************************************************************)
EXTENDS BackupRestore
=============================================================================
