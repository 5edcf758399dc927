-------------------------- MODULE MCBackupService --------------------------
(***************************************************************************)
(* TLC instances of BackupService.                                         *)
(***************************************************************************)
EXTENDS BackupService, TLC

\* Uploads and accounts are interchangeable.  Used for safety only.
Symmetry == Permutations(Upload) \cup Permutations(Account)
=============================================================================
