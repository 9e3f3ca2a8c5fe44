----------------------------- MODULE MCBackups -----------------------------
(* Backups on small instances. *)
EXTENDS Backups
=============================================================================
