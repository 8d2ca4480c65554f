------------------------------ MODULE MCBackup ------------------------------
(* Two backups: one whose requests are late while the other is under way.    *)
EXTENDS Backup
=============================================================================
