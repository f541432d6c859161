------------------------------ MODULE MCBackup ------------------------------
(* A small instance of Backup: a directory for each blob, and an empty one. *)
EXTENDS Backup

MCDirOf == [d \in Digests |-> IF d = "d1" THEN "x" ELSE "y"]
=============================================================================
