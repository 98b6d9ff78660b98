------------------------- MODULE MCDatabaseTargets -------------------------
(* Small instances of DatabaseTargets for TLC, given by the .cfg files. *)
EXTENDS DatabaseTargets
=============================================================================
