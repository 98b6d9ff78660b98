--------------------------- MODULE MCTargetLanes ---------------------------
(* Small instances of TargetLanes for TLC, given by the .cfg files. *)
EXTENDS TargetLanes
=============================================================================
