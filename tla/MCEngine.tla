------------------------------ MODULE MCEngine ------------------------------
(* Small instances of Engine for TLC, given by the .cfg files. *)
EXTENDS Engine
=============================================================================
