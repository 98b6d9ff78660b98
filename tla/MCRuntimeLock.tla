--------------------------- MODULE MCRuntimeLock ---------------------------
(* A small instance of RuntimeLock for TLC, given by the .cfg file. *)
EXTENDS RuntimeLock
=============================================================================
