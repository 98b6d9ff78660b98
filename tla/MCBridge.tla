------------------------------ MODULE MCBridge ------------------------------
(* A small instance of Bridge for TLC, given by the .cfg file. *)
EXTENDS Bridge

=============================================================================
