------------------------------ MODULE MCDaemon ------------------------------
(* A small instance of Daemon for TLC, given by the .cfg file. *)
EXTENDS Daemon

=============================================================================
