--------------------------- MODULE MCWorkSessions ---------------------------
(* Small instances of WorkSessions for TLC, given by the .cfg files. *)
EXTENDS WorkSessions
=============================================================================
