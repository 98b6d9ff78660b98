------------------------- MODULE MCDispatchBarrier -------------------------
(* Small instances of DispatchBarrier for TLC, given by the .cfg files. *)
EXTENDS DispatchBarrier
=============================================================================
