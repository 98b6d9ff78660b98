----------------------------- MODULE MCAuditLog -----------------------------
(* A small instance of AuditLog for TLC, given by the .cfg file. *)
EXTENDS AuditLog
=============================================================================
