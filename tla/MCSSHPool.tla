------------------------------ MODULE MCSSHPool ------------------------------
(* Small instances of SSHPool for TLC. *)
EXTENDS SSHPool, TLC

\* Goroutines and addresses of entries are interchangeable.
MCSymmetry == Permutations(Users) \cup Permutations(Admins) \cup Permutations(Entries)

=============================================================================
