---------------------------- MODULE MCDeployment ----------------------------
(* A small instance of Deployment for TLC, given by the .cfg file. *)
EXTENDS Deployment
=============================================================================
