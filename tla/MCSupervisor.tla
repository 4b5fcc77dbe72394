---------------------------- MODULE MCSupervisor ----------------------------
(* Instances of Supervisor for TLC; the bounds are in the .cfg files.      *)
EXTENDS Supervisor
=============================================================================
