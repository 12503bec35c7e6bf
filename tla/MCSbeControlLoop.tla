-------------------------- MODULE MCSbeControlLoop --------------------------
(* The control loop on small instances: the .cfg files give the bounds.     *)
EXTENDS SbeControlLoop
=============================================================================
