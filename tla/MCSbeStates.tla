----------------------------- MODULE MCSbeStates -----------------------------
(* The SBE state machine on small instances: the .cfg files give the bounds. *)
EXTENDS SbeStates
=============================================================================
