------------------------------ MODULE MCPkTimer ------------------------------
(* The time queue on two or three timers: the .cfg files say who calls what. *)
EXTENDS PkTimer

CONSTANTS t1, t2, t3
=============================================================================
