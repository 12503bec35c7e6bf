----------------------------- MODULE MCPkKernel -----------------------------
EXTENDS PkKernel, TLC

CONSTANTS a, b, c, s1

\* Two threads of the same priority above a third one.
SharedPriority == a :> 0 @@ b :> 0 @@ c :> 1

\* Every thread has its own priority.
OwnPriority == a :> 0 @@ b :> 1
=============================================================================
