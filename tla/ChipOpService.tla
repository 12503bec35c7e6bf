---------------------------- MODULE ChipOpService ----------------------------
(***************************************************************************)
(* What the SBE promises its clients, the service processor and the host:  *)
(* a client that asks for a chip-op gets one answer, the answer to what it *)
(* asked, and gets it in the end.  How interrupts, threads and headers are *)
(* shared between the clients does not show here.                          *)
(***************************************************************************)
EXTENDS Naturals

CONSTANT Client

VARIABLES
    phase,     \* where each client's latest request is
    asked,     \* how many requests each client has made
    answer     \* the request the answer in a client's hands is for, 0 if none

vars == <<phase, asked, answer>>

TypeOK ==
    /\ phase \in [Client -> {"idle", "pending", "answered"}]
    /\ asked \in [Client -> Nat] /\ answer \in [Client -> Nat]

Init ==
    /\ phase = [c \in Client |-> "idle"]
    /\ asked = [c \in Client |-> 0] /\ answer = [c \in Client |-> 0]

Ask(c) ==
    /\ phase[c] = "idle"
    /\ phase' = [phase EXCEPT ![c] = "pending"]
    /\ asked' = [asked EXCEPT ![c] = @ + 1]
    /\ UNCHANGED answer

Answer(c) ==
    /\ phase[c] = "pending"
    /\ phase' = [phase EXCEPT ![c] = "answered"]
    /\ answer' = [answer EXCEPT ![c] = asked[c]]
    /\ UNCHANGED asked

Collect(c) ==
    /\ phase[c] = "answered"
    /\ phase' = [phase EXCEPT ![c] = "idle"]
    /\ answer' = [answer EXCEPT ![c] = 0]
    /\ UNCHANGED asked

Next == \E c \in Client : Ask(c) \/ Answer(c) \/ Collect(c)

Safe == Init /\ [][Next]_vars

\* A client need not ask, but every request is answered.
Live == \A c \in Client : phase[c] = "pending" ~> phase[c] = "answered"

Spec == Safe /\ Live
=============================================================================
