--------------------------- MODULE SbeMessagingReg ---------------------------
(***************************************************************************)
(* The SBE messaging register and its image in memory (sberegaccess.C).    *)
(* The state, the async-FFDC bit and the boot bit are bit fields of one    *)
(* 64-bit union member.  An update assigns its fields in the image and     *)
(* writes the whole image to the register with putscom_abs.                *)
(*                                                                         *)
(* Assigning a bit field loads the storage unit that holds it, changes the *)
(* field and stores the unit back; the argument of putscom_abs is loaded   *)
(* before the store to the register.  No critical section covers either,   *)
(* and the deadman timer's callback, which runs in interrupt context,      *)
(* updates the same register through captureAsyncFFDC.  The model starts   *)
(* in the DMT state with that timer running, and the command processor     *)
(* executes the chip-ops that reach an update in that state.               *)
(***************************************************************************)
EXTENDS Sequences, FiniteSets, Naturals

CONSTANTS
    Units,         \* a partition of the fields: those that share a storage unit
    MaxUpdates     \* bound: updates the command processor makes

Field == {"sbeBooted", "asyncFFDC", "prevState", "currState", "step"}

VARIABLES
    image,     \* iv_messagingReg, a value for every field
    reg,       \* PERV_SB_MSG_SCOM
    todo,      \* the assignments the thread's update has left, <<field, value>>
    own,       \* the fields the update is about, {} outside an update
    unit,      \* the fields of the storage unit in the thread's hands, {} if none
    temp,      \* what the thread loaded: a storage unit, or the whole image
    timer,     \* the deadman timer
    updates

vars == <<image, reg, todo, own, unit, temp, timer, updates>>

Init ==
    /\ image = [sbeBooted |-> TRUE, asyncFFDC |-> FALSE, prevState |-> "RUNTIME",
                currState |-> "DMT", step |-> 5]
    /\ reg = image /\ temp = image
    /\ todo = <<>> /\ own = {} /\ unit = {}
    /\ timer = "running" /\ updates = 0

\* sbeGetFfdc, at its end, turns the async-FFDC bit off.
updateAsyncFFDCBit ==
    /\ own = {} /\ updates < MaxUpdates
    /\ own' = {"asyncFFDC"} /\ todo' = <<<<"asyncFFDC", FALSE>>>>
    /\ updates' = updates + 1
    /\ UNCHANGED <<image, reg, unit, temp, timer>>

\* sbeFifoQuiesce and sbePsuQuiesce: stateTransition reads the state and, where
\* the map has a row for it, calls updateSbeState.
stateTransition ==
    /\ own = {} /\ updates < MaxUpdates
    /\ image["currState"] = "DMT"
    /\ own' = {"prevState", "currState"}
    /\ todo' = <<<<"prevState", image["currState"]>>, <<"currState", "QUIESCE">>>>
    /\ updates' = updates + 1
    /\ UNCHANGED <<image, reg, unit, temp, timer>>

\* An assignment to a bit field: the storage unit is read ...
LoadUnit ==
    /\ todo # <<>> /\ unit = {}
    /\ unit' = CHOOSE u \in Units : Head(todo)[1] \in u
    /\ temp' = image
    /\ UNCHANGED <<image, reg, todo, own, timer, updates>>

\* ... and written back with the field changed.
StoreUnit ==
    /\ todo # <<>> /\ unit # {}
    /\ image' = [f \in Field |-> IF f = Head(todo)[1] THEN Head(todo)[2]
                                 ELSE IF f \in unit THEN temp[f] ELSE image[f]]
    /\ todo' = Tail(todo) /\ unit' = {}
    /\ UNCHANGED <<reg, own, temp, timer, updates>>

\* putscom_abs takes the image by value ...
LoadArgument ==
    /\ own # {} /\ todo = <<>> /\ unit = {}
    /\ unit' = Field /\ temp' = image
    /\ UNCHANGED <<image, reg, todo, own, timer, updates>>

\* ... and stores it to the register.
putscom_abs ==
    /\ own # {} /\ todo = <<>> /\ unit = Field
    /\ reg' = temp
    /\ unit' = {} /\ own' = {}
    /\ UNCHANGED <<image, todo, temp, timer, updates>>

\* The callback of the expired timer: the dump state, if the map has a row for
\* it, then the async-FFDC bit.  It is not interrupted by the thread.
captureAsyncFFDC ==
    /\ timer = "running" /\ timer' = "expired"
    /\ image' = IF image["currState"] = "DMT"
                THEN [image EXCEPT !["prevState"] = "DMT", !["currState"] = "DUMP",
                                   !["asyncFFDC"] = TRUE]
                ELSE [image EXCEPT !["asyncFFDC"] = TRUE]
    /\ reg' = image'
    /\ UNCHANGED <<todo, own, unit, temp, updates>>

Thread == updateAsyncFFDCBit \/ stateTransition \/ LoadUnit \/ StoreUnit
          \/ LoadArgument \/ putscom_abs

Next == Thread \/ captureAsyncFFDC

\* The processor finishes an update it has begun, and the timer expires.
Spec ==
    /\ Init /\ [][Next]_vars
    /\ WF_vars(LoadUnit \/ StoreUnit \/ LoadArgument \/ putscom_abs)
    /\ WF_vars(captureAsyncFFDC)

\* Every update of the register keeps the bits it is not about: what the
\* comments of updateSbeState and updateAsyncFFDCBit say of putscom_abs of the
\* image.  The callback's own update falls between two steps of the thread's.
OtherBitsRetained == [][putscom_abs => \A f \in Field \ own : reg'[f] = reg[f]]_vars
=============================================================================
