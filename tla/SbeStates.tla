------------------------------ MODULE SbeStates ------------------------------
(***************************************************************************)
(* The SBE state (SbeRegAccess), the fences it puts on chip-ops, and the   *)
(* code that moves it: boot and IPL, isteps, MPIPL, the deadman timer,     *)
(* quiesce, the asynchronous thread and a hard reset of the SBE.           *)
(*                                                                         *)
(* stateTransition reads the state, looks up the event and then updates    *)
(* the state: two actions, between which the timer callback may change it. *)
(* The receiver checks a command's fence when it receives it; the          *)
(* processor runs it later.  Chip-ops that leave the state alone, and      *)
(* register faults, are left to SbeControlLoop.                            *)
(***************************************************************************)
EXTENDS Naturals

CONSTANTS
    Fused,         \* fused-core mode: both cores of the EX must stop
    ShortTimer,    \* may the deadman timer expire before the DMT state is entered?
    MaxCmds,       \* bound: commands received
    MaxHresets,    \* bound: hard resets of the SBE
    None

ASSUME FlagAssumption  == Fused \in BOOLEAN /\ ShortTimer \in BOOLEAN
ASSUME BoundAssumption == MaxCmds \in Nat /\ MaxHresets \in Nat

State == {"UNKNOWN", "IPLING", "ISTEP", "MPIPL", "RUNTIME", "DMT", "DUMP", "FAILURE", "QUIESCE"}
Event == {"RUNTIME", "ISTEP", "PLCK", "DUMP_FAILURE", "ENTER_MPIPL", "DMT_ENTER", "DMT_COMP",
          "FAILURE", "QUIESCE"}
Interface == {"FIFO", "PSU", "S0"}
Op == {"istep", "getffdc", "quiesce", "entermpipl", "contmpipl", "dmt_start", "dmt_stop", "s0"}

ASSUME NoneAssumption == None \notin State \cup Event \cup Interface \cup Op

VARIABLES
    state, prevState,    \* iv_currState, iv_prevState of the messaging register
    asyncFFDC,           \* its iv_asyncFFDC
    accepted,            \* the command the receiver handed over on each interface
    serving,             \* the interface whose command the processor runs
    pc,                  \* where the processor is
    event, l_state,      \* stateTransition's argument and local; None outside of it
    timer,               \* g_sbe_pk_dmt_timer: "idle", "running", or "lost" by a reset
    suspended,           \* the asynchronous thread is suspended
    rcFapi,              \* of sbeStartCntlDmt
    stop15,              \* the cores that have entered stop 15
    bell,                \* the doorbell that tells the host so
    checkstop,           \* the system was checkstopped by the deadman timer
    breached,            \* history: a chip-op ran in a state that it is fenced in
    received, hresets

regVars == <<state, prevState, asyncFFDC>>
dmtVars == <<timer, rcFapi, stop15, bell, checkstop>>
boundVars == <<received, hresets, breached>>
vars == <<regVars, dmtVars, boundVars, accepted, serving, pc, event, l_state, suspended>>

TypeOK ==
    /\ state \in State /\ prevState \in State /\ asyncFFDC \in BOOLEAN
    /\ accepted \in [Interface -> Op \cup {None}] /\ serving \in Interface \cup {None}
    /\ pc \in Op \cup {"halted", "boot", "ipl", "ipl_end", "idle", "start_mpipl", "s0_start",
                       "flag", "dmt_check", "dmt_sleep", "dmt_unblock", "done"}
    /\ event \in Event \cup {None} /\ l_state \in State \cup {None}
    /\ timer \in {"idle", "running", "lost"}
    /\ breached \in BOOLEAN /\ suspended \in BOOLEAN /\ bell \in BOOLEAN /\ checkstop \in BOOLEAN
    /\ rcFapi \in [{0, 1} -> {"PENDING", "SUCCESS"}] /\ stop15 \subseteq {0, 1}
    /\ received \in 0 .. MaxCmds /\ hresets \in 0 .. MaxHresets

-----------------------------------------------------------------------------
(* The state machine and the fences.                                       *)

stateTransMap ==
    {<<"UNKNOWN", "FAILURE", "FAILURE">>, <<"UNKNOWN", "RUNTIME", "RUNTIME">>,
     <<"UNKNOWN", "ISTEP", "ISTEP">>,     <<"UNKNOWN", "PLCK", "IPLING">>,
     <<"IPLING", "RUNTIME", "RUNTIME">>,  <<"IPLING", "DUMP_FAILURE", "DUMP">>,
     <<"IPLING", "FAILURE", "FAILURE">>,  <<"IPLING", "QUIESCE", "QUIESCE">>,
     <<"ISTEP", "RUNTIME", "RUNTIME">>,   <<"ISTEP", "FAILURE", "FAILURE">>,
     <<"ISTEP", "QUIESCE", "QUIESCE">>,
     <<"MPIPL", "RUNTIME", "RUNTIME">>,   <<"MPIPL", "DUMP_FAILURE", "DUMP">>,
     <<"MPIPL", "QUIESCE", "QUIESCE">>,
     <<"RUNTIME", "DUMP_FAILURE", "DUMP">>, <<"RUNTIME", "ENTER_MPIPL", "MPIPL">>,
     <<"RUNTIME", "DMT_ENTER", "DMT">>,   <<"RUNTIME", "FAILURE", "FAILURE">>,
     <<"RUNTIME", "QUIESCE", "QUIESCE">>,
     <<"DMT", "DMT_COMP", "RUNTIME">>,    <<"DMT", "QUIESCE", "QUIESCE">>,
     <<"DMT", "DUMP_FAILURE", "DUMP">>}

\* Wrong: a dump failure is not looked up in the deadman state.
Finals_NoDmtDump(s, e) ==
    {t[3] : t \in {u \in stateTransMap : u[1] = s /\ u[2] = e /\ u # <<"DMT", "DUMP_FAILURE", "DUMP">>}}

\* Wrong: the map's entry is read in the wrong column.
Finals_Event(s, e) == {t[2] : t \in {u \in stateTransMap : u[1] = s /\ u[2] = e}}

\* The state that event e leads to from s, if the map has one.
Finals(s, e) == {t[3] : t \in {u \in stateTransMap : u[1] = s /\ u[2] = e}}

HARDWARE_FENCED_STATE == {"IPLING", "DMT"}

cmd_state_fence ==
    [op \in Op |->
        CASE op \in {"getffdc", "quiesce", "s0"} -> {}
          [] op = "istep" -> HARDWARE_FENCED_STATE \cup {"DUMP"}
          [] op = "entermpipl" -> HARDWARE_FENCED_STATE \cup {"MPIPL", "ISTEP", "DUMP"}
          [] op = "contmpipl" -> HARDWARE_FENCED_STATE \cup {"ISTEP", "RUNTIME", "DUMP"}
          [] op \in {"dmt_start", "dmt_stop"} -> {"IPLING", "QUIESCE", "MPIPL", "ISTEP", "DUMP"}]

\* UNKNOWN and FAILURE are listed first, and fence nothing.
sbeIsCmdAllowed(op) == state # "QUIESCE" /\ state \notin cmd_state_fence[op]

\* What the comments of the same function say: everything is fenced in these states.
Fence(op) == cmd_state_fence[op] \cup {"UNKNOWN", "FAILURE", "QUIESCE"}

OpsOf == [FIFO |-> {"istep", "getffdc", "quiesce", "entermpipl", "contmpipl"},
          PSU |-> {"quiesce", "dmt_start", "dmt_stop"}, S0 |-> {"s0"}]

\* updateSbeState, and the case that the map has nothing to do.
Enter(finals) ==
    IF finals = {} THEN UNCHANGED <<state, prevState>>
                   ELSE state' \in finals /\ prevState' = state

\* captureAsyncFFDC in one piece: in a critical section or a timer callback.
CaptureAsyncFFDC == Enter(Finals(state, "DUMP_FAILURE")) /\ asyncFFDC' = TRUE

-----------------------------------------------------------------------------
(* The processor's calls of stateTransition.                               *)

Runs(p) == pc = p /\ event = None

Goto(q) == pc' = q /\ UNCHANGED <<event, l_state>>

\* Call stateTransition(e) and go on at q.
Raise(e, q) == pc' = q /\ event' = e /\ UNCHANGED l_state

FetchState ==
    /\ event # None /\ l_state = None
    /\ l_state' = state
    /\ UNCHANGED <<regVars, dmtVars, boundVars, accepted, serving, pc, event, suspended>>

UpdateState ==
    /\ event # None /\ l_state # None
    /\ Enter(Finals(l_state, event))
    /\ event' = None /\ l_state' = None
    /\ UNCHANGED <<asyncFFDC, dmtVars, boundVars, accepted, serving, pc, suspended>>

-----------------------------------------------------------------------------
(* The receiver and the processor's loop.                                  *)

\* A command arrives; one that is fenced is answered and forgotten.
Receive(i, op) ==
    /\ pc # "halted"
    /\ received < MaxCmds /\ accepted[i] = None /\ serving # i /\ op \in OpsOf[i]
    /\ received' = received + 1
    /\ accepted' = IF sbeIsCmdAllowed(op) \/ i = "S0" THEN [accepted EXCEPT ![i] = op]
                                                      ELSE accepted
    /\ UNCHANGED <<regVars, dmtVars, hresets, breached, serving, pc, event, l_state, suspended>>

\* PSU before FIFO before S0.
Take(i) ==
    /\ Runs("idle") /\ accepted[i] # None
    /\ i = "FIFO" => accepted["PSU"] = None
    /\ i = "S0" => accepted["PSU"] = None /\ accepted["FIFO"] = None
    /\ Goto(accepted[i]) /\ serving' = i
    /\ accepted' = [accepted EXCEPT ![i] = None]
    /\ breached' = (breached \/ (i # "S0" /\ state \in Fence(accepted[i])))
    /\ UNCHANGED <<regVars, dmtVars, received, hresets, suspended>>

Done ==
    /\ Runs("done")
    /\ Goto("idle") /\ serving' = None
    /\ UNCHANGED <<regVars, dmtVars, boundVars, accepted, suspended>>
-----------------------------------------------------------------------------
(* Boot and chip-ops.                                                      *)

\* Boot: an initialisation fails and main returns, or to the destination the mailbox
\* names, or back to where a hard reset hit.
Boot ==
    /\ Runs("boot")
    /\ \/ hresets = 0 /\ state' \in Finals(state, "FAILURE") /\ Goto("halted")
       \/ hresets > 0 /\ state' = state /\ Goto("idle")
       \/ hresets = 0 /\ state' \in {"RUNTIME", "ISTEP"} /\ Goto("idle")
       \/ hresets = 0 /\ state' = "IPLING" /\ Goto("ipl")
    /\ prevState' = state
    /\ UNCHANGED <<asyncFFDC, dmtVars, boundVars, accepted, serving, suspended>>

\* The rest of captureAsyncFFDC in a thread.
FlagAsyncFFDC ==
    /\ Runs("flag")
    /\ asyncFFDC' = TRUE /\ Goto("done")
    /\ UNCHANGED <<state, prevState, dmtVars, boundVars, accepted, serving, suspended>>

sbeGetFfdc ==
    /\ Runs("getffdc")
    /\ asyncFFDC' = FALSE /\ Goto("done")
    /\ UNCHANGED <<state, prevState, dmtVars, boundVars, accepted, serving, suspended>>

\* The hardware procedures of a handler p run up to one that raises an event, one
\* that fails, or a checkstop that is only reported.
Procedures(p) ==
    Runs(p) /\ UNCHANGED <<regVars, dmtVars, boundVars, accepted, serving, suspended>>

\* Every step up to RUNTIME, or to a failure, or to a checkstop.
sbeDoContinuousIpl ==
    \/ Procedures("ipl") /\ (Raise("RUNTIME", "ipl_end") \/ Raise("DUMP_FAILURE", "flag"))
    \/ Procedures("ipl_end") /\ (Goto("done") \/ Raise("DUMP_FAILURE", "flag"))

\* One step: the one that starts the host, the first of MPIPL, any other, one that fails.
sbeHandleIstep ==
    /\ Procedures("istep")
    /\ \/ Raise("RUNTIME", "done") \/ Raise("ENTER_MPIPL", "start_mpipl")
       \/ Raise("DUMP_FAILURE", "done") \/ Goto("done")

\* The first step of startMpiplIstepsExecute raises the event, then the others run.
sbeEnterMpipl ==
    \/ Procedures("entermpipl") /\ Raise("ENTER_MPIPL", "start_mpipl")
    \/ Procedures("start_mpipl") /\ (Raise("DUMP_FAILURE", "done") \/ Goto("done"))

sbeContinueMpipl ==
    /\ Procedures("contmpipl")
    /\ Raise("RUNTIME", "done") \/ Raise("DUMP_FAILURE", "done") \/ Goto("done")

\* A slave stops after the first half; a failure is captured as asynchronous FFDC.
sbeHandleS0 ==
    \/ Procedures("s0") /\ Raise("ENTER_MPIPL", "s0_start")
    \/ /\ Procedures("s0_start")
       /\ Raise("RUNTIME", "done") \/ Raise("DUMP_FAILURE", "flag") \/ Goto("done")

\* Wrong: the state is changed and the asynchronous thread left alone.
Suspends_Not == UNCHANGED suspended

Suspends == suspended' = TRUE

sbeQuiesce ==
    /\ Runs("quiesce")
    /\ Suspends
    /\ Raise("QUIESCE", "done")
    /\ UNCHANGED <<regVars, dmtVars, boundVars, accepted, serving>>

-----------------------------------------------------------------------------
(* The deadman timer.                                                      *)

\* Wrong: the state is entered and no timer started.
startTimer_Not == timer

\* timerService::startTimer, which fails on a timer that seems to be running.
startTimer == IF timer = "idle" THEN "running" ELSE timer

\* The array initialiser names the first core's code only; the other is 0, success.
sbeStartCntlDmt ==
    /\ Runs("dmt_start")
    /\ timer' = startTimer
    /\ rcFapi' = [c \in {0, 1} |-> IF c = 0 THEN "PENDING" ELSE "SUCCESS"]
    /\ stop15' = {} /\ bell' = FALSE
    /\ Raise("DMT_ENTER", "dmt_check")
    /\ UNCHANGED <<regVars, boundVars, accepted, serving, suspended, checkstop>>

\* One round of p9_sbe_check_master_stop15: coreCnt only moves past a core that was
\* still pending.
Checked ==
    [c \in {0, 1} |->
        IF rcFapi[0] # "PENDING" THEN rcFapi[c]
        ELSE IF c = 1 /\ ~Fused THEN "SUCCESS"
        ELSE IF rcFapi[c] = "PENDING" /\ c \in stop15 THEN "SUCCESS" ELSE rcFapi[c]]

\* Wrong: a core that has not stopped is not waited for.
AllStopped_Any(rc) == \E c \in {0, 1} : rc[c] = "SUCCESS"

AllStopped(rc) == \A c \in {0, 1} : rc[c] = "SUCCESS"

\* The procedure fails, or the loop ends, or the thread sleeps.
CheckStop15 ==
    /\ Runs("dmt_check")
    /\ \/ Goto("done") /\ UNCHANGED rcFapi
       \/ /\ rcFapi' = Checked
          /\ Goto(IF AllStopped(Checked) THEN "dmt_unblock" ELSE "dmt_sleep")
    /\ UNCHANGED <<regVars, boundVars, accepted, serving, suspended, timer, stop15, bell, checkstop>>

\* Wrong: the loop goes on without a timer.
LoopsBack_Always == TRUE

\* isActive: the loop goes on.
LoopsBack == timer # "idle"

SleepStop15 ==
    /\ Runs("dmt_sleep")
    /\ Goto(IF LoopsBack THEN "dmt_check" ELSE "dmt_unblock")
    /\ UNCHANGED <<regVars, dmtVars, boundVars, accepted, serving, suspended>>

\* p9_block_wakeup_intr fails, or the host's doorbell is pressed.
UnblockWakeup ==
    /\ Runs("dmt_unblock")
    /\ Goto("done") /\ bell' \in BOOLEAN
    /\ UNCHANGED <<regVars, boundVars, accepted, serving, suspended, timer, rcFapi, stop15, checkstop>>

\* Wrong: the state is left and the timer left running.
stopTimer_Not == timer

stopTimer == "idle"

sbeStopCntlDmt ==
    /\ Runs("dmt_stop")
    /\ timer' = stopTimer
    /\ Raise("DMT_COMP", "done")
    /\ UNCHANGED <<regVars, boundVars, accepted, serving, suspended, rcFapi, stop15, bell, checkstop>>

\* The callback runs in a bottom half, over whatever thread it meets.
sbeDmtPkExpiryCallback ==
    /\ timer = "running" /\ (event = "DMT_ENTER" => ShortTimer)
    /\ timer' = "idle" /\ checkstop' = TRUE
    /\ CaptureAsyncFFDC
    /\ UNCHANGED <<boundVars, accepted, serving, pc, event, l_state, suspended, rcFapi, stop15, bell>>

\* A core of the EX enters stop 15.
CoreStops(c) ==
    /\ stop15' = stop15 \cup {c}
    /\ UNCHANGED <<regVars, boundVars, accepted, serving, pc, event, l_state, suspended,
                   timer, rcFapi, bell, checkstop>>

-----------------------------------------------------------------------------
(* The asynchronous thread and the hard reset.                             *)

\* The periodic IO toggle fails, in the critical section it runs in.  The thread has
\* the lowest priority: the processor must be waiting.
AsyncFails ==
    /\ ~suspended
    /\ Runs("dmt_sleep") \/ (Runs("idle") /\ \A i \in Interface : accepted[i] = None)
    /\ CaptureAsyncFFDC
    /\ UNCHANGED <<dmtVars, boundVars, accepted, serving, pc, event, l_state, suspended>>

\* The SBE restarts over its globals: the kernel, its queues and threads are new, the
\* messaging register and the timer's control block are not.
Hreset ==
    /\ hresets < MaxHresets /\ hresets' = hresets + 1
    /\ pc' = "boot" /\ event' = None /\ l_state' = None
    /\ accepted' = [i \in Interface |-> None] /\ serving' = None
    /\ timer' = IF timer = "idle" THEN "idle" ELSE "lost"
    /\ suspended' = FALSE
    /\ UNCHANGED <<regVars, rcFapi, stop15, bell, checkstop, received, breached>>

-----------------------------------------------------------------------------
Init ==
    /\ state = "UNKNOWN" /\ prevState = "UNKNOWN" /\ asyncFFDC = FALSE
    /\ accepted = [i \in Interface |-> None] /\ serving = None
    /\ pc = "boot" /\ event = None /\ l_state = None
    /\ timer = "idle" /\ suspended = FALSE
    /\ rcFapi = [c \in {0, 1} |-> "SUCCESS"] /\ stop15 = {} /\ bell = FALSE /\ checkstop = FALSE
    /\ received = 0 /\ hresets = 0 /\ breached = FALSE

sbeSyncCommandProcessor ==
    \/ FetchState \/ UpdateState \/ (\E i \in Interface : Take(i)) \/ Done \/ Boot
    \/ FlagAsyncFFDC \/ sbeGetFfdc \/ sbeQuiesce
    \/ sbeDoContinuousIpl \/ sbeHandleIstep
    \/ sbeEnterMpipl \/ sbeContinueMpipl \/ sbeHandleS0
    \/ sbeStartCntlDmt \/ CheckStop15 \/ SleepStop15 \/ UnblockWakeup \/ sbeStopCntlDmt

Next ==
    \/ sbeSyncCommandProcessor \/ sbeDmtPkExpiryCallback \/ AsyncFails \/ Hreset
    \/ \E i \in Interface, op \in Op : Receive(i, op)
    \/ \E c \in {0, 1} : CoreStops(c)

Spec == Init /\ [][Next]_vars

\* The processor runs on, and a timer that is running expires.
Fairness == WF_vars(sbeSyncCommandProcessor) /\ WF_vars(sbeDmtPkExpiryCallback)

FairSpec == Spec /\ Fairness

-----------------------------------------------------------------------------
(* Properties.                                                             *)

\* As long as the fences hold, every change of the state after boot is one the map has
\* from the state it changes, however the threads and the timer callback interleave;
\* or it quiesces, "From Any State".  Nothing but a quiesce leaves DUMP, nothing QUIESCE.
TransitionsMapped ==
    [][state' # state /\ pc # "boot" /\ ~breached =>
          state' = "QUIESCE" \/ \E e \in Event : state' \in Finals(state, e)]_vars

\* "Final state": a quiesced SBE has its asynchronous thread suspended, until a hard
\* reset starts it again.
QuiescedIsStill == state = "QUIESCE" /\ hresets = 0 => suspended

\* SBE_QUIESCE_EVENT "From Any State" (sbeevents.H): a quiesce that is carried out leaves
\* the SBE in QUIESCE, whatever happened since it was accepted.  False in DUMP; no run
\* checks it.
QuiesceEnters == [][event = "QUIESCE" /\ event' # "QUIESCE" => state' = "QUIESCE"]_vars

\* In the deadman state the timer runs, so that a host that never comes back is
\* noticed.
DeadmanArmed ==
    state = "DMT" /\ hresets = 0 => timer = "running" \/ event = "DMT_COMP"

\* A chip-op runs only in the states that its fence allows it in.
FenceHonoured == ~breached

\* "Both cores entered stop 15 successfully": the host is not told so before, unless
\* the system was checkstopped.
DoorbellMeansStop15 ==
    [][~bell /\ bell' => checkstop \/ (IF Fused THEN {0, 1} ELSE {0}) \subseteq stop15]_vars

\* The deadman state is left again, one way or the other, unless a hard reset lost it.
DmtEnds == state = "DMT" ~> state # "DMT" \/ hresets > 0

\* The processor comes back from every command, unless it waits for a timer that a
\* hard reset lost.
ProcessorReturns == serving # None ~> serving = None \/ timer = "lost"
=============================================================================
