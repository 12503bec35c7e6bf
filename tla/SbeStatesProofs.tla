--------------------------- MODULE SbeStatesProofs ---------------------------
(***************************************************************************)
(* Theorems about the SBE state: types, the quiesced state and the deadman *)
(* state, for any number of commands and hard resets.                      *)
(***************************************************************************)
EXTENDS SbeStates, TLAPS

-----------------------------------------------------------------------------
(* What the map of transitions has.                                        *)

\* Every entry of the map leads from a state to a state by an event.
LEMMA MapTyped == stateTransMap \subseteq State \X Event \X State
BY DEF stateTransMap, State, Event

\* A look-up in the map finds states.
LEMMA FinalsTyped == \A s, e : Finals(s, e) \subseteq State
<1> SUFFICES ASSUME NEW s, NEW e, NEW t \in stateTransMap
             PROVE  t[3] \in State
    BY DEF Finals
<1> QED BY MapTyped

\* Only the quiesce event leads to QUIESCE.
LEMMA QuiesceByQuiesce == \A s, e : "QUIESCE" \in Finals(s, e) => e = "QUIESCE"
<1> SUFFICES ASSUME NEW t \in stateTransMap, t[3] = "QUIESCE"
             PROVE  t[2] = "QUIESCE"
    BY DEF Finals
<1> QED BY DEF stateTransMap

\* Only the enter event leads to DMT, and only from RUNTIME.
LEMMA DmtByEnter == \A s, e : "DMT" \in Finals(s, e) => e = "DMT_ENTER"
<1> SUFFICES ASSUME NEW t \in stateTransMap, t[3] = "DMT"
             PROVE  t[2] = "DMT_ENTER"
    BY DEF Finals
<1> QED BY DEF stateTransMap

\* The two events that leave DMT without a quiesce are in the map.
LEMMA DmtLeaves == Finals("DMT", "DMT_COMP") # {} /\ Finals("DMT", "DUMP_FAILURE") # {}
<1>1. <<"DMT", "DMT_COMP", "RUNTIME">> \in stateTransMap
      BY DEF stateTransMap
<1>2. <<"DMT", "DUMP_FAILURE", "DUMP">> \in stateTransMap
      BY DEF stateTransMap
<1> QED BY <1>1, <1>2 DEF Finals

-----------------------------------------------------------------------------
(* Types.                                                                  *)

\* A transition found in the map, or none, keeps the types of the states.
LEMMA EnterTyped ==
    ASSUME TypeOK, NEW s, NEW e, Enter(Finals(s, e))
    PROVE  state' \in State /\ prevState' \in State
<1>1. CASE Finals(s, e) = {}
      BY <1>1 DEF Enter, TypeOK
<1>2. CASE Finals(s, e) # {}
      BY <1>2, FinalsTyped DEF Enter, TypeOK
<1> QED BY <1>1, <1>2

\* Where the processor may be.
Pcs == Op \cup {"halted", "boot", "ipl", "ipl_end", "idle", "start_mpipl", "s0_start",
                "flag", "dmt_check", "dmt_sleep", "dmt_unblock", "done"}

\* The types hold initially.
LEMMA InitTyped == Init => TypeOK
<1> SUFFICES ASSUME Init PROVE TypeOK
    OBVIOUS
<1>1. accepted \in [Interface -> Op \cup {None}]
      BY DEF Init
<1>2. rcFapi \in [{0, 1} -> {"PENDING", "SUCCESS"}]
      BY DEF Init
<1>3. received \in 0 .. MaxCmds /\ hresets \in 0 .. MaxHresets
      BY BoundAssumption DEF Init
<1> QED BY <1>1, <1>2, <1>3 DEF Init, TypeOK, State

\* The types are kept by every step of the processor in its own code.
LEMMA ProcessorTyped == TypeOK /\ sbeSyncCommandProcessor => TypeOK'
<1> SUFFICES ASSUME TypeOK, sbeSyncCommandProcessor PROVE TypeOK'
    OBVIOUS
<1> USE DEF TypeOK, regVars, dmtVars, boundVars
<1>1. CASE FetchState
      BY <1>1 DEF FetchState
<1>2. CASE UpdateState
  <2>1. state' \in State /\ prevState' \in State
        BY <1>2, EnterTyped DEF UpdateState
  <2> QED BY <1>2, <2>1 DEF UpdateState
<1>3. ASSUME NEW i \in Interface, Take(i) PROVE TypeOK'
  <2>1. accepted[i] \in Op /\ accepted' \in [Interface -> Op \cup {None}]
        BY <1>3 DEF Take
  <2>2. breached' \in BOOLEAN
        BY <1>3 DEF Take
  <2> QED BY <1>3, <2>1, <2>2 DEF Take, Goto
<1>4. CASE Done
      BY <1>4 DEF Done, Goto, Runs
<1>5. CASE Boot
  <2>1. state' \in State
        BY <1>5, FinalsTyped DEF Boot, State
  <2>2. pc' \in Pcs /\ event' = event /\ l_state' = l_state
        BY <1>5 DEF Boot, Goto, Pcs
  <2> QED BY <1>5, <2>1, <2>2 DEF Boot, Pcs
<1>6. CASE FlagAsyncFFDC
      BY <1>6 DEF FlagAsyncFFDC, Goto
<1>7. CASE sbeGetFfdc
      BY <1>7 DEF sbeGetFfdc, Goto
<1>8. CASE sbeQuiesce
      BY <1>8 DEF sbeQuiesce, Raise, Suspends, Event
<1>9. CASE sbeDoContinuousIpl
  <2>1. pc' \in Pcs /\ event' \in Event \cup {None} /\ l_state' = l_state
        BY <1>9 DEF sbeDoContinuousIpl, Raise, Goto, Pcs, Event
  <2>2. UNCHANGED <<regVars, dmtVars, boundVars, accepted, serving, suspended>>
        BY <1>9 DEF sbeDoContinuousIpl, Procedures
  <2> QED BY <2>1, <2>2 DEF Pcs
<1>10. CASE sbeHandleIstep
      BY <1>10 DEF sbeHandleIstep, Procedures, Raise, Goto, Event
<1>11. CASE sbeEnterMpipl
  <2>1. pc' \in Pcs /\ event' \in Event \cup {None} /\ l_state' = l_state
        BY <1>11 DEF sbeEnterMpipl, Raise, Goto, Pcs, Event
  <2>2. UNCHANGED <<regVars, dmtVars, boundVars, accepted, serving, suspended>>
        BY <1>11 DEF sbeEnterMpipl, Procedures
  <2> QED BY <2>1, <2>2 DEF Pcs
<1>12. CASE sbeContinueMpipl
      BY <1>12 DEF sbeContinueMpipl, Procedures, Raise, Goto, Event
<1>13. CASE sbeHandleS0
  <2>1. pc' \in Pcs /\ event' \in Event \cup {None} /\ l_state' = l_state
        BY <1>13 DEF sbeHandleS0, Raise, Goto, Pcs, Event
  <2>2. UNCHANGED <<regVars, dmtVars, boundVars, accepted, serving, suspended>>
        BY <1>13 DEF sbeHandleS0, Procedures
  <2> QED BY <2>1, <2>2 DEF Pcs
<1>14. CASE sbeStartCntlDmt
      BY <1>14 DEF sbeStartCntlDmt, startTimer, Raise, Event
<1>15. CASE CheckStop15
  <2>1. rcFapi' \in [{0, 1} -> {"PENDING", "SUCCESS"}]
        BY <1>15 DEF CheckStop15, Checked
  <2>2. pc' \in Pcs /\ event' = event /\ l_state' = l_state
        BY <1>15 DEF CheckStop15, Goto, Pcs
  <2> QED BY <1>15, <2>1, <2>2 DEF CheckStop15, Pcs
<1>16. CASE SleepStop15
      BY <1>16 DEF SleepStop15, Goto
<1>17. CASE UnblockWakeup
      BY <1>17 DEF UnblockWakeup, Goto
<1>18. CASE sbeStopCntlDmt
      BY <1>18 DEF sbeStopCntlDmt, stopTimer, Raise, Event
<1> QED
    BY <1>1, <1>2, <1>3, <1>4, <1>5, <1>6, <1>7, <1>8, <1>9, <1>10, <1>11, <1>12, <1>13,
       <1>14, <1>15, <1>16, <1>17, <1>18 DEF sbeSyncCommandProcessor

\* The types are kept by every step.
LEMMA NextTyped == TypeOK /\ [Next]_vars => TypeOK'
<1> SUFFICES ASSUME TypeOK, [Next]_vars PROVE TypeOK'
    OBVIOUS
<1>1. CASE sbeSyncCommandProcessor
      BY <1>1, ProcessorTyped
<1> USE DEF TypeOK, regVars, dmtVars, boundVars
<1>2. CASE sbeDmtPkExpiryCallback
  <2>1. state' \in State /\ prevState' \in State
        BY <1>2, EnterTyped DEF sbeDmtPkExpiryCallback, CaptureAsyncFFDC
  <2> QED BY <1>2, <2>1 DEF sbeDmtPkExpiryCallback, CaptureAsyncFFDC
<1>3. CASE AsyncFails
  <2>1. state' \in State /\ prevState' \in State
        BY <1>3, EnterTyped DEF AsyncFails, CaptureAsyncFFDC
  <2> QED BY <1>3, <2>1 DEF AsyncFails, CaptureAsyncFFDC
<1>4. CASE Hreset
  <2>1. accepted' \in [Interface -> Op \cup {None}]
        BY <1>4 DEF Hreset
  <2>2. hresets' \in 0 .. MaxHresets
        BY <1>4, BoundAssumption DEF Hreset
  <2> QED BY <1>4, <2>1, <2>2 DEF Hreset
<1>5. ASSUME NEW i \in Interface, NEW op \in Op, Receive(i, op) PROVE TypeOK'
      BY <1>5, BoundAssumption DEF Receive
<1>6. ASSUME NEW c \in {0, 1}, CoreStops(c) PROVE TypeOK'
      BY <1>6 DEF CoreStops
<1>7. CASE UNCHANGED vars
      BY <1>7 DEF vars
<1> QED BY <1>1, <1>2, <1>3, <1>4, <1>5, <1>6, <1>7 DEF Next

\* Every variable keeps its type, for any number of commands and hard resets.
THEOREM StatesTyped == Spec => []TypeOK
<1> QED BY InitTyped, NextTyped, PTL DEF Spec

-----------------------------------------------------------------------------
(* The quiesced and the deadman state.                                     *)

\* Until the first hard reset, whoever has quiesced the SBE, or is about to, has
\* suspended the asynchronous thread.
QuietInv == hresets = 0 /\ (state = "QUIESCE" \/ event = "QUIESCE") => suspended

\* Until the first hard reset the deadman timer runs from its start to the state's
\* end: while a stop is on its way nobody else moves the state.
DmtInv ==
    hresets = 0 =>
        /\ timer # "lost"
        /\ event = "DMT_ENTER" => timer = "running"
        /\ event = "DMT_COMP" => timer = "idle" /\ l_state \in {None, state}
        /\ state = "DMT" => timer = "running" \/ event = "DMT_COMP"
        /\ event = None => l_state = None

\* The transition of a look-up for DUMP_FAILURE does not lead to QUIESCE or DMT.
LEMMA CaptureLeads ==
    ASSUME CaptureAsyncFFDC
    PROVE  /\ state' = "QUIESCE" => state = "QUIESCE"
           /\ state' # "DMT"
<1>1. CASE Finals(state, "DUMP_FAILURE") = {}
  <2>1. state # "DMT"
        BY <1>1, DmtLeaves
  <2> QED BY <1>1, <2>1 DEF CaptureAsyncFFDC, Enter
<1>2. CASE Finals(state, "DUMP_FAILURE") # {}
  <2>1. state' \in Finals(state, "DUMP_FAILURE")
        BY <1>2 DEF CaptureAsyncFFDC, Enter
  <2> QED BY <2>1, QuiesceByQuiesce, DmtByEnter
<1> QED BY <1>1, <1>2

\* What a handler's procedures do to the state: they raise an event at most.
Harmless ==
    /\ event = None /\ event' \in {None, "RUNTIME", "ENTER_MPIPL", "DUMP_FAILURE"}
    /\ UNCHANGED <<state, timer, suspended, hresets, l_state>>

\* The steps that neither quiesce nor touch the deadman timer are harmless.
LEMMA HandlersHarmless ==
    \/ (\E i \in Interface : Take(i)) \/ Done \/ FlagAsyncFFDC \/ sbeGetFfdc
    \/ sbeDoContinuousIpl \/ sbeHandleIstep \/ sbeEnterMpipl \/ sbeContinueMpipl \/ sbeHandleS0
    \/ CheckStop15 \/ SleepStop15 \/ UnblockWakeup
    => Harmless
<1> USE DEF Harmless, Runs, Goto, Raise, regVars, dmtVars, boundVars
<1>1. (\E i \in Interface : Take(i)) => Harmless
      BY DEF Take
<1>2. Done \/ FlagAsyncFFDC \/ sbeGetFfdc => Harmless
      BY DEF Done, FlagAsyncFFDC, sbeGetFfdc
<1>3. sbeDoContinuousIpl => Harmless
      BY DEF sbeDoContinuousIpl, Procedures
<1>4. sbeHandleIstep => Harmless
      BY DEF sbeHandleIstep, Procedures
<1>5. sbeEnterMpipl \/ sbeContinueMpipl => Harmless
      BY DEF sbeEnterMpipl, sbeContinueMpipl, Procedures
<1>6. sbeHandleS0 => Harmless
      BY DEF sbeHandleS0, Procedures
<1>7. CheckStop15 \/ SleepStop15 \/ UnblockWakeup => Harmless
      BY DEF CheckStop15, SleepStop15, UnblockWakeup
<1> QED BY <1>1, <1>2, <1>3, <1>4, <1>5, <1>6, <1>7

\* The asynchronous thread is suspended before the state quiesces, and only a hard
\* reset starts it again.
LEMMA QuietStep == TypeOK /\ QuietInv /\ [Next]_vars => QuietInv'
<1> SUFFICES ASSUME TypeOK, QuietInv, [Next]_vars PROVE QuietInv'
    OBVIOUS
<1> USE NoneAssumption DEF QuietInv, Event
<1>1. CASE Harmless
      BY <1>1 DEF Harmless
<1>2. CASE FetchState
      BY <1>2 DEF FetchState, regVars, boundVars
<1>3. CASE UpdateState
  <2>1. state' = "QUIESCE" => state = "QUIESCE" \/ event = "QUIESCE"
        BY <1>3, QuiesceByQuiesce DEF UpdateState, Enter
  <2> QED BY <1>3, <2>1 DEF UpdateState, boundVars
<1>4. CASE Boot
  <2>1. state' = "QUIESCE" => state = "QUIESCE"
        BY <1>4, QuiesceByQuiesce DEF Boot
  <2> QED BY <1>4, <2>1 DEF Boot, Goto, boundVars
<1>5. CASE sbeQuiesce
      BY <1>5 DEF sbeQuiesce, Suspends
<1>6. CASE sbeStartCntlDmt \/ sbeStopCntlDmt
      BY <1>6 DEF sbeStartCntlDmt, sbeStopCntlDmt, Raise, regVars, boundVars
<1>7. CASE sbeDmtPkExpiryCallback
      BY <1>7, CaptureLeads DEF sbeDmtPkExpiryCallback, boundVars
<1>8. CASE AsyncFails
      BY <1>8, CaptureLeads DEF AsyncFails, boundVars
<1>9. CASE Hreset
      BY <1>9 DEF Hreset, TypeOK
<1>10. ASSUME NEW i \in Interface, NEW op \in Op, Receive(i, op) PROVE QuietInv'
      BY <1>10 DEF Receive, regVars
<1>11. ASSUME NEW c \in {0, 1}, CoreStops(c) PROVE QuietInv'
      BY <1>11 DEF CoreStops, regVars, boundVars
<1>12. CASE UNCHANGED vars
      BY <1>12 DEF vars, regVars, boundVars
<1> QED
    BY <1>1, <1>2, <1>3, <1>4, <1>5, <1>6, <1>7, <1>8, <1>9, <1>10, <1>11, <1>12,
       HandlersHarmless DEF Next, sbeSyncCommandProcessor

\* A quiesced SBE has its asynchronous thread suspended, however many commands and
\* whatever timer ran before, until a hard reset.
THEOREM QuiescedStaysStill == Spec => []QuiescedIsStill
<1>1. Init => QuietInv
      BY NoneAssumption DEF Init, QuietInv, Event
<1>2. QuietInv => QuiescedIsStill
      BY DEF QuietInv, QuiescedIsStill
<1> QED BY <1>1, <1>2, StatesTyped, QuietStep, PTL DEF Spec

\* With a timer that is longer than the way to the deadman state, it runs whenever
\* the state is entered, and whoever stops it or lets it expire also leaves the state.
LEMMA DmtStep == ~ShortTimer /\ TypeOK /\ DmtInv /\ [Next]_vars => DmtInv'
<1> SUFFICES ASSUME ~ShortTimer, TypeOK, DmtInv, [Next]_vars, hresets' = 0
             PROVE  DmtInv'
    BY DEF DmtInv
<1> USE NoneAssumption DEF Event, State
<1>1. CASE Harmless
      BY <1>1 DEF Harmless, DmtInv
<1>2. CASE FetchState
      BY <1>2 DEF FetchState, DmtInv, regVars, dmtVars, boundVars
<1>3. CASE UpdateState
  <2>1. event' = None /\ l_state' = None /\ timer' = timer /\ hresets = 0
        BY <1>3 DEF UpdateState, dmtVars, boundVars
  <2>2. state' = "DMT" => timer = "running"
    <3>1. CASE Finals(l_state, event) = {}
      <4>1. state' = state
            BY <1>3, <3>1 DEF UpdateState, Enter
      <4>2. state = "DMT" /\ event = "DMT_COMP" => l_state = "DMT"
            BY <1>3, <2>1 DEF UpdateState, DmtInv
      <4> QED BY <2>1, <3>1, <4>1, <4>2, DmtLeaves DEF DmtInv
    <3>2. CASE Finals(l_state, event) # {}
      <4>1. state' \in Finals(l_state, event)
            BY <1>3, <3>2 DEF UpdateState, Enter
      <4> QED BY <2>1, <4>1, DmtByEnter DEF DmtInv
    <3> QED BY <3>1, <3>2
  <2> QED BY <2>1, <2>2 DEF DmtInv
<1>4. CASE Boot
  <2>1. event = None /\ UNCHANGED <<event, l_state, timer, hresets>>
        BY <1>4 DEF Boot, Runs, Goto, dmtVars, boundVars
  <2>2. state' # "DMT"
    <3>1. state' \in Finals(state, "FAILURE") \cup {"RUNTIME", "ISTEP", "IPLING"}
          BY <1>4, <2>1, BoundAssumption DEF Boot, TypeOK
    <3> QED BY <3>1, DmtByEnter
  <2> QED BY <2>1, <2>2 DEF DmtInv
<1>5. CASE sbeQuiesce
      BY <1>5 DEF sbeQuiesce, Runs, Raise, DmtInv, regVars, dmtVars, boundVars
<1>6. CASE sbeStartCntlDmt
      BY <1>6 DEF sbeStartCntlDmt, Runs, Raise, startTimer, DmtInv, TypeOK, regVars, boundVars
<1>7. CASE sbeStopCntlDmt
      BY <1>7 DEF sbeStopCntlDmt, Runs, Raise, stopTimer, DmtInv, regVars, boundVars
<1>8. CASE sbeDmtPkExpiryCallback
  <2>1. state' # "DMT" /\ hresets = 0 /\ timer = "running" /\ timer' = "idle"
        BY <1>8, CaptureLeads DEF sbeDmtPkExpiryCallback, boundVars
  <2>2. event \notin {"DMT_ENTER", "DMT_COMP"}
        BY <1>8, <2>1 DEF sbeDmtPkExpiryCallback, DmtInv
  <2> QED BY <1>8, <2>1, <2>2 DEF sbeDmtPkExpiryCallback, DmtInv
<1>9. CASE AsyncFails
  <2>1. state' # "DMT" /\ event = None /\ UNCHANGED <<event, l_state, timer, hresets>>
        BY <1>9, CaptureLeads DEF AsyncFails, Runs, dmtVars, boundVars
  <2> QED BY <2>1 DEF DmtInv
<1>10. CASE Hreset
      BY <1>10 DEF Hreset, TypeOK
<1>11. ASSUME NEW i \in Interface, NEW op \in Op, Receive(i, op) PROVE DmtInv'
      BY <1>11 DEF Receive, DmtInv, regVars, dmtVars
<1>12. ASSUME NEW c \in {0, 1}, CoreStops(c) PROVE DmtInv'
      BY <1>12 DEF CoreStops, DmtInv, regVars, boundVars
<1>13. CASE UNCHANGED vars
      BY <1>13 DEF vars, DmtInv, regVars, dmtVars, boundVars
<1> QED
    BY <1>1, <1>2, <1>3, <1>4, <1>5, <1>6, <1>7, <1>8, <1>9, <1>10, <1>11, <1>12, <1>13,
       HandlersHarmless DEF Next, sbeSyncCommandProcessor

\* The deadman state never lasts without its timer, unless a hard reset took it away,
\* for a timer that is longer than the way to the state.
THEOREM DeadmanStaysArmed == ASSUME ~ShortTimer PROVE Spec => []DeadmanArmed
<1>1. Init => DmtInv
      BY NoneAssumption DEF Init, DmtInv, Event
<1>2. DmtInv => DeadmanArmed
      BY DEF DmtInv, DeadmanArmed
<1>3. TypeOK /\ DmtInv /\ [Next]_vars => DmtInv'
      BY DmtStep
<1> QED BY <1>1, <1>2, <1>3, StatesTyped, PTL DEF Spec

-----------------------------------------------------------------------------
(* Every change of the state is in the map.                                *)

\* What is known of a state that was read and is not yet written.  The callback is
\* the only one to change the state in between, and only from DMT to DUMP: as long as
\* the fences hold, a running timer means the deadman state, what follows it, or the
\* way to it.
TransInv ==
    /\ accepted["S0"] \in {None, "s0"}
    /\ pc = "boot" => event = None /\ timer # "running"
    /\ pc = "dmt_start" => event = None
    /\ event = None => l_state = None
    /\ event = "DMT_COMP" => timer # "running"
    /\ ~breached =>
         /\ pc = "dmt_start" => state \in {"RUNTIME", "DMT", "DUMP"}
         /\ timer = "running" => \/ state \in {"DMT", "DUMP", "QUIESCE"}
                                 \/ state = "RUNTIME" /\ event = "DMT_ENTER"
         /\ l_state # None => \/ l_state = state
                              \/ l_state = "DMT" /\ state = "DUMP" /\ event # "DMT_COMP"

\* What the map has from the states that a running timer may meet.
LEMMA FinalsOfDeadman ==
    /\ \A e : Finals("DUMP", e) = {} /\ Finals("QUIESCE", e) = {}
    /\ \A e, t : t \in Finals("DMT", e) => e = "DMT_COMP" \/ t \in {"QUIESCE", "DUMP"}
    /\ \A t : t \in Finals("RUNTIME", "DMT_ENTER") => t = "DMT"
    /\ Finals("RUNTIME", "DMT_ENTER") # {}
<1>1. \A u \in stateTransMap : u[1] # "DUMP" /\ u[1] # "QUIESCE"
      BY DEF stateTransMap
<1>2. \A u \in stateTransMap : u[1] = "DMT" => u[2] = "DMT_COMP" \/ u[3] \in {"QUIESCE", "DUMP"}
      BY DEF stateTransMap
<1>3. \A u \in stateTransMap : u[1] = "RUNTIME" /\ u[2] = "DMT_ENTER" => u[3] = "DMT"
      BY DEF stateTransMap
<1>4. <<"RUNTIME", "DMT_ENTER", "DMT">> \in stateTransMap
      BY DEF stateTransMap
<1>5. \A e : Finals("DUMP", e) = {} /\ Finals("QUIESCE", e) = {}
      BY <1>1 DEF Finals
<1>6. \A e, t : t \in Finals("DMT", e) => e = "DMT_COMP" \/ t \in {"QUIESCE", "DUMP"}
      BY <1>2 DEF Finals
<1>7. \A t : t \in Finals("RUNTIME", "DMT_ENTER") => t = "DMT"
      BY <1>3 DEF Finals
<1>8. Finals("RUNTIME", "DMT_ENTER") # {}
      BY <1>4 DEF Finals
<1> QED BY <1>5, <1>6, <1>7, <1>8

\* A harmless step that stays out of the boot and of the start of the timer.
Apart == Harmless /\ pc' \notin {"boot", "dmt_start"} /\ UNCHANGED <<breached, accepted>>

\* The handlers that leave the timer alone are such steps.
LEMMA HandlersApart ==
    \/ Done \/ FlagAsyncFFDC \/ sbeGetFfdc
    \/ sbeDoContinuousIpl \/ sbeHandleIstep \/ sbeEnterMpipl \/ sbeContinueMpipl \/ sbeHandleS0
    \/ CheckStop15 \/ SleepStop15 \/ UnblockWakeup
    => Apart
<1> USE HandlersHarmless DEF Apart, Goto, Raise, boundVars
<1>1. Done \/ FlagAsyncFFDC \/ sbeGetFfdc => Apart
      BY DEF Done, FlagAsyncFFDC, sbeGetFfdc
<1>2. sbeDoContinuousIpl => Apart
      BY DEF sbeDoContinuousIpl, Procedures
<1>3. sbeHandleIstep => Apart
      BY DEF sbeHandleIstep, Procedures
<1>4. sbeEnterMpipl \/ sbeContinueMpipl => Apart
      BY DEF sbeEnterMpipl, sbeContinueMpipl, Procedures
<1>5. sbeHandleS0 => Apart
      BY DEF sbeHandleS0, Procedures
<1>6. CheckStop15 \/ SleepStop15 \/ UnblockWakeup => Apart
      BY DEF CheckStop15, SleepStop15, UnblockWakeup
<1> QED BY <1>1, <1>2, <1>3, <1>4, <1>5, <1>6

\* A captured failure either finds nothing in the map, or leads to DUMP.
LEMMA CaptureDumps ==
    ASSUME CaptureAsyncFFDC
    PROVE  \/ state' = state /\ state # "DMT"
           \/ state' \in Finals(state, "DUMP_FAILURE") /\ state' = "DUMP"
<1>1. \A u \in stateTransMap : u[2] = "DUMP_FAILURE" => u[3] = "DUMP"
      BY DEF stateTransMap
<1>2. \A t \in Finals(state, "DUMP_FAILURE") : t = "DUMP"
      BY <1>1 DEF Finals
<1> QED BY <1>2, DmtLeaves DEF CaptureAsyncFFDC, Enter

\* A transition that was looked up and is written.
LEMMA UpdateTrans == TypeOK /\ TransInv /\ UpdateState => TransInv'
<1> SUFFICES ASSUME TypeOK, TransInv, UpdateState PROVE TransInv'
    OBVIOUS
<1>1. /\ event # None /\ l_state # None /\ event' = None /\ l_state' = None
      /\ timer' = timer /\ pc' = pc /\ UNCHANGED <<breached, accepted>>
      /\ state' = state \/ state' \in Finals(l_state, event)
      BY DEF UpdateState, Enter, dmtVars, boundVars
<1>2. pc # "boot" /\ pc # "dmt_start"
      BY <1>1 DEF TransInv
<1>3. ASSUME ~breached, timer = "running" PROVE state' \in {"DMT", "DUMP", "QUIESCE"}
  <2>1. event # "DMT_COMP"
        BY <1>3 DEF TransInv
  <2>2. l_state = state \/ (l_state = "DMT" /\ state = "DUMP")
        BY <1>1, <1>3 DEF TransInv
  <2>3. CASE state \in {"DUMP", "QUIESCE"} \/ l_state = "DMT"
        BY <1>1, <2>1, <2>2, <2>3, FinalsOfDeadman
  <2>4. CASE state = "RUNTIME" /\ event = "DMT_ENTER" /\ l_state = state
    <3>1. state' \in Finals("RUNTIME", "DMT_ENTER")
          BY <2>4, FinalsOfDeadman DEF UpdateState, Enter
    <3> QED BY <3>1, FinalsOfDeadman
  <2> QED BY <1>3, <2>2, <2>3, <2>4 DEF TransInv
<1> QED BY <1>1, <1>2, <1>3, NoneAssumption DEF TransInv, Event

\* The processor takes a command: a deadman timer that is started within its fence
\* is started in RUNTIME or DMT.
LEMMA TakeTrans ==
    ASSUME TypeOK, TransInv, NEW i \in Interface, Take(i)
    PROVE  TransInv'
<1>1. /\ event = None /\ UNCHANGED <<event, l_state, timer, state>>
      /\ pc' \in Op /\ pc' = accepted[i]
      BY DEF Take, Runs, Goto, TypeOK, regVars, dmtVars
<1>2. pc' = "dmt_start" /\ ~breached' => ~breached /\ state \in {"RUNTIME", "DMT", "DUMP"}
  <2> SUFFICES ASSUME pc' = "dmt_start", ~breached'
               PROVE  ~breached /\ state \in {"RUNTIME", "DMT", "DUMP"}
      OBVIOUS
  <2>1. i # "S0"
        BY <1>1, NoneAssumption DEF Take, TransInv, Op
  <2>2. ~breached /\ state \notin Fence("dmt_start")
        BY <1>1, <2>1 DEF Take
  <2>3. Fence("dmt_start") = {"IPLING", "QUIESCE", "MPIPL", "ISTEP", "DUMP", "UNKNOWN", "FAILURE"}
        BY DEF Fence, cmd_state_fence, Op
  <2> QED BY <2>2, <2>3 DEF TypeOK, State
<1>3. ~breached' => ~breached
      BY DEF Take, TypeOK
<1>4. accepted'["S0"] \in {None, "s0"}
      BY DEF Take, TransInv, TypeOK, Interface
<1> QED BY <1>1, <1>2, <1>3, <1>4, NoneAssumption DEF TransInv, Op, Event

\* The facts about a state that was read are kept by every step.
LEMMA TransStep == ~ShortTimer /\ TypeOK /\ TransInv /\ [Next]_vars => TransInv'
<1> SUFFICES ASSUME ~ShortTimer, TypeOK, TransInv, [Next]_vars PROVE TransInv'
    OBVIOUS
<1> USE NoneAssumption DEF Event, State
<1>1. CASE Apart
      BY <1>1 DEF Apart, Harmless, TransInv
<1>2. ASSUME NEW i \in Interface, Take(i) PROVE TransInv'
      BY <1>2, TakeTrans
<1>3. CASE FetchState
      BY <1>3 DEF FetchState, TransInv, regVars, dmtVars, boundVars
<1>4. CASE UpdateState
      BY <1>4, UpdateTrans
<1>5. CASE Boot
  <2>1. /\ event = None /\ timer # "running" /\ UNCHANGED <<event, l_state, timer, breached, accepted>>
        /\ pc' \in {"idle", "ipl", "halted"}
        BY <1>5 DEF Boot, Runs, Goto, TransInv, dmtVars, boundVars
  <2> QED BY <2>1 DEF TransInv
<1>6. CASE sbeQuiesce
  <2>1. event = None /\ event' = "QUIESCE" /\ pc' = "done"
        BY <1>6 DEF sbeQuiesce, Runs, Raise
  <2>2. UNCHANGED <<state, l_state, timer, breached, accepted>>
        BY <1>6 DEF sbeQuiesce, Raise, regVars, dmtVars, boundVars
  <2> QED BY <2>1, <2>2 DEF TransInv
<1>7. CASE sbeStartCntlDmt
  <2>1. pc = "dmt_start" /\ event = None /\ event' = "DMT_ENTER" /\ pc' = "dmt_check"
        BY <1>7 DEF sbeStartCntlDmt, Runs, Raise
  <2>2. UNCHANGED <<state, l_state, breached, accepted>>
        BY <1>7 DEF sbeStartCntlDmt, Raise, regVars, boundVars
  <2> QED BY <2>1, <2>2 DEF TransInv
<1>8. CASE sbeStopCntlDmt
  <2>1. event = None /\ event' = "DMT_COMP" /\ pc' = "done" /\ timer' = "idle"
        BY <1>8 DEF sbeStopCntlDmt, Runs, Raise, stopTimer
  <2>2. UNCHANGED <<state, l_state, breached, accepted>>
        BY <1>8 DEF sbeStopCntlDmt, Raise, regVars, boundVars
  <2> QED BY <2>1, <2>2 DEF TransInv
<1>9. CASE sbeDmtPkExpiryCallback
  <2>1. /\ timer = "running" /\ timer' = "idle" /\ event # "DMT_ENTER"
        /\ UNCHANGED <<event, l_state, breached, accepted, pc>>
        BY <1>9 DEF sbeDmtPkExpiryCallback, boundVars
  <2>2. \/ state' = state /\ state # "DMT"
        \/ state' \in Finals(state, "DUMP_FAILURE") /\ state' = "DUMP"
        BY <1>9, CaptureDumps DEF sbeDmtPkExpiryCallback
  <2>3. ~breached => state \in {"DMT", "DUMP", "QUIESCE"}
        BY <2>1 DEF TransInv
  <2>4. ~breached => state' = state \/ (state = "DMT" /\ state' = "DUMP")
        BY <2>2, <2>3, FinalsOfDeadman
  <2> QED BY <2>1, <2>3, <2>4 DEF TransInv
<1>10. CASE AsyncFails
  <2>1. event = None /\ pc # "dmt_start" /\ UNCHANGED <<event, l_state, timer, breached, accepted, pc>>
        BY <1>10 DEF AsyncFails, Runs, dmtVars, boundVars
  <2>2. state' = state \/ state' = "DUMP"
        BY <1>10, CaptureDumps DEF AsyncFails
  <2> QED BY <2>1, <2>2 DEF TransInv
<1>11. CASE Hreset
      BY <1>11 DEF Hreset, TransInv, Interface
<1>12. ASSUME NEW i \in Interface, NEW op \in Op, Receive(i, op) PROVE TransInv'
  <2>1. accepted'["S0"] \in {None, "s0"}
        BY <1>12 DEF Receive, OpsOf, TransInv, TypeOK, Interface
  <2>2. UNCHANGED <<state, l_state, timer, breached, event, pc>>
        BY <1>12 DEF Receive, regVars, dmtVars
  <2> QED BY <2>1, <2>2 DEF TransInv
<1>13. ASSUME NEW c \in {0, 1}, CoreStops(c) PROVE TransInv'
      BY <1>13 DEF CoreStops, TransInv, regVars, boundVars
<1>14. CASE UNCHANGED vars
      BY <1>14 DEF vars, TransInv, regVars, dmtVars, boundVars
<1> QED
    BY <1>1, <1>2, <1>3, <1>4, <1>5, <1>6, <1>7, <1>8, <1>9, <1>10, <1>11, <1>12, <1>13,
       <1>14, HandlersApart DEF Next, sbeSyncCommandProcessor

\* A step that changes the state outside of the boot finds the change in the map of
\* the state it changes, or quiesces.
LEMMA StepMapped ==
    ASSUME TypeOK, TransInv, Next, state' # state, pc # "boot", ~breached
    PROVE  state' = "QUIESCE" \/ \E e \in Event : state' \in Finals(state, e)
<1>1. CASE UpdateState
  <2>1. event \in Event /\ state' \in Finals(l_state, event)
        BY <1>1 DEF UpdateState, Enter, TypeOK
  <2>2. CASE l_state = state
        BY <2>1, <2>2
  <2>3. CASE l_state = "DMT" /\ state = "DUMP" /\ event # "DMT_COMP"
        BY <2>1, <2>3, FinalsOfDeadman
  <2> QED BY <1>1, <2>2, <2>3 DEF UpdateState, TransInv
<1>2. CASE sbeDmtPkExpiryCallback \/ AsyncFails
      BY <1>2, CaptureDumps DEF sbeDmtPkExpiryCallback, AsyncFails, Event
<1>3. ~Harmless /\ ~FetchState /\ ~Boot /\ ~sbeQuiesce /\ ~sbeStartCntlDmt /\ ~sbeStopCntlDmt /\ ~Hreset
      BY DEF Harmless, FetchState, Boot, Runs, sbeQuiesce, sbeStartCntlDmt, sbeStopCntlDmt, Hreset, regVars
<1>4. \A i \in Interface, op \in Op : ~Receive(i, op)
      BY DEF Receive, regVars
<1>5. \A c \in {0, 1} : ~CoreStops(c)
      BY DEF CoreStops, regVars
<1> QED
    BY <1>1, <1>2, <1>3, <1>4, <1>5, HandlersHarmless DEF Next, sbeSyncCommandProcessor

\* As long as the fences hold, the state moves along its map: no thread's stale read
\* and no callback takes it off it, for any number of commands and hard resets.
THEOREM StateFollowsMap == ASSUME ~ShortTimer PROVE Spec => TransitionsMapped
<1>1. Init => TransInv
      BY NoneAssumption DEF Init, TransInv, Interface, Event
<1>2. TypeOK /\ TransInv /\ [Next]_vars => TransInv'
      BY TransStep
<1>3. TypeOK /\ TransInv /\ [Next]_vars
      => [state' # state /\ pc # "boot" /\ ~breached =>
            state' = "QUIESCE" \/ \E e \in Event : state' \in Finals(state, e)]_vars
      BY StepMapped
<1> QED BY <1>1, <1>2, <1>3, StatesTyped, PTL DEF Spec, TransitionsMapped

-----------------------------------------------------------------------------
(* The deadman loop and the doorbell.                                      *)

\* While the loop waits, the first core's code is a success only if that core has
\* stopped, and the timer has gone only by expiring; the loop is left with one of both.
BellInv ==
    /\ pc \in {"dmt_check", "dmt_sleep"} =>
          /\ timer = "idle" => checkstop
          /\ rcFapi[0] = "SUCCESS" => 0 \in stop15
    /\ pc = "dmt_unblock" => checkstop \/ 0 \in stop15

\* A step that does not go into the loop, stay in it or press the doorbell.
Elsewhere ==
    /\ pc' \notin {"dmt_check", "dmt_sleep", "dmt_unblock"}
    /\ bell' => bell

\* The steps of the other handlers.
LEMMA HandlersElsewhere ==
    TypeOK /\ ( \/ (\E i \in Interface : Take(i)) \/ Done \/ Boot \/ FlagAsyncFFDC \/ sbeGetFfdc
                \/ sbeQuiesce \/ sbeDoContinuousIpl \/ sbeHandleIstep \/ sbeEnterMpipl
                \/ sbeContinueMpipl \/ sbeHandleS0 \/ sbeStopCntlDmt \/ Hreset )
    => Elsewhere
<1> SUFFICES ASSUME TypeOK PROVE
        ( \/ (\E i \in Interface : Take(i)) \/ Done \/ Boot \/ FlagAsyncFFDC \/ sbeGetFfdc
          \/ sbeQuiesce \/ sbeDoContinuousIpl \/ sbeHandleIstep \/ sbeEnterMpipl
          \/ sbeContinueMpipl \/ sbeHandleS0 \/ sbeStopCntlDmt \/ Hreset )
        => Elsewhere
    OBVIOUS
<1> USE DEF Elsewhere, Goto, Raise, dmtVars
<1>1. ASSUME NEW i \in Interface, Take(i) PROVE Elsewhere
      BY <1>1 DEF Take, TypeOK, Op
<1>2. Done \/ Boot \/ FlagAsyncFFDC \/ sbeGetFfdc => Elsewhere
      BY DEF Done, Boot, FlagAsyncFFDC, sbeGetFfdc
<1>3. sbeQuiesce \/ sbeStopCntlDmt \/ Hreset => Elsewhere
      BY DEF sbeQuiesce, sbeStopCntlDmt, Hreset
<1>4. sbeDoContinuousIpl \/ sbeHandleIstep => Elsewhere
      BY DEF sbeDoContinuousIpl, sbeHandleIstep, Procedures
<1>5. sbeEnterMpipl \/ sbeContinueMpipl \/ sbeHandleS0 => Elsewhere
      BY DEF sbeEnterMpipl, sbeContinueMpipl, sbeHandleS0, Procedures
<1> QED BY <1>1, <1>2, <1>3, <1>4, <1>5

\* No step of the timer, a core, a hard reset or the loop itself breaks BellInv, and
\* whoever presses the doorbell finds it.
LEMMA BellStep ==
    TypeOK /\ BellInv /\ [Next]_vars
    => BellInv' /\ (~bell /\ bell' => checkstop \/ 0 \in stop15)
<1> SUFFICES ASSUME TypeOK, BellInv, [Next]_vars
             PROVE  BellInv' /\ (~bell /\ bell' => checkstop \/ 0 \in stop15)
    OBVIOUS
<1>1. CASE Elsewhere
      BY <1>1 DEF Elsewhere, BellInv
<1>2. CASE FetchState \/ UpdateState
      BY <1>2 DEF FetchState, UpdateState, BellInv, dmtVars
<1>3. CASE sbeStartCntlDmt
      BY <1>3 DEF sbeStartCntlDmt, Raise, startTimer, BellInv, TypeOK
<1>4. CASE CheckStop15
  <2>1. pc = "dmt_check" /\ UNCHANGED <<timer, stop15, bell, checkstop>>
        BY <1>4 DEF CheckStop15, Runs
  <2>2. Checked[0] = "SUCCESS" => 0 \in stop15
        BY <2>1 DEF Checked, BellInv, TypeOK
  <2>3. AllStopped(Checked) => Checked[0] = "SUCCESS"
        BY DEF AllStopped
  <2>4. CASE pc' = "done"
        BY <2>1, <2>4 DEF BellInv
  <2>5. CASE rcFapi' = Checked /\ pc' = IF AllStopped(Checked) THEN "dmt_unblock" ELSE "dmt_sleep"
        BY <2>1, <2>2, <2>3, <2>5 DEF BellInv
  <2> QED BY <1>4, <2>4, <2>5 DEF CheckStop15, Goto
<1>5. CASE SleepStop15
      BY <1>5 DEF SleepStop15, Runs, Goto, LoopsBack, BellInv, dmtVars
<1>6. CASE UnblockWakeup
      BY <1>6 DEF UnblockWakeup, Runs, Goto, BellInv
<1>7. CASE sbeDmtPkExpiryCallback
      BY <1>7 DEF sbeDmtPkExpiryCallback, BellInv
<1>8. CASE AsyncFails
      BY <1>8 DEF AsyncFails, BellInv, dmtVars
<1>9. ASSUME NEW i \in Interface, NEW op \in Op, Receive(i, op)
      PROVE  BellInv' /\ (~bell /\ bell' => checkstop \/ 0 \in stop15)
      BY <1>9 DEF Receive, BellInv, dmtVars
<1>10. ASSUME NEW c \in {0, 1}, CoreStops(c)
       PROVE  BellInv' /\ (~bell /\ bell' => checkstop \/ 0 \in stop15)
      BY <1>10 DEF CoreStops, BellInv
<1>11. CASE UNCHANGED vars
      BY <1>11 DEF vars, BellInv, dmtVars
<1> QED
    BY <1>1, <1>2, <1>3, <1>4, <1>5, <1>6, <1>7, <1>8, <1>9, <1>10, <1>11, HandlersElsewhere
    DEF Next, sbeSyncCommandProcessor

\* sbeStartCntlDmt presses the host's doorbell only when the core has entered stop 15
\* or the timer has checkstopped the system, whatever hard resets, other commands
\* and short timers come in between.  With fused cores this is not so: the run of
\* StatesStop15.cfg shows how the second core is left out.
THEOREM DoorbellAfterStop15 == ASSUME ~Fused PROVE Spec => DoorbellMeansStop15
<1>1. Init => BellInv
      BY DEF Init, BellInv
<1>2. TypeOK /\ BellInv /\ [Next]_vars => BellInv'
      BY BellStep
<1>3. TypeOK /\ BellInv /\ [Next]_vars
      => [~bell /\ bell' => checkstop \/ (IF Fused THEN {0, 1} ELSE {0}) \subseteq stop15]_vars
      BY BellStep
<1> QED BY <1>1, <1>2, <1>3, StatesTyped, PTL DEF Spec, DoorbellMeansStop15
=============================================================================
