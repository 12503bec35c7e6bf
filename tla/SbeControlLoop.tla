--------------------------- MODULE SbeControlLoop ---------------------------
(***************************************************************************)
(* The SBE control loop: the interrupt service routine (sbeirq.C), the     *)
(* command receiver thread (sbecmdreceiver.C, priority 5) and the command  *)
(* processor thread (sbecmdprocessor.C, priority 6), serving three clients *)
(*                                                                         *)
(*   - the service processor (SP), through the upstream and downstream     *)
(*     FIFOs, which may also request a FIFO reset at any time;             *)
(*   - the host, through the PSU mailbox and its doorbell;                 *)
(*   - the S0 interrupt line.                                              *)
(*                                                                         *)
(* The clients and the FIFO/PSU hardware are not in src/ and are modelled  *)
(* from how the firmware uses them.  Commands are numbered; what a command *)
(* asks for is abstracted to the verdict the firmware reaches on it.       *)
(* A FIFO message is a header word followed by an end-of-transfer (EOT):   *)
(* further payload words would only lengthen the same polling loop.        *)
(***************************************************************************)
EXTENDS Naturals, Sequences

CONSTANTS
    MAX_SEMAPHORE_COUNT,   \* max_count of both semaphores (sbemain.C:50)
    MaxFifoCmds,           \* bound: commands the SP sends
    MaxPsuCmds,            \* bound: commands the host sends
    MaxS0,                 \* bound: times the S0 line is raised
    MaxResets,             \* bound: FIFO resets the SP requests
    ScomFaults             \* may FIFO and mailbox register accesses fail?

ASSUME SemaphoreAssumption == MAX_SEMAPHORE_COUNT \in Nat \ {0}
ASSUME BoundsAssumption    == {MaxFifoCmds, MaxPsuCmds, MaxS0, MaxResets} \subseteq Nat
ASSUME FaultsAssumption    == ScomFaults \in BOOLEAN

-----------------------------------------------------------------------------
Interface == {"FIFO", "FIFO_RESET", "PSU", "S0"}     \* one IRQ per interface
Handler   == {"INTERRUPT", "RX", "PROC"}             \* sbeHandler_t
Thread    == {"rx", "proc"}

NoInterface == "UNKNOWN"

\* The secondary status values the control flow tells apart.
Status == {"ok", "reset", "eot", "unsupported", "fenced", "fault"}

\* What a receiver's validation of a command concludes: the command is known
\* and allowed, not in the chip-op tables, or not allowed in this SBE state.
Verdict == {"ok", "unsupported", "fenced"}

Token == {"hdr", "eot"} \X Nat

\* Where a thread may be.  Both threads respond to commands.
RespondPc == {"psu_resp", "psu_release", "en_psu", "flush", "send", "eot",
              "fifo_release", "en_data", "en_reset"}
RxPc == RespondPc \cup {"pend", "blocked", "decode", "psu_read", "fifo_hdr",
                        "mark", "reset", "reset_clear", "post", "halt"}
ProcPc == RespondPc \cup {"boot", "pend", "blocked", "take", "exec_psu",
                          "exec_fifo", "reply", "s0", "respond", "en_s0"}

VARIABLES
  \* hardware
    masked,       \* the interrupts masked in the interrupt controller
    upFifo,       \* upstream FIFO, SP to SBE
    downFifo,     \* downstream FIFO, SBE to SP
    resetReq,     \* the SP's upstream FIFO reset request
    psuDb,        \* PSU-to-SBE doorbell bit 0
    psuResp,      \* command answered in the SBE-to-PSU mailbox, 0 if none
    s0Line,       \* the S0 interrupt line
  \* firmware
    intrSource,   \* SBE_GLOBAL->sbeIntrSource, one set of interfaces a handler
    sem,          \* counts of sbeSemCmdRecv ("rx") and sbeSemCmdProcess ("proc")
    fifoHdr,      \* SBE_GLOBAL->sbeFifoCmdHdr: the FIFO command being served
    fifoSts,      \* SBE_GLOBAL->sbeCmdRespHdr.sec_status
    psuHdr,       \* SBE_GLOBAL->sbePsu2SbeCmdReqHdr: the PSU command being served
    psuSts,       \* SBE_GLOBAL->sbeSbe2PsuRespHdr.secStatus()
    pc,           \* where each thread is
    rc,           \* each thread's l_rc
    rxCur,        \* the receiver's curInterface
  \* clients
    spPc, spCmd,       \* the SP: where it is, its latest command
    hostPc, hostCmd,   \* the host: where it is, its latest command
    s0Raised,          \* times the S0 line was raised
    s0Wanted,          \* was the line raised since sbeHandleS0 last ran?
    resets             \* FIFO resets requested

hwVars     == <<masked, upFifo, downFifo, resetReq, psuDb, psuResp, s0Line>>
hdrVars    == <<fifoHdr, fifoSts, psuHdr, psuSts>>
clientVars == <<spPc, spCmd, hostPc, hostCmd, s0Raised, s0Wanted, resets>>
vars == <<hwVars, intrSource, sem, hdrVars, pc, rc, rxCur, clientVars>>

TypeOK ==
    /\ masked \subseteq Interface
    /\ upFifo \in Seq(Token) /\ downFifo \in Seq(Token)
    /\ resetReq \in BOOLEAN /\ psuDb \in BOOLEAN /\ s0Line \in BOOLEAN
    /\ psuResp \in Nat
    /\ intrSource \in [Handler -> SUBSET (Interface \cup {NoInterface})]
    /\ sem \in [Thread -> Nat]
    /\ fifoHdr \in Nat /\ psuHdr \in Nat
    /\ fifoSts \in Verdict \cup {"eot"} /\ psuSts \in Verdict
    /\ pc \in [Thread -> RxPc \cup ProcPc]
    /\ pc["rx"] \in RxPc /\ pc["proc"] \in ProcPc
    /\ rc \in [Thread -> Status]
    /\ rxCur \in Interface \cup {NoInterface}
    /\ spPc \in {"idle", "open", "waiting", "resetting"} /\ spCmd \in Nat
    /\ hostPc \in {"idle", "waiting"} /\ hostCmd \in Nat
    /\ s0Raised \in Nat /\ s0Wanted \in BOOLEAN /\ resets \in Nat

\* sbeIRQSetup has enabled the interrupts, both threads are ready to run.
Init ==
    /\ masked = {} /\ upFifo = <<>> /\ downFifo = <<>>
    /\ resetReq = FALSE /\ psuDb = FALSE /\ psuResp = 0 /\ s0Line = FALSE
    /\ intrSource = [h \in Handler |-> {}]
    /\ sem = [t \in Thread |-> 0]
    /\ fifoHdr = 0 /\ fifoSts = "ok" /\ psuHdr = 0 /\ psuSts = "ok"
    /\ pc = [t \in Thread |-> IF t = "rx" THEN "pend" ELSE "boot"]
    /\ rc = [t \in Thread |-> "ok"]
    /\ rxCur = NoInterface
    /\ spPc = "idle" /\ spCmd = 0 /\ hostPc = "idle" /\ hostCmd = 0
    /\ s0Raised = 0 /\ s0Wanted = FALSE /\ resets = 0

-----------------------------------------------------------------------------
(* Threads, semaphores and interrupt sources.                              *)

\* pk_halt stops the whole engine.
Halted == pc["rx"] = "halt"

\* Strict priorities: the processor runs only while the receiver is blocked.
Runs(t) == IF t = "rx" THEN pc["rx"] \notin {"blocked", "halt"}
                       ELSE pc["rx"] = "blocked" /\ pc["proc"] # "blocked"

At(t, l) == Runs(t) /\ pc[t] = l

Goto(t, l) == pc' = [pc EXCEPT ![t] = l]

\* Where a thread resumes once its semaphore is obtained.
Obtained(t) == IF t = "rx" THEN "decode" ELSE "take"

\* Wrong: the count is taken without looking whether there is one.
SemPend_Unchecked(t) ==
    sem' = [sem EXCEPT ![t] = @ - 1] /\ Goto(t, Obtained(t))

SemPend(t) ==
    IF sem[t] > 0
      THEN sem' = [sem EXCEPT ![t] = @ - 1] /\ Goto(t, Obtained(t))
      ELSE sem' = sem /\ Goto(t, "blocked")

\* Wrong: posts do not accumulate.
PostCount_Binary(t) ==
    IF pc[t] = "blocked" \/ sem[t] > 0 THEN sem ELSE [sem EXCEPT ![t] = @ + 1]

\* pk_semaphore_post: hand over to the pending thread, else count; the count
\* goes up even when the post then reports PK_SEMAPHORE_OVERFLOW.
PostCount(t) == IF pc[t] = "blocked" THEN sem ELSE [sem EXCEPT ![t] = @ + 1]
PostWakes(t, pcs) == IF pc[t] = "blocked" THEN [pcs EXCEPT ![t] = Obtained(t)] ELSE pcs
PostFails(t) == pc[t] # "blocked" /\ sem[t] + 1 > MAX_SEMAPHORE_COUNT

\* Wrong: clears the bits of every interface.
clearAllHandlers_Everything(i) == [h \in Handler |-> {}]

\* sbeIntrHandle_t
setIntrSource(h, i)   == [intrSource EXCEPT ![h] = @ \cup {i}]
clearIntrSource(h, i) == [intrSource EXCEPT ![h] = @ \ {i}]
clearAllHandlers(i)   == [h \in Handler |-> intrSource[h] \ {i}]
isSet(h, i)           == i \in intrSource[h]

-----------------------------------------------------------------------------
(* The interrupt service routine.                                          *)

Line(i) == \/ i = "FIFO"       /\ upFifo # <<>>
           \/ i = "FIFO_RESET" /\ resetReq
           \/ i = "PSU"        /\ psuDb
           \/ i = "S0"         /\ s0Line

FifoIrqs == {"FIFO", "FIFO_RESET"}

\* Wrong: an interrupt is not masked while it is served.
MaskedBy_NotItself(i) == IF i \in FifoIrqs THEN FifoIrqs \ {i} ELSE {}

\* The FIFO interrupts also mask each other.
MaskedBy(i) == IF i \in FifoIrqs THEN FifoIrqs ELSE {i}

\* An overflowing post unmasks the interrupt again and, with asserts compiled
\* out, the level-sensitive line fires again at once; SemCap stops the count.
SemCap == MAX_SEMAPHORE_COUNT + 1

sbe_interrupt_handler(i) ==
    /\ Line(i) /\ i \notin masked /\ ~Halted
    /\ sem["rx"] < SemCap
    /\ intrSource' = setIntrSource("INTERRUPT", i)
    /\ masked' = IF PostFails("rx") THEN (masked \cup MaskedBy(i)) \ {i}
                                    ELSE masked \cup MaskedBy(i)
    /\ sem' = PostCount("rx")
    /\ pc' = PostWakes("rx", pc)
    /\ UNCHANGED <<upFifo, downFifo, resetReq, psuDb, psuResp, s0Line,
                   hdrVars, rc, rxCur, clientVars>>

-----------------------------------------------------------------------------
(* Responding, in either thread.                                           *)

PsuRespondStep(t, answered) ==
    /\ At(t, "psu_resp")
    /\ \/ rc[t] \in answered /\ psuResp' = psuHdr
       \/ /\ rc[t] \notin answered \/ ScomFaults
          /\ psuResp' = psuResp
    /\ Goto(t, "psu_release")
    /\ UNCHANGED <<masked, upFifo, downFifo, resetReq, psuDb, s0Line,
                   intrSource, sem, hdrVars, rc, rxCur, clientVars>>

\* Wrong: answers what the chip-op has answered; leaves a fenced command out.
PsuRespond_Twice(t)    == PsuRespondStep(t, {"unsupported", "fenced", "ok"})
PsuRespond_NoFenced(t) == PsuRespondStep(t, {"unsupported"})

\* sbeHandlePsuResponse.  A chip-op that succeeded has answered already; the
\* acknowledgement bit of the doorbell is left out.
PsuRespond(t) == PsuRespondStep(t, {"unsupported", "fenced"})

PsuRelease(t) ==
    /\ At(t, "psu_release")
    /\ intrSource' = clearAllHandlers("PSU")
    /\ Goto(t, "en_psu")
    /\ UNCHANGED <<hwVars, sem, hdrVars, rc, rxCur, clientVars>>

\* Wrong: the FIFO reset interrupt is left masked.
IrqEnable_NotReset(t, at, i, l) ==
    /\ At(t, at)
    /\ masked' = masked \ ({i} \ {"FIFO_RESET"})
    /\ Goto(t, l)
    /\ UNCHANGED <<upFifo, downFifo, resetReq, psuDb, psuResp, s0Line,
                   intrSource, sem, hdrVars, rc, rxCur, clientVars>>

\* pk_irq_enable, one interrupt at a time; l is where the thread goes next.
IrqEnable(t, at, i, l) ==
    /\ At(t, at)
    /\ masked' = masked \ {i}
    /\ Goto(t, l)
    /\ UNCHANGED <<upFifo, downFifo, resetReq, psuDb, psuResp, s0Line,
                   intrSource, sem, hdrVars, rc, rxCur, clientVars>>

\* Wrong: a successful chip-op's header is sent twice; an EOT error is not
\* answered and a failed access returns early.
FifoRespondPc_Twice(r) == IF r \in {"unsupported", "fenced"} THEN "flush"
                          ELSE IF r \in {"eot", "ok"} THEN "send" ELSE "fifo_release"
FifoRespondPc_Return(r) == IF r \in {"unsupported", "fenced"} THEN "flush"
                           ELSE IF r = "ok" THEN "eot"
                           ELSE IF r = "fault" THEN "pend" ELSE "fifo_release"

\* Where sbeHandleFifoResponse starts for a status.
FifoRespondPc(r) == IF r \in {"unsupported", "fenced"} THEN "flush"
                    ELSE IF r = "eot" THEN "send"
                    ELSE IF r = "ok"  THEN "eot" ELSE "fifo_release"

FifoUnchanged == UNCHANGED <<masked, resetReq, psuDb, psuResp, s0Line, intrSource,
                             sem, hdrVars, rxCur, clientVars>>

\* Flush the upstream FIFO to the EOT.  A parity error goes on to the response.
FifoFlush(t) ==
    /\ At(t, "flush")
    /\ \/ resetReq /\ Goto(t, "fifo_release") /\ upFifo' = upFifo
       \/ /\ ~resetReq /\ upFifo # <<>>
          /\ upFifo' = Tail(upFifo)
          /\ Goto(t, IF Head(upFifo)[1] = "eot" THEN "send" ELSE "flush")
       \/ /\ ScomFaults
          /\ \E l \in {"send", "fifo_release"} : Goto(t, l)
          /\ upFifo' = upFifo
    /\ UNCHANGED <<downFifo, rc>> /\ FifoUnchanged

\* sbeDsSendRespHdr
FifoSend(t) ==
    /\ At(t, "send")
    /\ \/ /\ resetReq \/ ScomFaults
          /\ Goto(t, "fifo_release") /\ downFifo' = downFifo
       \/ /\ ~resetReq
          /\ downFifo' = Append(downFifo, <<"hdr", fifoHdr>>)
          /\ Goto(t, "eot")
    /\ UNCHANGED <<upFifo, rc>> /\ FifoUnchanged

\* sbeDownFifoSignalEot, which does not look at the reset request.
FifoEot(t) ==
    /\ At(t, "eot")
    /\ \/ downFifo' = Append(downFifo, <<"eot", fifoHdr>>)
       \/ ScomFaults /\ downFifo' = downFifo
    /\ Goto(t, "fifo_release")
    /\ UNCHANGED <<upFifo, rc>> /\ FifoUnchanged

\* Wrong: the interrupt source is not cleared.
FifoRelease_NoClear(t) ==
    /\ At(t, "fifo_release")
    /\ Goto(t, "en_data")
    /\ UNCHANGED <<hwVars, intrSource, sem, hdrVars, rc, rxCur, clientVars>>

FifoRelease(t) ==
    /\ At(t, "fifo_release")
    /\ intrSource' = clearAllHandlers("FIFO")
    /\ Goto(t, "en_data")
    /\ UNCHANGED <<hwVars, sem, hdrVars, rc, rxCur, clientVars>>

Respond(t) ==
    \/ PsuRespond(t) \/ PsuRelease(t)
    \/ IrqEnable(t, "en_psu", "PSU", "pend")
    \/ FifoFlush(t) \/ FifoSend(t) \/ FifoEot(t) \/ FifoRelease(t)
    \/ IrqEnable(t, "en_data", "FIFO", "en_reset")
    \/ IrqEnable(t, "en_reset", "FIFO_RESET", "pend")

-----------------------------------------------------------------------------
(* The command receiver thread.                                            *)

\* pk_semaphore_pend(..., PK_WAIT_FOREVER); l_rc starts afresh in the processor
\* only: the receiver's lives outside its loop.
Pend(t) ==
    /\ At(t, "pend")
    /\ SemPend(t)
    /\ rc' = IF t = "proc" THEN [rc EXCEPT !["proc"] = "ok"] ELSE rc
    /\ UNCHANGED <<hwVars, intrSource, hdrVars, rxCur, clientVars>>

RxDecodeReset ==
    /\ At("rx", "decode") /\ isSet("INTERRUPT", "FIFO_RESET")
    /\ rc' = [rc EXCEPT !["rx"] = "reset"]
    /\ rxCur' = "FIFO_RESET"
    /\ Goto("rx", "mark")
    /\ UNCHANGED <<hwVars, intrSource, sem, hdrVars, clientVars>>

RxDecodePsu ==
    /\ At("rx", "decode") /\ ~isSet("INTERRUPT", "FIFO_RESET")
    /\ isSet("INTERRUPT", "PSU")
    /\ intrSource' = clearIntrSource("INTERRUPT", "PSU")
    /\ rxCur' = "PSU"
    /\ Goto("rx", "psu_read")
    /\ UNCHANGED <<hwVars, sem, hdrVars, rc, clientVars>>

RxDecodeFifo ==
    /\ At("rx", "decode") /\ ~isSet("INTERRUPT", "FIFO_RESET")
    /\ ~isSet("INTERRUPT", "PSU") /\ isSet("INTERRUPT", "FIFO")
    /\ intrSource' = clearIntrSource("INTERRUPT", "FIFO")
    /\ rxCur' = "FIFO"
    /\ fifoSts' = "ok"
    /\ Goto("rx", "fifo_hdr")
    /\ UNCHANGED <<hwVars, sem, fifoHdr, psuHdr, psuSts, rc, clientVars>>

\* clearS0interrupt drops the line; l_rc keeps the value it has.
RxDecodeS0 ==
    /\ At("rx", "decode") /\ isSet("INTERRUPT", "S0")
    /\ \A i \in {"FIFO_RESET", "PSU", "FIFO"} : ~isSet("INTERRUPT", i)
    /\ s0Line' = FALSE
    /\ intrSource' = clearIntrSource("INTERRUPT", "S0")
    /\ rxCur' = "S0"
    /\ Goto("rx", "mark")
    /\ UNCHANGED <<masked, upFifo, downFifo, resetReq, psuDb, psuResp,
                   sem, hdrVars, rc, clientVars>>

\* Woken for nothing: with l_rc still 0 the unknown command class fails its
\* validation, on behalf of the interface served last.
RxDecodeNone ==
    /\ At("rx", "decode") /\ intrSource["INTERRUPT"] = {}
    /\ psuSts'  = IF rc["rx"] = "ok" /\ rxCur = "PSU"  THEN "unsupported" ELSE psuSts
    /\ fifoSts' = IF rc["rx"] = "ok" /\ rxCur = "FIFO" THEN "unsupported" ELSE fifoSts
    /\ Goto("rx", "mark")
    /\ UNCHANGED <<hwVars, intrSource, sem, fifoHdr, psuHdr, rc, rxCur, clientVars>>

\* An unsupported command is left to the processor: l_rc is success again.
RcOf(verdict) == IF verdict = "fenced" THEN "fenced" ELSE "ok"

\* Clear the doorbell, read the mailbox, validate the command.
RxPsuRead ==
    /\ At("rx", "psu_read")
    /\ \/ \E v \in Verdict :
             /\ psuDb' = FALSE
             /\ psuHdr' = hostCmd /\ psuSts' = v
             /\ rc' = [rc EXCEPT !["rx"] = RcOf(v)]
       \/ /\ ScomFaults
          /\ psuDb' \in {psuDb, FALSE}
          /\ rc' = [rc EXCEPT !["rx"] = "fault"]
          /\ UNCHANGED <<psuHdr, psuSts>>
    /\ Goto("rx", "mark")
    /\ UNCHANGED <<masked, upFifo, downFifo, resetReq, psuResp, s0Line,
                   intrSource, sem, fifoHdr, fifoSts, rxCur, clientVars>>

\* sbeUpFifoDeq_mult of the header, then the validation; polls an empty FIFO.
RxFifoHeader ==
    /\ At("rx", "fifo_hdr")
    /\ \/ /\ resetReq
          /\ rc' = [rc EXCEPT !["rx"] = "reset"]
          /\ UNCHANGED <<upFifo, fifoHdr, fifoSts>>
       \/ /\ ~resetReq /\ upFifo # <<>>
          /\ upFifo' = Tail(upFifo)
          /\ fifoHdr' = Head(upFifo)[2]
          /\ \/ /\ Head(upFifo)[1] = "eot"
                /\ fifoSts' = "eot"
                /\ rc' = [rc EXCEPT !["rx"] = "ok"]
             \/ /\ Head(upFifo)[1] = "hdr"
                /\ \E v \in Verdict : /\ fifoSts' = v
                                      /\ rc' = [rc EXCEPT !["rx"] = RcOf(v)]
       \/ /\ ScomFaults
          /\ rc' = [rc EXCEPT !["rx"] = "fault"]
          /\ UNCHANGED <<upFifo, fifoHdr, fifoSts>>
    /\ Goto("rx", "mark")
    /\ UNCHANGED <<masked, downFifo, resetReq, psuDb, psuResp, s0Line,
                   intrSource, sem, psuHdr, psuSts, rxCur, clientVars>>

RxMark ==
    /\ At("rx", "mark")
    /\ intrSource' = setIntrSource("RX", rxCur)
    /\ Goto("rx", IF rc["rx"] = "reset" THEN "reset" ELSE "post")
    /\ UNCHANGED <<hwVars, sem, hdrVars, rc, rxCur, clientVars>>

\* sbeUpFifoPerformReset; the reset goes on when the register write fails.
RxReset ==
    /\ At("rx", "reset")
    /\ \/ upFifo' = <<>> /\ downFifo' = <<>> /\ resetReq' = FALSE
       \/ ScomFaults /\ UNCHANGED <<upFifo, downFifo, resetReq>>
    /\ Goto("rx", "reset_clear")
    /\ UNCHANGED <<masked, psuDb, psuResp, s0Line, intrSource, sem, hdrVars,
                   rc, rxCur, clientVars>>

RxResetClear ==
    /\ At("rx", "reset_clear")
    /\ intrSource' = [h \in Handler |->
                       intrSource[h] \ {i \in FifoIrqs : isSet("RX", i)}]
    /\ Goto("rx", "en_data")
    /\ UNCHANGED <<hwVars, sem, hdrVars, rc, rxCur, clientVars>>

\* Hand the command to the processor, or answer a fenced one; halt on the rest.
RxPost ==
    /\ At("rx", "post")
    /\ \/ /\ rc["rx"] = "ok"
          /\ sem' = PostCount("proc")
          /\ pc' = PostWakes("proc", [pc EXCEPT !["rx"] =
                        IF PostFails("proc") THEN "halt" ELSE "pend"])
       \/ /\ rc["rx"] = "fenced"
          /\ Goto("rx", IF rxCur = "PSU"       THEN "psu_resp"
                        ELSE IF rxCur = "FIFO" THEN FifoRespondPc(rc["rx"])
                        ELSE "pend")
          /\ sem' = sem
       \/ /\ rc["rx"] \notin {"ok", "fenced"}
          /\ Goto("rx", "halt")
          /\ sem' = sem
    /\ UNCHANGED <<hwVars, intrSource, hdrVars, rc, rxCur, clientVars>>

sbeCommandReceiver_routine ==
    \/ Pend("rx")
    \/ RxDecodeReset \/ RxDecodePsu \/ RxDecodeFifo \/ RxDecodeS0 \/ RxDecodeNone
    \/ RxPsuRead \/ RxFifoHeader
    \/ RxMark \/ RxReset \/ RxResetClear \/ RxPost
    \/ Respond("rx")

-----------------------------------------------------------------------------
(* The command processor thread.                                           *)

\* setSbeReady, then the IPL the boot mode asks for.
ProcBoot ==
    /\ At("proc", "boot")
    /\ Goto("proc", "pend")
    /\ UNCHANGED <<hwVars, intrSource, sem, hdrVars, rc, rxCur, clientVars>>

\* Take what the receiver marked: PSU before FIFO before S0.
TakeOrder == <<"PSU", "FIFO", "S0">>

Take(k, status, l) ==
    /\ At("proc", "take")
    /\ isSet("RX", TakeOrder[k]) /\ \A j \in 1 .. k - 1 : ~isSet("RX", TakeOrder[j])
    /\ intrSource' = setIntrSource("PROC", TakeOrder[k])
    /\ rc' = [rc EXCEPT !["proc"] = status]
    /\ Goto("proc", IF status = "ok" THEN l ELSE "respond")
    /\ UNCHANGED <<hwVars, sem, hdrVars, rxCur, clientVars>>

\* Unexpected interrupt: the assert(false) here is compiled out.
ProcTakeNone ==
    /\ At("proc", "take") /\ \A j \in 1 .. 3 : ~isSet("RX", TakeOrder[j])
    /\ Goto("proc", "respond")
    /\ UNCHANGED <<hwVars, intrSource, sem, hdrVars, rc, rxCur, clientVars>>

\* A PSU chip-op writes its response itself.
ProcExecPsu ==
    /\ At("proc", "exec_psu")
    /\ \/ psuResp' = psuHdr /\ rc' = rc
       \/ /\ ScomFaults
          /\ psuResp' = psuResp /\ rc' = [rc EXCEPT !["proc"] = "fault"]
    /\ Goto("proc", "respond")
    /\ UNCHANGED <<masked, upFifo, downFifo, resetReq, psuDb, s0Line, intrSource,
                   sem, hdrVars, rxCur, clientVars>>

\* A FIFO chip-op reads its arguments up to the EOT, polling an empty FIFO; too
\* few or too many words are an EOT error.
ProcExecFifo ==
    /\ At("proc", "exec_fifo")
    /\ \/ /\ resetReq \/ ScomFaults
          /\ \E r \in (IF resetReq THEN {"reset"} ELSE {}) \cup
                      (IF ScomFaults THEN {"fault"} ELSE {}) :
                rc' = [rc EXCEPT !["proc"] = r]
          /\ Goto("proc", "respond") /\ upFifo' = upFifo
       \/ /\ ~resetReq /\ upFifo # <<>>
          /\ upFifo' = Tail(upFifo)
          /\ \/ Head(upFifo)[1] = "hdr" /\ UNCHANGED <<pc, rc>>
             \/ Head(upFifo)[1] = "eot" /\ Goto("proc", "reply") /\ rc' = rc
             \/ /\ Head(upFifo)[1] = "eot" /\ Goto("proc", "respond")
                /\ rc' = [rc EXCEPT !["proc"] = "eot"]
    /\ downFifo' = downFifo /\ FifoUnchanged

\* and sends its response header, data included.
ProcReply ==
    /\ At("proc", "reply")
    /\ \/ /\ resetReq \/ ScomFaults
          /\ rc' = [rc EXCEPT !["proc"] = IF resetReq THEN "reset" ELSE "fault"]
          /\ downFifo' = downFifo
       \/ /\ ~resetReq
          /\ downFifo' = Append(downFifo, <<"hdr", fifoHdr>>)
          /\ rc' = rc
    /\ Goto("proc", "respond")
    /\ upFifo' = upFifo /\ FifoUnchanged

\* sbeHandleS0 serves every S0 request raised before the receiver dropped the line.
sbeHandleS0 ==
    /\ At("proc", "s0")
    /\ s0Wanted' = s0Line
    /\ Goto("proc", "respond")
    /\ UNCHANGED <<hwVars, intrSource, sem, hdrVars, rc, rxCur,
                   spPc, spCmd, hostPc, hostCmd, s0Raised, resets>>

\* Which response there is to give is read off the PROC interrupt source.
ProcRespond ==
    /\ At("proc", "respond")
    /\ \/ /\ isSet("PROC", "PSU")
          /\ Goto("proc", "psu_resp") /\ intrSource' = intrSource
       \/ /\ ~isSet("PROC", "PSU") /\ isSet("PROC", "FIFO")
          /\ Goto("proc", FifoRespondPc(rc["proc"])) /\ intrSource' = intrSource
       \/ /\ ~isSet("PROC", "PSU") /\ ~isSet("PROC", "FIFO")
          /\ IF isSet("PROC", "S0")
               THEN Goto("proc", "en_s0") /\ intrSource' = clearAllHandlers("S0")
               ELSE Goto("proc", "pend") /\ intrSource' = intrSource
    /\ UNCHANGED <<hwVars, sem, hdrVars, rc, rxCur, clientVars>>

sbeSyncCommandProcessor_routine ==
    \/ ProcBoot \/ Pend("proc")
    \/ Take(1, psuSts, "exec_psu") \/ Take(2, fifoSts, "exec_fifo") \/ Take(3, "ok", "s0")
    \/ ProcTakeNone
    \/ ProcExecPsu \/ ProcExecFifo \/ ProcReply \/ sbeHandleS0
    \/ ProcRespond \/ Respond("proc")
    \/ IrqEnable("proc", "en_s0", "S0", "pend")

-----------------------------------------------------------------------------
(* The clients: one command outstanding on each interface.                 *)

fwVars == <<masked, intrSource, sem, hdrVars, pc, rc, rxCur>>

SpSend(kind, l) ==
    /\ spPc = "idle" /\ spCmd < MaxFifoCmds
    /\ spCmd' = spCmd + 1
    /\ upFifo' = Append(upFifo, <<kind, spCmd + 1>>)
    /\ spPc' = l
    /\ UNCHANGED <<fwVars, downFifo, resetReq, psuDb, psuResp, s0Line,
                   hostPc, hostCmd, s0Raised, s0Wanted, resets>>

SpSendHeader == SpSend("hdr", "open")
SpSendShort  == SpSend("eot", "waiting")     \* an EOT before the header is complete

SpSendEot ==
    /\ spPc = "open"
    /\ upFifo' = Append(upFifo, <<"eot", spCmd>>)
    /\ spPc' = "waiting"
    /\ UNCHANGED <<fwVars, downFifo, resetReq, psuDb, psuResp, s0Line,
                   spCmd, hostPc, hostCmd, s0Raised, s0Wanted, resets>>

SpReadResponse ==
    /\ spPc = "waiting" /\ downFifo # <<>> /\ downFifo[Len(downFifo)][1] = "eot"
    /\ downFifo' = <<>>
    /\ spPc' = "idle"
    /\ UNCHANGED <<fwVars, upFifo, resetReq, psuDb, psuResp, s0Line,
                   spCmd, hostPc, hostCmd, s0Raised, s0Wanted, resets>>

SpRequestReset ==
    /\ spPc # "resetting" /\ resets < MaxResets
    /\ resetReq' = TRUE /\ resets' = resets + 1
    /\ spPc' = "resetting"
    /\ UNCHANGED <<fwVars, upFifo, downFifo, psuDb, psuResp, s0Line,
                   spCmd, hostPc, hostCmd, s0Raised, s0Wanted>>

SpResetDone ==
    /\ spPc = "resetting" /\ ~resetReq
    /\ spPc' = "idle"
    /\ UNCHANGED <<fwVars, upFifo, downFifo, resetReq, psuDb, psuResp, s0Line,
                   spCmd, hostPc, hostCmd, s0Raised, s0Wanted, resets>>

HostSend ==
    /\ hostPc = "idle" /\ hostCmd < MaxPsuCmds
    /\ hostCmd' = hostCmd + 1 /\ psuDb' = TRUE
    /\ hostPc' = "waiting"
    /\ UNCHANGED <<fwVars, upFifo, downFifo, resetReq, psuResp, s0Line,
                   spPc, spCmd, s0Raised, s0Wanted, resets>>

HostGetResponse ==
    /\ hostPc = "waiting" /\ psuResp # 0
    /\ psuResp' = 0
    /\ hostPc' = "idle"
    /\ UNCHANGED <<fwVars, upFifo, downFifo, resetReq, psuDb, s0Line,
                   spPc, spCmd, hostCmd, s0Raised, s0Wanted, resets>>

S0Raise ==
    /\ ~s0Line /\ s0Raised < MaxS0
    /\ s0Line' = TRUE /\ s0Wanted' = TRUE /\ s0Raised' = s0Raised + 1
    /\ UNCHANGED <<fwVars, upFifo, downFifo, resetReq, psuDb, psuResp,
                   spPc, spCmd, hostPc, hostCmd, resets>>

Clients ==
    \/ SpSendHeader \/ SpSendShort \/ SpSendEot \/ SpReadResponse
    \/ SpRequestReset \/ SpResetDone
    \/ HostSend \/ HostGetResponse \/ S0Raise

\* Both threads blocked, every client through with what it had to ask.
Quiescent ==
    /\ pc["rx"] = "blocked" /\ pc["proc"] = "blocked"
    /\ spPc = "idle" /\ hostPc = "idle" /\ ~psuDb /\ ~resetReq /\ upFifo = <<>>
    /\ UNCHANGED vars

Next ==
    \/ \E i \in Interface : sbe_interrupt_handler(i)
    \/ sbeCommandReceiver_routine
    \/ sbeSyncCommandProcessor_routine
    \/ Clients
    \/ Quiescent

Spec == Init /\ [][Next]_vars

\* An interrupt that keeps being raised and unmasked is taken, however short the
\* time it stays unmasked; the engine runs whatever thread is ready; the SP and
\* the host finish the message they started and collect their response.
Fairness ==
    /\ \A i \in Interface : SF_vars(sbe_interrupt_handler(i))
    /\ WF_vars(sbeCommandReceiver_routine)
    /\ WF_vars(sbeSyncCommandProcessor_routine)
    /\ WF_vars(SpSendEot) /\ WF_vars(SpReadResponse) /\ WF_vars(SpResetDone)
    /\ WF_vars(HostGetResponse)

FairSpec == Spec /\ Fairness

-----------------------------------------------------------------------------
(* Properties.                                                             *)

\* Where a thread touches the FIFO registers on behalf of a command.
UsesFifo(t) == \/ pc[t] \in {"fifo_hdr", "exec_fifo", "reply", "flush", "send", "eot"}
               \/ t = "proc" /\ pc[t] = "respond" /\ isSet("PROC", "FIFO")

\* The processor is never woken without a command to take: the "Unexpected
\* interrupt" assert(false) of sbecmdprocessor.C is not reached.
NoUnexpectedInterrupt ==
    pc["proc"] = "take" => \E i \in {"PSU", "FIFO", "S0"} : isSet("RX", i)

\* No post overflows its semaphore: the assert(!l_rc) of sbeirq.C holds and the
\* receiver never halts the engine because of a failed post.
SemaphoresBounded == \A t \in Thread : sem[t] <= MAX_SEMAPHORE_COUNT

\* An interface stays masked from its interrupt to the end of its command, so a
\* second command is not received over the headers of the one being served.
OwnedIsMasked ==
    \A i \in {"FIFO", "PSU", "S0"} :
        (\E h \in Handler : isSet(h, i)) => i \in masked

\* The two threads never access the FIFOs for commands at the same time.
FifoExclusive == ~(UsesFifo("rx") /\ UsesFifo("proc"))

\* What is in the downstream FIFO is the response to the command the SP waits
\* for, a header and then an EOT, and nothing else, unless it asked for a reset.
FifoResponseMatches ==
    \/ downFifo = <<>>
    \/ spPc = "resetting"
    \/ /\ spPc = "waiting"
       /\ downFifo \in {<< <<"hdr", spCmd>> >>, << <<"hdr", spCmd>>, <<"eot", spCmd>> >>}

\* What is in the SBE-to-PSU mailbox answers the command the host waits for.
PsuResponseMatches == psuResp # 0 => hostPc = "waiting" /\ psuResp = hostCmd

\* No wakeup is lost: the receiver never sleeps on an interrupt the ISR recorded,
\* nor a thread on a semaphore that was posted.
NoLostWakeup ==
    /\ pc["rx"] = "blocked" => intrSource["INTERRUPT"] = {}
    /\ \A t \in Thread : pc[t] = "blocked" => sem[t] = 0

\* What the clients see of the control loop.  The SP has its answer when the
\* downstream FIFO holds a message up to its EOT, the host when its doorbell rings.
SpAnswered == spPc = "waiting" /\ downFifo # <<>> /\ downFifo[Len(downFifo)][1] = "eot"

Service == INSTANCE ChipOpService WITH
    Client <- {"sp", "host"},
    phase  <- [c \in {"sp", "host"} |->
                  IF c = "sp" THEN IF spPc = "idle" THEN "idle"
                                   ELSE IF SpAnswered THEN "answered" ELSE "pending"
                  ELSE IF hostPc = "idle" THEN "idle"
                       ELSE IF psuResp # 0 THEN "answered" ELSE "pending"],
    asked  <- [c \in {"sp", "host"} |-> IF c = "sp" THEN spCmd ELSE hostCmd],
    answer <- [c \in {"sp", "host"} |->
                  IF c = "host" THEN psuResp
                  ELSE IF SpAnswered THEN downFifo[Len(downFifo)][2] ELSE 0]

\* The control loop implements the service: every message of the SP and every mailbox
\* command of the host, fenced, unsupported, cut short or run, is answered once, by
\* whichever thread it falls to, with the answer to that very command, in the end.
ImplementsService == Service!Spec

\* "Break out from Command/Class validation, post to processor": an S0 request is
\* eventually handled.
S0Served == s0Wanted ~> ~s0Wanted

\* Whatever register access fails, an interface that was taken is given back:
\* its interrupt is unmasked again, unless the engine was halted.
InterfaceReleased ==
    \A i \in {"FIFO", "PSU"} : i \in masked ~> i \notin masked \/ Halted

\* A FIFO reset request is eventually performed, wherever the threads are.
ResetServed == resetReq ~> ~resetReq
=============================================================================
