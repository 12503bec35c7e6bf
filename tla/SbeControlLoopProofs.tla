------------------------ MODULE SbeControlLoopProofs ------------------------
(***************************************************************************)
(* What holds of the control loop for every value of the bounds.           *)
(*                                                                         *)
(* First the bookkeeping of its interrupts and fences, then its responses: *)
(* each is the response to the command its client waits for, and the       *)
(* control loop is a safe ChipOpService, for every number of commands,     *)
(* without FIFO resets and register faults.                                *)
(***************************************************************************)
EXTENDS SbeControlLoop, SequenceTheorems, TLAPS

-----------------------------------------------------------------------------
(* Lemmas about the helpers.                                               *)

LEMMA FifoRespondPcType ==
  ASSUME NEW r \in Status
  PROVE  FifoRespondPc(r) \in RespondPc
BY DEF Status, FifoRespondPc, RespondPc

LEMMA SourceType ==
  ASSUME TypeOK, NEW h \in Handler, NEW i \in Interface \cup {NoInterface}
  PROVE  /\ setIntrSource(h, i) \in [Handler -> SUBSET (Interface \cup {NoInterface})]
         /\ clearIntrSource(h, i) \in [Handler -> SUBSET (Interface \cup {NoInterface})]
         /\ clearAllHandlers(i) \in [Handler -> SUBSET (Interface \cup {NoInterface})]
BY DEF TypeOK, setIntrSource, clearIntrSource, clearAllHandlers

\* A thread's move to one of its own labels keeps the program counters typed.
LEMMA GotoType ==
  ASSUME TypeOK, NEW t \in Thread, NEW l, l \in IF t = "rx" THEN RxPc ELSE ProcPc,
         Goto(t, l)
  PROVE  /\ pc' \in [Thread -> RxPc \cup ProcPc]
         /\ pc'["rx"] \in RxPc /\ pc'["proc"] \in ProcPc
BY DEF TypeOK, Goto, Thread

\* What dequeueing and enqueueing do to a FIFO.
LEMMA FifoTail ==
  ASSUME NEW q \in Seq(Token), q # <<>>
  PROVE  /\ Tail(q) \in Seq(Token)
         /\ Head(q)[1] \in {"hdr", "eot"} /\ Head(q)[2] \in Nat
<1>1. Head(q) \in Token /\ Tail(q) \in Seq(Token)
  OBVIOUS
<1> QED BY <1>1 DEF Token

LEMMA FifoAppend ==
  ASSUME NEW q \in Seq(Token), NEW k \in {"hdr", "eot"}, NEW n \in Nat
  PROVE  Append(q, <<k, n>>) \in Seq(Token)
<1>1. <<k, n>> \in Token
  BY DEF Token
<1> QED BY <1>1

-----------------------------------------------------------------------------
(* Type correctness.                                                       *)

LEMMA IsrType ==
  ASSUME TypeOK, NEW i \in Interface, sbe_interrupt_handler(i)
  PROVE  TypeOK'
BY SourceType
   DEF TypeOK, sbe_interrupt_handler, MaskedBy, FifoIrqs, Interface, Handler, PostCount, PostWakes,
       Obtained, Thread, RxPc, hdrVars, clientVars

\* A response step of either thread.
LEMMA RespondType ==
  ASSUME TypeOK, NEW t \in Thread, Respond(t)
  PROVE  TypeOK'
<1> RespondPc \subseteq IF t = "rx" THEN RxPc ELSE ProcPc
  BY DEF RxPc, ProcPc
<1> "pend" \in IF t = "rx" THEN RxPc ELSE ProcPc
  BY DEF RxPc, ProcPc
<1> USE DEF TypeOK, hwVars, hdrVars, clientVars
<1>1. CASE PsuRespond(t)
  <2>1. Goto(t, "psu_release") /\ psuResp' \in Nat
    BY <1>1 DEF PsuRespond, PsuRespondStep
  <2> QED BY <1>1, <2>1, GotoType DEF PsuRespond, PsuRespondStep, RespondPc
<1>2. CASE PsuRelease(t)
  BY <1>2, GotoType, SourceType DEF PsuRelease, RespondPc, Interface, Handler
<1>3. ASSUME NEW at, NEW i \in Interface, NEW l \in RespondPc \cup {"pend"},
             IrqEnable(t, at, i, l)
      PROVE  TypeOK'
  BY <1>3, GotoType DEF IrqEnable
<1>4. CASE FifoFlush(t)
  <2>1. \E l \in RespondPc : Goto(t, l)
    BY <1>4 DEF FifoFlush, RespondPc
  <2>2. upFifo' \in Seq(Token)
    BY <1>4, FifoTail DEF FifoFlush
  <2> QED BY <1>4, <2>1, <2>2, GotoType DEF FifoFlush, FifoUnchanged
<1>5. CASE FifoSend(t)
  <2>1. \E l \in RespondPc : Goto(t, l)
    BY <1>5 DEF FifoSend, RespondPc
  <2>2. downFifo' \in Seq(Token)
    BY <1>5, FifoAppend DEF FifoSend
  <2> QED BY <1>5, <2>1, <2>2, GotoType DEF FifoSend, FifoUnchanged
<1>6. CASE FifoEot(t)
  <2>1. \E l \in RespondPc : Goto(t, l)
    BY <1>6 DEF FifoEot, RespondPc
  <2>2. downFifo' \in Seq(Token)
    BY <1>6, FifoAppend DEF FifoEot
  <2> QED BY <1>6, <2>1, <2>2, GotoType DEF FifoEot, FifoUnchanged
<1>7. CASE FifoRelease(t)
  BY <1>7, GotoType, SourceType DEF FifoRelease, RespondPc, Interface, Handler
<1>8. QED
  BY <1>1, <1>2, <1>3, <1>4, <1>5, <1>6, <1>7 DEF Respond, Interface, RespondPc

\* A pend of either thread.
LEMMA PendType ==
  ASSUME TypeOK, NEW t \in Thread, Pend(t)
  PROVE  TypeOK'
<1>1. \E l \in {"blocked", Obtained(t)} : Goto(t, l)
  BY DEF Pend, SemPend
<1>2. {"blocked", Obtained(t)} \subseteq IF t = "rx" THEN RxPc ELSE ProcPc
  BY DEF Obtained, RxPc, ProcPc
<1>3. sem' \in [Thread -> Nat]
  BY DEF Pend, SemPend, TypeOK, Thread
<1>4. rc' \in [Thread -> Status]
  BY DEF Pend, TypeOK, Thread, Status
<1> QED BY <1>1, <1>2, <1>3, <1>4, GotoType DEF TypeOK, Pend, hwVars, hdrVars, clientVars

\* A step of the receiver thread.
LEMMA ReceiverType ==
  ASSUME TypeOK, sbeCommandReceiver_routine
  PROVE  TypeOK'
<1> "rx" \in Thread
  BY DEF Thread
<1> {"FIFO", "FIFO_RESET", "PSU", "S0"} \subseteq Interface /\ {"INTERRUPT", "RX"} \subseteq Handler
  BY DEF Interface, Handler
<1> Verdict \subseteq Status /\ (\A v \in Verdict : RcOf(v) \in Status)
    /\ {"ok", "reset", "eot", "fault", "unsupported"} \subseteq Status
    /\ {"ok", "unsupported"} \subseteq Verdict
  BY DEF Verdict, Status, RcOf
<1>0. ASSUME NEW r \in Status, rc' = [rc EXCEPT !["rx"] = r]
      PROVE  rc' \in [Thread -> Status]
  BY <1>0 DEF TypeOK
<1> USE DEF TypeOK, hwVars, hdrVars, clientVars
<1>1. CASE RxDecodeReset
  BY <1>0, <1>1, GotoType DEF RxDecodeReset, RxPc
<1>2. CASE RxDecodePsu
  BY <1>2, GotoType, SourceType DEF RxDecodePsu, RxPc
<1>3. CASE RxDecodeFifo
  BY <1>3, GotoType, SourceType DEF RxDecodeFifo, RxPc
<1>4. CASE RxDecodeS0
  BY <1>4, GotoType, SourceType DEF RxDecodeS0, RxPc
<1>5. CASE RxDecodeNone
  <2>1. psuSts' \in Verdict /\ fifoSts' \in Verdict \cup {"eot"}
    BY <1>5 DEF RxDecodeNone
  <2> QED BY <1>5, <2>1, GotoType DEF RxDecodeNone, RxPc
<1>6. CASE RxPsuRead
  <2>1. psuSts' \in Verdict /\ psuHdr' \in Nat /\ rc' \in [Thread -> Status]
    BY <1>0, <1>6 DEF RxPsuRead
  <2>2. psuDb' \in BOOLEAN
    BY <1>6, Zenon DEF RxPsuRead
  <2> QED BY <1>6, <2>1, <2>2, GotoType DEF RxPsuRead, RxPc
<1>7. CASE RxFifoHeader
  <2>1. upFifo' \in Seq(Token) /\ fifoHdr' \in Nat
    BY <1>7, FifoTail DEF RxFifoHeader
  <2>2. fifoSts' \in Verdict \cup {"eot"} /\ rc' \in [Thread -> Status]
    BY <1>0, <1>7 DEF RxFifoHeader
  <2> QED BY <1>7, <2>1, <2>2, GotoType DEF RxFifoHeader, RxPc
<1>8. CASE RxMark
  BY <1>8, GotoType, SourceType DEF RxMark, RxPc
<1>9. CASE RxReset
  <2>1. <<>> \in Seq(Token)
    OBVIOUS
  <2>2. upFifo' \in Seq(Token) /\ downFifo' \in Seq(Token)
    BY <1>9, <2>1 DEF RxReset
  <2>3. resetReq' \in BOOLEAN
    BY <1>9, Zenon DEF RxReset
  <2> QED BY <1>9, <2>2, <2>3, GotoType DEF RxReset, RxPc
<1>10. CASE RxResetClear
  <2>1. intrSource' \in [Handler -> SUBSET (Interface \cup {NoInterface})]
    BY <1>10 DEF RxResetClear
  <2>2. /\ Goto("rx", "en_data")
        /\ UNCHANGED <<hwVars, sem, hdrVars, rc, rxCur, clientVars>>
    BY <1>10 DEF RxResetClear
  <2> QED BY <2>1, <2>2, GotoType DEF RxPc, RespondPc
<1>11. CASE RxPost
  <2>1. CASE rc["rx"] = "ok"
    BY <1>11, <2>1 DEF RxPost, PostCount, PostWakes, Obtained, RxPc, ProcPc, Thread
  <2>2. CASE rc["rx"] # "ok"
    <3>1. \E l \in RxPc : Goto("rx", l)
      BY <1>11, <2>2, FifoRespondPcType DEF RxPost, RxPc, RespondPc
    <3> QED BY <1>11, <2>2, <3>1, GotoType DEF RxPost
  <2> QED BY <2>1, <2>2
<1> QED BY <1>1, <1>2, <1>3, <1>4, <1>5, <1>6, <1>7, <1>8, <1>9, <1>10, <1>11,
           PendType, RespondType DEF sbeCommandReceiver_routine

\* A step of the processor thread.
LEMMA ProcessorType ==
  ASSUME TypeOK, sbeSyncCommandProcessor_routine
  PROVE  TypeOK'
<1> "proc" \in Thread
  BY DEF Thread
<1> {"ok", "reset", "eot", "fault"} \subseteq Status /\ "PROC" \in Handler /\ "S0" \in Interface
  BY DEF Status, Handler, Interface
<1>0. ASSUME NEW r \in Status, rc' = [rc EXCEPT !["proc"] = r]
      PROVE  rc' \in [Thread -> Status]
  BY <1>0 DEF TypeOK
<1> USE DEF TypeOK, hwVars, hdrVars, clientVars
<1>1. CASE ProcBoot
  BY <1>1, GotoType DEF ProcBoot, ProcPc
<1>2. ASSUME NEW k \in 1 .. 3, NEW r \in Status, NEW l \in ProcPc, Take(k, r, l)
      PROVE  TypeOK'
  <2>1. TakeOrder[k] \in Interface
    BY DEF TakeOrder, Interface
  <2> QED BY <1>0, <1>2, <2>1, GotoType, SourceType DEF Take, ProcPc
<1>3. CASE ProcTakeNone
  BY <1>3, GotoType DEF ProcTakeNone, ProcPc
<1>4. CASE ProcExecPsu
  BY <1>0, <1>4, GotoType DEF ProcExecPsu, ProcPc
<1>5. CASE ProcExecFifo
  <2>1. upFifo' \in Seq(Token)
    BY <1>5, FifoTail DEF ProcExecFifo
  <2>2. rc' \in [Thread -> Status]
    BY <1>0, <1>5 DEF ProcExecFifo
  <2>3. pc' = pc \/ \E l \in {"respond", "reply"} : Goto("proc", l)
    BY <1>5 DEF ProcExecFifo
  <2> QED BY <1>5, <2>1, <2>2, <2>3, GotoType DEF ProcExecFifo, FifoUnchanged, ProcPc
<1>6. CASE ProcReply
  <2>1. downFifo' \in Seq(Token)
    BY <1>6, FifoAppend DEF ProcReply
  <2>2. rc' \in [Thread -> Status]
    BY <1>0, <1>6 DEF ProcReply
  <2> QED BY <1>6, <2>1, <2>2, GotoType DEF ProcReply, FifoUnchanged, ProcPc
<1>7. CASE sbeHandleS0
  BY <1>7, GotoType DEF sbeHandleS0, ProcPc
<1>8. CASE ProcRespond
  <2>1. \E l \in ProcPc : Goto("proc", l)
    BY <1>8, FifoRespondPcType DEF ProcRespond, ProcPc, RespondPc
  <2>2. intrSource' \in [Handler -> SUBSET (Interface \cup {NoInterface})]
    BY <1>8, SourceType DEF ProcRespond
  <2> QED BY <1>8, <2>1, <2>2, GotoType DEF ProcRespond
<1>9. CASE IrqEnable("proc", "en_s0", "S0", "pend")
  BY <1>9, GotoType DEF IrqEnable, ProcPc
<1>10. CASE \/ Take(1, psuSts, "exec_psu") \/ Take(2, fifoSts, "exec_fifo")
            \/ Take(3, "ok", "s0")
  <2>1. {"exec_psu", "exec_fifo", "s0"} \subseteq ProcPc /\ {1, 2, 3} \subseteq 1 .. 3
    BY DEF ProcPc
  <2>2. psuSts \in Status /\ fifoSts \in Status /\ "ok" \in Status
    BY DEF Verdict, Status
  <2> HIDE DEF TypeOK
  <2> QED BY <1>2, <1>10, <2>1, <2>2
<1> HIDE DEF TypeOK
<1> QED BY <1>1, <1>3, <1>4, <1>5, <1>6, <1>7, <1>8, <1>9, <1>10,
           PendType, RespondType DEF sbeSyncCommandProcessor_routine

\* A step of a client.
LEMMA ClientType ==
  ASSUME TypeOK, Clients
  PROVE  TypeOK'
<1> USE DEF TypeOK, fwVars, hdrVars
<1>1. ASSUME NEW k \in {"hdr", "eot"}, NEW l \in {"open", "waiting"}, SpSend(k, l)
      PROVE  TypeOK'
  <2>1. upFifo' \in Seq(Token)
    BY <1>1, FifoAppend DEF SpSend
  <2> QED BY <1>1, <2>1 DEF SpSend
<1>2. CASE SpSendEot
  <2>1. upFifo' \in Seq(Token)
    BY <1>2, FifoAppend DEF SpSendEot
  <2> QED BY <1>2, <2>1 DEF SpSendEot
<1>3. CASE SpReadResponse
  <2>1. downFifo' \in Seq(Token)
    BY <1>3 DEF SpReadResponse
  <2> QED BY <1>3, <2>1 DEF SpReadResponse
<1>4. CASE SpRequestReset
  BY <1>4 DEF SpRequestReset
<1>5. CASE SpResetDone
  BY <1>5 DEF SpResetDone
<1>6. CASE HostSend
  BY <1>6 DEF HostSend
<1>7. CASE HostGetResponse
  BY <1>7 DEF HostGetResponse
<1>8. CASE S0Raise
  BY <1>8 DEF S0Raise
<1> QED BY <1>1, <1>2, <1>3, <1>4, <1>5, <1>6, <1>7, <1>8
        DEF Clients, SpSendHeader, SpSendShort

\* Every variable of the control loop keeps its type: the receiver stays in the
\* receiver's code, the processor in the processor's, and no count goes negative.
THEOREM TypeCorrect == Spec => []TypeOK
<1>1. Init => TypeOK
  <2> SUFFICES ASSUME Init PROVE TypeOK
    OBVIOUS
  <2>1. <<>> \in Seq(Token)
    OBVIOUS
  <2>2. upFifo \in Seq(Token) /\ downFifo \in Seq(Token)
    BY <2>1 DEF Init
  <2>3. pc \in [Thread -> RxPc \cup ProcPc] /\ pc["rx"] \in RxPc /\ pc["proc"] \in ProcPc
    BY DEF Init, Thread, RxPc, ProcPc
  <2> QED BY <2>2, <2>3 DEF Init, TypeOK, Status, Verdict
<1>2. TypeOK /\ [Next]_vars => TypeOK'
  <2> SUFFICES ASSUME TypeOK, [Next]_vars PROVE TypeOK'
    OBVIOUS
  <2>1. CASE UNCHANGED vars
    BY <2>1 DEF TypeOK, vars, hwVars, hdrVars, clientVars
  <2>2. CASE Next
    BY <2>1, <2>2, IsrType, ReceiverType, ProcessorType, ClientType DEF Next, Quiescent
  <2> QED BY <2>1, <2>2
<1> QED BY <1>1, <1>2, PTL DEF Spec

-----------------------------------------------------------------------------
(* No wakeup is lost.                                                      *)

\* The interfaces that have commands for the processor.
Served == {"FIFO", "PSU", "S0"}

Bit(S, i) == IF i \in S THEN 1 ELSE 0

\* How many interfaces are in S.
Count(S) == Bit(S, "FIFO") + Bit(S, "FIFO_RESET") + Bit(S, "PSU") + Bit(S, "S0")

\* The receiver is carrying out the reset whose interrupt it has seen; the bit
\* stays in the interrupt source until it is through.
ResetInHand == /\ pc["rx"] \in {"mark", "reset", "reset_clear"}
               /\ rxCur = "FIFO_RESET" /\ rc["rx"] = "reset"

\* The interrupts recorded and not yet looked at.
Unseen == intrSource["INTERRUPT"] \ (IF ResetInHand THEN {"FIFO_RESET"} ELSE {})

\* A wakeup the receiver has consumed and not yet spent on an interrupt.
Woken == IF pc["rx"] = "decode" THEN 1 ELSE 0

\* There are at least as many wakeups as unseen interrupts.
WakeInv ==
    /\ intrSource["INTERRUPT"] \subseteq Interface
    /\ \A t \in Thread : pc[t] = "blocked" => sem[t] = 0
    /\ ResetInHand /\ pc["rx"] # "mark" => isSet("RX", "FIFO_RESET")
    /\ Count(Unseen) <= sem["rx"] + Woken

\* Dropping interrupts leaves no more to look at.
LEMMA CountDrops ==
  ASSUME NEW S, NEW T, S \subseteq T
  PROVE  Count(S) <= Count(T) /\ Count(S) \in Nat /\ Count(T) \in Nat
BY DEF Count, Bit

LEMMA CountEmpty ==
  ASSUME NEW S \in SUBSET Interface, Count(S) <= 0
  PROVE  S = {}
BY DEF Count, Bit, Interface

LEMMA CountAdds ==
  ASSUME NEW S, NEW i
  PROVE  Count(S \cup {i}) <= Count(S) + 1
BY DEF Count, Bit

LEMMA CountTakes ==
  ASSUME NEW S, NEW i \in S, i \in Interface
  PROVE  Count(S \ {i}) + 1 = Count(S)
BY DEF Count, Bit, Interface

\* Steps that take no wakeup and record no interrupt.
LEMMA WakeFrame ==
  ASSUME TypeOK, WakeInv,
         intrSource'["INTERRUPT"] \subseteq intrSource["INTERRUPT"],
         sem'["rx"] = sem["rx"], (pc["rx"] = "decode") <=> (pc'["rx"] = "decode"),
         ResetInHand => ResetInHand',
         ResetInHand' /\ pc'["rx"] # "mark" => "FIFO_RESET" \in intrSource'["RX"],
         \A t \in Thread : pc'[t] = "blocked" => sem'[t] = 0
  PROVE  WakeInv'
<1>1. Unseen' \subseteq Unseen
  BY DEF Unseen
<1>2. Woken' = Woken /\ Woken \in Nat
  BY DEF Woken
<1>3. sem["rx"] \in Nat
  BY DEF TypeOK, Thread
<1> QED BY <1>1, <1>2, <1>3, CountDrops DEF WakeInv, isSet

\* A step of the processor or a client, which leaves the receiver alone.
LEMMA WakeOther ==
  ASSUME TypeOK, WakeInv, pc'["rx"] = pc["rx"], rc'["rx"] = rc["rx"], rxCur' = rxCur,
         \A h \in Handler : /\ intrSource'[h] \subseteq intrSource[h] \cup (IF h = "PROC" THEN Served ELSE {})
                            /\ isSet(h, "FIFO_RESET") => "FIFO_RESET" \in intrSource'[h],
         sem' = sem, pc'["proc"] = "blocked" => pc["proc"] = "blocked"
  PROVE  WakeInv'
<1>1. ResetInHand' <=> ResetInHand
  BY DEF ResetInHand
<1>2. "INTERRUPT" \in Handler /\ "RX" \in Handler
  BY DEF Handler
<1> QED BY <1>1, <1>2, WakeFrame DEF WakeInv, Thread, isSet

LEMMA WakeIsr ==
  ASSUME TypeOK, WakeInv, NEW i \in Interface, sbe_interrupt_handler(i)
  PROVE  WakeInv'
<1>1. /\ intrSource'["INTERRUPT"] = intrSource["INTERRUPT"] \cup {i}
      /\ intrSource'["RX"] = intrSource["RX"]
  BY DEF sbe_interrupt_handler, setIntrSource, TypeOK, Handler
<1>2. rc' = rc /\ rxCur' = rxCur
  BY DEF sbe_interrupt_handler
<1>3. /\ sem'["rx"] + Woken' = sem["rx"] + Woken + 1
      /\ sem["rx"] + Woken \in Nat
  BY DEF sbe_interrupt_handler, PostCount, PostWakes, Obtained, Woken, TypeOK, Thread
<1>4. /\ sem'["proc"] = sem["proc"] /\ pc'["proc"] = pc["proc"]
      /\ pc'["rx"] # "blocked"
      /\ pc'["rx"] = pc["rx"] \/ (pc["rx"] = "blocked" /\ pc'["rx"] = "decode")
  <2>1. CASE pc["rx"] = "blocked"
    BY <2>1 DEF sbe_interrupt_handler, PostCount, PostWakes, Obtained, TypeOK, Thread
  <2>2. CASE pc["rx"] # "blocked"
    BY <2>2 DEF sbe_interrupt_handler, PostCount, PostWakes, TypeOK, Thread
  <2> QED BY <2>1, <2>2
<1>5. ResetInHand' <=> ResetInHand
  BY <1>2, <1>4 DEF ResetInHand
<1>6. Unseen' \subseteq Unseen \cup {i}
  BY <1>1, <1>5 DEF Unseen
<1>7. Count(Unseen') <= Count(Unseen) + 1 /\ Count(Unseen') \in Nat /\ Count(Unseen) \in Nat
  <2>1. Count(Unseen') <= Count(Unseen \cup {i}) /\ Count(Unseen') \in Nat
        /\ Count(Unseen \cup {i}) \in Nat
    BY <1>6, CountDrops
  <2>2. Count(Unseen \cup {i}) <= Count(Unseen) + 1 /\ Count(Unseen) \in Nat
    BY CountAdds, CountDrops
  <2> QED BY <2>1, <2>2
<1>8. Count(Unseen') <= sem'["rx"] + Woken'
  BY <1>3, <1>7 DEF WakeInv
<1> QED BY <1>1, <1>2, <1>4, <1>5, <1>8 DEF WakeInv, Thread, isSet

\* A response step takes no wakeup and records no interrupt.
LEMMA WakeRespond ==
  ASSUME TypeOK, WakeInv, NEW t \in Thread, Respond(t)
  PROVE  WakeInv'
<1>1. /\ pc[t] \in RespondPc
      /\ \E l \in RespondPc \cup {"pend"} : pc' = [pc EXCEPT ![t] = l]
  <2> USE DEF Goto, At, RespondPc
  <2>1. CASE PsuRespond(t) \/ PsuRelease(t) \/ IrqEnable(t, "en_psu", "PSU", "pend")
    BY <2>1 DEF PsuRespond, PsuRespondStep, PsuRelease, IrqEnable
  <2>2. CASE FifoFlush(t)
    BY <2>2 DEF FifoFlush
  <2>3. CASE FifoSend(t)
    BY <2>3 DEF FifoSend
  <2>4. CASE FifoEot(t) \/ FifoRelease(t)
    BY <2>4 DEF FifoEot, FifoRelease
  <2>5. CASE \/ IrqEnable(t, "en_data", "FIFO", "en_reset")
             \/ IrqEnable(t, "en_reset", "FIFO_RESET", "pend")
    BY <2>5 DEF IrqEnable
  <2> QED BY <2>1, <2>2, <2>3, <2>4, <2>5 DEF Respond
<1>2. /\ sem' = sem /\ rc' = rc /\ rxCur' = rxCur
      /\ intrSource' = intrSource \/ \E i \in {"FIFO", "PSU"} : intrSource' = clearAllHandlers(i)
  BY DEF Respond, PsuRespond, PsuRespondStep, PsuRelease, IrqEnable, FifoFlush, FifoSend,
         FifoEot, FifoRelease, FifoUnchanged
<1>3. \A h \in Handler : /\ intrSource'[h] \subseteq intrSource[h]
                         /\ isSet(h, "FIFO_RESET") => "FIFO_RESET" \in intrSource'[h]
  BY <1>2 DEF clearAllHandlers, isSet
<1>4. "INTERRUPT" \in Handler /\ "RX" \in Handler
  BY DEF Handler
<1>5. (pc["rx"] = "decode") <=> (pc'["rx"] = "decode")
  BY <1>1 DEF RespondPc, Thread, TypeOK
<1>6. ResetInHand' <=> ResetInHand
  BY <1>1, <1>2 DEF ResetInHand, RespondPc, Thread, TypeOK
<1>7. \A u \in Thread : pc'[u] = "blocked" => pc[u] = "blocked"
  BY <1>1 DEF RespondPc, Thread, TypeOK
<1>8. ResetInHand => pc'["rx"] = pc["rx"]
  BY <1>1 DEF ResetInHand, RespondPc, Thread, TypeOK
<1> QED BY <1>2, <1>3, <1>4, <1>5, <1>6, <1>7, <1>8, WakeFrame DEF WakeInv, isSet

LEMMA WakePend ==
  ASSUME TypeOK, WakeInv, NEW t \in Thread, Pend(t)
  PROVE  WakeInv'
<1>1. /\ intrSource' = intrSource /\ rxCur' = rxCur /\ rc'["rx"] = rc["rx"]
      /\ pc[t] = "pend"
  BY DEF Pend, At, TypeOK, Thread
<1>2. /\ pc'[t] \in {"blocked", Obtained(t)} /\ (pc'[t] = "blocked" => sem'[t] = 0)
      /\ \A u \in Thread \ {t} : pc'[u] = pc[u] /\ sem'[u] = sem[u]
  BY DEF Pend, SemPend, Goto, Obtained, TypeOK
<1>3. CASE t = "rx"
  <2>1. sem'["rx"] + Woken' = sem["rx"] + Woken
    BY <1>1, <1>3 DEF Pend, SemPend, Goto, Obtained, Woken, TypeOK, Thread
  <2>2. ~ResetInHand /\ ~ResetInHand'
    BY <1>1, <1>2, <1>3 DEF ResetInHand, Obtained
  <2>3. Unseen' = Unseen
    BY <1>1, <2>2 DEF Unseen
  <2> QED BY <1>1, <1>2, <1>3, <2>1, <2>2, <2>3 DEF WakeInv, Thread, Obtained
<1>4. CASE t = "proc"
  <2>1. pc'["rx"] = pc["rx"] /\ sem'["rx"] = sem["rx"]
    BY <1>2, <1>4 DEF Thread
  <2>2. ResetInHand' <=> ResetInHand
    BY <1>1, <2>1 DEF ResetInHand
  <2>3. \A u \in Thread : pc'[u] = "blocked" => sem'[u] = 0
    BY <1>2, <1>4, <2>1 DEF WakeInv, Thread
  <2> QED BY <1>1, <2>1, <2>2, <2>3, WakeFrame DEF WakeInv, isSet
<1> QED BY <1>3, <1>4 DEF Thread

\* The receiver looks at an interrupt: it spends the wakeup it was given.
LEMMA WakeDecode ==
  ASSUME TypeOK, WakeInv,
         RxDecodeReset \/ RxDecodePsu \/ RxDecodeFifo \/ RxDecodeS0 \/ RxDecodeNone
  PROVE  WakeInv'
<1>1. /\ pc["rx"] = "decode" /\ pc'["rx"] \notin {"decode", "reset", "reset_clear", "blocked"}
      /\ pc'["proc"] = pc["proc"] /\ sem' = sem
  BY DEF RxDecodeReset, RxDecodePsu, RxDecodeFifo, RxDecodeS0, RxDecodeNone, At, Goto,
         TypeOK, Thread
<1>2. ~ResetInHand /\ Unseen = intrSource["INTERRUPT"] /\ Woken = 1 /\ Woken' = 0
  BY <1>1 DEF ResetInHand, Unseen, Woken
<1>3. sem["rx"] \in Nat /\ intrSource["INTERRUPT"] \subseteq Interface
  BY DEF TypeOK, Thread, WakeInv
<1>4. \/ \E i \in intrSource["INTERRUPT"] : Unseen' \subseteq intrSource["INTERRUPT"] \ {i}
      \/ Unseen' = {}
  <2>1. CASE RxDecodeReset
    <3>1. ResetInHand'
      BY <2>1 DEF RxDecodeReset, ResetInHand, Goto, TypeOK, Thread
    <3> QED BY <2>1, <3>1 DEF RxDecodeReset, Unseen, isSet
  <2>2. CASE RxDecodePsu
    BY <2>2 DEF RxDecodePsu, Unseen, isSet, clearIntrSource, TypeOK, Handler
  <2>3. CASE RxDecodeFifo
    BY <2>3 DEF RxDecodeFifo, Unseen, isSet, clearIntrSource, TypeOK, Handler
  <2>4. CASE RxDecodeS0
    BY <2>4 DEF RxDecodeS0, Unseen, isSet, clearIntrSource, TypeOK, Handler
  <2>5. CASE RxDecodeNone
    BY <2>5 DEF RxDecodeNone, Unseen
  <2> QED BY <2>1, <2>2, <2>3, <2>4, <2>5
<1>5. Count(Unseen') <= sem["rx"]
  <2>1. Count({}) = 0
    BY DEF Count, Bit
  <2>2. ASSUME NEW i \in intrSource["INTERRUPT"],
               Unseen' \subseteq intrSource["INTERRUPT"] \ {i}
        PROVE  Count(Unseen') <= sem["rx"]
    <3>1. Count(intrSource["INTERRUPT"] \ {i}) + 1 = Count(intrSource["INTERRUPT"])
      BY <1>3, CountTakes
    <3>2. /\ Count(Unseen') <= Count(intrSource["INTERRUPT"] \ {i})
          /\ Count(Unseen') \in Nat /\ Count(intrSource["INTERRUPT"] \ {i}) \in Nat
      BY <2>2, CountDrops
    <3>3. Count(intrSource["INTERRUPT"]) <= sem["rx"] + 1
      BY <1>2 DEF WakeInv
    <3> QED BY <1>3, <3>1, <3>2, <3>3
  <2> QED BY <1>3, <1>4, <2>1, <2>2
<1>6. intrSource'["INTERRUPT"] \subseteq intrSource["INTERRUPT"]
  BY DEF RxDecodeReset, RxDecodePsu, RxDecodeFifo, RxDecodeS0, RxDecodeNone,
         clearIntrSource, TypeOK, Handler
<1> QED BY <1>1, <1>2, <1>3, <1>5, <1>6 DEF WakeInv, ResetInHand, Thread

\* A step of the receiver thread.
LEMMA WakeReceiver ==
  ASSUME TypeOK, WakeInv, sbeCommandReceiver_routine
  PROVE  WakeInv'
<1> USE DEF At, Goto
<1>0. "rx" \in Thread /\ "proc" \in Thread /\ "INTERRUPT" \in Handler /\ "RX" \in Handler
  BY DEF Thread, Handler
<1>1. CASE RxPsuRead \/ RxFifoHeader
  <2>1. /\ pc["rx"] \in {"psu_read", "fifo_hdr"} /\ pc'["rx"] = "mark" /\ pc'["proc"] = pc["proc"]
        /\ intrSource' = intrSource /\ sem' = sem
    BY <1>0, <1>1 DEF RxPsuRead, RxFifoHeader, TypeOK
  <2>2. ~ResetInHand
    BY <2>1 DEF ResetInHand
  <2> QED BY <2>1, <2>2, WakeFrame DEF WakeInv, Thread
<1>2. CASE RxMark
  <2>1. /\ pc["rx"] = "mark" /\ pc'["proc"] = pc["proc"] /\ rc' = rc /\ rxCur' = rxCur
        /\ pc'["rx"] = (IF rc["rx"] = "reset" THEN "reset" ELSE "post") /\ sem' = sem
    BY <1>0, <1>2 DEF RxMark, TypeOK
  <2>2. /\ intrSource'["INTERRUPT"] = intrSource["INTERRUPT"]
        /\ intrSource'["RX"] = intrSource["RX"] \cup {rxCur}
    BY <1>0, <1>2 DEF RxMark, setIntrSource, TypeOK
  <2>3. ResetInHand' <=> ResetInHand
    BY <2>1 DEF ResetInHand
  <2>4. ResetInHand => "FIFO_RESET" \in intrSource'["RX"]
    BY <2>2 DEF ResetInHand
  <2> QED BY <2>1, <2>2, <2>3, <2>4, WakeFrame DEF WakeInv, Thread
<1>3. CASE RxReset
  <2>1. /\ pc["rx"] = "reset" /\ pc'["rx"] = "reset_clear" /\ pc'["proc"] = pc["proc"]
        /\ rc' = rc /\ rxCur' = rxCur /\ intrSource' = intrSource /\ sem' = sem
    BY <1>0, <1>3 DEF RxReset, TypeOK
  <2>2. ResetInHand' <=> ResetInHand
    BY <2>1 DEF ResetInHand
  <2> QED BY <2>1, <2>2, WakeFrame DEF WakeInv, Thread, isSet
<1>4. CASE RxResetClear
  <2>1. /\ pc["rx"] = "reset_clear" /\ pc'["rx"] = "en_data" /\ pc'["proc"] = pc["proc"]
        /\ sem' = sem
    BY <1>0, <1>4 DEF RxResetClear, TypeOK
  <2>2. intrSource'["INTERRUPT"] =
          intrSource["INTERRUPT"] \ {i \in FifoIrqs : isSet("RX", i)}
    BY <1>0, <1>4 DEF RxResetClear
  <2>3. ~ResetInHand'
    BY <2>1 DEF ResetInHand
  <2>4. ResetInHand => isSet("RX", "FIFO_RESET")
    BY <2>1 DEF WakeInv
  <2>5. Unseen' \subseteq Unseen
    BY <2>2, <2>3, <2>4 DEF Unseen, FifoIrqs
  <2>6. Woken = 0 /\ Woken' = 0 /\ sem["rx"] \in Nat
    BY <1>0, <2>1 DEF Woken, TypeOK
  <2>7. Count(Unseen') <= sem'["rx"] + Woken'
    BY <2>1, <2>5, <2>6, CountDrops DEF WakeInv
  <2> QED BY <2>1, <2>2, <2>3, <2>7 DEF WakeInv, Thread
<1>5. CASE RxPost
  <2>1. /\ pc["rx"] = "post" /\ pc'["rx"] \notin {"decode", "mark", "reset", "reset_clear", "blocked"}
        /\ pc'["proc"] \in {pc["proc"], "take"}
    BY <1>0, <1>5 DEF RxPost, PostWakes, Obtained, FifoRespondPc, TypeOK
  <2>2. /\ sem'["rx"] = sem["rx"] /\ intrSource' = intrSource
        /\ pc'["proc"] = "blocked" => sem' = sem /\ pc["proc"] = "blocked"
    BY <1>0, <1>5 DEF RxPost, PostCount, PostWakes, Obtained, TypeOK
  <2>3. ~ResetInHand /\ ~ResetInHand'
    BY <2>1 DEF ResetInHand
  <2> QED BY <2>1, <2>2, <2>3, WakeFrame DEF WakeInv, Thread
<1> QED BY <1>0, <1>1, <1>2, <1>3, <1>4, <1>5, WakePend, WakeDecode, WakeRespond
        DEF sbeCommandReceiver_routine

\* A step of the processor thread.
LEMMA WakeProcessor ==
  ASSUME TypeOK, WakeInv, sbeSyncCommandProcessor_routine
  PROVE  WakeInv'
<1>0. "rx" \in Thread /\ "proc" \in Thread /\ "PROC" \in Handler
  BY DEF Thread, Handler
<1>1. CASE \/ ProcBoot \/ ProcTakeNone \/ ProcExecPsu \/ ProcReply \/ sbeHandleS0
           \/ IrqEnable("proc", "en_s0", "S0", "pend")
  <2>1. /\ pc'["rx"] = pc["rx"] /\ rc'["rx"] = rc["rx"] /\ rxCur' = rxCur
        /\ intrSource' = intrSource /\ sem' = sem /\ pc'["proc"] # "blocked"
    BY <1>0, <1>1 DEF ProcBoot, ProcTakeNone, ProcExecPsu, ProcReply, sbeHandleS0, IrqEnable,
       FifoUnchanged, Goto, TypeOK
  <2> QED BY <2>1, WakeOther DEF isSet
<1>2. CASE ProcExecFifo
  <2>1. /\ pc'["rx"] = pc["rx"] /\ rc'["rx"] = rc["rx"] /\ rxCur' = rxCur
        /\ intrSource' = intrSource /\ sem' = sem
        /\ pc'["proc"] = pc["proc"] \/ pc'["proc"] # "blocked"
    BY <1>0, <1>2 DEF ProcExecFifo, FifoUnchanged, Goto, TypeOK
  <2> QED BY <2>1, WakeOther DEF isSet
<1>3. ASSUME NEW k \in 1 .. 3, NEW r, NEW l \in {"exec_psu", "exec_fifo", "s0"}, Take(k, r, l)
      PROVE  WakeInv'
  <2>1. /\ pc'["rx"] = pc["rx"] /\ rc'["rx"] = rc["rx"] /\ rxCur' = rxCur
        /\ sem' = sem /\ pc'["proc"] # "blocked"
    BY <1>0, <1>3 DEF Take, Goto, TypeOK
  <2>2. intrSource' = [intrSource EXCEPT !["PROC"] = @ \cup {TakeOrder[k]}]
    BY <1>3 DEF Take, setIntrSource
  <2>3. TakeOrder[k] \in Served
    BY DEF TakeOrder, Served
  <2> QED BY <1>0, <2>1, <2>2, <2>3, WakeOther DEF TypeOK, isSet
<1>4. CASE ProcRespond
  <2>1. /\ pc'["rx"] = pc["rx"] /\ rc'["rx"] = rc["rx"] /\ rxCur' = rxCur
        /\ sem' = sem /\ pc'["proc"] # "blocked"
    BY <1>0, <1>4 DEF ProcRespond, FifoRespondPc, Goto, TypeOK
  <2>2. \A h \in Handler : intrSource'[h] \in {intrSource[h], intrSource[h] \ {"S0"}}
    BY <1>4 DEF ProcRespond, clearAllHandlers
  <2> QED BY <1>0, <2>1, <2>2, WakeOther DEF TypeOK, isSet
<1>5. CASE \/ Take(1, psuSts, "exec_psu") \/ Take(2, fifoSts, "exec_fifo")
           \/ Take(3, "ok", "s0")
  <2>1. {1, 2, 3} \subseteq 1 .. 3
    OBVIOUS
  <2> QED BY <1>3, <1>5, <2>1
<1> QED BY <1>0, <1>1, <1>2, <1>4, <1>5, WakePend, WakeRespond
        DEF sbeSyncCommandProcessor_routine

\* The receiver never sleeps on an interrupt the ISR recorded, nor a thread on a
\* semaphore that was posted, whatever is reset or fails.
THEOREM WakeupsNotLost == Spec => []NoLostWakeup
<1>1. Init => WakeInv
  BY DEF Init, WakeInv, Unseen, ResetInHand, Woken, Count, Bit, Handler, Thread
<1>2. TypeOK /\ WakeInv /\ [Next]_vars => WakeInv'
  <2> SUFFICES ASSUME TypeOK, WakeInv, [Next]_vars PROVE WakeInv'
    OBVIOUS
  <2>1. CASE Clients \/ UNCHANGED vars
    <3>1. UNCHANGED <<intrSource, sem, pc, rc, rxCur>>
      BY <2>1 DEF vars, Clients, SpSendHeader, SpSendShort, SpSend, SpSendEot, SpReadResponse,
           SpRequestReset, SpResetDone, HostSend, HostGetResponse, S0Raise, fwVars
    <3> QED BY <3>1, WakeOther DEF isSet
  <2>2. CASE Next
    BY <2>1, <2>2, WakeIsr, WakeReceiver, WakeProcessor DEF Next, Quiescent
  <2> QED BY <2>1, <2>2
<1>3. TypeOK /\ WakeInv => NoLostWakeup
  <2> SUFFICES ASSUME TypeOK, WakeInv PROVE NoLostWakeup
    OBVIOUS
  <2>1. ASSUME pc["rx"] = "blocked" PROVE intrSource["INTERRUPT"] = {}
    <3>1. sem["rx"] = 0 /\ Woken = 0 /\ Unseen = intrSource["INTERRUPT"]
      BY <2>1 DEF WakeInv, Thread, Woken, Unseen, ResetInHand
    <3> QED BY <3>1, CountEmpty DEF WakeInv
  <2> QED BY <2>1 DEF WakeInv, NoLostWakeup
<1> QED BY <1>1, <1>2, <1>3, TypeCorrect, PTL DEF Spec

-----------------------------------------------------------------------------
(* Without FIFO resets.                                                    *)

\* The receiver has taken i's interrupt and not yet marked it.
RxHolds(i) == /\ pc["rx"] \in {"psu_read", "fifo_hdr", "mark"}
              /\ rxCur = i

\* The receiver has marked i and neither posted nor released it.
RxKeeps(i) == /\ pc["rx"] \in {"post", "psu_resp", "psu_release", "flush", "send",
                                "eot", "fifo_release"}
              /\ rxCur = i

\* Thread t is about to unmask i.
Unmasks(t, i) == \/ pc[t] = "en_psu" /\ i = "PSU"
                 \/ pc[t] = "en_data" /\ i = "FIFO"
                 \/ pc[t] = "en_s0" /\ i = "S0"

\* No reset was ever requested, so none is seen anywhere.
NoResetInv ==
    /\ resets = 0 /\ ~resetReq
    /\ \A h \in Handler : intrSource[h] \subseteq Served
    /\ rxCur \in Served \cup {NoInterface}
    /\ \A t \in Thread : rc[t] # "reset"
    /\ pc["rx"] \notin {"reset", "reset_clear"}

\* Where the receiver is tells which interface it has in hand.
RxInv ==
    /\ pc["rx"] = "psu_read" => rxCur = "PSU"
    /\ pc["rx"] = "fifo_hdr" => rxCur = "FIFO"
    /\ pc["rx"] \in {"mark", "post"} => rxCur \in Served
    /\ pc["rx"] \in {"psu_resp", "psu_release"} => rxCur = "PSU"
    /\ pc["rx"] \in {"flush", "send", "eot", "fifo_release"} => rxCur = "FIFO"
    /\ \A i \in Served : RxKeeps(i) => isSet("RX", i) /\ ~isSet("PROC", i)

\* Where the processor is tells which interface it has in hand.
ProcInv ==
    /\ intrSource["PROC"] \subseteq intrSource["RX"]
    /\ pc["proc"] \in {"boot", "pend", "blocked", "take", "en_psu", "en_data", "en_reset",
                       "en_s0"} => intrSource["PROC"] = {}
    /\ pc["proc"] \in {"exec_psu", "psu_resp", "psu_release"} => intrSource["PROC"] = {"PSU"}
    /\ pc["proc"] \in {"exec_fifo", "reply", "flush", "send", "eot", "fifo_release"}
           => intrSource["PROC"] = {"FIFO"}
    /\ pc["proc"] = "s0" => intrSource["PROC"] = {"S0"}
    /\ pc["proc"] = "respond" => \E i \in Served : intrSource["PROC"] = {i}

\* An interface is in at most one place, and masked while it is anywhere.
PlaceInv ==
    \A i \in Served :
        /\ isSet("INTERRUPT", i) => i \in masked /\ ~RxHolds(i) /\ ~isSet("RX", i)
        /\ RxHolds(i) => i \in masked /\ ~isSet("RX", i)
        /\ isSet("RX", i) => i \in masked
        /\ \A t \in Thread : Unmasks(t, i) =>
              i \in masked /\ ~isSet("INTERRUPT", i) /\ ~RxHolds(i) /\ ~isSet("RX", i)
        /\ ~(Unmasks("rx", i) /\ Unmasks("proc", i))

\* What the receiver has posted and the processor has not taken.
Posted == intrSource["RX"] \ (intrSource["PROC"] \cup {i \in Served : RxKeeps(i)})

CountInv ==
    /\ sem["rx"] + Woken = Count(intrSource["INTERRUPT"])
    /\ sem["proc"] + (IF pc["proc"] = "take" THEN 1 ELSE 0) <= Count(Posted)

LoopInv == NoResetInv /\ RxInv /\ ProcInv /\ PlaceInv /\ CountInv

LEMMA CountBound ==
  ASSUME NEW S, S \subseteq Served
  PROVE  /\ Count(S) \in 0 .. 3
         /\ \A i \in Served \ S : Count(S) <= 2
         /\ Count(S) > 0 => S # {}
BY DEF Count, Bit, Served

\* The interrupt service routine.
LEMMA LoopIsr ==
  ASSUME TypeOK, LoopInv, MAX_SEMAPHORE_COUNT >= 3,
         NEW i \in Interface, sbe_interrupt_handler(i)
  PROVE  LoopInv'
<1>0. "rx" \in Thread /\ "proc" \in Thread /\ Handler = {"INTERRUPT", "RX", "PROC"}
  BY DEF Thread, Handler
<1>1. i \in Served /\ i \notin masked
  BY DEF LoopInv, NoResetInv, sbe_interrupt_handler, Line, Interface, Served
<1>2. /\ i \notin intrSource["INTERRUPT"] /\ i \notin intrSource["RX"] /\ ~RxHolds(i)
      /\ \A t \in Thread : ~Unmasks(t, i)
  BY <1>1 DEF LoopInv, PlaceInv, isSet
<1>3. /\ intrSource'["INTERRUPT"] = intrSource["INTERRUPT"] \cup {i}
      /\ intrSource'["RX"] = intrSource["RX"] /\ intrSource'["PROC"] = intrSource["PROC"]
  BY <1>0 DEF sbe_interrupt_handler, setIntrSource, TypeOK
<1>4. /\ rc' = rc /\ rxCur' = rxCur /\ resets' = resets /\ resetReq' = resetReq
  BY DEF sbe_interrupt_handler, clientVars
<1>5. /\ sem'["rx"] + Woken' = sem["rx"] + Woken + 1
      /\ sem["rx"] + Woken \in Nat /\ sem["rx"] <= sem["rx"] + Woken
  BY DEF sbe_interrupt_handler, PostCount, PostWakes, Obtained, Woken, TypeOK, Thread
<1>6. /\ sem'["proc"] = sem["proc"] /\ pc'["proc"] = pc["proc"]
      /\ pc'["rx"] = pc["rx"] \/ (pc["rx"] = "blocked" /\ pc'["rx"] = "decode")
  <2>1. CASE pc["rx"] = "blocked"
    BY <2>1 DEF sbe_interrupt_handler, PostCount, PostWakes, Obtained, TypeOK, Thread
  <2>2. CASE pc["rx"] # "blocked"
    BY <2>2 DEF sbe_interrupt_handler, PostCount, PostWakes, TypeOK, Thread
  <2> QED BY <2>1, <2>2
<1>7. ~PostFails("rx")
  <2>1. Count(intrSource["INTERRUPT"]) <= 2
    BY <1>0, <1>1, <1>2, CountBound DEF LoopInv, NoResetInv
  <2> QED BY <1>5, <2>1, SemaphoreAssumption DEF PostFails, LoopInv, CountInv, TypeOK, Thread
<1>8. masked \cup {i} \subseteq masked'
  BY <1>7 DEF sbe_interrupt_handler, MaskedBy, FifoIrqs
<1>9. /\ \A j \in Served : /\ RxHolds(j)' <=> RxHolds(j)
                           /\ RxKeeps(j)' <=> RxKeeps(j)
                           /\ \A t \in Thread : Unmasks(t, j)' <=> Unmasks(t, j)
  BY <1>4, <1>6 DEF RxHolds, RxKeeps, Unmasks, Thread
<1>10. NoResetInv' /\ RxInv' /\ ProcInv'
  BY <1>0, <1>1, <1>3, <1>4, <1>6, <1>9 DEF LoopInv, NoResetInv, RxInv, ProcInv, isSet
<1>11. PlaceInv'
  BY <1>0, <1>1, <1>2, <1>3, <1>8, <1>9 DEF LoopInv, PlaceInv, isSet
<1>12. CountInv'
  <2>1. Count(intrSource'["INTERRUPT"]) = Count(intrSource["INTERRUPT"]) + 1
    BY <1>1, <1>2, <1>3 DEF Count, Bit, Served
  <2>2. Posted' = Posted
    BY <1>3, <1>9 DEF Posted
  <2> QED BY <1>5, <1>6, <2>1, <2>2 DEF LoopInv, CountInv
<1> QED BY <1>10, <1>11, <1>12 DEF LoopInv

\* Steps that move a thread without touching the interrupts.
LEMMA LoopFrame ==
  ASSUME TypeOK, LoopInv,
         masked' = masked, intrSource' = intrSource, sem' = sem, Woken' = Woken,
         (pc'["proc"] = "take") <=> (pc["proc"] = "take"),
         \A j \in Served : /\ RxHolds(j)' <=> RxHolds(j)
                           /\ RxKeeps(j)' <=> RxKeeps(j)
                           /\ \A t \in Thread : Unmasks(t, j)' <=> Unmasks(t, j),
         NoResetInv', RxInv', ProcInv'
  PROVE  LoopInv'
<1>1. PlaceInv'
  BY DEF LoopInv, PlaceInv, isSet, Thread
<1>2. Posted' = Posted
  BY DEF Posted
<1>3. CountInv'
  BY <1>2 DEF LoopInv, CountInv
<1> QED BY <1>1, <1>3 DEF LoopInv

\* A thread on its way through a response.
PsuResponding  == {"psu_resp", "psu_release"}
FifoResponding == {"flush", "send", "eot", "fifo_release"}

LEMMA LoopResponding ==
  ASSUME TypeOK, LoopInv, NEW t \in Thread,
         PsuRespond(t) \/ FifoFlush(t) \/ FifoSend(t) \/ FifoEot(t)
  PROVE  LoopInv'
<1>1. /\ masked' = masked /\ intrSource' = intrSource /\ sem' = sem /\ rxCur' = rxCur
      /\ resetReq' = resetReq /\ resets' = resets /\ rc' = rc
  BY DEF PsuRespond, PsuRespondStep, FifoFlush, FifoSend, FifoEot, FifoUnchanged, clientVars
<1>2. \E C \in {PsuResponding, FifoResponding} :
          pc[t] \in C /\ \E l \in C : pc' = [pc EXCEPT ![t] = l]
  <2> USE DEF At, Goto, PsuResponding, FifoResponding
  <2>1. CASE PsuRespond(t)
    BY <2>1 DEF PsuRespond, PsuRespondStep
  <2>2. CASE FifoFlush(t)
    BY <2>2 DEF FifoFlush
  <2>3. CASE FifoSend(t) \/ FifoEot(t)
    BY <2>3 DEF FifoSend, FifoEot
  <2> QED BY <2>1, <2>2, <2>3
<1>3. PICK C \in {PsuResponding, FifoResponding} :
          pc[t] \in C /\ \E l \in C : pc' = [pc EXCEPT ![t] = l]
  BY <1>2
<1>4. /\ pc'[t] \in C /\ \A u \in Thread \ {t} : pc'[u] = pc[u]
  BY <1>3 DEF TypeOK
<1>5. \A u \in Thread : \/ pc'[u] = pc[u]
                        \/ pc[u] \in C /\ pc'[u] \in C
  BY <1>3, <1>4
<1>6. "rx" \in Thread /\ "proc" \in Thread
  BY DEF Thread
<1>7. Woken' = Woken /\ (pc'["proc"] = "take" <=> pc["proc"] = "take")
  BY <1>5, <1>6 DEF Woken, PsuResponding, FifoResponding
<1>8. \A j \in Served : /\ RxHolds(j)' <=> RxHolds(j)
                        /\ RxKeeps(j)' <=> RxKeeps(j)
                        /\ \A u \in Thread : Unmasks(u, j)' <=> Unmasks(u, j)
  BY <1>1, <1>5, <1>6 DEF RxHolds, RxKeeps, Unmasks, PsuResponding, FifoResponding
<1>9. NoResetInv'
  BY <1>1, <1>5, <1>6 DEF LoopInv, NoResetInv, PsuResponding, FifoResponding
<1>10. RxInv'
  BY <1>1, <1>5, <1>6, <1>8 DEF LoopInv, RxInv, isSet, PsuResponding, FifoResponding
<1>11. ProcInv'
  BY <1>1, <1>5, <1>6 DEF LoopInv, ProcInv, isSet, PsuResponding, FifoResponding
<1> QED BY <1>1, <1>7, <1>8, <1>9, <1>10, <1>11, LoopFrame

\* A thread gives an interface back: its bits go, nothing else is in them.
LEMMA LoopRelease ==
  ASSUME TypeOK, LoopInv, NEW t \in Thread, NEW i \in Served, NEW l,
         Unmasks(t, i)', pc' = [pc EXCEPT ![t] = l], l \in {"en_psu", "en_data", "en_s0"},
         IF t = "rx" THEN RxKeeps(i) ELSE intrSource["PROC"] = {i} /\ pc["proc"] # "take",
         intrSource' = clearAllHandlers(i),
         UNCHANGED <<masked, sem, rxCur, resetReq, resets, rc>>
  PROVE  LoopInv'
<1>0. "rx" \in Thread /\ "proc" \in Thread /\ Handler = {"INTERRUPT", "RX", "PROC"}
  BY DEF Thread, Handler
<1>1. /\ intrSource'["RX"] = intrSource["RX"] \ {i}
      /\ intrSource'["PROC"] = intrSource["PROC"] \ {i}
      /\ intrSource'["INTERRUPT"] = intrSource["INTERRUPT"] \ {i}
  BY <1>0 DEF clearAllHandlers
<1>2. i \in intrSource["RX"] /\ (t = "rx" => i \notin intrSource["PROC"])
  BY DEF LoopInv, RxInv, ProcInv, isSet
<1>3. intrSource'["INTERRUPT"] = intrSource["INTERRUPT"] /\ i \in masked
  BY <1>1, <1>2 DEF LoopInv, PlaceInv, isSet
<1>4. pc'[t] = l /\ \A u \in Thread \ {t} : pc'[u] = pc[u]
  BY DEF TypeOK
<1>5. \A j \in Served : /\ RxHolds(j)' => RxHolds(j)
                        /\ RxKeeps(j)' <=> RxKeeps(j) /\ t # "rx"
                        /\ \A u \in Thread : Unmasks(u, j)' => Unmasks(u, j) \/ (u = t /\ j = i)
  <2>1. CASE t = "rx"
    BY <1>0, <1>4, <2>1 DEF RxHolds, RxKeeps, Unmasks, Served, Thread
  <2>2. CASE t = "proc"
    BY <1>0, <1>4, <2>2 DEF RxHolds, RxKeeps, Unmasks, Served, Thread
  <2> QED BY <2>1, <2>2 DEF Thread
<1>6. NoResetInv'
  BY <1>0, <1>1, <1>4 DEF LoopInv, NoResetInv, Thread
<1>7. RxInv'
  <2>1. CASE t = "rx"
    BY <1>4, <1>5, <2>1 DEF LoopInv, RxInv
  <2>2. CASE t = "proc"
    BY <1>0, <1>1, <1>4, <1>5, <2>2 DEF LoopInv, RxInv, isSet
  <2> QED BY <2>1, <2>2 DEF Thread
<1>8. ProcInv'
  <2>1. CASE t = "rx"
    BY <1>0, <1>1, <1>2, <1>4, <2>1 DEF LoopInv, ProcInv, isSet
  <2>2. CASE t = "proc"
    BY <1>0, <1>1, <1>4, <2>2 DEF LoopInv, ProcInv, isSet
  <2> QED BY <2>1, <2>2 DEF Thread
<1>9. PlaceInv'
  <2>1. \A u \in Thread : ~Unmasks(u, i) /\ ~RxHolds(i) /\ i \notin intrSource["INTERRUPT"]
    BY <1>2 DEF LoopInv, PlaceInv, isSet
  <2> QED BY <1>0, <1>1, <1>3, <1>5, <2>1 DEF LoopInv, PlaceInv, isSet, Thread
<1>10. CountInv'
  <2>1. Posted' = Posted
    <3>1. CASE t = "rx"
      <4>1. \A j \in Served : RxKeeps(j) <=> j = i
        BY <3>1 DEF RxKeeps
      <4> QED BY <1>1, <1>2, <1>5, <3>1, <4>1 DEF Posted
    <3>2. CASE t = "proc"
      <4>1. \A j \in Served : RxKeeps(j)' <=> RxKeeps(j)
        BY <1>5, <3>2
      <4> QED BY <1>1, <3>2, <4>1 DEF Posted
    <3> QED BY <3>1, <3>2 DEF Thread
  <2>2. Woken' = Woken
    BY <1>0, <1>4 DEF Woken, RxKeeps
  <2>3. pc'["proc"] = "take" <=> pc["proc"] = "take"
    BY <1>0, <1>4
  <2> QED BY <1>3, <2>1, <2>2, <2>3 DEF LoopInv, CountInv
<1> QED BY <1>6, <1>7, <1>8, <1>9, <1>10 DEF LoopInv

\* A thread unmasks the interrupt of what it gave back.
LEMMA LoopEnable ==
  ASSUME TypeOK, LoopInv, NEW t \in Thread, NEW at, NEW i \in Interface,
         NEW l \in {"en_reset", "pend"}, IrqEnable(t, at, i, l),
         Unmasks(t, i) \/ (i = "FIFO_RESET" /\ at = "en_reset")
  PROVE  LoopInv'
<1>0. "rx" \in Thread /\ "proc" \in Thread
  BY DEF Thread
<1>1. /\ masked' = masked \ {i} /\ intrSource' = intrSource /\ sem' = sem /\ rxCur' = rxCur
      /\ resetReq' = resetReq /\ resets' = resets /\ rc' = rc
      /\ pc[t] = at /\ pc' = [pc EXCEPT ![t] = l]
  BY DEF IrqEnable, At, Goto, clientVars
<1>2. pc'[t] = l /\ \A u \in Thread \ {t} : pc'[u] = pc[u]
  BY <1>1 DEF TypeOK
<1>3. pc[t] \in {"en_psu", "en_data", "en_s0", "en_reset"}
  BY <1>1 DEF Unmasks
<1>4. \A j \in Served :
        /\ RxHolds(j)' <=> RxHolds(j)
        /\ RxKeeps(j)' <=> RxKeeps(j)
        /\ \A u \in Thread : Unmasks(u, j)' => Unmasks(u, j) /\ j # i
  <2>1. ASSUME NEW j \in Served
        PROVE  (RxHolds(j)' <=> RxHolds(j)) /\ (RxKeeps(j)' <=> RxKeeps(j))
    BY <1>0, <1>1, <1>2, <1>3 DEF RxHolds, RxKeeps
  <2>2. ASSUME NEW j \in Served, NEW u \in Thread, Unmasks(u, j)'
        PROVE  u # t /\ Unmasks(u, j)
    BY <1>2, <2>2 DEF Unmasks
  <2>3. ASSUME NEW u \in Thread, Unmasks(u, i), i \in Served, Unmasks(t, i), u # t
        PROVE  FALSE
    BY <2>3 DEF LoopInv, PlaceInv, Thread
  <2>4. i \in Served => Unmasks(t, i)
    BY DEF Served
  <2> QED BY <2>1, <2>2, <2>3, <2>4
<1>5. NoResetInv'
  BY <1>0, <1>1, <1>2 DEF LoopInv, NoResetInv
<1>6. RxInv'
  BY <1>0, <1>1, <1>2, <1>4 DEF LoopInv, RxInv, isSet
<1>7. ProcInv'
  BY <1>0, <1>1, <1>2, <1>3 DEF LoopInv, ProcInv, isSet
<1>8. PlaceInv'
  <2>1. \A j \in Served \cap {i} : /\ ~RxHolds(j)
                                   /\ ~isSet("RX", j)
                                   /\ ~isSet("INTERRUPT", j)
    BY DEF LoopInv, PlaceInv, Served
  <2> QED BY <1>0, <1>1, <1>4, <2>1 DEF LoopInv, PlaceInv, isSet
<1>9. CountInv'
  <2>1. Posted' = Posted
    BY <1>1, <1>4 DEF Posted
  <2>2. Woken' = Woken /\ (pc'["proc"] = "take" <=> pc["proc"] = "take")
    BY <1>0, <1>2, <1>3 DEF Woken
  <2> QED BY <1>1, <2>1, <2>2 DEF LoopInv, CountInv
<1> QED BY <1>5, <1>6, <1>7, <1>8, <1>9 DEF LoopInv

LEMMA LoopRespond ==
  ASSUME TypeOK, LoopInv, NEW t \in Thread, Respond(t)
  PROVE  LoopInv'
<1>1. CASE PsuRespond(t) \/ FifoFlush(t) \/ FifoSend(t) \/ FifoEot(t)
  BY <1>1, LoopResponding
<1>2. CASE PsuRelease(t)
  <2>1. pc[t] = "psu_release" /\ pc' = [pc EXCEPT ![t] = "en_psu"] /\ pc'[t] = "en_psu"
    BY <1>2 DEF PsuRelease, At, Goto, TypeOK
  <2>2. Unmasks(t, "PSU")'
    BY <2>1 DEF Unmasks
  <2>3. IF t = "rx" THEN RxKeeps("PSU") ELSE intrSource["PROC"] = {"PSU"} /\ pc["proc"] # "take"
    BY <2>1 DEF LoopInv, RxInv, ProcInv, RxKeeps, Thread
  <2>4. /\ intrSource' = clearAllHandlers("PSU") /\ "PSU" \in Served
        /\ UNCHANGED <<masked, sem, rxCur, resetReq, resets, rc>>
    BY <1>2 DEF PsuRelease, hwVars, clientVars, Served
  <2> QED BY <2>1, <2>2, <2>3, <2>4, LoopRelease
<1>3. CASE FifoRelease(t)
  <2>1. pc[t] = "fifo_release" /\ pc' = [pc EXCEPT ![t] = "en_data"] /\ pc'[t] = "en_data"
    BY <1>3 DEF FifoRelease, At, Goto, TypeOK
  <2>2. Unmasks(t, "FIFO")'
    BY <2>1 DEF Unmasks
  <2>3. IF t = "rx" THEN RxKeeps("FIFO") ELSE intrSource["PROC"] = {"FIFO"} /\ pc["proc"] # "take"
    BY <2>1 DEF LoopInv, RxInv, ProcInv, RxKeeps, Thread
  <2>4. /\ intrSource' = clearAllHandlers("FIFO") /\ "FIFO" \in Served
        /\ UNCHANGED <<masked, sem, rxCur, resetReq, resets, rc>>
    BY <1>3 DEF FifoRelease, hwVars, clientVars, Served
  <2> QED BY <2>1, <2>2, <2>3, <2>4, LoopRelease
<1>4. CASE \/ IrqEnable(t, "en_psu", "PSU", "pend") \/ IrqEnable(t, "en_data", "FIFO", "en_reset")
           \/ IrqEnable(t, "en_reset", "FIFO_RESET", "pend")
  BY <1>4, LoopEnable DEF IrqEnable, At, Unmasks, Interface
<1> QED BY <1>1, <1>2, <1>3, <1>4 DEF Respond

LEMMA LoopPend ==
  ASSUME TypeOK, LoopInv, NEW t \in Thread, Pend(t)
  PROVE  LoopInv'
<1>0. "rx" \in Thread /\ "proc" \in Thread
  BY DEF Thread
<1>1. /\ masked' = masked /\ intrSource' = intrSource /\ rxCur' = rxCur
      /\ resetReq' = resetReq /\ resets' = resets /\ pc[t] = "pend"
      /\ rc'["rx"] = rc["rx"] /\ rc'["proc"] \in {rc["proc"], "ok"}
  BY DEF Pend, At, hwVars, clientVars, TypeOK, Thread
<1>2. /\ pc'[t] \in {"blocked", Obtained(t)}
      /\ \A u \in Thread \ {t} : pc'[u] = pc[u] /\ sem'[u] = sem[u]
  BY DEF Pend, SemPend, Goto, Obtained, TypeOK
<1>3. /\ sem'[t] + (IF pc'[t] = Obtained(t) THEN 1 ELSE 0) = sem[t]
      /\ sem[t] \in Nat /\ sem'[t] \in Nat
  BY DEF Pend, SemPend, Goto, Obtained, TypeOK
<1>4. \A j \in Served :
        /\ RxHolds(j)' <=> RxHolds(j)
        /\ RxKeeps(j)' <=> RxKeeps(j)
        /\ \A u \in Thread : Unmasks(u, j)' <=> Unmasks(u, j)
  BY <1>0, <1>1, <1>2 DEF RxHolds, RxKeeps, Unmasks, Obtained
<1>5. NoResetInv'
  BY <1>0, <1>1, <1>2 DEF LoopInv, NoResetInv, Obtained, Thread
<1>6. RxInv'
  BY <1>0, <1>1, <1>2, <1>4 DEF LoopInv, RxInv, isSet, Obtained
<1>7. ProcInv'
  BY <1>0, <1>1, <1>2 DEF LoopInv, ProcInv, isSet, Obtained
<1>8. PlaceInv'
  BY <1>0, <1>1, <1>4 DEF LoopInv, PlaceInv, isSet
<1>9. Posted' = Posted
  BY <1>1, <1>4 DEF Posted
<1>10. CountInv'
  <2>1. CASE t = "rx"
    <3>1. sem'["rx"] + Woken' = sem["rx"] + Woken
      BY <1>0, <1>1, <1>2, <1>3, <2>1 DEF Woken, Obtained
    <3>2. pc'["proc"] = pc["proc"] /\ sem'["proc"] = sem["proc"]
      BY <1>0, <1>2, <2>1
    <3> QED BY <1>1, <1>9, <3>1, <3>2 DEF LoopInv, CountInv
  <2>2. CASE t = "proc"
    <3>1. pc'["rx"] = pc["rx"] /\ sem'["rx"] = sem["rx"] /\ Woken' = Woken
      BY <1>0, <1>2, <2>2 DEF Woken
    <3>2. sem'["proc"] + (IF pc'["proc"] = "take" THEN 1 ELSE 0)
             = sem["proc"] + (IF pc["proc"] = "take" THEN 1 ELSE 0)
      BY <1>0, <1>1, <1>2, <1>3, <2>2 DEF Obtained
    <3> QED BY <1>1, <1>9, <3>1, <3>2 DEF LoopInv, CountInv
  <2> QED BY <2>1, <2>2 DEF Thread
<1> QED BY <1>5, <1>6, <1>7, <1>8, <1>10 DEF LoopInv

\* The receiver takes the interrupt of an interface.
LEMMA LoopDecode ==
  ASSUME TypeOK, LoopInv,
         RxDecodeReset \/ RxDecodePsu \/ RxDecodeFifo \/ RxDecodeS0 \/ RxDecodeNone
  PROVE  LoopInv'
<1>0. "rx" \in Thread /\ "proc" \in Thread /\ Handler = {"INTERRUPT", "RX", "PROC"}
  BY DEF Thread, Handler
<1>1. ~RxDecodeReset
  BY <1>0 DEF RxDecodeReset, isSet, LoopInv, NoResetInv, Served
<1>2. ~RxDecodeNone
  <2>1. SUFFICES ASSUME RxDecodeNone PROVE FALSE
    OBVIOUS
  <2>2. Count(intrSource["INTERRUPT"]) = 0
    BY <2>1 DEF RxDecodeNone, Count, Bit
  <2>3. Woken = 1 /\ sem["rx"] \in Nat
    BY <1>0, <2>1 DEF RxDecodeNone, At, Woken, TypeOK
  <2> QED BY <2>2, <2>3 DEF LoopInv, CountInv
<1>3. PICK i \in Served :
        /\ i \in intrSource["INTERRUPT"] /\ rxCur' = i
        /\ intrSource' = clearIntrSource("INTERRUPT", i)
        /\ pc' = [pc EXCEPT !["rx"] = IF i = "PSU" THEN "psu_read"
                                      ELSE IF i = "FIFO" THEN "fifo_hdr" ELSE "mark"]
  BY <1>1, <1>2 DEF RxDecodePsu, RxDecodeFifo, RxDecodeS0, Served, Goto, isSet
<1>4. /\ masked' = masked /\ sem' = sem /\ resetReq' = resetReq /\ resets' = resets /\ rc' = rc
      /\ pc["rx"] = "decode"
  BY <1>1, <1>2 DEF RxDecodePsu, RxDecodeFifo, RxDecodeS0, At, hwVars, clientVars
<1>5. /\ intrSource'["INTERRUPT"] = intrSource["INTERRUPT"] \ {i}
      /\ intrSource'["RX"] = intrSource["RX"] /\ intrSource'["PROC"] = intrSource["PROC"]
  BY <1>0, <1>3 DEF clearIntrSource, TypeOK
<1>6. /\ pc'["proc"] = pc["proc"]
      /\ pc'["rx"] = IF i = "PSU" THEN "psu_read" ELSE IF i = "FIFO" THEN "fifo_hdr" ELSE "mark"
  BY <1>0, <1>3 DEF TypeOK
<1>7. \A j \in Served :
        /\ RxHolds(j)' <=> j = i
        /\ ~RxHolds(j) /\ ~RxKeeps(j)' /\ ~RxKeeps(j)
        /\ \A u \in Thread : Unmasks(u, j)' <=> Unmasks(u, j)
  BY <1>0, <1>3, <1>4, <1>6 DEF RxHolds, RxKeeps, Unmasks, Thread
<1>8. NoResetInv'
  BY <1>0, <1>3, <1>4, <1>5, <1>6 DEF LoopInv, NoResetInv
<1>9. RxInv'
  BY <1>3, <1>6, <1>7 DEF RxInv, Served
<1>10. ProcInv'
  BY <1>5, <1>6 DEF LoopInv, ProcInv
<1>11. PlaceInv'
  BY <1>0, <1>3, <1>4, <1>5, <1>7 DEF LoopInv, PlaceInv, isSet
<1>12. CountInv'
  <2>1. Posted' = Posted
    BY <1>5, <1>7 DEF Posted
  <2>2. Woken = 1 /\ Woken' = 0
    BY <1>4, <1>6 DEF Woken
  <2>3. Count(intrSource'["INTERRUPT"]) + 1 = Count(intrSource["INTERRUPT"])
    BY <1>3, <1>5, CountTakes DEF Served, Interface
  <2>4. sem["rx"] \in Nat /\ Count(intrSource'["INTERRUPT"]) \in Nat
    BY <1>0, CountDrops DEF TypeOK
  <2> QED BY <1>4, <1>6, <2>1, <2>2, <2>3, <2>4 DEF LoopInv, CountInv
<1> QED BY <1>8, <1>9, <1>10, <1>11, <1>12 DEF LoopInv

\* The receiver reads a command, marks its interface and hands it over.
LEMMA LoopRead ==
  ASSUME TypeOK, LoopInv, RxPsuRead \/ RxFifoHeader
  PROVE  LoopInv'
<1>0. "rx" \in Thread /\ "proc" \in Thread
  BY DEF Thread
<1>1. /\ masked' = masked /\ intrSource' = intrSource /\ sem' = sem /\ rxCur' = rxCur
      /\ resetReq' = resetReq /\ resets' = resets
      /\ pc["rx"] \in {"psu_read", "fifo_hdr"} /\ pc'["rx"] = "mark" /\ pc'["proc"] = pc["proc"]
  BY <1>0 DEF RxPsuRead, RxFifoHeader, At, Goto, clientVars, TypeOK
<1>2. rc'["proc"] = rc["proc"] /\ rc'["rx"] # "reset"
  BY <1>0 DEF RxPsuRead, RxFifoHeader, RcOf, Verdict, LoopInv, NoResetInv, TypeOK
<1>3. Woken' = Woken
  BY <1>1 DEF Woken
<1>4. \A j \in Served :
        /\ RxHolds(j)' <=> RxHolds(j)
        /\ RxKeeps(j)' <=> RxKeeps(j)
        /\ \A u \in Thread : Unmasks(u, j)' <=> Unmasks(u, j)
  BY <1>0, <1>1 DEF RxHolds, RxKeeps, Unmasks, Thread
<1>5. NoResetInv'
  BY <1>0, <1>1, <1>2 DEF LoopInv, NoResetInv, Thread
<1>6. RxInv'
  BY <1>1 DEF LoopInv, RxInv, RxKeeps, Served
<1>7. ProcInv'
  BY <1>1 DEF LoopInv, ProcInv
<1> QED BY <1>1, <1>3, <1>4, <1>5, <1>6, <1>7, LoopFrame

LEMMA LoopMark ==
  ASSUME TypeOK, LoopInv, RxMark
  PROVE  LoopInv'
<1>0. "rx" \in Thread /\ "proc" \in Thread /\ Handler = {"INTERRUPT", "RX", "PROC"}
  BY DEF Thread, Handler
<1>1. /\ masked' = masked /\ sem' = sem /\ rxCur' = rxCur /\ rc' = rc
      /\ resetReq' = resetReq /\ resets' = resets
      /\ pc["rx"] = "mark" /\ pc'["rx"] = "post" /\ pc'["proc"] = pc["proc"]
  BY <1>0 DEF RxMark, At, Goto, hwVars, clientVars, TypeOK, LoopInv, NoResetInv
<1>2. /\ intrSource'["RX"] = intrSource["RX"] \cup {rxCur}
      /\ intrSource'["PROC"] = intrSource["PROC"]
      /\ intrSource'["INTERRUPT"] = intrSource["INTERRUPT"]
  BY <1>0 DEF RxMark, setIntrSource, TypeOK
<1>3. rxCur \in Served /\ RxHolds(rxCur)
  BY <1>1 DEF LoopInv, RxInv, RxHolds
<1>4. \A j \in Served :
        /\ ~RxHolds(j)' /\ ~RxKeeps(j)
        /\ RxHolds(j) <=> j = rxCur
        /\ RxKeeps(j)' <=> j = rxCur
        /\ \A u \in Thread : Unmasks(u, j)' <=> Unmasks(u, j)
  BY <1>0, <1>1 DEF RxHolds, RxKeeps, Unmasks, Thread
<1>5. rxCur \notin intrSource["RX"] /\ rxCur \notin intrSource["PROC"]
      /\ rxCur \notin intrSource["INTERRUPT"] /\ rxCur \in masked
      /\ \A u \in Thread : ~Unmasks(u, rxCur)
  BY <1>3 DEF LoopInv, PlaceInv, ProcInv, isSet
<1>6. NoResetInv'
  BY <1>0, <1>1, <1>2, <1>3 DEF LoopInv, NoResetInv
<1>7. RxInv'
  BY <1>1, <1>2, <1>3, <1>4, <1>5 DEF LoopInv, RxInv, isSet
<1>8. ProcInv'
  BY <1>1, <1>2 DEF LoopInv, ProcInv
<1>9. PlaceInv'
  BY <1>0, <1>1, <1>2, <1>4, <1>5 DEF LoopInv, PlaceInv, isSet
<1>10. CountInv'
  <2>1. Posted' = Posted
    BY <1>2, <1>3, <1>4, <1>5 DEF Posted
  <2>2. Woken' = Woken
    BY <1>1 DEF Woken
  <2> QED BY <1>1, <1>2, <2>1, <2>2 DEF LoopInv, CountInv
<1> QED BY <1>6, <1>7, <1>8, <1>9, <1>10 DEF LoopInv

LEMMA LoopPost ==
  ASSUME TypeOK, LoopInv, RxPost
  PROVE  LoopInv'
<1>0. "rx" \in Thread /\ "proc" \in Thread
  BY DEF Thread
<1>1. /\ masked' = masked /\ intrSource' = intrSource /\ rxCur' = rxCur /\ rc' = rc
      /\ resetReq' = resetReq /\ resets' = resets /\ pc["rx"] = "post"
  BY DEF RxPost, At, hwVars, clientVars
<1>2. /\ rxCur \in Served /\ RxKeeps(rxCur) /\ rxCur \in intrSource["RX"]
      /\ rxCur \notin intrSource["PROC"]
  BY <1>1 DEF LoopInv, RxInv, RxKeeps, isSet
<1>3. \/ /\ pc'["rx"] \in {"pend", "halt"}
         /\ sem'["rx"] = sem["rx"]
         /\ sem'["proc"] + (IF pc'["proc"] = "take" THEN 1 ELSE 0)
               <= sem["proc"] + (IF pc["proc"] = "take" THEN 1 ELSE 0) + 1
         /\ pc'["proc"] = pc["proc"] \/ (pc["proc"] = "blocked" /\ pc'["proc"] = "take")
      \/ /\ pc'["rx"] = (IF rxCur = "PSU" THEN "psu_resp" ELSE "flush")
         /\ rxCur \in {"PSU", "FIFO"}
         /\ sem' = sem /\ pc'["proc"] = pc["proc"]
  <2>1. CASE rc["rx"] = "ok" /\ pc["proc"] = "blocked"
    BY <1>0, <2>1 DEF RxPost, PostCount, PostWakes, Obtained, TypeOK
  <2>2. CASE rc["rx"] = "ok" /\ pc["proc"] # "blocked"
    BY <1>0, <2>2 DEF RxPost, PostCount, PostWakes, TypeOK
  <2>3. CASE rc["rx"] = "fenced"
    BY <1>0, <2>3 DEF RxPost, Goto, FifoRespondPc, TypeOK
  <2>4. CASE rc["rx"] \notin {"ok", "fenced"}
    BY <1>0, <2>4 DEF RxPost, Goto, TypeOK
  <2> QED BY <2>1, <2>2, <2>3, <2>4
<1>4. /\ pc'["rx"] \in {"pend", "halt", "psu_resp", "flush"}
      /\ pc'["proc"] = pc["proc"] \/ (pc["proc"] = "blocked" /\ pc'["proc"] = "take")
  BY <1>3
<1>5. \A j \in Served :
        /\ RxHolds(j)' <=> RxHolds(j)
        /\ RxKeeps(j)' <=> RxKeeps(j) /\ pc'["rx"] \notin {"pend", "halt"}
        /\ \A u \in Thread : Unmasks(u, j)' <=> Unmasks(u, j)
  BY <1>0, <1>1, <1>4 DEF RxHolds, RxKeeps, Unmasks, Thread
<1>6. NoResetInv'
  BY <1>1, <1>4 DEF LoopInv, NoResetInv
<1>7. RxInv'
  BY <1>1, <1>3, <1>5 DEF LoopInv, RxInv, isSet
<1>8. ProcInv'
  BY <1>1, <1>4 DEF LoopInv, ProcInv
<1>9. PlaceInv'
  BY <1>0, <1>1, <1>5 DEF LoopInv, PlaceInv, isSet
<1>10. Woken' = Woken /\ sem'["rx"] = sem["rx"]
  BY <1>1, <1>3 DEF Woken
<1>11. CountInv'
  <2>1. CASE pc'["rx"] \in {"pend", "halt"}
    <3>1. Posted = Posted' \ {rxCur} /\ rxCur \in Posted'
      <4>1. \A j \in Served : RxKeeps(j) <=> j = rxCur
        BY <1>1 DEF RxKeeps
      <4> QED BY <1>1, <1>2, <1>5, <2>1, <4>1 DEF Posted
    <3>2. Count(Posted) + 1 = Count(Posted')
      BY <1>2, <3>1, CountTakes DEF Served, Interface
    <3>3. Count(Posted) \in Nat /\ sem["proc"] \in Nat /\ sem'["proc"] \in Nat
      BY <1>0, CountDrops DEF TypeOK, RxPost, PostCount
    <3>4. sem'["proc"] + (IF pc'["proc"] = "take" THEN 1 ELSE 0)
             <= sem["proc"] + (IF pc["proc"] = "take" THEN 1 ELSE 0) + 1
      BY <1>3, <2>1
    <3> QED BY <1>1, <1>10, <3>2, <3>3, <3>4 DEF LoopInv, CountInv
  <2>2. CASE pc'["rx"] \notin {"pend", "halt"}
    <3>1. Posted' = Posted
      BY <1>1, <1>5, <2>2 DEF Posted
    <3> QED BY <1>1, <1>3, <1>10, <2>2, <3>1 DEF LoopInv, CountInv
  <2> QED BY <2>1, <2>2
<1> QED BY <1>6, <1>7, <1>8, <1>9, <1>11 DEF LoopInv

LEMMA LoopReceiver ==
  ASSUME TypeOK, LoopInv, sbeCommandReceiver_routine
  PROVE  LoopInv'
<1>1. ~RxReset /\ ~RxResetClear /\ "rx" \in Thread
  BY DEF RxReset, RxResetClear, At, LoopInv, NoResetInv, Thread
<1> QED BY <1>1, LoopPend, LoopDecode, LoopRead, LoopMark, LoopPost, LoopRespond
        DEF sbeCommandReceiver_routine

\* The processor takes what the receiver posted.
LEMMA LoopTake ==
  ASSUME TypeOK, LoopInv, NEW k \in 1 .. 3, NEW r \in Verdict \cup {"eot"},
         NEW l \in {"exec_psu", "exec_fifo", "s0"}, Take(k, r, l),
         l = "exec_psu" <=> k = 1, l = "exec_fifo" <=> k = 2
  PROVE  LoopInv'
<1>0. "rx" \in Thread /\ "proc" \in Thread /\ Handler = {"INTERRUPT", "RX", "PROC"}
  BY DEF Thread, Handler
<1>1. PICK i \in Served : /\ i = TakeOrder[k] /\ i = IF k = 1 THEN "PSU" ELSE IF k = 2 THEN "FIFO" ELSE "S0"
  BY DEF TakeOrder, Served
<1>2. /\ masked' = masked /\ sem' = sem /\ rxCur' = rxCur
      /\ resetReq' = resetReq /\ resets' = resets
      /\ pc["proc"] = "take" /\ pc["rx"] = "blocked" /\ pc'["rx"] = pc["rx"]
      /\ pc'["proc"] \in {l, "respond"} /\ i \in intrSource["RX"]
      /\ rc'["rx"] = rc["rx"] /\ rc'["proc"] # "reset"
  BY <1>0, <1>1 DEF Take, At, Runs, Goto, isSet, hwVars, clientVars, Verdict, TypeOK
<1>3. /\ intrSource'["PROC"] = {i}
      /\ intrSource'["RX"] = intrSource["RX"]
      /\ intrSource'["INTERRUPT"] = intrSource["INTERRUPT"]
  <2>1. intrSource["PROC"] = {}
    BY <1>2 DEF LoopInv, ProcInv
  <2> QED BY <1>0, <1>1, <2>1 DEF Take, setIntrSource, TypeOK
<1>4. \A j \in Served :
        /\ RxHolds(j)' <=> RxHolds(j)
        /\ ~RxKeeps(j)' /\ ~RxKeeps(j)
        /\ \A u \in Thread : Unmasks(u, j)' <=> Unmasks(u, j)
  BY <1>0, <1>2 DEF RxHolds, RxKeeps, Unmasks, Thread
<1>5. NoResetInv'
  BY <1>0, <1>1, <1>2, <1>3 DEF LoopInv, NoResetInv, Thread
<1>6. RxInv'
  BY <1>2, <1>4 DEF RxInv
<1>7. ProcInv'
  BY <1>1, <1>2, <1>3 DEF ProcInv
<1>8. PlaceInv'
  BY <1>0, <1>2, <1>3, <1>4 DEF LoopInv, PlaceInv, isSet
<1>9. CountInv'
  <2>1. Posted' = Posted \ {i} /\ i \in Posted
    BY <1>2, <1>3, <1>4 DEF Posted, LoopInv, ProcInv
  <2>2. Count(Posted') + 1 = Count(Posted)
    BY <2>1, CountTakes DEF Served, Interface
  <2>3. Count(Posted') \in Nat /\ sem["proc"] \in Nat
    BY <1>0, CountDrops DEF TypeOK
  <2>4. Woken' = Woken
    BY <1>2 DEF Woken
  <2> QED BY <1>2, <1>3, <2>2, <2>3, <2>4 DEF LoopInv, CountInv
<1> QED BY <1>5, <1>6, <1>7, <1>8, <1>9 DEF LoopInv

\* The processor at work on a command, up to its response.
LEMMA LoopExec ==
  ASSUME TypeOK, LoopInv,
         ProcBoot \/ ProcExecPsu \/ ProcExecFifo \/ ProcReply \/ sbeHandleS0
  PROVE  LoopInv'
<1>0. "rx" \in Thread /\ "proc" \in Thread
  BY DEF Thread
<1>1. /\ masked' = masked /\ intrSource' = intrSource /\ sem' = sem /\ rxCur' = rxCur
      /\ resetReq' = resetReq /\ resets' = resets
      /\ pc'["rx"] = pc["rx"] /\ rc'["rx"] = rc["rx"]
  BY <1>0 DEF ProcBoot, ProcExecPsu, ProcExecFifo, ProcReply, sbeHandleS0, FifoUnchanged,
         Goto, hwVars, clientVars, TypeOK
<1>2. rc'["proc"] # "reset"
  <2>1. ~resetReq /\ rc["proc"] # "reset"
    BY <1>0 DEF LoopInv, NoResetInv
  <2> QED BY <1>0, <2>1 DEF ProcBoot, ProcExecPsu, ProcExecFifo, ProcReply, sbeHandleS0, TypeOK
<1>3. \/ pc["proc"] = "boot" /\ pc'["proc"] = "pend"
      \/ pc["proc"] = "exec_psu" /\ pc'["proc"] = "respond"
      \/ pc["proc"] = "exec_fifo" /\ pc'["proc"] \in {"exec_fifo", "reply", "respond"}
      \/ pc["proc"] = "reply" /\ pc'["proc"] = "respond"
      \/ pc["proc"] = "s0" /\ pc'["proc"] = "respond"
  BY <1>0 DEF ProcBoot, ProcExecPsu, ProcExecFifo, ProcReply, sbeHandleS0, At, Goto, TypeOK
<1>4. Woken' = Woken
  BY <1>1 DEF Woken
<1>5. \A j \in Served :
        /\ RxHolds(j)' <=> RxHolds(j)
        /\ RxKeeps(j)' <=> RxKeeps(j)
        /\ \A u \in Thread : Unmasks(u, j)' <=> Unmasks(u, j)
  BY <1>0, <1>1, <1>3 DEF RxHolds, RxKeeps, Unmasks, Thread
<1>6. NoResetInv'
  BY <1>0, <1>1, <1>2 DEF LoopInv, NoResetInv, Thread
<1>7. RxInv'
  BY <1>1, <1>5 DEF LoopInv, RxInv, isSet
<1>8. ProcInv'
  BY <1>1, <1>3 DEF LoopInv, ProcInv, Served
<1> QED BY <1>1, <1>3, <1>4, <1>5, <1>6, <1>7, <1>8, LoopFrame

LEMMA LoopProcRespond ==
  ASSUME TypeOK, LoopInv, ProcRespond
  PROVE  LoopInv'
<1>0. "rx" \in Thread /\ "proc" \in Thread
  BY DEF Thread
<1>1. /\ masked' = masked /\ sem' = sem /\ rxCur' = rxCur /\ rc' = rc
      /\ resetReq' = resetReq /\ resets' = resets /\ pc["proc"] = "respond"
      /\ pc'["rx"] = pc["rx"]
  BY <1>0 DEF ProcRespond, At, Goto, hwVars, clientVars, TypeOK
<1>2. PICK i \in Served : intrSource["PROC"] = {i}
  BY <1>1 DEF LoopInv, ProcInv
<1>3. CASE i = "S0"
  <2>1. pc' = [pc EXCEPT !["proc"] = "en_s0"] /\ intrSource' = clearAllHandlers("S0")
    BY <1>2, <1>3 DEF ProcRespond, isSet, Goto
  <2>2. Unmasks("proc", "S0")'
    BY <1>0, <2>1 DEF Unmasks, TypeOK
  <2> QED BY <1>0, <1>1, <1>2, <1>3, <2>1, <2>2, LoopRelease
<1>4. CASE i # "S0"
  <2>1. /\ intrSource' = intrSource
        /\ pc'["proc"] \in (IF i = "PSU" THEN {"psu_resp"}
                            ELSE {"flush", "send", "eot", "fifo_release"})
    BY <1>0, <1>2, <1>4 DEF ProcRespond, isSet, Goto, FifoRespondPc, Served, TypeOK
  <2>2. Woken' = Woken
    BY <1>1 DEF Woken
  <2>3. \A j \in Served :
          /\ RxHolds(j)' <=> RxHolds(j)
          /\ RxKeeps(j)' <=> RxKeeps(j)
          /\ \A u \in Thread : Unmasks(u, j)' <=> Unmasks(u, j)
    BY <1>0, <1>1, <2>1 DEF RxHolds, RxKeeps, Unmasks, Thread
  <2>4. NoResetInv'
    BY <1>1, <2>1 DEF LoopInv, NoResetInv
  <2>5. RxInv'
    BY <1>1, <2>1, <2>3 DEF LoopInv, RxInv, isSet
  <2>6. ProcInv'
    BY <1>1, <1>2, <1>4, <2>1 DEF LoopInv, ProcInv, Served
  <2> QED BY <1>1, <2>1, <2>2, <2>3, <2>4, <2>5, <2>6, LoopFrame
<1> QED BY <1>3, <1>4

LEMMA LoopProcessor ==
  ASSUME TypeOK, LoopInv, sbeSyncCommandProcessor_routine
  PROVE  LoopInv'
<1>0. "proc" \in Thread /\ "S0" \in Interface
  BY DEF Thread, Interface
<1>1. ~ProcTakeNone
  <2>1. SUFFICES ASSUME ProcTakeNone PROVE FALSE
    OBVIOUS
  <2>2. \A i \in Served : i \notin intrSource["RX"]
    <3>1. 1 \in 1 .. 3 /\ 2 \in 1 .. 3 /\ 3 \in 1 .. 3
      OBVIOUS
    <3> QED BY <2>1, <3>1 DEF ProcTakeNone, isSet, TakeOrder, Served
  <2>3. Posted = {}
    BY <2>2 DEF Posted, LoopInv, NoResetInv, Handler
  <2>4. Count({}) = 0 /\ sem["proc"] \in Nat /\ pc["proc"] = "take"
    BY <1>0, <2>1 DEF Count, Bit, TypeOK, ProcTakeNone, At
  <2> QED BY <2>3, <2>4 DEF LoopInv, CountInv
<1>2. CASE IrqEnable("proc", "en_s0", "S0", "pend")
  <2>1. Unmasks("proc", "S0")
    BY <1>2 DEF IrqEnable, At, Unmasks
  <2> QED BY <1>0, <1>2, <2>1, LoopEnable
<1>3. CASE Take(1, psuSts, "exec_psu") \/ Take(2, fifoSts, "exec_fifo") \/ Take(3, "ok", "s0")
  <2>1. /\ psuSts \in Verdict \cup {"eot"} /\ fifoSts \in Verdict \cup {"eot"}
        /\ "ok" \in Verdict /\ 1 \in 1 .. 3 /\ 2 \in 1 .. 3 /\ 3 \in 1 .. 3
    BY DEF TypeOK, Verdict
  <2>2. CASE Take(1, psuSts, "exec_psu")
    BY <2>1, <2>2, LoopTake
  <2>3. CASE Take(2, fifoSts, "exec_fifo")
    BY <2>1, <2>3, LoopTake
  <2>4. CASE Take(3, "ok", "s0")
    BY <2>1, <2>4, LoopTake
  <2> QED BY <1>3, <2>2, <2>3, <2>4
<1> QED BY <1>0, <1>1, <1>2, <1>3, LoopPend, LoopExec, LoopProcRespond, LoopRespond
        DEF sbeSyncCommandProcessor_routine

\* While no FIFO reset is requested, and with semaphores that count to the
\* number of interfaces, an interface is in one place at a time.
LEMMA LoopInvariant ==
  ASSUME MaxResets = 0, MAX_SEMAPHORE_COUNT >= 3
  PROVE  Spec => [](TypeOK /\ LoopInv)
<1>1. Init => LoopInv
  <2> SUFFICES ASSUME Init PROVE LoopInv
    OBVIOUS
  <2>1. \A h \in Handler : intrSource[h] = {}
    BY DEF Init
  <2>2. pc["rx"] = "pend" /\ pc["proc"] = "boot" /\ sem["rx"] = 0 /\ sem["proc"] = 0
    BY DEF Init, Thread
  <2>3. intrSource["INTERRUPT"] = {} /\ intrSource["RX"] = {} /\ intrSource["PROC"] = {}
    BY <2>1 DEF Handler
  <2>4. NoResetInv
    BY <2>1, <2>2 DEF Init, NoResetInv, Thread
  <2>5. RxInv /\ ProcInv
    BY <2>2, <2>3 DEF RxInv, ProcInv, RxKeeps
  <2>6. PlaceInv
    BY <2>2, <2>3 DEF PlaceInv, RxHolds, Unmasks, isSet, Thread
  <2>7. CountInv
    <3>1. Count({}) = 0 /\ Posted = {}
      BY <2>3 DEF Count, Bit, Posted
    <3> QED BY <2>2, <2>3, <3>1 DEF CountInv, Woken
  <2> QED BY <2>4, <2>5, <2>6, <2>7 DEF LoopInv
<1>2. TypeOK /\ LoopInv /\ [Next]_vars => LoopInv'
  <2> SUFFICES ASSUME TypeOK, LoopInv, [Next]_vars PROVE LoopInv'
    OBVIOUS
  <2>1. CASE Clients \/ UNCHANGED vars
    <3>1. ~SpRequestReset
      BY DEF SpRequestReset, LoopInv, NoResetInv
    <3>2. UNCHANGED <<masked, intrSource, sem, pc, rc, rxCur, resetReq, resets>>
      BY <2>1, <3>1 DEF vars, hwVars, clientVars, Clients, SpSendHeader, SpSendShort, SpSend,
           SpSendEot, SpReadResponse, SpResetDone, HostSend, HostGetResponse, S0Raise, fwVars
    <3>3. /\ Woken' = Woken
          /\ \A j \in Served :
               /\ RxHolds(j)' <=> RxHolds(j)
               /\ RxKeeps(j)' <=> RxKeeps(j)
               /\ \A u \in Thread : Unmasks(u, j)' <=> Unmasks(u, j)
      BY <3>2 DEF Woken, RxHolds, RxKeeps, Unmasks
    <3>4. NoResetInv' /\ RxInv' /\ ProcInv'
      BY <3>2, <3>3 DEF LoopInv, NoResetInv, RxInv, ProcInv, isSet
    <3> QED BY <3>2, <3>3, <3>4, LoopFrame
  <2>2. CASE Next
    BY <2>1, <2>2, LoopIsr, LoopReceiver, LoopProcessor DEF Next, Quiescent
  <2> QED BY <2>1, <2>2
<1> QED BY <1>1, <1>2, TypeCorrect, PTL DEF Spec

LEMMA LoopCounts ==
  ASSUME TypeOK, LoopInv
  PROVE  /\ intrSource["INTERRUPT"] \subseteq Served /\ Posted \subseteq intrSource["RX"]
         /\ Posted \subseteq Served
         /\ sem["rx"] \in Nat /\ sem["proc"] \in Nat
BY DEF LoopInv, NoResetInv, Handler, Posted, TypeOK, Thread

\* Without FIFO resets the processor is never woken without a command to take:
\* the "Unexpected interrupt" assert of sbecmdprocessor.C is not reached.
THEOREM NeverUnexpected ==
  ASSUME MaxResets = 0, MAX_SEMAPHORE_COUNT >= 3
  PROVE  Spec => []NoUnexpectedInterrupt
<1>1. ASSUME TypeOK, LoopInv PROVE NoUnexpectedInterrupt
  <2>1. pc["proc"] = "take" => Count(Posted) > 0
    BY <1>1, LoopCounts DEF LoopInv, CountInv, Count, Bit
  <2> QED BY <1>1, <2>1, LoopCounts, CountBound DEF NoUnexpectedInterrupt, Served, isSet
<1>2. Spec => [](TypeOK /\ LoopInv)
  BY LoopInvariant
<1> QED BY <1>1, <1>2, PTL

\* Without FIFO resets three posts are never outstanding on a semaphore that
\* counts to three: neither the ISR's nor the receiver's post overflows.
THEOREM NeverOverflows ==
  ASSUME MaxResets = 0, MAX_SEMAPHORE_COUNT >= 3
  PROVE  Spec => []SemaphoresBounded
<1>1. ASSUME TypeOK, LoopInv PROVE SemaphoresBounded
  <2>1. Count(intrSource["INTERRUPT"]) \in 0 .. 3 /\ Count(Posted) \in 0 .. 3
    BY <1>1, LoopCounts, CountBound
  <2>2. sem["rx"] <= 3 /\ sem["proc"] <= 3
    BY <1>1, <2>1, LoopCounts DEF LoopInv, CountInv, Woken
  <2> QED BY <1>1, <2>2, LoopCounts, SemaphoreAssumption DEF SemaphoresBounded, Thread
<1>2. Spec => [](TypeOK /\ LoopInv)
  BY LoopInvariant
<1> QED BY <1>1, <1>2, PTL

\* Without FIFO resets an interface stays masked from its interrupt to the end
\* of its command.
THEOREM OwnedStaysMasked ==
  ASSUME MaxResets = 0, MAX_SEMAPHORE_COUNT >= 3
  PROVE  Spec => []OwnedIsMasked
<1>1. ASSUME TypeOK, LoopInv PROVE OwnedIsMasked
  BY <1>1 DEF OwnedIsMasked, LoopInv, PlaceInv, ProcInv, Handler, Served, isSet
<1>2. Spec => [](TypeOK /\ LoopInv)
  BY LoopInvariant
<1> QED BY <1>1, <1>2, PTL

\* Without FIFO resets the receiver and the processor never access the FIFOs for
\* commands at the same time.
THEOREM FifoStaysExclusive ==
  ASSUME MaxResets = 0, MAX_SEMAPHORE_COUNT >= 3
  PROVE  Spec => []FifoExclusive
<1>1. ASSUME TypeOK, LoopInv PROVE FifoExclusive
  <2>1. UsesFifo("proc") => "FIFO" \in intrSource["PROC"] /\ "FIFO" \in intrSource["RX"]
    BY <1>1 DEF UsesFifo, isSet, LoopInv, ProcInv, TypeOK, ProcPc, RespondPc
  <2>2. UsesFifo("rx") => RxHolds("FIFO") \/ RxKeeps("FIFO")
    BY <1>1 DEF UsesFifo, RxHolds, RxKeeps, LoopInv, RxInv, TypeOK, RxPc, RespondPc
  <2> QED BY <1>1, <2>1, <2>2 DEF FifoExclusive, LoopInv, PlaceInv, RxInv, isSet, Served
<1>2. Spec => [](TypeOK /\ LoopInv)
  BY LoopInvariant
<1> QED BY <1>1, <1>2, PTL

-----------------------------------------------------------------------------
(* Where a FIFO message is.                                                *)

Hdr == <<"hdr", spCmd>>
Eot == <<"eot", spCmd>>

\* Nothing of the SP's latest message is read, or all of it is answered.
Unread ==
    \/ spPc = "idle" /\ upFifo = <<>> /\ downFifo = <<>>
    \/ spPc = "open" /\ upFifo = <<Hdr>> /\ downFifo = <<>>
    \/ spPc = "waiting" /\ upFifo \in {<<Hdr, Eot>>, <<Eot>>} /\ downFifo = <<>>
    \/ spPc = "waiting" /\ upFifo = <<>> /\ downFifo = <<Hdr, Eot>>

\* The header is read and the EOT is not, sent or not.
EotDue == /\ downFifo = <<>>
          /\ \/ spPc = "open" /\ upFifo = <<>>
             \/ spPc = "waiting" /\ upFifo = <<Eot>>

\* The message is read to its EOT.
AllRead == spPc = "waiting" /\ upFifo = <<>> /\ downFifo = <<>>

\* Its response lacks the EOT.
HdrSent == spPc = "waiting" /\ upFifo = <<>> /\ downFifo = <<Hdr>>

\* How far a message is when its response starts with status r.
ReadFor(r) == CASE r \in {"unsupported", "fenced"} -> EotDue
                [] r = "eot" -> AllRead
                [] r = "ok"  -> HdrSent
                [] OTHER     -> FALSE

\* The header of a message is in the firmware's hands, the response is not out.
FifoServed ==
    \/ pc["rx"] = "mark" /\ rxCur = "FIFO"
    \/ isSet("RX", "FIFO") /\ pc["rx"] # "fifo_release" /\ pc["proc"] # "fifo_release"

\* Nobody has begun to respond or to run the chip-op.
Untouched == FifoServed /\ ~isSet("PROC", "FIFO") /\ pc["rx"] \notin FifoResponding

\* How far the message is where thread t is.
FifoAt(t) ==
    /\ pc[t] = "flush" => EotDue
    /\ pc[t] = "send"  => AllRead
    /\ pc[t] = "eot"   => HdrSent

MsgInv ==
    /\ ~FifoServed => Unread
    /\ FifoServed => fifoHdr = spCmd
    /\ Untouched => IF fifoSts = "eot" THEN AllRead ELSE EotDue
    /\ \A t \in Thread : FifoAt(t)
    /\ pc["proc"] = "exec_fifo" => EotDue
    /\ pc["proc"] = "reply" => AllRead /\ rc["proc"] = "ok"
    /\ pc["proc"] = "respond" /\ isSet("PROC", "FIFO") => ReadFor(rc["proc"])
    /\ pc["rx"] \in {"mark", "post"} /\ rxCur = "FIFO" /\ rc["rx"] = "fenced" => fifoSts # "eot"
    /\ isSet("INTERRUPT", "FIFO") \/ pc["rx"] = "fifo_hdr" => upFifo # <<>>
    /\ pc["proc"] = "exec_fifo" => rc["proc"] = "ok"

-----------------------------------------------------------------------------
(* Where a mailbox command is.                                             *)

\* The host waits with its doorbell up, or with it down and for the answer to its
\* latest command; it may wait in vain.
MailState ==
    \/ hostPc = "idle" /\ ~psuDb /\ psuResp = 0
    \/ hostPc = "waiting" /\ psuDb /\ psuResp = 0
    \/ hostPc = "waiting" /\ ~psuDb /\ psuResp \in {0, hostCmd}

\* The host's latest command is read and not answered.
MailDue == hostPc = "waiting" /\ ~psuDb /\ psuResp = 0 /\ psuHdr = hostCmd

\* A command is in the firmware's hands and nobody has begun to answer it.
PsuServed ==
    \/ pc["rx"] = "mark" /\ rxCur = "PSU" /\ rc["rx"] # "fault"
    \/ /\ isSet("RX", "PSU") /\ ~isSet("PROC", "PSU")
       /\ pc["rx"] \notin {"psu_resp", "psu_release", "halt"}
       /\ ~(pc["rx"] = "post" /\ rc["rx"] = "fault")
    \/ pc["proc"] = "exec_psu"

\* Thread t is to answer, unless the chip-op has answered by itself or failed.
Answers(t) ==
    /\ \/ pc[t] = "psu_resp"
       \/ t = "proc" /\ pc["proc"] = "respond" /\ isSet("PROC", "PSU")
    /\ rc[t] \in {"unsupported", "fenced"}

MailInv ==
    /\ hostPc = "waiting" => hostCmd # 0
    /\ MailState
    /\ PsuServed => MailDue
    /\ \A t \in Thread : Answers(t) => MailDue
    /\ isSet("INTERRUPT", "PSU") \/ pc["rx"] = "psu_read" => psuDb
    /\ pc["proc"] = "exec_psu" => rc["proc"] = "ok"

-----------------------------------------------------------------------------
(* Lemmas.                                                                 *)

\* Who has the FIFO, from where the threads are.
FifoPlace ==
    /\ isSet("INTERRUPT", "FIFO") => /\ ~isSet("RX", "FIFO") /\ pc["rx"] # "fifo_hdr"
                                     /\ ~(pc["rx"] = "mark" /\ rxCur = "FIFO")
    /\ isSet("RX", "FIFO") => pc["rx"] # "fifo_hdr" /\ ~(pc["rx"] = "mark" /\ rxCur = "FIFO")
    /\ pc["rx"] = "fifo_hdr" => rxCur = "FIFO"
    /\ (pc["rx"] = "post" /\ rxCur = "FIFO") \/ pc["rx"] \in FifoResponding
          => isSet("RX", "FIFO") /\ ~isSet("PROC", "FIFO")
    /\ isSet("PROC", "FIFO") => isSet("RX", "FIFO")
    /\ pc["proc"] \in FifoResponding \cup {"exec_fifo", "reply"} => isSet("PROC", "FIFO")
    /\ pc["proc"] \notin FifoResponding \cup {"exec_fifo", "reply", "respond"}
          => ~isSet("PROC", "FIFO")
    /\ ~(isSet("PROC", "FIFO") /\ isSet("PROC", "PSU"))
    /\ ~resetReq /\ pc["rx"] \notin {"reset", "reset_clear"} /\ rc["rx"] # "reset"

LEMMA FifoPlaced ==
  ASSUME TypeOK, LoopInv
  PROVE  FifoPlace
<1>0. "FIFO" \in Served /\ "PSU" \in Served /\ "rx" \in Thread
  BY DEF Served, Thread
<1>1. ~resetReq /\ pc["rx"] \notin {"reset", "reset_clear"} /\ rc["rx"] # "reset"
  BY <1>0 DEF LoopInv, NoResetInv
<1>2. /\ isSet("INTERRUPT", "FIFO") => ~RxHolds("FIFO") /\ ~isSet("RX", "FIFO")
      /\ RxHolds("FIFO") => ~isSet("RX", "FIFO")
  BY <1>0 DEF LoopInv, PlaceInv
<1>3. RxKeeps("FIFO") => isSet("RX", "FIFO") /\ ~isSet("PROC", "FIFO")
  BY <1>0 DEF LoopInv, RxInv
<1>4. isSet("PROC", "FIFO") => isSet("RX", "FIFO")
  BY DEF LoopInv, ProcInv, isSet
<1>5. /\ pc["proc"] \in FifoResponding \cup {"exec_fifo", "reply"} => isSet("PROC", "FIFO")
      /\ pc["proc"] \notin FifoResponding \cup {"exec_fifo", "reply", "respond"}
            => ~isSet("PROC", "FIFO")
      /\ ~(isSet("PROC", "FIFO") /\ isSet("PROC", "PSU"))
  BY DEF LoopInv, ProcInv, isSet, FifoResponding, TypeOK, ProcPc, RespondPc
<1>6. /\ pc["rx"] \in FifoResponding \cup {"fifo_hdr"} => rxCur = "FIFO"
  BY DEF LoopInv, RxInv, FifoResponding
<1> QED BY <1>1, <1>2, <1>3, <1>4, <1>5, <1>6 DEF FifoPlace, RxHolds, RxKeeps, FifoResponding

\* The receiver is woken for an interrupt: it never decodes nothing.
LEMMA AlwaysDecodes ==
  ASSUME TypeOK, LoopInv
  PROVE  ~RxDecodeNone /\ ~RxDecodeReset
<1>1. pc["rx"] = "decode" => intrSource["INTERRUPT"] # {}
  BY DEF LoopInv, CountInv, Woken, Count, Bit, TypeOK, Thread
<1>2. ~isSet("INTERRUPT", "FIFO_RESET")
  BY DEF LoopInv, NoResetInv, isSet, Served, Handler
<1> QED BY <1>1, <1>2 DEF RxDecodeNone, RxDecodeReset, At

LEMMA AppendSecond ==
  ASSUME NEW a, NEW b
  PROVE  Append(<<a>>, b) = <<a, b>>
<1>1. <<a>> \in Seq({a, b}) /\ <<a, b>> \in Seq({a, b})
  OBVIOUS
<1>2. Append(<<a>>, b) \in Seq({a, b}) /\ Len(Append(<<a>>, b)) = 2
  BY <1>1
<1>3. \A k \in 1 .. 2 : Append(<<a>>, b)[k] = <<a, b>>[k]
  BY <1>1
<1> QED BY <1>1, <1>2, <1>3, SeqEqual

\* Steps that touch neither the FIFOs nor who serves them.
LEMMA MsgFrame ==
  ASSUME MsgInv,
         UNCHANGED <<spPc, spCmd, upFifo, downFifo, fifoHdr, fifoSts>>,
         isSet("RX", "FIFO")' <=> isSet("RX", "FIFO"),
         isSet("PROC", "FIFO")' <=> isSet("PROC", "FIFO"),
         isSet("INTERRUPT", "FIFO")' \/ pc'["rx"] = "fifo_hdr" =>
            isSet("INTERRUPT", "FIFO") \/ pc["rx"] = "fifo_hdr",
         \A t \in Thread :
            pc'[t] # pc[t] => /\ pc[t] \notin FifoResponding
                              /\ pc'[t] \notin FifoResponding,
         pc'["proc"] \in {"exec_fifo", "reply", "respond"} =>
            \/ pc["proc"] = pc'["proc"] /\ rc'["proc"] = rc["proc"]
            \/ pc'["proc"] = "respond" /\ ~isSet("PROC", "FIFO")',
         pc'["rx"] \in {"mark", "post"} /\ rxCur' = "FIFO" =>
            pc["rx"] = pc'["rx"] /\ rc'["rx"] = rc["rx"] /\ rxCur = "FIFO",
         pc["rx"] = "mark" /\ rxCur = "FIFO" => pc'["rx"] = "mark" /\ rxCur' = "FIFO"
  PROVE  MsgInv'
<1>0. "rx" \in Thread /\ "proc" \in Thread
  BY DEF Thread
<1>1. /\ FifoServed' <=> FifoServed
      /\ Untouched' <=> Untouched
  BY <1>0 DEF FifoServed, Untouched, FifoResponding
<1>2. /\ Unread' <=> Unread
      /\ EotDue' <=> EotDue
      /\ AllRead' <=> AllRead
      /\ HdrSent' <=> HdrSent
  BY DEF Unread, EotDue, AllRead, HdrSent, Hdr, Eot
<1>3. \A t \in Thread : FifoAt(t) => FifoAt(t)'
  BY <1>2 DEF FifoAt, FifoResponding
<1>4. \A r : ReadFor(r)' <=> ReadFor(r)
  BY <1>2 DEF ReadFor
<1> QED BY <1>0, <1>1, <1>2, <1>3, <1>4 DEF MsgInv

LEMMA MsgIsr ==
  ASSUME TypeOK, LoopInv, MsgInv, NEW i \in Interface, sbe_interrupt_handler(i)
  PROVE  MsgInv'
<1>1. UNCHANGED <<spPc, spCmd, upFifo, downFifo, fifoHdr, fifoSts, rc, rxCur>>
  BY DEF sbe_interrupt_handler, hdrVars, clientVars
<1>2. /\ isSet("RX", "FIFO")' <=> isSet("RX", "FIFO")
      /\ isSet("PROC", "FIFO")' <=> isSet("PROC", "FIFO")
      /\ isSet("INTERRUPT", "FIFO")' <=> isSet("INTERRUPT", "FIFO") \/ i = "FIFO"
  BY DEF sbe_interrupt_handler, setIntrSource, isSet, TypeOK, Handler
<1>3. i = "FIFO" => upFifo # <<>>
  BY DEF sbe_interrupt_handler, Line
<1>4. /\ pc'["proc"] = pc["proc"]
      /\ pc'["rx"] = pc["rx"] \/ (pc["rx"] = "blocked" /\ pc'["rx"] = "decode")
  BY DEF sbe_interrupt_handler, PostWakes, Obtained, TypeOK, Thread
<1>5. FifoServed' <=> FifoServed
  BY <1>1, <1>2, <1>4 DEF FifoServed
<1>6. Untouched' <=> Untouched
  BY <1>2, <1>4, <1>5 DEF Untouched, FifoResponding
<1>7. /\ Unread' <=> Unread
      /\ EotDue' <=> EotDue
      /\ AllRead' <=> AllRead
      /\ HdrSent' <=> HdrSent
  BY <1>1 DEF Unread, EotDue, AllRead, HdrSent, Hdr, Eot
<1>8. \A t \in Thread : FifoAt(t) => FifoAt(t)'
  BY <1>4, <1>7 DEF FifoAt, Thread
<1>9. \A r : ReadFor(r)' <=> ReadFor(r)
  BY <1>7 DEF ReadFor
<1> QED BY <1>1, <1>2, <1>3, <1>4, <1>5, <1>6, <1>7, <1>8, <1>9 DEF MsgInv

\* Steps of a thread that serve another interface or none.
LEMMA MsgPend ==
  ASSUME TypeOK, LoopInv, MsgInv, NEW t \in Thread, Pend(t)
  PROVE  MsgInv'
<1>1. UNCHANGED <<spPc, spCmd, upFifo, downFifo, fifoHdr, fifoSts, intrSource, rxCur>>
  BY DEF Pend, hwVars, hdrVars, clientVars
<1>2. /\ pc[t] = "pend" /\ pc'[t] \in {"blocked", Obtained(t)}
      /\ \A u \in Thread \ {t} : pc'[u] = pc[u] /\ rc'[u] = rc[u]
  BY DEF Pend, SemPend, At, Goto, Obtained, TypeOK, Thread
<1> QED BY <1>1, <1>2, MsgFrame DEF isSet, FifoResponding, Obtained, Thread

LEMMA MsgOther ==
  ASSUME TypeOK, LoopInv, MsgInv, NEW t \in Thread,
         \/ PsuRespond(t) \/ PsuRelease(t) \/ IrqEnable(t, "en_psu", "PSU", "pend")
         \/ IrqEnable(t, "en_data", "FIFO", "en_reset")
         \/ IrqEnable(t, "en_reset", "FIFO_RESET", "pend")
         \/ t = "proc" /\ IrqEnable("proc", "en_s0", "S0", "pend")
  PROVE  MsgInv'
<1>1. UNCHANGED <<spPc, spCmd, upFifo, downFifo, fifoHdr, fifoSts, rxCur, rc>>
  BY DEF PsuRespond, PsuRespondStep, PsuRelease, IrqEnable, hwVars, hdrVars, clientVars
<1>2. intrSource' = intrSource \/ intrSource' = clearAllHandlers("PSU")
  BY DEF PsuRespond, PsuRespondStep, PsuRelease, IrqEnable
<1>3. /\ isSet("RX", "FIFO")' <=> isSet("RX", "FIFO")
      /\ isSet("PROC", "FIFO")' <=> isSet("PROC", "FIFO")
      /\ isSet("INTERRUPT", "FIFO")' <=> isSet("INTERRUPT", "FIFO")
  BY <1>2 DEF clearAllHandlers, isSet, Handler
<1>4. /\ pc[t] \in {"psu_resp", "psu_release", "en_psu", "en_data", "en_reset", "en_s0"}
      /\ pc'[t] \in {"psu_release", "en_psu", "en_reset", "pend"}
      /\ \A u \in Thread \ {t} : pc'[u] = pc[u]
  BY DEF PsuRespond, PsuRespondStep, PsuRelease, IrqEnable, At, Goto, TypeOK
<1> QED BY <1>1, <1>3, <1>4, MsgFrame DEF FifoResponding, Thread

\* The receiver looks at an interrupt or reads a mailbox command.
LEMMA MsgDecode ==
  ASSUME TypeOK, LoopInv, MsgInv,
         RxDecodePsu \/ RxDecodeFifo \/ RxDecodeS0 \/ RxPsuRead
  PROVE  MsgInv'
<1>0. "rx" \in Thread /\ "proc" \in Thread /\ "INTERRUPT" \in Handler
  BY DEF Thread, Handler
<1>1. /\ UNCHANGED <<spPc, spCmd, upFifo, downFifo, fifoHdr>>
      /\ rc'["proc"] = rc["proc"] /\ pc'["proc"] = pc["proc"]
  BY <1>0 DEF RxDecodePsu, RxDecodeFifo, RxDecodeS0, RxPsuRead, hwVars, hdrVars, clientVars,
              Goto, TypeOK
<1>2. /\ isSet("RX", "FIFO")' <=> isSet("RX", "FIFO")
      /\ isSet("PROC", "FIFO")' <=> isSet("PROC", "FIFO")
      /\ isSet("INTERRUPT", "FIFO")' <=> isSet("INTERRUPT", "FIFO") /\ ~RxDecodeFifo
  BY DEF RxDecodePsu, RxDecodeFifo, RxDecodeS0, RxPsuRead, clearIntrSource, isSet, TypeOK, Handler
<1>3. CASE RxDecodePsu \/ RxDecodeS0 \/ RxPsuRead
  <2>1. /\ pc["rx"] \in {"decode", "psu_read"} /\ fifoSts' = fifoSts
        /\ \/ pc'["rx"] = "psu_read"
           \/ pc'["rx"] = "mark" /\ rxCur' \in {"PSU", "S0"}
    <3>1. pc["rx"] = "psu_read" => rxCur = "PSU"
      BY DEF LoopInv, RxInv
    <3>2. CASE RxDecodePsu
      BY <1>0, <3>2 DEF RxDecodePsu, At, Goto, TypeOK, hdrVars
    <3>3. CASE RxDecodeS0
      BY <1>0, <3>3 DEF RxDecodeS0, At, Goto, TypeOK, hdrVars
    <3>4. CASE RxPsuRead
      <4>1. pc["rx"] = "psu_read" /\ fifoSts' = fifoSts /\ rxCur' = rxCur /\ pc'["rx"] = "mark"
        BY <1>0, <3>4 DEF RxPsuRead, At, Goto, TypeOK
      <4> QED BY <3>1, <4>1
    <3> QED BY <1>3, <3>2, <3>3, <3>4
  <2>2. ~RxDecodeFifo
    BY <1>0, <1>3, <2>1 DEF RxDecodeFifo, Goto, TypeOK
  <2> QED BY <1>1, <1>2, <2>1, <2>2, MsgFrame DEF FifoResponding, Thread
<1>4. CASE RxDecodeFifo
  <2>1. /\ pc["rx"] = "decode" /\ pc'["rx"] = "fifo_hdr" /\ isSet("INTERRUPT", "FIFO")
        /\ rxCur' = "FIFO"
    BY <1>0, <1>4 DEF RxDecodeFifo, At, Goto, TypeOK
  <2>2. ~FifoServed /\ ~FifoServed' /\ upFifo # <<>>
    BY <1>2, <2>1, FifoPlaced DEF FifoServed, FifoPlace, MsgInv
  <2>3. ~Untouched'
    BY <2>2 DEF Untouched
  <2>4. /\ Unread' <=> Unread
        /\ EotDue' <=> EotDue
        /\ AllRead' <=> AllRead
        /\ HdrSent' <=> HdrSent
    BY <1>1 DEF Unread, EotDue, AllRead, HdrSent, Hdr, Eot
  <2>5. \A t \in Thread : FifoAt(t) => FifoAt(t)'
    BY <1>1, <2>1, <2>4 DEF FifoAt, Thread
  <2>6. \A r : ReadFor(r)' <=> ReadFor(r)
    BY <2>4 DEF ReadFor
  <2> QED BY <1>1, <1>2, <2>1, <2>2, <2>3, <2>4, <2>5, <2>6 DEF MsgInv
<1> QED BY <1>3, <1>4

\* The receiver reads a header word and validates it.
LEMMA MsgHeader ==
  ASSUME TypeOK, LoopInv, MsgInv, ~ScomFaults, RxFifoHeader
  PROVE  MsgInv'
<1>0. "rx" \in Thread /\ "proc" \in Thread
  BY DEF Thread
<1>1. /\ UNCHANGED <<spPc, spCmd, downFifo, rxCur, intrSource>>
      /\ rc'["proc"] = rc["proc"] /\ pc'["proc"] = pc["proc"]
      /\ pc["rx"] = "fifo_hdr" /\ pc'["rx"] = "mark" /\ rxCur = "FIFO"
      /\ ~isSet("RX", "FIFO") /\ ~isSet("INTERRUPT", "FIFO") /\ ~isSet("PROC", "FIFO")
  BY <1>0, FifoPlaced DEF RxFifoHeader, At, Goto, TypeOK, clientVars, FifoPlace
<1>2. Unread /\ upFifo # <<>>
  BY <1>1 DEF MsgInv, FifoServed
<1>3. /\ upFifo' = Tail(upFifo) /\ fifoHdr' = Head(upFifo)[2]
      /\ \/ Head(upFifo)[1] = "eot" /\ fifoSts' = "eot" /\ rc'["rx"] = "ok"
         \/ /\ Head(upFifo)[1] = "hdr" /\ fifoSts' \in Verdict /\ rc'["rx"] = RcOf(fifoSts')
  BY <1>0, FifoPlaced DEF RxFifoHeader, FifoPlace, TypeOK
<1>4. /\ fifoHdr' = spCmd' /\ fifoSts' \in Verdict \cup {"eot"}
      /\ IF fifoSts' = "eot" THEN AllRead' /\ rc'["rx"] = "ok" ELSE EotDue'
  <2>1. \/ spPc = "open" /\ upFifo = <<Hdr>>
        \/ spPc = "waiting" /\ upFifo \in {<<Hdr, Eot>>, <<Eot>>}
    BY <1>2 DEF Unread
  <2>2. downFifo' = <<>> /\ Eot' = Eot
    BY <1>1, <1>2 DEF Unread, Eot
  <2>3. CASE spPc = "open" /\ upFifo = <<Hdr>>
    BY <1>1, <1>3, <2>2, <2>3 DEF Hdr, EotDue, Verdict
  <2>4. CASE spPc = "waiting" /\ upFifo = <<Hdr, Eot>>
    <3>1. Head(upFifo) = Hdr /\ Tail(upFifo) = <<Eot>>
      BY <2>4
    <3> QED BY <1>1, <1>3, <2>2, <2>4, <3>1 DEF Hdr, EotDue, Verdict
  <2>5. CASE spPc = "waiting" /\ upFifo = <<Eot>>
    <3>1. Head(upFifo) = Eot /\ Tail(upFifo) = <<>>
      BY <2>5
    <3> QED BY <1>1, <1>3, <2>2, <2>5, <3>1 DEF Eot, AllRead
  <2> QED BY <2>1, <2>3, <2>4, <2>5
<1>5. rc'["rx"] = "fenced" => fifoSts' # "eot"
  BY <1>4
<1>6. /\ FifoServed' /\ ~isSet("PROC", "FIFO")' /\ ~isSet("INTERRUPT", "FIFO")'
      /\ pc["proc"] \notin {"exec_fifo", "reply", "flush", "send", "eot"}
  BY <1>1, FifoPlaced DEF FifoServed, isSet, FifoPlace, FifoResponding
<1>7. \A t \in Thread : FifoAt(t)'
  BY <1>1, <1>6 DEF FifoAt, Thread
<1> QED BY <1>1, <1>4, <1>5, <1>6, <1>7 DEF MsgInv

LEMMA MsgMark ==
  ASSUME TypeOK, LoopInv, MsgInv, RxMark
  PROVE  MsgInv'
<1>0. "rx" \in Thread /\ "proc" \in Thread /\ "RX" \in Handler
  BY DEF Thread, Handler
<1>1. /\ UNCHANGED <<spPc, spCmd, upFifo, downFifo, fifoHdr, fifoSts, rxCur, rc>>
      /\ pc'["proc"] = pc["proc"] /\ pc["rx"] = "mark" /\ pc'["rx"] = "post"
  BY <1>0, FifoPlaced DEF RxMark, At, Goto, TypeOK, hwVars, hdrVars, clientVars, FifoPlace
<1>2. /\ isSet("RX", "FIFO")' <=> isSet("RX", "FIFO") \/ rxCur = "FIFO"
      /\ isSet("PROC", "FIFO")' <=> isSet("PROC", "FIFO")
      /\ isSet("INTERRUPT", "FIFO")' <=> isSet("INTERRUPT", "FIFO")
  BY DEF RxMark, setIntrSource, isSet, TypeOK, Handler
<1>3. CASE rxCur # "FIFO"
  BY <1>1, <1>2, <1>3, MsgFrame DEF FifoResponding, Thread
<1>4. CASE rxCur = "FIFO"
  <2>1. ~isSet("RX", "FIFO") /\ ~isSet("PROC", "FIFO") /\ ~isSet("INTERRUPT", "FIFO")
        /\ pc["proc"] \notin {"exec_fifo", "reply", "flush", "send", "eot", "fifo_release"}
    BY <1>1, <1>4, FifoPlaced DEF FifoPlace, FifoResponding
  <2>2. /\ FifoServed /\ FifoServed' /\ Untouched /\ Untouched'
    BY <1>1, <1>2, <1>4, <2>1 DEF FifoServed, Untouched, FifoResponding
  <2>3. /\ EotDue' <=> EotDue
        /\ AllRead' <=> AllRead
    BY <1>1 DEF EotDue, AllRead, Eot
  <2>4. \A t \in Thread : FifoAt(t)'
    BY <1>1, <2>1 DEF FifoAt, Thread
  <2> QED BY <1>1, <1>2, <2>1, <2>2, <2>3, <2>4 DEF MsgInv
<1> QED BY <1>3, <1>4

LEMMA MsgPost ==
  ASSUME TypeOK, LoopInv, MsgInv, RxPost
  PROVE  MsgInv'
<1>0. "rx" \in Thread /\ "proc" \in Thread
  BY DEF Thread
<1>1. /\ UNCHANGED <<spPc, spCmd, upFifo, downFifo, fifoHdr, fifoSts, rxCur, rc, intrSource>>
      /\ pc["rx"] = "post"
  BY DEF RxPost, At, hwVars, hdrVars, clientVars
<1>2. CASE rxCur = "FIFO" /\ rc["rx"] = "fenced"
  <2>1. pc'["rx"] = "flush" /\ pc'["proc"] = pc["proc"]
    BY <1>0, <1>2 DEF RxPost, Goto, FifoRespondPc, TypeOK
  <2>2. /\ isSet("RX", "FIFO") /\ ~isSet("PROC", "FIFO") /\ ~isSet("INTERRUPT", "FIFO")
        /\ pc["proc"] \notin {"exec_fifo", "reply", "flush", "send", "eot", "fifo_release"}
    BY <1>1, <1>2, FifoPlaced DEF FifoPlace, FifoResponding
  <2>3. Untouched /\ FifoServed /\ FifoServed' /\ ~Untouched'
    BY <1>1, <2>1, <2>2 DEF Untouched, FifoServed, FifoResponding, isSet
  <2>4. EotDue /\ fifoHdr = spCmd
    BY <1>1, <1>2, <2>3 DEF MsgInv
  <2>5. EotDue'
    BY <1>1, <2>4 DEF EotDue, Eot
  <2>6. \A t \in Thread : FifoAt(t)'
    BY <1>0, <2>1, <2>2, <2>5 DEF FifoAt, Thread
  <2> QED BY <1>1, <2>1, <2>2, <2>3, <2>4, <2>6 DEF MsgInv, isSet
<1>3. CASE ~(rxCur = "FIFO" /\ rc["rx"] = "fenced")
  <2>1. /\ pc'["rx"] \in {"pend", "halt", "psu_resp"}
        /\ pc'["proc"] = pc["proc"] \/ (pc["proc"] = "blocked" /\ pc'["proc"] = "take")
    BY <1>0, <1>3 DEF RxPost, Goto, PostWakes, Obtained, TypeOK
  <2> QED BY <1>1, <2>1, MsgFrame DEF FifoResponding, Thread, isSet
<1> QED BY <1>2, <1>3

\* Only the thread that answers the message is at a FIFO response.
LEMMA OneResponds ==
  ASSUME TypeOK, LoopInv, NEW t \in Thread, Runs(t), pc[t] \in FifoResponding
  PROVE  /\ \A u \in Thread \ {t} : pc[u] \notin FifoResponding \cup {"exec_fifo", "reply"}
         /\ pc["proc"] = "respond" => ~isSet("PROC", "FIFO")
         /\ isSet("RX", "FIFO") /\ ~isSet("INTERRUPT", "FIFO")
         /\ pc["rx"] \notin {"fifo_hdr", "mark", "post"}
         /\ t = "proc" => isSet("PROC", "FIFO")
<1>1. CASE t = "rx"
  BY <1>1, FifoPlaced DEF FifoPlace, FifoResponding, Thread
<1>2. CASE t = "proc"
  BY <1>2, FifoPlaced DEF FifoPlace, FifoResponding, Thread, Runs
<1> QED BY <1>1, <1>2 DEF Thread

\* The response moves on, from flushing the message to its release.
LEMMA MsgRespond ==
  ASSUME TypeOK, LoopInv, MsgInv, ~ScomFaults, NEW t \in Thread,
         FifoFlush(t) \/ FifoSend(t) \/ FifoEot(t)
  PROVE  MsgInv'
<1>1. /\ UNCHANGED <<spPc, spCmd, fifoHdr, fifoSts, rxCur, rc, intrSource>>
      /\ Runs(t) /\ pc[t] \in {"flush", "send", "eot"}
      /\ \A u \in Thread \ {t} : pc'[u] = pc[u]
  <2>1. /\ UNCHANGED <<spPc, spCmd, fifoHdr, fifoSts, rxCur, rc, intrSource>>
        /\ Runs(t) /\ pc[t] \in {"flush", "send", "eot"}
    BY DEF FifoFlush, FifoSend, FifoEot, FifoUnchanged, At, hdrVars, clientVars
  <2>2. \E l : pc' = [pc EXCEPT ![t] = l]
    BY DEF FifoFlush, FifoSend, FifoEot, Goto
  <2> QED BY <2>1, <2>2 DEF TypeOK
<1>2. ~resetReq
  BY FifoPlaced DEF FifoPlace
<1>3. /\ \A u \in Thread \ {t} : pc[u] \notin FifoResponding \cup {"exec_fifo", "reply"}
      /\ pc["proc"] = "respond" => ~isSet("PROC", "FIFO")
      /\ isSet("RX", "FIFO") /\ ~isSet("INTERRUPT", "FIFO")
      /\ pc["rx"] \notin {"fifo_hdr", "mark", "post"}
      /\ t = "proc" => isSet("PROC", "FIFO")
  BY <1>1, OneResponds DEF FifoResponding
<1>4. FifoServed /\ fifoHdr = spCmd
  BY <1>1, <1>3 DEF FifoServed, FifoResponding, Thread, MsgInv
<1>5. Hdr' = Hdr /\ Eot' = Eot /\ FifoAt(t)
  BY <1>1 DEF Hdr, Eot, MsgInv
<1>6. CASE FifoFlush(t)
  <2>1. /\ pc[t] = "flush" /\ downFifo' = downFifo /\ upFifo # <<>> /\ upFifo' = Tail(upFifo)
        /\ pc'[t] = IF Head(upFifo)[1] = "eot" THEN "send" ELSE "flush"
    BY <1>2, <1>6 DEF FifoFlush, At, Goto, TypeOK
  <2>2. spPc = "waiting" /\ upFifo = <<Eot>> /\ downFifo = <<>>
    BY <1>5, <2>1 DEF FifoAt, EotDue
  <2>3. pc'[t] = "send" /\ upFifo' = <<>>
    BY <2>1, <2>2 DEF Eot
  <2>4. AllRead'
    BY <1>1, <2>1, <2>2, <2>3 DEF AllRead
  <2> QED BY <1>1, <1>3, <1>4, <2>3, <2>4
          DEF MsgInv, FifoAt, FifoServed, Untouched, FifoResponding, isSet, Thread
<1>7. CASE FifoSend(t)
  <2>1. /\ pc[t] = "send" /\ upFifo' = upFifo /\ downFifo' = Append(downFifo, <<"hdr", fifoHdr>>)
        /\ pc'[t] = "eot"
    BY <1>2, <1>7 DEF FifoSend, At, Goto, TypeOK
  <2>2. spPc = "waiting" /\ upFifo = <<>> /\ downFifo = <<>>
    BY <1>5, <2>1 DEF FifoAt, AllRead
  <2>3. downFifo' = <<Hdr>>
    BY <1>4, <2>1, <2>2 DEF Hdr
  <2>4. HdrSent'
    BY <1>1, <1>5, <2>1, <2>2, <2>3 DEF HdrSent
  <2> QED BY <1>1, <1>3, <1>4, <2>1, <2>4
          DEF MsgInv, FifoAt, FifoServed, Untouched, FifoResponding, isSet, Thread
<1>8. CASE FifoEot(t)
  <2>1. /\ pc[t] = "eot" /\ upFifo' = upFifo /\ downFifo' = Append(downFifo, <<"eot", fifoHdr>>)
        /\ pc'[t] = "fifo_release"
    BY <1>8 DEF FifoEot, At, Goto, TypeOK
  <2>2. spPc = "waiting" /\ upFifo = <<>> /\ downFifo = <<Hdr>>
    BY <1>5, <2>1 DEF FifoAt, HdrSent
  <2>3. downFifo' = <<Hdr, Eot>>
    BY <1>4, <2>1, <2>2, AppendSecond DEF Eot
  <2>4. Unread'
    BY <1>1, <1>5, <2>1, <2>2, <2>3 DEF Unread
  <2>5. ~FifoServed'
    BY <1>1, <1>3, <2>1 DEF FifoServed, Thread
  <2> QED BY <1>1, <1>3, <2>1, <2>4, <2>5
          DEF MsgInv, FifoAt, Untouched, FifoResponding, isSet, Thread
<1> QED BY <1>6, <1>7, <1>8

LEMMA MsgRelease ==
  ASSUME TypeOK, LoopInv, MsgInv, NEW t \in Thread, FifoRelease(t)
  PROVE  MsgInv'
<1>1. /\ UNCHANGED <<spPc, spCmd, upFifo, downFifo, fifoHdr, fifoSts, rxCur, rc>>
      /\ Runs(t) /\ pc[t] = "fifo_release" /\ pc'[t] = "en_data"
      /\ \A u \in Thread \ {t} : pc'[u] = pc[u]
  BY DEF FifoRelease, At, Goto, hwVars, hdrVars, clientVars, TypeOK
<1>2. ~isSet("RX", "FIFO")' /\ ~isSet("PROC", "FIFO")' /\ ~isSet("INTERRUPT", "FIFO")'
  BY DEF FifoRelease, clearAllHandlers, isSet, Handler
<1>3. /\ \A u \in Thread \ {t} : pc[u] \notin FifoResponding \cup {"exec_fifo", "reply"}
      /\ pc["rx"] \notin {"fifo_hdr", "mark", "post"}
  BY <1>1, OneResponds DEF FifoResponding
<1>4. ~FifoServed /\ ~FifoServed'
  BY <1>1, <1>2, <1>3 DEF FifoServed, Thread
<1>5. Unread'
  <2>1. Unread
    BY <1>4 DEF MsgInv
  <2> QED BY <1>1, <2>1 DEF Unread, Hdr, Eot
<1> QED BY <1>1, <1>2, <1>3, <1>4, <1>5 DEF MsgInv, FifoAt, Untouched, FifoResponding, Thread

\* The processor takes what the receiver marked.
LEMMA MsgTake ==
  ASSUME TypeOK, LoopInv, MsgInv, NEW k \in 1 .. 3, NEW r \in Status, NEW l, Take(k, r, l),
         <<TakeOrder[k], r, l>> \in
            {<<"PSU", psuSts, "exec_psu">>, <<"FIFO", fifoSts, "exec_fifo">>, <<"S0", "ok", "s0">>}
  PROVE  MsgInv'
<1>0. "rx" \in Thread /\ "proc" \in Thread /\ "PROC" \in Handler
  BY DEF Thread, Handler
<1>1. /\ UNCHANGED <<spPc, spCmd, upFifo, downFifo, fifoHdr, fifoSts, rxCur>>
      /\ rc'["rx"] = rc["rx"] /\ rc'["proc"] = r
      /\ pc["proc"] = "take" /\ pc["rx"] = "blocked" /\ pc'["rx"] = "blocked"
      /\ pc'["proc"] = IF r = "ok" THEN l ELSE "respond"
      /\ isSet("RX", TakeOrder[k])
  BY <1>0 DEF Take, At, Runs, Goto, TypeOK, hwVars, hdrVars, clientVars
<1>2. /\ isSet("RX", "FIFO")' <=> isSet("RX", "FIFO")
      /\ isSet("INTERRUPT", "FIFO")' <=> isSet("INTERRUPT", "FIFO")
      /\ isSet("PROC", "FIFO")' <=> isSet("PROC", "FIFO") \/ TakeOrder[k] = "FIFO"
  BY DEF Take, setIntrSource, isSet, TypeOK, Handler
<1>3. ~isSet("PROC", "FIFO")
  BY <1>1, FifoPlaced DEF FifoPlace, FifoResponding
<1>4. CASE TakeOrder[k] # "FIFO"
  <2>1. l \in {"exec_psu", "s0"}
    BY <1>4
  <2> QED BY <1>1, <1>2, <1>3, <1>4, <2>1, MsgFrame DEF FifoResponding, Thread
<1>5. CASE TakeOrder[k] = "FIFO"
  <2>1. r = fifoSts /\ l = "exec_fifo"
    BY <1>5
  <2>2. FifoServed /\ FifoServed' /\ Untouched /\ ~Untouched'
    BY <1>1, <1>2, <1>3, <1>5, <2>1 DEF FifoServed, Untouched, FifoResponding
  <2>3. /\ EotDue' <=> EotDue
        /\ AllRead' <=> AllRead
    BY <1>1 DEF EotDue, AllRead, Eot
  <2>4. IF r = "eot" THEN AllRead' ELSE EotDue'
    BY <2>1, <2>2, <2>3 DEF MsgInv
  <2>5. r \in {"ok", "unsupported", "fenced", "eot"}
    BY <2>1 DEF TypeOK, Verdict
  <2>6. r # "ok" => ReadFor(r)'
    BY <2>4, <2>5 DEF ReadFor
  <2>7. \A t \in Thread : FifoAt(t)'
    BY <1>1, <2>1 DEF FifoAt, Thread
  <2> QED BY <1>1, <1>2, <1>5, <2>1, <2>2, <2>4, <2>6, <2>7 DEF MsgInv
<1> QED BY <1>4, <1>5

\* Steps of the processor that serve another interface or none.
LEMMA MsgProcOther ==
  ASSUME TypeOK, LoopInv, MsgInv,
         \/ ProcBoot \/ ProcTakeNone \/ ProcExecPsu \/ sbeHandleS0
         \/ (ProcRespond /\ ~isSet("PROC", "FIFO"))
  PROVE  MsgInv'
<1>0. "rx" \in Thread /\ "proc" \in Thread
  BY DEF Thread
<1>1. /\ UNCHANGED <<spPc, spCmd, upFifo, downFifo, fifoHdr, fifoSts, rxCur>>
      /\ rc'["rx"] = rc["rx"] /\ pc["rx"] = "blocked" /\ pc'["rx"] = "blocked"
      /\ pc["proc"] \in {"boot", "take", "exec_psu", "s0", "respond"}
      /\ pc'["proc"] \in {"pend", "respond", "psu_resp", "en_s0"}
      /\ pc["proc"] = "respond" => pc'["proc"] # "respond"
  <2> USE DEF At, Runs, Goto, TypeOK, hwVars, hdrVars, clientVars
  <2>1. CASE ProcBoot \/ ProcTakeNone
    BY <1>0, <2>1 DEF ProcBoot, ProcTakeNone
  <2>2. CASE ProcExecPsu
    BY <1>0, <2>2 DEF ProcExecPsu
  <2>3. CASE sbeHandleS0
    BY <1>0, <2>3 DEF sbeHandleS0
  <2>4. CASE ProcRespond /\ ~isSet("PROC", "FIFO")
    BY <1>0, <2>4 DEF ProcRespond
  <2> QED BY <2>1, <2>2, <2>3, <2>4
<1>2. intrSource' = intrSource \/ intrSource' = clearAllHandlers("S0")
  BY DEF ProcBoot, ProcTakeNone, ProcExecPsu, sbeHandleS0, ProcRespond
<1>3. /\ isSet("RX", "FIFO")' <=> isSet("RX", "FIFO")
      /\ isSet("PROC", "FIFO")' <=> isSet("PROC", "FIFO")
      /\ isSet("INTERRUPT", "FIFO")' <=> isSet("INTERRUPT", "FIFO")
  BY <1>2 DEF clearAllHandlers, isSet, Handler
<1>4. pc'["proc"] = "respond" => ~isSet("PROC", "FIFO")
  BY <1>1, FifoPlaced DEF FifoPlace, FifoResponding
<1> QED BY <1>1, <1>3, <1>4, MsgFrame DEF FifoResponding, Thread

\* The processor runs a FIFO chip-op, replies and responds.
LEMMA MsgProc ==
  ASSUME TypeOK, LoopInv, MsgInv, ~ScomFaults,
         ProcExecFifo \/ ProcReply \/ (ProcRespond /\ isSet("PROC", "FIFO"))
  PROVE  MsgInv'
<1>0. "rx" \in Thread /\ "proc" \in Thread
  BY DEF Thread
<1>1. /\ UNCHANGED <<spPc, spCmd, fifoHdr, fifoSts, rxCur, intrSource>>
      /\ rc'["rx"] = rc["rx"] /\ pc["rx"] = "blocked" /\ pc'["rx"] = "blocked"
      /\ pc["proc"] \in {"exec_fifo", "reply", "respond"}
  <2> USE DEF At, Runs, Goto, TypeOK
  <2>1. CASE ProcExecFifo
    <3>1. pc' = pc \/ \E l : pc' = [pc EXCEPT !["proc"] = l]
      BY <2>1 DEF ProcExecFifo
    <3>2. rc' = rc \/ \E r : rc' = [rc EXCEPT !["proc"] = r]
      BY <2>1 DEF ProcExecFifo
    <3> QED BY <1>0, <2>1, <3>1, <3>2 DEF ProcExecFifo, FifoUnchanged, hdrVars, clientVars
  <2>2. CASE ProcReply
    <3>1. rc' = rc \/ \E r : rc' = [rc EXCEPT !["proc"] = r]
      BY <2>2 DEF ProcReply
    <3> QED BY <1>0, <2>2, <3>1 DEF ProcReply, FifoUnchanged, hdrVars, clientVars
  <2>3. CASE ProcRespond /\ isSet("PROC", "FIFO")
    <3>1. ~isSet("PROC", "PSU")
      BY <2>3, FifoPlaced DEF FifoPlace
    <3> QED BY <1>0, <2>3, <3>1 DEF ProcRespond, hwVars, hdrVars, clientVars
  <2> QED BY <2>1, <2>2, <2>3
<1>2. /\ isSet("PROC", "FIFO") /\ isSet("RX", "FIFO") /\ ~isSet("INTERRUPT", "FIFO") /\ ~resetReq
  BY <1>1, FifoPlaced DEF ProcExecFifo, ProcReply, At, FifoPlace
<1>3. FifoServed /\ fifoHdr = spCmd
  BY <1>1, <1>2 DEF FifoServed, MsgInv
<1>4. Hdr' = Hdr /\ Eot' = Eot
  BY <1>1 DEF Hdr, Eot
<1>5. CASE ProcExecFifo
  <2>1. /\ pc["proc"] = "exec_fifo" /\ downFifo' = downFifo
        /\ upFifo # <<>> /\ upFifo' = Tail(upFifo) /\ EotDue /\ rc["proc"] = "ok"
    BY <1>2, <1>5 DEF ProcExecFifo, At, MsgInv
  <2>2. spPc = "waiting" /\ upFifo = <<Eot>> /\ downFifo = <<>>
    BY <2>1 DEF EotDue
  <2>3. Head(upFifo)[1] = "eot" /\ upFifo' = <<>>
    BY <2>1, <2>2 DEF Eot
  <2>4. AllRead'
    BY <1>1, <2>1, <2>2, <2>3 DEF AllRead
  <2>5. \/ pc'["proc"] = "reply" /\ rc'["proc"] = "ok"
        \/ pc'["proc"] = "respond" /\ rc'["proc"] = "eot"
    BY <1>0, <1>2, <1>5, <2>1, <2>3 DEF ProcExecFifo, Goto, TypeOK
  <2> QED BY <1>1, <1>2, <1>3, <2>4, <2>5
          DEF MsgInv, FifoAt, ReadFor, FifoServed, Untouched, isSet, Thread
<1>6. CASE ProcReply
  <2>1. /\ pc["proc"] = "reply" /\ pc'["proc"] = "respond" /\ upFifo' = upFifo
        /\ downFifo' = Append(downFifo, <<"hdr", fifoHdr>>)
        /\ AllRead /\ rc["proc"] = "ok" /\ rc' = rc
    BY <1>0, <1>2, <1>6 DEF ProcReply, At, Goto, TypeOK, MsgInv
  <2>2. spPc = "waiting" /\ upFifo = <<>> /\ downFifo = <<>>
    BY <2>1 DEF AllRead
  <2>3. downFifo' = <<Hdr>>
    BY <1>3, <2>1, <2>2 DEF Hdr
  <2>4. HdrSent'
    BY <1>1, <1>4, <2>1, <2>2, <2>3 DEF HdrSent
  <2> QED BY <1>1, <1>2, <1>3, <2>1, <2>4
          DEF MsgInv, FifoAt, ReadFor, FifoServed, Untouched, isSet, Thread
<1>7. CASE ProcRespond /\ isSet("PROC", "FIFO")
  <2>1. /\ pc["proc"] = "respond" /\ pc'["proc"] = FifoRespondPc(rc["proc"])
        /\ UNCHANGED <<upFifo, downFifo>> /\ ReadFor(rc["proc"])
    BY <1>0, <1>7, FifoPlaced
       DEF ProcRespond, At, Goto, TypeOK, MsgInv, FifoPlace, hwVars
  <2>2. /\ EotDue' <=> EotDue
        /\ AllRead' <=> AllRead
        /\ HdrSent' <=> HdrSent
    BY <1>1, <2>1 DEF EotDue, AllRead, HdrSent, Hdr, Eot
  <2>3. rc["proc"] \in {"unsupported", "fenced", "eot", "ok"}
    BY <2>1 DEF ReadFor
  <2>4. FifoAt("proc")' /\ pc'["proc"] \in {"flush", "send", "eot"}
    BY <2>1, <2>2, <2>3 DEF FifoAt, FifoRespondPc, ReadFor
  <2>5. FifoAt("rx")'
    BY <1>1 DEF FifoAt
  <2> QED BY <1>1, <1>2, <1>3, <2>4, <2>5 DEF MsgInv, FifoServed, Untouched, isSet, Thread
<1> QED BY <1>5, <1>6, <1>7

\* A message that is served is on its way.
LEMMA ServedIsOpen ==
  ASSUME TypeOK, LoopInv, MsgInv, FifoServed
  PROVE  EotDue \/ AllRead \/ HdrSent
<1>1. CASE Untouched
  BY <1>1 DEF MsgInv
<1>2. CASE pc["rx"] \in FifoResponding
  BY <1>2, FifoPlaced DEF FifoPlace, FifoServed, FifoResponding, MsgInv, FifoAt, Thread
<1>3. CASE isSet("PROC", "FIFO") /\ pc["rx"] \notin FifoResponding
  <2>1. isSet("RX", "FIFO") /\ pc["proc"] # "fifo_release"
    BY <1>3, FifoPlaced DEF FifoPlace, FifoServed
  <2>2. pc["proc"] \in {"flush", "send", "eot", "exec_fifo", "reply", "respond"}
    BY <1>3, <2>1, FifoPlaced DEF FifoPlace, FifoResponding
  <2> QED BY <1>3, <2>2 DEF MsgInv, FifoAt, ReadFor, Thread
<1> QED BY <1>1, <1>2, <1>3 DEF Untouched

LEMMA MsgClients ==
  ASSUME MaxResets = 0, TypeOK, LoopInv, MsgInv, Clients
  PROVE  MsgInv'
<1>0. UNCHANGED <<fifoHdr, fifoSts, pc, rc, rxCur, intrSource>>
  BY DEF Clients, SpSendHeader, SpSendShort, SpSend, SpSendEot, SpReadResponse, SpRequestReset,
         SpResetDone, HostSend, HostGetResponse, S0Raise, fwVars, hdrVars
<1>1. /\ FifoServed' <=> FifoServed
      /\ Untouched' <=> Untouched
  BY <1>0 DEF FifoServed, Untouched, isSet
<1>2. ASSUME UNCHANGED <<spPc, spCmd, upFifo, downFifo>> PROVE MsgInv'
  BY <1>0, <1>2, MsgFrame DEF FifoResponding, isSet
<1>3. ~SpRequestReset /\ ~SpResetDone
  <2>1. spPc # "resetting"
    BY ServedIsOpen DEF MsgInv, Unread, EotDue, AllRead, HdrSent
  <2> QED BY <2>1 DEF SpRequestReset, SpResetDone, LoopInv, NoResetInv
<1>4. ASSUME NEW k \in {"hdr", "eot"}, NEW l, SpSend(k, l),
             <<k, l>> \in {<<"hdr", "open">>, <<"eot", "waiting">>}
      PROVE  MsgInv'
  <2>1. /\ spPc = "idle" /\ spPc' = l /\ spCmd' = spCmd + 1 /\ downFifo' = downFifo
        /\ upFifo' = Append(upFifo, <<k, spCmd + 1>>)
    BY <1>4 DEF SpSend
  <2>2. ~EotDue /\ ~AllRead /\ ~HdrSent
    BY <2>1 DEF EotDue, AllRead, HdrSent
  <2>3. ~FifoServed
    BY <2>2, ServedIsOpen
  <2>4. upFifo = <<>> /\ downFifo = <<>>
    BY <2>1, <2>3 DEF MsgInv, Unread
  <2>5. upFifo' = << <<k, spCmd'>> >> /\ upFifo' # <<>>
    BY <2>1, <2>4
  <2>6. Unread'
    BY <1>4, <2>1, <2>4, <2>5 DEF Unread, Hdr, Eot
  <2>7. /\ \A t \in Thread : pc[t] \notin {"flush", "send", "eot"}
        /\ pc["proc"] \notin {"exec_fifo", "reply"}
        /\ ~(pc["proc"] = "respond" /\ isSet("PROC", "FIFO"))
    BY <2>2 DEF MsgInv, FifoAt, ReadFor
  <2> QED BY <1>0, <1>1, <2>3, <2>5, <2>6, <2>7 DEF MsgInv, FifoAt, isSet, Untouched
<1>5. CASE SpSendEot
  <2>1. /\ spPc = "open" /\ spPc' = "waiting" /\ spCmd' = spCmd /\ downFifo' = downFifo
        /\ upFifo' = Append(upFifo, Eot) /\ Hdr' = Hdr /\ Eot' = Eot
    BY <1>5 DEF SpSendEot, Hdr, Eot
  <2>2. upFifo' # <<>>
    <3>1. upFifo \in Seq(Token) /\ Eot \in Token
      BY DEF TypeOK, Eot, Token
    <3> QED BY <2>1, <3>1, AppendProperties
  <2>3. EotDue => EotDue'
    BY <2>1 DEF EotDue
  <2>4. Unread => Unread'
    BY <2>1, AppendSecond DEF Unread
  <2>5. ~AllRead /\ ~HdrSent
    BY <2>1 DEF AllRead, HdrSent
  <2> QED BY <1>0, <1>1, <2>1, <2>2, <2>3, <2>4, <2>5 DEF MsgInv, FifoAt, ReadFor, isSet
<1>6. CASE SpReadResponse
  <2>1. /\ spPc = "waiting" /\ spPc' = "idle" /\ upFifo' = upFifo /\ spCmd' = spCmd
        /\ downFifo # <<>> /\ downFifo[Len(downFifo)][1] = "eot" /\ downFifo' = <<>>
    BY <1>6 DEF SpReadResponse
  <2>2. downFifo # <<Hdr>>
    BY <2>1 DEF Hdr
  <2>3. ~EotDue /\ ~AllRead /\ ~HdrSent
    BY <2>1, <2>2 DEF EotDue, AllRead, HdrSent
  <2>4. ~FifoServed
    BY <2>3, ServedIsOpen
  <2>5. Unread'
    BY <2>1, <2>4 DEF MsgInv, Unread
  <2>6. /\ \A t \in Thread : pc[t] \notin {"flush", "send", "eot"}
        /\ pc["proc"] \notin {"exec_fifo", "reply"}
        /\ ~(pc["proc"] = "respond" /\ isSet("PROC", "FIFO"))
    BY <2>3 DEF MsgInv, FifoAt, ReadFor
  <2> QED BY <1>0, <1>1, <2>1, <2>4, <2>5, <2>6 DEF MsgInv, FifoAt, isSet, Untouched
<1>7. CASE HostSend \/ HostGetResponse \/ S0Raise
  BY <1>2, <1>7 DEF HostSend, HostGetResponse, S0Raise
<1> QED BY <1>3, <1>4, <1>5, <1>6, <1>7 DEF Clients, SpSendHeader, SpSendShort

\* Every step of the control loop keeps the messages in order.
LEMMA MsgStep ==
  ASSUME MaxResets = 0, ~ScomFaults, TypeOK, LoopInv, MsgInv, [Next]_vars
  PROVE  MsgInv'
<1>1. CASE UNCHANGED vars
  BY <1>1, MsgFrame DEF vars, hwVars, hdrVars, clientVars, FifoResponding, isSet
<1>2. ASSUME NEW t \in Thread, Respond(t) PROVE MsgInv'
  BY <1>2, MsgOther, MsgRespond, MsgRelease DEF Respond
<1>3. CASE sbeCommandReceiver_routine
  <2>1. ~RxReset /\ ~RxResetClear
    BY FifoPlaced DEF FifoPlace, RxReset, RxResetClear, At
  <2> QED BY <1>2, <1>3, <2>1, AlwaysDecodes, MsgPend, MsgDecode, MsgHeader, MsgMark, MsgPost
          DEF sbeCommandReceiver_routine, Thread
<1>4. CASE sbeSyncCommandProcessor_routine
  <2>1. ASSUME Take(1, psuSts, "exec_psu") \/ Take(2, fifoSts, "exec_fifo") \/ Take(3, "ok", "s0")
        PROVE  MsgInv'
    <3>1. psuSts \in Status /\ fifoSts \in Status /\ "ok" \in Status
      BY DEF TypeOK, Verdict, Status
    <3>2. TakeOrder[1] = "PSU" /\ TakeOrder[2] = "FIFO" /\ TakeOrder[3] = "S0"
      BY DEF TakeOrder
    <3>3. {1, 2, 3} \subseteq 1 .. 3
      OBVIOUS
    <3>4. CASE Take(1, psuSts, "exec_psu")
      BY <3>1, <3>2, <3>3, <3>4, MsgTake
    <3>5. CASE Take(2, fifoSts, "exec_fifo")
      BY <3>1, <3>2, <3>3, <3>5, MsgTake
    <3>6. CASE Take(3, "ok", "s0")
      BY <3>1, <3>2, <3>3, <3>6, MsgTake
    <3> QED BY <2>1, <3>4, <3>5, <3>6
  <2>2. IrqEnable("proc", "en_s0", "S0", "pend") => MsgInv'
    BY MsgOther DEF Thread
  <2> QED BY <1>2, <1>4, <2>1, <2>2, MsgPend, MsgProcOther, MsgProc
          DEF sbeSyncCommandProcessor_routine, Thread
<1> QED BY <1>1, <1>3, <1>4, MsgIsr, MsgClients DEF Next, Quiescent

\* The responses are those asked for wherever the messages are in order.
LEMMA MsgInitially ==
  ASSUME Init
  PROVE  MsgInv
<1>1. /\ pc["rx"] = "pend" /\ pc["proc"] = "boot"
      /\ ~isSet("RX", "FIFO") /\ ~isSet("INTERRUPT", "FIFO")
  BY DEF Init, Thread, Handler, isSet
<1>2. ~FifoServed /\ ~Untouched /\ Unread
  BY <1>1 DEF Init, FifoServed, Untouched, Unread
<1> QED BY <1>1, <1>2 DEF MsgInv, FifoAt, Thread

LEMMA MsgInvariant ==
  ASSUME MaxResets = 0, MAX_SEMAPHORE_COUNT >= 3, ~ScomFaults
  PROVE  Spec => [](TypeOK /\ LoopInv /\ MsgInv)
<1>1. Init => MsgInv
  BY MsgInitially
<1>2. TypeOK /\ LoopInv /\ MsgInv /\ [Next]_vars => MsgInv'
  BY MsgStep
<1>3. Spec => [](TypeOK /\ LoopInv)
  BY LoopInvariant
<1> QED BY <1>1, <1>2, <1>3, PTL DEF Spec

\* d is what an SP at p that waits for an answer to message c may find.
ResponseTo(p, c, d) ==
    \/ d = <<>>
    \/ p = "waiting" /\ d \in {<< <<"hdr", c>> >>, << <<"hdr", c>>, <<"eot", c>> >>}

LEMMA MsgAnswers ==
  ASSUME TypeOK, LoopInv, MsgInv
  PROVE  ResponseTo(spPc, spCmd, downFifo)
<1>1. CASE FifoServed
  BY <1>1, ServedIsOpen DEF EotDue, AllRead, HdrSent, ResponseTo, Hdr
<1>2. CASE ~FifoServed
  BY <1>2 DEF MsgInv, Unread, ResponseTo, Hdr, Eot
<1> QED BY <1>1, <1>2

\* Without FIFO resets and register faults, what is in the downstream FIFO is the
\* response to the message the SP waits for, its header and then its EOT, sent by
\* the thread it fell to: no header is sent twice, none is left from an earlier
\* message, and none is sent before the message is read to its EOT.
THEOREM FifoAnswersMatch ==
  ASSUME MaxResets = 0, MAX_SEMAPHORE_COUNT >= 3, ~ScomFaults
  PROVE  Spec => []FifoResponseMatches
<1>1. TypeOK /\ LoopInv /\ MsgInv => FifoResponseMatches
  BY MsgAnswers DEF FifoResponseMatches, ResponseTo
<1>2. Spec => [](TypeOK /\ LoopInv /\ MsgInv)
  BY MsgInvariant
<1> QED BY <1>1, <1>2, PTL

-----------------------------------------------------------------------------
(* The mailbox.                                                            *)

\* Who has the mailbox, from where the threads are.
PsuPlace ==
    /\ isSet("INTERRUPT", "PSU") => /\ ~isSet("RX", "PSU") /\ pc["rx"] # "psu_read"
                                    /\ ~(pc["rx"] = "mark" /\ rxCur = "PSU")
    /\ isSet("RX", "PSU") => pc["rx"] # "psu_read" /\ ~(pc["rx"] = "mark" /\ rxCur = "PSU")
    /\ pc["rx"] = "psu_read" => rxCur = "PSU"
    /\ (pc["rx"] = "post" /\ rxCur = "PSU") \/ pc["rx"] \in PsuResponding
          => isSet("RX", "PSU") /\ ~isSet("PROC", "PSU")
    /\ isSet("PROC", "PSU") => isSet("RX", "PSU")
    /\ pc["proc"] \in PsuResponding \cup {"exec_psu"} => isSet("PROC", "PSU")
    /\ pc["proc"] \notin PsuResponding \cup {"exec_psu", "respond"} => ~isSet("PROC", "PSU")

LEMMA PsuPlaced ==
  ASSUME TypeOK, LoopInv
  PROVE  PsuPlace
<1>0. "PSU" \in Served
  BY DEF Served
<1>1. /\ isSet("INTERRUPT", "PSU") => ~RxHolds("PSU") /\ ~isSet("RX", "PSU")
      /\ RxHolds("PSU") => ~isSet("RX", "PSU")
  BY <1>0 DEF LoopInv, PlaceInv
<1>2. RxKeeps("PSU") => isSet("RX", "PSU") /\ ~isSet("PROC", "PSU")
  BY <1>0 DEF LoopInv, RxInv
<1>3. isSet("PROC", "PSU") => isSet("RX", "PSU")
  BY DEF LoopInv, ProcInv, isSet
<1>4. /\ pc["proc"] \in PsuResponding \cup {"exec_psu"} => isSet("PROC", "PSU")
      /\ pc["proc"] \notin PsuResponding \cup {"exec_psu", "respond"} => ~isSet("PROC", "PSU")
  BY DEF LoopInv, ProcInv, isSet, PsuResponding, TypeOK, ProcPc, RespondPc
<1>5. pc["rx"] \in PsuResponding \cup {"psu_read"} => rxCur = "PSU"
  BY DEF LoopInv, RxInv, PsuResponding
<1> QED BY <1>1, <1>2, <1>3, <1>4, <1>5 DEF PsuPlace, RxHolds, RxKeeps, PsuResponding

\* Steps that leave the mailbox and who serves it.
LEMMA MailFrame ==
  ASSUME MailInv,
         UNCHANGED <<hostPc, hostCmd, psuDb, psuResp, psuHdr>>,
         PsuServed' => PsuServed,
         \A t \in Thread : Answers(t)' => Answers(t),
         isSet("INTERRUPT", "PSU")' \/ pc'["rx"] = "psu_read" => psuDb,
         pc'["proc"] = "exec_psu" => pc["proc"] = "exec_psu" /\ rc'["proc"] = rc["proc"]
  PROVE  MailInv'
<1>1. /\ MailState' <=> MailState
      /\ MailDue' <=> MailDue
  BY DEF MailState, MailDue
<1> QED BY <1>1 DEF MailInv

LEMMA MailControl ==
  ASSUME MailInv,
         UNCHANGED <<hostPc, hostCmd, psuDb, psuResp, psuHdr>>,
         isSet("RX", "PSU")' <=> isSet("RX", "PSU"),
         isSet("PROC", "PSU")' <=> isSet("PROC", "PSU"),
         isSet("INTERRUPT", "PSU")' \/ pc'["rx"] = "psu_read" => psuDb,
         \A t \in Thread :
            /\ pc'[t] # pc[t] => {pc[t], pc'[t]} \cap (PsuResponding \cup {"exec_psu"}) = {}
            /\ pc'[t] = pc[t] => rc'[t] = rc[t],
         "respond" \in {pc["proc"], pc'["proc"]} => pc["proc"] = pc'["proc"] \/ ~isSet("PROC", "PSU"),
         pc'["rx"] = "mark" /\ rxCur' = "PSU" => pc["rx"] = "mark" /\ rxCur = "PSU",
         pc["rx"] = "halt" => pc'["rx"] = "halt",
         pc["rx"] = "post" => pc'["rx"] \in {"post", "halt"} \/ rc["rx"] # "fault"
  PROVE  MailInv'
<1>0. "rx" \in Thread /\ "proc" \in Thread
  BY DEF Thread
<1>1. PsuServed' => PsuServed
  BY <1>0 DEF PsuServed, PsuResponding
<1>2. ASSUME NEW t \in Thread
      PROVE  Answers(t)' => Answers(t)
  BY <1>0, <1>2 DEF Answers, PsuResponding
<1>3. pc'["proc"] = "exec_psu" => pc["proc"] = "exec_psu" /\ rc'["proc"] = rc["proc"]
  BY <1>0
<1> QED BY <1>1, <1>2, <1>3, MailFrame

LEMMA MailIsr ==
  ASSUME TypeOK, LoopInv, MailInv, NEW i \in Interface, sbe_interrupt_handler(i)
  PROVE  MailInv'
<1>1. UNCHANGED <<hostPc, hostCmd, psuDb, psuResp, psuHdr, rc, rxCur>>
  BY DEF sbe_interrupt_handler, hdrVars, clientVars
<1>2. /\ isSet("RX", "PSU")' <=> isSet("RX", "PSU")
      /\ isSet("PROC", "PSU")' <=> isSet("PROC", "PSU")
      /\ isSet("INTERRUPT", "PSU")' <=> isSet("INTERRUPT", "PSU") \/ i = "PSU"
  BY DEF sbe_interrupt_handler, setIntrSource, isSet, TypeOK, Handler
<1>3. i = "PSU" => psuDb
  BY DEF sbe_interrupt_handler, Line
<1>4. /\ pc'["proc"] = pc["proc"]
      /\ pc'["rx"] = pc["rx"] \/ (pc["rx"] = "blocked" /\ pc'["rx"] = "decode")
  BY DEF sbe_interrupt_handler, PostWakes, Obtained, TypeOK, Thread
<1>5. isSet("INTERRUPT", "PSU")' \/ pc'["rx"] = "psu_read" => psuDb
  BY <1>2, <1>3, <1>4 DEF MailInv
<1> QED BY <1>1, <1>2, <1>4, <1>5, MailControl DEF PsuResponding, Thread

\* Steps of a thread that serve another interface or none.
LEMMA MailPend ==
  ASSUME TypeOK, LoopInv, MailInv, NEW t \in Thread, Pend(t)
  PROVE  MailInv'
<1>1. UNCHANGED <<hostPc, hostCmd, psuDb, psuResp, psuHdr, intrSource, rxCur>>
  BY DEF Pend, hwVars, hdrVars, clientVars
<1>2. /\ pc[t] = "pend" /\ pc'[t] \in {"blocked", Obtained(t)}
      /\ \A u \in Thread \ {t} : pc'[u] = pc[u] /\ rc'[u] = rc[u]
  BY DEF Pend, SemPend, At, Goto, Obtained, TypeOK, Thread
<1>3. isSet("INTERRUPT", "PSU")' \/ pc'["rx"] = "psu_read" => psuDb
  BY <1>1, <1>2 DEF MailInv, isSet, Obtained, Thread
<1> QED BY <1>1, <1>2, <1>3, MailControl DEF isSet, PsuResponding, Obtained, Thread

LEMMA MailOther ==
  ASSUME TypeOK, LoopInv, MailInv, NEW t \in Thread,
         \/ FifoFlush(t) \/ FifoSend(t) \/ FifoEot(t) \/ FifoRelease(t)
         \/ IrqEnable(t, "en_psu", "PSU", "pend")
         \/ IrqEnable(t, "en_data", "FIFO", "en_reset")
         \/ IrqEnable(t, "en_reset", "FIFO_RESET", "pend")
         \/ t = "proc" /\ IrqEnable("proc", "en_s0", "S0", "pend")
  PROVE  MailInv'
<1>1. UNCHANGED <<hostPc, hostCmd, psuDb, psuResp, psuHdr, rxCur, rc>>
  BY DEF FifoFlush, FifoSend, FifoEot, FifoRelease, FifoUnchanged, IrqEnable, hwVars, hdrVars,
         clientVars
<1>2. intrSource' = intrSource \/ intrSource' = clearAllHandlers("FIFO")
  BY DEF FifoFlush, FifoSend, FifoEot, FifoRelease, FifoUnchanged, IrqEnable
<1>3. /\ isSet("RX", "PSU")' <=> isSet("RX", "PSU")
      /\ isSet("PROC", "PSU")' <=> isSet("PROC", "PSU")
      /\ isSet("INTERRUPT", "PSU")' <=> isSet("INTERRUPT", "PSU")
  BY <1>2 DEF clearAllHandlers, isSet, Handler
<1>4. /\ pc[t] \in FifoResponding \cup {"en_psu", "en_data", "en_reset", "en_s0"}
      /\ \E l \in FifoResponding \cup {"en_data", "en_reset", "pend"} : pc' = [pc EXCEPT ![t] = l]
  <2> USE DEF FifoResponding, At, Goto
  <2>1. CASE FifoFlush(t)
    BY <2>1 DEF FifoFlush
  <2>2. CASE FifoSend(t) \/ FifoEot(t) \/ FifoRelease(t)
    BY <2>2 DEF FifoSend, FifoEot, FifoRelease
  <2>3. ASSUME NEW at, NEW i, NEW l, IrqEnable(t, at, i, l)
        PROVE  pc[t] = at /\ pc' = [pc EXCEPT ![t] = l]
    BY <2>3 DEF IrqEnable
  <2> QED BY <2>1, <2>2, <2>3
<1>5. /\ pc'[t] \in FifoResponding \cup {"en_data", "en_reset", "pend"}
      /\ \A u \in Thread \ {t} : pc'[u] = pc[u]
  BY <1>4 DEF TypeOK
<1>6. isSet("INTERRUPT", "PSU")' \/ pc'["rx"] = "psu_read" => psuDb
  BY <1>3, <1>5 DEF MailInv, FifoResponding, Thread
<1>7. \A u \in Thread :
        \/ {pc[u], pc'[u]} \cap {"exec_psu", "psu_resp", "psu_release", "respond", "mark",
                                 "post", "halt"} = {}
        \/ pc'[u] = pc[u]
  BY <1>4, <1>5 DEF FifoResponding
<1> QED BY <1>1, <1>3, <1>6, <1>7, MailControl DEF PsuResponding, Thread

\* The receiver looks at an interrupt or reads a FIFO header.
LEMMA MailDecode ==
  ASSUME TypeOK, LoopInv, MailInv,
         RxDecodePsu \/ RxDecodeFifo \/ RxDecodeS0 \/ RxFifoHeader
  PROVE  MailInv'
<1>0. "rx" \in Thread /\ "proc" \in Thread /\ "INTERRUPT" \in Handler
  BY DEF Thread, Handler
<1>1. UNCHANGED <<hostPc, hostCmd, psuDb, psuResp, psuHdr>>
  BY DEF RxDecodePsu, RxDecodeFifo, RxDecodeS0, RxFifoHeader, hwVars, hdrVars, clientVars
<1>2. /\ isSet("RX", "PSU")' <=> isSet("RX", "PSU")
      /\ isSet("PROC", "PSU")' <=> isSet("PROC", "PSU")
      /\ isSet("INTERRUPT", "PSU")' => isSet("INTERRUPT", "PSU")
  BY DEF RxDecodePsu, RxDecodeFifo, RxDecodeS0, RxFifoHeader, clearIntrSource, isSet, TypeOK,
         Handler
<1>3. /\ pc["rx"] \in {"decode", "fifo_hdr"}
      /\ \E l \in {"psu_read", "fifo_hdr", "mark"} : pc' = [pc EXCEPT !["rx"] = l]
  BY DEF RxDecodePsu, RxDecodeFifo, RxDecodeS0, RxFifoHeader, At, Goto
<1>4. rc' = rc \/ \E r : rc' = [rc EXCEPT !["rx"] = r]
  BY DEF RxDecodePsu, RxDecodeFifo, RxDecodeS0, RxFifoHeader
<1>5. /\ pc'["rx"] \in {"psu_read", "fifo_hdr", "mark"} /\ pc'["proc"] = pc["proc"]
      /\ rc'["proc"] = rc["proc"]
  BY <1>0, <1>3, <1>4 DEF TypeOK
<1>6. pc'["rx"] = "mark" => rxCur' # "PSU"
  <2>1. pc["rx"] = "fifo_hdr" => rxCur = "FIFO"
    BY FifoPlaced DEF FifoPlace
  <2> QED BY <1>0, <1>3, <2>1
          DEF RxDecodePsu, RxDecodeFifo, RxDecodeS0, RxFifoHeader, Goto, At, TypeOK
<1>7. pc'["rx"] = "psu_read" => isSet("INTERRUPT", "PSU")
  BY <1>0, <1>3 DEF RxDecodePsu, RxDecodeFifo, RxDecodeS0, RxFifoHeader, Goto, TypeOK
<1>8. isSet("INTERRUPT", "PSU")' \/ pc'["rx"] = "psu_read" => psuDb
  BY <1>2, <1>7 DEF MailInv
<1>9. pc'["rx"] # pc["rx"]
  BY <1>0, <1>3 DEF RxDecodePsu, RxDecodeFifo, RxDecodeS0, RxFifoHeader, Goto, At, TypeOK
<1> QED BY <1>1, <1>2, <1>3, <1>5, <1>6, <1>8, <1>9, MailControl DEF PsuResponding, Thread

\* The receiver reads a command and validates it.
LEMMA MailRead ==
  ASSUME TypeOK, LoopInv, MailInv, RxPsuRead
  PROVE  MailInv'
<1>0. "rx" \in Thread /\ "proc" \in Thread
  BY DEF Thread
<1>1. /\ UNCHANGED <<hostPc, hostCmd, psuResp, intrSource, rxCur>>
      /\ pc["rx"] = "psu_read" /\ pc'["rx"] = "mark" /\ pc'["proc"] = pc["proc"] /\ rxCur = "PSU"
      /\ \/ psuDb' = FALSE /\ psuHdr' = hostCmd
         \/ psuDb' \in {psuDb, FALSE} /\ psuHdr' = psuHdr /\ rc'["rx"] = "fault"
  BY <1>0, PsuPlaced DEF RxPsuRead, At, Goto, TypeOK, clientVars, PsuPlace
<1>2. /\ ~isSet("RX", "PSU") /\ ~isSet("PROC", "PSU") /\ ~isSet("INTERRUPT", "PSU")
      /\ pc["proc"] \notin PsuResponding \cup {"exec_psu"}
  BY <1>1, PsuPlaced DEF PsuPlace
<1>3. hostPc = "waiting" /\ psuResp = 0 /\ hostCmd # 0
  BY <1>1 DEF MailInv, MailState
<1>4. MailState'
  BY <1>1, <1>3, Zenon DEF MailState
<1>5. PsuServed' => MailDue'
  <2>1. PsuServed' => rc'["rx"] # "fault"
    BY <1>1, <1>2 DEF PsuServed, PsuResponding, isSet
  <2> QED BY <1>1, <1>3, <2>1 DEF MailDue
<1>6. \A t \in Thread : ~Answers(t)'
  BY <1>1, <1>2 DEF Answers, PsuResponding, Thread, isSet
<1> QED BY <1>1, <1>2, <1>3, <1>4, <1>5, <1>6 DEF MailInv, isSet, PsuResponding

LEMMA MailMark ==
  ASSUME TypeOK, LoopInv, MailInv, RxMark
  PROVE  MailInv'
<1>0. "rx" \in Thread /\ "proc" \in Thread /\ "RX" \in Handler
  BY DEF Thread, Handler
<1>1. /\ UNCHANGED <<hostPc, hostCmd, psuDb, psuResp, psuHdr, rxCur, rc>>
      /\ pc'["proc"] = pc["proc"] /\ pc["rx"] = "mark" /\ pc'["rx"] = "post"
  BY <1>0, FifoPlaced DEF RxMark, At, Goto, TypeOK, hwVars, hdrVars, clientVars, FifoPlace
<1>2. /\ isSet("RX", "PSU")' <=> isSet("RX", "PSU") \/ rxCur = "PSU"
      /\ isSet("PROC", "PSU")' <=> isSet("PROC", "PSU")
      /\ isSet("INTERRUPT", "PSU")' <=> isSet("INTERRUPT", "PSU")
  BY DEF RxMark, setIntrSource, isSet, TypeOK, Handler
<1>3. isSet("INTERRUPT", "PSU")' \/ pc'["rx"] = "psu_read" => psuDb
  BY <1>1, <1>2 DEF MailInv
<1>4. CASE rxCur # "PSU"
  BY <1>1, <1>2, <1>3, <1>4, MailControl DEF PsuResponding, Thread
<1>5. CASE rxCur = "PSU"
  <2>1. ~isSet("PROC", "PSU")
    BY <1>1, <1>5, PsuPlaced DEF PsuPlace
  <2>2. PsuServed' => PsuServed
    BY <1>1, <1>5 DEF PsuServed
  <2>3. \A t \in Thread : Answers(t)' => Answers(t)
    BY <1>1, <1>2 DEF Answers, Thread
  <2> QED BY <1>1, <1>3, <2>2, <2>3, MailFrame
<1> QED BY <1>4, <1>5

LEMMA MailPost ==
  ASSUME TypeOK, LoopInv, MailInv, RxPost
  PROVE  MailInv'
<1>0. "rx" \in Thread /\ "proc" \in Thread
  BY DEF Thread
<1>1. /\ UNCHANGED <<hostPc, hostCmd, psuDb, psuResp, psuHdr, rxCur, rc, intrSource>>
      /\ pc["rx"] = "post"
  BY DEF RxPost, At, hwVars, hdrVars, clientVars
<1>2. CASE rxCur = "PSU" /\ rc["rx"] = "fenced"
  <2>1. pc'["rx"] = "psu_resp" /\ pc'["proc"] = pc["proc"]
    BY <1>0, <1>2 DEF RxPost, Goto, TypeOK
  <2>2. /\ isSet("RX", "PSU") /\ ~isSet("PROC", "PSU") /\ ~isSet("INTERRUPT", "PSU")
        /\ pc["proc"] \notin PsuResponding \cup {"exec_psu"}
    BY <1>1, <1>2, PsuPlaced DEF PsuPlace
  <2>3. PsuServed
    BY <1>1, <1>2, <2>2 DEF PsuServed
  <2>4. MailDue' /\ MailState'
    BY <1>1, <2>3 DEF MailInv, MailDue, MailState
  <2> QED BY <1>0, <1>1, <2>1, <2>2, <2>4 DEF MailInv, isSet, PsuResponding
<1>3. CASE ~(rxCur = "PSU" /\ rc["rx"] = "fenced")
  <2>1. /\ pc'["rx"] \in {"pend", "halt", "flush"}
        /\ pc'["proc"] = pc["proc"] \/ (pc["proc"] = "blocked" /\ pc'["proc"] = "take")
        /\ pc'["rx"] = "halt" \/ rc["rx"] # "fault"
    BY <1>0, <1>3 DEF RxPost, Goto, PostWakes, Obtained, FifoRespondPc, TypeOK
  <2>2. isSet("INTERRUPT", "PSU")' \/ pc'["rx"] = "psu_read" => psuDb
    BY <1>1, <2>1 DEF MailInv, isSet
  <2> QED BY <1>1, <2>1, <2>2, MailControl DEF PsuResponding, Thread, isSet
<1> QED BY <1>2, <1>3

\* Only the thread that answers the command is at the mailbox response.
LEMMA OneAnswers ==
  ASSUME TypeOK, LoopInv, NEW t \in Thread, Runs(t), pc[t] \in PsuResponding
  PROVE  /\ \A u \in Thread \ {t} : pc[u] \notin PsuResponding \cup {"exec_psu"}
         /\ pc["proc"] = "respond" => ~isSet("PROC", "PSU")
         /\ isSet("RX", "PSU") /\ ~isSet("INTERRUPT", "PSU")
         /\ pc["rx"] # "psu_read" /\ ~(pc["rx"] = "mark" /\ rxCur = "PSU")
         /\ t = "proc" => isSet("PROC", "PSU")
<1>1. CASE t = "rx"
  BY <1>1, PsuPlaced DEF PsuPlace, PsuResponding, Thread
<1>2. CASE t = "proc"
  BY <1>2, PsuPlaced DEF PsuPlace, PsuResponding, Thread, Runs
<1> QED BY <1>1, <1>2 DEF Thread

\* sbeHandlePsuResponse answers a refused command, or fails to.
LEMMA MailAnswer ==
  ASSUME TypeOK, LoopInv, MailInv, NEW t \in Thread, PsuRespond(t)
  PROVE  MailInv'
<1>1. /\ UNCHANGED <<hostPc, hostCmd, psuDb, psuHdr, rxCur, rc, intrSource>>
      /\ Runs(t) /\ pc[t] = "psu_resp" /\ pc'[t] = "psu_release"
      /\ \A u \in Thread \ {t} : pc'[u] = pc[u]
      /\ psuResp' = psuResp \/ (rc[t] \in {"unsupported", "fenced"} /\ psuResp' = psuHdr)
  BY DEF PsuRespond, PsuRespondStep, At, Goto, hdrVars, clientVars, TypeOK
<1>2. /\ \A u \in Thread \ {t} : pc[u] \notin PsuResponding \cup {"exec_psu"}
      /\ pc["proc"] = "respond" => ~isSet("PROC", "PSU")
      /\ isSet("RX", "PSU") /\ ~isSet("INTERRUPT", "PSU")
      /\ pc["rx"] # "psu_read" /\ ~(pc["rx"] = "mark" /\ rxCur = "PSU")
      /\ t = "proc" => isSet("PROC", "PSU")
  BY <1>1, OneAnswers DEF PsuResponding
<1>3. rc[t] \in {"unsupported", "fenced"} => MailDue
  BY <1>1 DEF MailInv, Answers
<1>4. MailState'
  <2>1. CASE rc[t] \in {"unsupported", "fenced"} /\ psuResp' = psuHdr
    BY <1>1, <1>3, <2>1 DEF MailDue, MailState
  <2>2. CASE psuResp' = psuResp
    BY <1>1, <2>2 DEF MailInv, MailState
  <2> QED BY <1>1, <2>1, <2>2
<1>5. ~PsuServed' /\ \A u \in Thread : ~Answers(u)'
  BY <1>1, <1>2 DEF PsuServed, Answers, PsuResponding, isSet, Thread
<1> QED BY <1>1, <1>2, <1>4, <1>5 DEF MailInv, isSet, PsuResponding, Thread

LEMMA MailRelease ==
  ASSUME TypeOK, LoopInv, MailInv, NEW t \in Thread, PsuRelease(t)
  PROVE  MailInv'
<1>1. /\ UNCHANGED <<hostPc, hostCmd, psuDb, psuResp, psuHdr, rxCur, rc>>
      /\ Runs(t) /\ pc[t] = "psu_release" /\ pc'[t] = "en_psu"
      /\ \A u \in Thread \ {t} : pc'[u] = pc[u]
  BY DEF PsuRelease, At, Goto, hwVars, hdrVars, clientVars, TypeOK
<1>2. ~isSet("RX", "PSU")' /\ ~isSet("PROC", "PSU")' /\ ~isSet("INTERRUPT", "PSU")'
  BY DEF PsuRelease, clearAllHandlers, isSet, Handler
<1>3. /\ \A u \in Thread \ {t} : pc[u] \notin PsuResponding \cup {"exec_psu"}
      /\ pc["proc"] = "respond" => ~isSet("PROC", "PSU")
      /\ pc["rx"] # "psu_read" /\ ~(pc["rx"] = "mark" /\ rxCur = "PSU")
      /\ t = "proc" => isSet("PROC", "PSU")
  BY <1>1, OneAnswers DEF PsuResponding
<1>4. ~PsuServed /\ ~PsuServed'
  BY <1>1, <1>2, <1>3 DEF PsuServed, PsuResponding, Thread
<1>5. \A u \in Thread : ~Answers(u) /\ ~Answers(u)'
  BY <1>1, <1>2, <1>3 DEF Answers, PsuResponding, Thread
<1>6. pc'["rx"] # "psu_read" /\ pc'["proc"] # "exec_psu"
  BY <1>1, <1>3 DEF Thread
<1> QED BY <1>1, <1>2, <1>4, <1>5, <1>6, MailFrame

\* The processor takes what the receiver marked.
LEMMA MailTake ==
  ASSUME TypeOK, LoopInv, MailInv, NEW k \in 1 .. 3, NEW r \in Status, NEW l, Take(k, r, l),
         <<TakeOrder[k], r, l>> \in
            {<<"PSU", psuSts, "exec_psu">>, <<"FIFO", fifoSts, "exec_fifo">>, <<"S0", "ok", "s0">>}
  PROVE  MailInv'
<1>0. "rx" \in Thread /\ "proc" \in Thread /\ "PROC" \in Handler
  BY DEF Thread, Handler
<1>1. /\ UNCHANGED <<hostPc, hostCmd, psuDb, psuResp, psuHdr, rxCur>>
      /\ rc'["rx"] = rc["rx"] /\ rc'["proc"] = r
      /\ pc["proc"] = "take" /\ pc["rx"] = "blocked" /\ pc'["rx"] = "blocked"
      /\ pc'["proc"] = IF r = "ok" THEN l ELSE "respond"
      /\ isSet("RX", TakeOrder[k])
  BY <1>0 DEF Take, At, Runs, Goto, TypeOK, hwVars, hdrVars, clientVars
<1>2. /\ isSet("RX", "PSU")' <=> isSet("RX", "PSU")
      /\ isSet("INTERRUPT", "PSU")' <=> isSet("INTERRUPT", "PSU")
      /\ isSet("PROC", "PSU")' <=> isSet("PROC", "PSU") \/ TakeOrder[k] = "PSU"
  BY DEF Take, setIntrSource, isSet, TypeOK, Handler
<1>3. ~isSet("PROC", "PSU")
  BY <1>1, PsuPlaced DEF PsuPlace, PsuResponding
<1>4. isSet("INTERRUPT", "PSU")' \/ pc'["rx"] = "psu_read" => psuDb
  BY <1>1, <1>2 DEF MailInv
<1>5. CASE TakeOrder[k] # "PSU"
  <2>1. l \in {"exec_fifo", "s0"}
    BY <1>5
  <2> QED BY <1>1, <1>2, <1>3, <1>4, <1>5, <2>1, MailControl DEF PsuResponding, Thread
<1>6. CASE TakeOrder[k] = "PSU"
  <2>1. r = psuSts /\ l = "exec_psu"
    BY <1>6
  <2>2. PsuServed /\ MailDue
    BY <1>1, <1>3, <1>6 DEF PsuServed, MailInv
  <2>3. MailDue' /\ MailState' /\ hostCmd' # 0
    BY <1>1, <2>2 DEF MailDue, MailState, MailInv
  <2> QED BY <1>0, <1>1, <1>4, <2>1, <2>3 DEF MailInv
<1> QED BY <1>5, <1>6

\* The chip-op answers by itself, or fails.
LEMMA MailExec ==
  ASSUME TypeOK, LoopInv, MailInv, ProcExecPsu
  PROVE  MailInv'
<1>0. "rx" \in Thread /\ "proc" \in Thread
  BY DEF Thread
<1>1. /\ UNCHANGED <<hostPc, hostCmd, psuDb, psuHdr, rxCur, intrSource>>
      /\ pc["proc"] = "exec_psu" /\ pc'["proc"] = "respond"
      /\ pc["rx"] = "blocked" /\ pc'["rx"] = "blocked"
      /\ \/ psuResp' = psuHdr /\ rc' = rc
         \/ psuResp' = psuResp /\ rc'["proc"] = "fault"
  BY <1>0 DEF ProcExecPsu, At, Runs, Goto, TypeOK, hdrVars, clientVars
<1>2. isSet("PROC", "PSU") /\ isSet("RX", "PSU") /\ ~isSet("INTERRUPT", "PSU")
  BY <1>1, PsuPlaced DEF PsuPlace
<1>3. MailDue /\ rc["proc"] = "ok" /\ hostCmd # 0
  BY <1>1 DEF MailInv, PsuServed, MailDue
<1>4. MailState'
  BY <1>1, <1>3 DEF MailDue, MailState
<1>5. ~PsuServed' /\ \A t \in Thread : ~Answers(t)'
  BY <1>1, <1>2, <1>3 DEF PsuServed, Answers, isSet, Thread
<1> QED BY <1>1, <1>2, <1>3, <1>4, <1>5 DEF MailInv, isSet

\* The other steps of the processor.
LEMMA MailProc ==
  ASSUME TypeOK, LoopInv, MailInv,
         ProcBoot \/ ProcTakeNone \/ ProcExecFifo \/ ProcReply \/ sbeHandleS0 \/ ProcRespond
  PROVE  MailInv'
<1>0. "rx" \in Thread /\ "proc" \in Thread
  BY DEF Thread
<1>1. /\ UNCHANGED <<hostPc, hostCmd, psuDb, psuResp, psuHdr, rxCur>>
      /\ intrSource' = intrSource \/ intrSource' = clearAllHandlers("S0")
      /\ pc["rx"] = "blocked"
  BY DEF ProcBoot, ProcTakeNone, ProcExecFifo, ProcReply, sbeHandleS0, ProcRespond, FifoUnchanged,
         At, Runs, hwVars, hdrVars, clientVars
<1>2. /\ isSet("RX", "PSU")' <=> isSet("RX", "PSU")
      /\ isSet("PROC", "PSU")' <=> isSet("PROC", "PSU")
      /\ isSet("INTERRUPT", "PSU")' <=> isSet("INTERRUPT", "PSU")
  BY <1>1 DEF clearAllHandlers, isSet, Handler
<1>3. pc' = pc \/ \E l : pc' = [pc EXCEPT !["proc"] = l]
  BY DEF ProcBoot, ProcTakeNone, ProcExecFifo, ProcReply, sbeHandleS0, ProcRespond, Goto
<1>4. rc' = rc \/ \E r : rc' = [rc EXCEPT !["proc"] = r]
  BY DEF ProcBoot, ProcTakeNone, ProcExecFifo, ProcReply, sbeHandleS0, ProcRespond
<1>5. pc'["rx"] = "blocked" /\ rc'["rx"] = rc["rx"]
  BY <1>0, <1>1, <1>3, <1>4 DEF TypeOK
<1>6. isSet("INTERRUPT", "PSU")' \/ pc'["rx"] = "psu_read" => psuDb
  BY <1>2, <1>5 DEF MailInv
<1>7. CASE ProcRespond /\ isSet("PROC", "PSU")
  <2>1. /\ pc["proc"] = "respond" /\ pc'["proc"] = "psu_resp" /\ rc' = rc
    BY <1>0, <1>7 DEF ProcRespond, At, Goto, TypeOK
  <2>2. PsuServed' <=> PsuServed
    BY <1>1, <1>2, <1>5, <2>1 DEF PsuServed
  <2>3. \A t \in Thread : Answers(t)' => Answers(t)
    BY <1>1, <1>5, <1>7, <2>1 DEF Answers, Thread
  <2> QED BY <1>1, <1>6, <2>1, <2>2, <2>3, MailFrame
<1>8. CASE ~(ProcRespond /\ isSet("PROC", "PSU"))
  <2>1. ~isSet("PROC", "PSU") /\ pc["proc"] \notin PsuResponding \cup {"exec_psu"}
    <3>1. pc["proc"] \in {"boot", "take", "exec_fifo", "reply", "s0", "respond"}
      BY DEF ProcBoot, ProcTakeNone, ProcExecFifo, ProcReply, sbeHandleS0, ProcRespond, At
    <3>2. pc["proc"] = "respond" => ProcRespond
      BY <1>0 DEF ProcBoot, ProcTakeNone, ProcExecFifo, ProcReply, sbeHandleS0, At
    <3> QED BY <1>8, <3>1, <3>2, PsuPlaced DEF PsuPlace, PsuResponding
  <2>2. pc'["proc"] \in {pc["proc"], "pend", "reply", "respond", "en_s0", "flush", "send", "eot",
                         "fifo_release"}
    <3>1. CASE ProcExecFifo
      BY <1>0, <3>1 DEF ProcExecFifo, Goto, TypeOK
    <3>2. CASE ProcBoot \/ ProcTakeNone \/ ProcReply \/ sbeHandleS0
      BY <1>0, <3>2 DEF ProcBoot, ProcTakeNone, ProcReply, sbeHandleS0, Goto, TypeOK
    <3>3. CASE ProcRespond
      BY <1>0, <2>1, <3>3 DEF ProcRespond, FifoRespondPc, Goto, TypeOK
    <3> QED BY <3>1, <3>2, <3>3
  <2>3. ~PsuServed' <=> ~PsuServed
    BY <1>1, <1>2, <1>5, <2>1, <2>2 DEF PsuServed, PsuResponding
  <2>4. \A t \in Thread : ~Answers(t) /\ ~Answers(t)'
    BY <1>1, <1>2, <1>5, <2>1, <2>2 DEF Answers, PsuResponding, Thread
  <2> QED BY <1>1, <1>6, <2>1, <2>2, <2>3, <2>4, MailFrame
<1> QED BY <1>7, <1>8

LEMMA MailClients ==
  ASSUME TypeOK, LoopInv, MailInv, Clients
  PROVE  MailInv'
<1>1. UNCHANGED <<psuHdr, pc, rc, rxCur, intrSource>>
  BY DEF Clients, SpSendHeader, SpSendShort, SpSend, SpSendEot, SpReadResponse, SpRequestReset,
         SpResetDone, HostSend, HostGetResponse, S0Raise, fwVars, hdrVars
<1>2. /\ PsuServed' <=> PsuServed
      /\ \A t \in Thread : Answers(t)' <=> Answers(t)
  BY <1>1 DEF PsuServed, Answers, isSet
<1>3. CASE HostSend
  <2>1. /\ hostPc = "idle" /\ hostPc' = "waiting" /\ psuDb' /\ psuResp' = psuResp
        /\ hostCmd' # 0
    BY <1>3 DEF HostSend, TypeOK
  <2>2. ~MailDue
    BY <2>1 DEF MailDue
  <2>3. MailState => MailState'
    BY <2>1 DEF MailState
  <2> QED BY <1>1, <1>2, <2>1, <2>2, <2>3 DEF MailInv, isSet
<1>4. CASE HostGetResponse
  <2>1. /\ hostPc = "waiting" /\ hostPc' = "idle" /\ psuDb' = psuDb /\ psuResp # 0 /\ psuResp' = 0
    BY <1>4 DEF HostGetResponse
  <2>2. ~MailDue
    BY <2>1 DEF MailDue
  <2>3. MailState => MailState'
    BY <2>1 DEF MailState
  <2> QED BY <1>1, <1>2, <2>1, <2>2, <2>3 DEF MailInv, isSet
<1>5. CASE ~HostSend /\ ~HostGetResponse
  <2>1. UNCHANGED <<hostPc, hostCmd, psuDb, psuResp>>
    BY <1>5 DEF Clients, SpSendHeader, SpSendShort, SpSend, SpSendEot, SpReadResponse,
       SpRequestReset, SpResetDone, S0Raise
  <2>2. isSet("INTERRUPT", "PSU")' \/ pc'["rx"] = "psu_read" => psuDb
    BY <1>1 DEF MailInv, isSet
  <2> QED BY <1>1, <1>2, <2>1, <2>2, MailFrame
<1> QED BY <1>3, <1>4, <1>5

\* Every step of the control loop keeps the mailbox in order.
LEMMA MailStep ==
  ASSUME TypeOK, LoopInv, MailInv, [Next]_vars
  PROVE  MailInv'
<1>1. CASE UNCHANGED vars
  <2>1. UNCHANGED <<hostPc, hostCmd, psuDb, psuResp, psuHdr, pc, rc, rxCur, intrSource>>
    BY <1>1 DEF vars, hwVars, hdrVars, clientVars
  <2>2. isSet("INTERRUPT", "PSU")' \/ pc'["rx"] = "psu_read" => psuDb
    BY <2>1 DEF MailInv, isSet
  <2>3. /\ PsuServed' <=> PsuServed
        /\ \A t \in Thread : Answers(t)' <=> Answers(t)
    BY <2>1 DEF PsuServed, Answers, isSet
  <2> QED BY <2>1, <2>2, <2>3, MailFrame
<1>2. ASSUME NEW t \in Thread, Respond(t) PROVE MailInv'
  BY <1>2, MailOther, MailAnswer, MailRelease DEF Respond
<1>3. CASE sbeCommandReceiver_routine
  <2>1. ~RxReset /\ ~RxResetClear
    BY FifoPlaced DEF FifoPlace, RxReset, RxResetClear, At
  <2> QED BY <1>2, <1>3, <2>1, AlwaysDecodes, MailPend, MailDecode, MailRead, MailMark, MailPost
          DEF sbeCommandReceiver_routine, Thread
<1>4. CASE sbeSyncCommandProcessor_routine
  <2>1. ASSUME Take(1, psuSts, "exec_psu") \/ Take(2, fifoSts, "exec_fifo") \/ Take(3, "ok", "s0")
        PROVE  MailInv'
    <3>1. psuSts \in Status /\ fifoSts \in Status /\ "ok" \in Status
      BY DEF TypeOK, Verdict, Status
    <3>2. TakeOrder[1] = "PSU" /\ TakeOrder[2] = "FIFO" /\ TakeOrder[3] = "S0"
      BY DEF TakeOrder
    <3>3. {1, 2, 3} \subseteq 1 .. 3
      OBVIOUS
    <3>4. CASE Take(1, psuSts, "exec_psu")
      BY <3>1, <3>2, <3>3, <3>4, MailTake
    <3>5. CASE Take(2, fifoSts, "exec_fifo")
      BY <3>1, <3>2, <3>3, <3>5, MailTake
    <3>6. CASE Take(3, "ok", "s0")
      BY <3>1, <3>2, <3>3, <3>6, MailTake
    <3> QED BY <2>1, <3>4, <3>5, <3>6
  <2>2. IrqEnable("proc", "en_s0", "S0", "pend") => MailInv'
    BY MailOther DEF Thread
  <2> QED BY <1>2, <1>4, <2>1, <2>2, MailPend, MailExec, MailProc
          DEF sbeSyncCommandProcessor_routine, Thread
<1> QED BY <1>1, <1>3, <1>4, MailIsr, MailClients DEF Next, Quiescent

LEMMA MailInvariant ==
  ASSUME MaxResets = 0, MAX_SEMAPHORE_COUNT >= 3
  PROVE  Spec => [](TypeOK /\ LoopInv /\ MailInv)
<1>1. Init => MailInv
  BY DEF Init, MailInv, MailState, PsuServed, Answers, isSet, Thread, Handler
<1>2. TypeOK /\ LoopInv /\ MailInv /\ [Next]_vars => MailInv'
  BY MailStep
<1>3. Spec => [](TypeOK /\ LoopInv)
  BY LoopInvariant
<1> QED BY <1>1, <1>2, <1>3, PTL DEF Spec

\* Without FIFO resets, and whatever mailbox or FIFO register access fails, what
\* is in the SBE-to-PSU mailbox is the answer to the command the host waits for,
\* whether the receiver refused it, the processor did, or the chip-op answered by
\* itself; a fault may cost an answer and never puts in the wrong one.
THEOREM MailboxAnswersMatch ==
  ASSUME MaxResets = 0, MAX_SEMAPHORE_COUNT >= 3
  PROVE  Spec => []PsuResponseMatches
<1>1. TypeOK /\ LoopInv /\ MailInv => PsuResponseMatches
  BY DEF PsuResponseMatches, MailInv, MailState
<1>2. Spec => [](TypeOK /\ LoopInv /\ MailInv)
  BY MailInvariant
<1> QED BY <1>1, <1>2, PTL

-----------------------------------------------------------------------------
(* The control loop is a safe service.                                     *)

\* What the service sees of each client.
SpPhase  == IF spPc = "idle" THEN "idle" ELSE IF SpAnswered THEN "answered" ELSE "pending"
SpAnswer == IF SpAnswered THEN downFifo[Len(downFifo)][2] ELSE 0
HostPhase == IF hostPc = "idle" THEN "idle" ELSE IF psuResp # 0 THEN "answered" ELSE "pending"

SpView   == <<SpPhase, spCmd, SpAnswer>>
HostView == <<HostPhase, hostCmd, psuResp>>

\* A view moves as the service lets a client move: x, then y.
ViewAsk(x, y)     == x[1] = "idle"     /\ y = <<"pending", x[2] + 1, x[3]>>
ViewAnswer(x, y)  == x[1] = "pending"  /\ y = <<"answered", x[2], x[2]>>
ViewCollect(x, y) == x[1] = "answered" /\ y = <<"idle", x[2], 0>>
ViewMoves(x, y)   == ViewAsk(x, y) \/ ViewAnswer(x, y) \/ ViewCollect(x, y)

LEMMA SpMoves ==
  ASSUME ViewMoves(SpView, SpView'), HostView' = HostView
  PROVE  Service!Next
<1> USE DEF SpView, HostView
<1>1. CASE ViewAsk(SpView, SpView')
  <2>1. Service!Ask("sp")
    BY <1>1 DEF Service!Ask, ViewAsk, SpPhase, SpAnswer, HostPhase
  <2> QED BY <2>1 DEF Service!Next
<1>2. CASE ViewAnswer(SpView, SpView')
  <2>1. Service!Answer("sp")
    BY <1>2 DEF Service!Answer, ViewAnswer, SpPhase, SpAnswer, HostPhase
  <2> QED BY <2>1 DEF Service!Next
<1>3. CASE ViewCollect(SpView, SpView')
  <2>1. Service!Collect("sp")
    BY <1>3 DEF Service!Collect, ViewCollect, SpPhase, SpAnswer, HostPhase
  <2> QED BY <2>1 DEF Service!Next
<1> QED BY <1>1, <1>2, <1>3 DEF ViewMoves

LEMMA HostMoves ==
  ASSUME ViewMoves(HostView, HostView'), SpView' = SpView
  PROVE  Service!Next
<1> USE DEF SpView, HostView
<1>1. CASE ViewAsk(HostView, HostView')
  <2>1. Service!Ask("host")
    BY <1>1 DEF Service!Ask, ViewAsk, SpPhase, SpAnswer, HostPhase
  <2> QED BY <2>1 DEF Service!Next
<1>2. CASE ViewAnswer(HostView, HostView')
  <2>1. Service!Answer("host")
    BY <1>2 DEF Service!Answer, ViewAnswer, SpPhase, SpAnswer, HostPhase
  <2> QED BY <2>1 DEF Service!Next
<1>3. CASE ViewCollect(HostView, HostView')
  <2>1. Service!Collect("host")
    BY <1>3 DEF Service!Collect, ViewCollect, SpPhase, SpAnswer, HostPhase
  <2> QED BY <2>1 DEF Service!Next
<1> QED BY <1>1, <1>2, <1>3 DEF ViewMoves

LEMMA NobodyMoves ==
  ASSUME SpView' = SpView, HostView' = HostView
  PROVE  UNCHANGED Service!vars
BY DEF Service!vars, SpView, HostView, SpPhase, SpAnswer, HostPhase

\* The SP has its answer when the downstream FIFO holds the whole response.
LEMMA SpSees ==
  ASSUME NEW p, NEW c, NEW d, ResponseTo(p, c, d)
  PROVE  /\ d # <<>> /\ d[Len(d)][1] = "eot" <=> Len(d) = 2
         /\ Len(d) \in {0, 1, 2}
         /\ Len(d) # 0 => p = "waiting"
         /\ Len(d) = 2 => d[Len(d)][2] = c
<1>1. CASE d = <<>>
  BY <1>1
<1>2. CASE p = "waiting" /\ d = << <<"hdr", c>> >>
  BY <1>2
<1>3. CASE p = "waiting" /\ d = << <<"hdr", c>>, <<"eot", c>> >>
  <2>1. Len(d) = 2 /\ d[2] = <<"eot", c>> /\ d # <<>>
    BY <1>3
  <2> QED BY <1>3, <2>1
<1> QED BY <1>1, <1>2, <1>3 DEF ResponseTo

\* What a step of the firmware does to what the clients see: one more word in the
\* downstream FIFO or one answer in the mailbox, never both.
FirmwareShows ==
    /\ UNCHANGED <<spPc, spCmd, hostPc, hostCmd>>
    /\ \/ downFifo' = downFifo
       \/ psuResp' = psuResp /\ \E x \in Token : downFifo' = Append(downFifo, x)
    /\ psuResp' = psuResp \/ (MailDue /\ psuResp' = psuHdr)

LEMMA FirmwareStep ==
  ASSUME TypeOK, LoopInv, MailInv,
         \/ \E i \in Interface : sbe_interrupt_handler(i)
         \/ sbeCommandReceiver_routine
         \/ sbeSyncCommandProcessor_routine
  PROVE  FirmwareShows
<1> USE DEF FirmwareShows, hwVars, clientVars
<1>0. <<"hdr", fifoHdr>> \in Token /\ <<"eot", fifoHdr>> \in Token
  BY DEF TypeOK, Token
<1>1. CASE \E i \in Interface : sbe_interrupt_handler(i)
  BY <1>1 DEF sbe_interrupt_handler
<1>2. ASSUME NEW t \in Thread, Respond(t) PROVE FirmwareShows
  <2>1. CASE PsuRespond(t)
    <3>1. rc[t] \in {"unsupported", "fenced"} => MailDue
      BY <2>1 DEF PsuRespond, PsuRespondStep, At, MailInv, Answers
    <3> QED BY <2>1, <3>1 DEF PsuRespond, PsuRespondStep
  <2>2. CASE PsuRelease(t) \/ FifoRelease(t)
    BY <2>2 DEF PsuRelease, FifoRelease
  <2>3. ASSUME NEW at, NEW i, NEW l, IrqEnable(t, at, i, l) PROVE FirmwareShows
    BY <2>3 DEF IrqEnable
  <2>4. CASE FifoFlush(t)
    BY <2>4 DEF FifoFlush, FifoUnchanged
  <2>5. CASE FifoSend(t)
    BY <1>0, <2>5 DEF FifoSend, FifoUnchanged
  <2>6. CASE FifoEot(t)
    BY <1>0, <2>6 DEF FifoEot, FifoUnchanged
  <2> QED BY <1>2, <2>1, <2>2, <2>3, <2>4, <2>5, <2>6 DEF Respond
<1>3. ASSUME NEW t \in Thread, Pend(t) PROVE FirmwareShows
  BY <1>3 DEF Pend
<1>4. CASE sbeCommandReceiver_routine
  <2>1. ~RxReset /\ ~RxResetClear
    BY FifoPlaced DEF FifoPlace, RxReset, RxResetClear, At
  <2>2. CASE RxDecodeReset \/ RxDecodePsu \/ RxDecodeFifo \/ RxDecodeS0 \/ RxDecodeNone
    BY <2>2 DEF RxDecodeReset, RxDecodePsu, RxDecodeFifo, RxDecodeS0, RxDecodeNone
  <2>3. CASE RxPsuRead \/ RxFifoHeader \/ RxMark \/ RxPost
    BY <2>3 DEF RxPsuRead, RxFifoHeader, RxMark, RxPost
  <2> QED BY <1>2, <1>3, <1>4, <2>1, <2>2, <2>3 DEF sbeCommandReceiver_routine, Thread
<1>5. CASE sbeSyncCommandProcessor_routine
  <2>1. ASSUME NEW k, NEW r, NEW l, Take(k, r, l) PROVE FirmwareShows
    BY <2>1 DEF Take
  <2>2. CASE ProcBoot \/ ProcTakeNone \/ sbeHandleS0 \/ ProcRespond
    BY <2>2 DEF ProcBoot, ProcTakeNone, sbeHandleS0, ProcRespond
  <2>3. CASE ProcExecPsu
    <3>1. MailDue
      BY <2>3 DEF ProcExecPsu, At, MailInv, PsuServed
    <3> QED BY <2>3, <3>1 DEF ProcExecPsu
  <2>4. CASE ProcExecFifo
    BY <2>4 DEF ProcExecFifo, FifoUnchanged
  <2>5. CASE ProcReply
    BY <1>0, <2>5 DEF ProcReply, FifoUnchanged
  <2>6. CASE IrqEnable("proc", "en_s0", "S0", "pend")
    BY <2>6 DEF IrqEnable
  <2> QED BY <1>2, <1>3, <1>5, <2>1, <2>2, <2>3, <2>4, <2>5, <2>6
          DEF sbeSyncCommandProcessor_routine, Thread
<1> QED BY <1>1, <1>4, <1>5

\* A word more completes the SP's response, or the SP does not see it.
LEMMA SpShown ==
  ASSUME TypeOK, FirmwareShows, ResponseTo(spPc, spCmd, downFifo),
         ResponseTo(spPc', spCmd', downFifo')
  PROVE  \/ SpView' = SpView
         \/ ViewAnswer(SpView, SpView') /\ psuResp' = psuResp
<1>1. spPc' = spPc /\ spCmd' = spCmd
  BY DEF FirmwareShows
<1>2. CASE downFifo' = downFifo
  BY <1>1, <1>2 DEF SpView, SpPhase, SpAnswer, SpAnswered
<1>3. CASE psuResp' = psuResp /\ \E x \in Token : downFifo' = Append(downFifo, x)
  <2>1. Len(downFifo') = Len(downFifo) + 1
    BY <1>3, AppendProperties DEF TypeOK
  <2>2. Len(downFifo) \in {0, 1, 2} /\ Len(downFifo') \in {0, 1, 2}
    BY SpSees
  <2>3. ~SpAnswered
    BY <2>1, <2>2, SpSees DEF SpAnswered
  <2>4. spPc = "waiting" /\ (SpAnswered' <=> Len(downFifo') = 2)
    BY <1>1, <2>1, <2>2, SpSees DEF SpAnswered
  <2>5. SpAnswer = 0 /\ SpAnswer' = IF SpAnswered' THEN spCmd ELSE 0
    BY <1>1, <2>3, <2>4, SpSees DEF SpAnswer
  <2> QED BY <1>1, <1>3, <2>3, <2>4, <2>5 DEF SpView, SpPhase, ViewAnswer
<1> QED BY <1>2, <1>3 DEF FirmwareShows

LEMMA HostShown ==
  ASSUME MailInv, FirmwareShows
  PROVE  \/ HostView' = HostView
         \/ ViewAnswer(HostView, HostView') /\ psuResp' # psuResp
<1>1. CASE psuResp' = psuResp
  BY <1>1 DEF FirmwareShows, HostView, HostPhase
<1>2. CASE psuResp' # psuResp /\ MailDue /\ psuResp' = psuHdr
  <2>1. /\ hostPc = "waiting" /\ psuResp = 0 /\ psuResp' = hostCmd /\ hostCmd # 0
        /\ hostPc' = hostPc /\ hostCmd' = hostCmd
    BY <1>2 DEF MailInv, MailDue, FirmwareShows
  <2> QED BY <1>2, <2>1 DEF HostView, HostPhase, ViewAnswer
<1> QED BY <1>1, <1>2 DEF FirmwareShows

LEMMA ClientsShow ==
  ASSUME MaxResets = 0, TypeOK, LoopInv, MsgInv, MailInv, Clients
  PROVE  Service!Next \/ UNCHANGED Service!vars
<1>1. ResponseTo(spPc, spCmd, downFifo)
  BY MsgAnswers
<1>2. ~SpRequestReset /\ ~SpResetDone
  <2>1. spPc # "resetting"
    BY ServedIsOpen DEF MsgInv, Unread, EotDue, AllRead, HdrSent
  <2> QED BY <2>1 DEF SpRequestReset, SpResetDone, LoopInv, NoResetInv
<1>3. ASSUME NEW k, NEW l \in {"open", "waiting"}, SpSend(k, l) PROVE Service!Next
  <2>1. /\ spPc = "idle" /\ spPc' = l /\ spCmd' = spCmd + 1 /\ downFifo' = downFifo
        /\ UNCHANGED <<hostPc, hostCmd, psuResp>>
    BY <1>3 DEF SpSend
  <2>2. downFifo = <<>>
    BY <1>1, <2>1 DEF ResponseTo
  <2>3. ~SpAnswered /\ ~SpAnswered' /\ HostView' = HostView
    BY <2>1, <2>2 DEF SpAnswered, HostView, HostPhase
  <2>4. ViewAsk(SpView, SpView')
    BY <2>1, <2>3 DEF ViewAsk, SpView, SpPhase, SpAnswer
  <2> QED BY <2>3, <2>4, SpMoves DEF ViewMoves
<1>4. CASE SpSendEot
  <2>1. /\ spPc = "open" /\ spPc' = "waiting" /\ UNCHANGED <<spCmd, downFifo, hostPc, hostCmd, psuResp>>
    BY <1>4 DEF SpSendEot
  <2>2. downFifo = <<>>
    BY <1>1, <2>1 DEF ResponseTo
  <2>3. SpView' = SpView /\ HostView' = HostView
    BY <2>1, <2>2 DEF SpView, SpPhase, SpAnswer, SpAnswered, HostView, HostPhase
  <2> QED BY <2>3, NobodyMoves
<1>5. CASE SpReadResponse
  <2>1. /\ SpAnswered /\ spPc' = "idle" /\ downFifo' = <<>>
        /\ UNCHANGED <<spCmd, hostPc, hostCmd, psuResp>>
    BY <1>5 DEF SpReadResponse, SpAnswered
  <2>2. HostView' = HostView /\ ~SpAnswered' /\ spPc = "waiting"
    BY <2>1 DEF HostView, HostPhase, SpAnswered
  <2>3. ViewCollect(SpView, SpView')
    BY <2>1, <2>2 DEF ViewCollect, SpView, SpPhase, SpAnswer
  <2> QED BY <2>2, <2>3, SpMoves DEF ViewMoves
<1>6. CASE HostSend \/ HostGetResponse \/ S0Raise
  <2>1. UNCHANGED <<spPc, spCmd, downFifo>>
    BY <1>6 DEF HostSend, HostGetResponse, S0Raise
  <2>2. SpView' = SpView
    BY <2>1 DEF SpView, SpPhase, SpAnswer, SpAnswered
  <2>3. CASE HostSend
    <3>1. hostPc = "idle" /\ hostPc' = "waiting" /\ hostCmd' = hostCmd + 1 /\ psuResp' = psuResp
      BY <2>3 DEF HostSend
    <3>2. psuResp = 0
      BY <3>1 DEF MailInv, MailState
    <3>3. ViewAsk(HostView, HostView')
      BY <3>1, <3>2 DEF ViewAsk, HostView, HostPhase
    <3> QED BY <2>2, <3>3, HostMoves DEF ViewMoves
  <2>4. CASE HostGetResponse
    <3>1. /\ hostPc = "waiting" /\ hostPc' = "idle" /\ hostCmd' = hostCmd
          /\ psuResp # 0 /\ psuResp' = 0
      BY <2>4 DEF HostGetResponse
    <3>2. ViewCollect(HostView, HostView')
      BY <3>1 DEF ViewCollect, HostView, HostPhase
    <3> QED BY <2>2, <3>2, HostMoves DEF ViewMoves
  <2>5. CASE S0Raise
    BY <2>2, <2>5, NobodyMoves DEF S0Raise, HostView, HostPhase
  <2> QED BY <1>6, <2>3, <2>4, <2>5
<1> QED BY <1>2, <1>3, <1>4, <1>5, <1>6 DEF Clients, SpSendHeader, SpSendShort

\* Without FIFO resets and register faults the control loop implements the safety
\* of ChipOpService: whichever thread answers, and however the interrupts of the
\* interfaces interleave, a client that asks for a chip-op gets at most one answer,
\* to what it asked, and none it did not ask for; one step answers one client.
THEOREM SafeService ==
  ASSUME MaxResets = 0, MAX_SEMAPHORE_COUNT >= 3, ~ScomFaults
  PROVE  Spec => Service!Safe
<1> DEFINE Inv == TypeOK /\ LoopInv /\ MsgInv /\ MailInv /\ ResponseTo(spPc, spCmd, downFifo)
<1>1. Init => Service!Init
  <2> SUFFICES ASSUME Init PROVE Service!Init
    OBVIOUS
  <2>1. ~SpAnswered
    BY DEF Init, SpAnswered
  <2> QED BY <2>1 DEF Init, Service!Init
<1>2. Inv /\ Inv' /\ [Next]_vars => [Service!Next]_Service!vars
  <2> SUFFICES ASSUME Inv, Inv', [Next]_vars PROVE Service!Next \/ UNCHANGED Service!vars
    OBVIOUS
  <2>1. CASE UNCHANGED vars
    BY <2>1, NobodyMoves DEF vars, hwVars, clientVars, SpView, HostView, SpPhase, SpAnswer,
       SpAnswered, HostPhase
  <2>2. CASE Clients
    BY <2>2, ClientsShow
  <2>3. CASE \/ \E i \in Interface : sbe_interrupt_handler(i)
             \/ sbeCommandReceiver_routine
             \/ sbeSyncCommandProcessor_routine
    <3>1. FirmwareShows
      BY <2>3, FirmwareStep
    <3>2. SpView' = SpView \/ (ViewAnswer(SpView, SpView') /\ psuResp' = psuResp)
      BY <3>1, SpShown
    <3>3. HostView' = HostView \/ (ViewAnswer(HostView, HostView') /\ psuResp' # psuResp)
      BY <3>1, HostShown
    <3> QED BY <3>2, <3>3, SpMoves, HostMoves, NobodyMoves DEF ViewMoves
  <2> QED BY <2>1, <2>2, <2>3 DEF Next, Quiescent
<1>3. Inv <=> TypeOK /\ LoopInv /\ MsgInv /\ MailInv
  BY MsgAnswers
<1>4. Spec => [](TypeOK /\ LoopInv /\ MsgInv)
  BY MsgInvariant
<1>5. Spec => [](TypeOK /\ LoopInv /\ MailInv)
  BY MailInvariant
<1> HIDE DEF Inv
<1> QED BY <1>1, <1>2, <1>3, <1>4, <1>5, PTL DEF Spec, Service!Safe

=============================================================================
