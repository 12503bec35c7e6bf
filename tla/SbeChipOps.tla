------------------------------ MODULE SbeChipOps ------------------------------
(***************************************************************************)
(* The chip-ops of the service processor at the grain of words: what each  *)
(* takes from the upstream FIFO, does to the hardware and sends back       *)
(* downstream, while the service processor writes, reads and may reset the *)
(* FIFOs at any moment.  SbeControlLoop has the threads and interrupts     *)
(* around this, and treats a chip-op as one outcome; here the receiver and *)
(* the processor are one actor that serves one message after another.      *)
(*                                                                         *)
(* Failures that are no part of the FIFO interface are hardware            *)
(* procedures' and are independent of each other.                          *)
(***************************************************************************)
EXTENDS SbeMemAccess, Integers

CONSTANTS
    Requests,          \* what the SP asks for: records [op, len, addr, extra, flags]
    RingMaxWords,      \* words an RS4 payload may have
    TraceRows,         \* P9_TRACEARRAY_NUM_ROWS
    Cores              \* the functional cores, in order of their chiplet numbers

VARIABLE sp            \* the service processor

vars == <<up, down, reset, faults, p, regions, opened, req, hw, sp>>

\* Granules of a ring: 64 bits, two words.
GETRING_GRANULE == 64
TraceWords == 2

Ops == {"getscom", "putscom", "modscom", "putscommask", "getreg", "putreg", "getmem", "putmem",
        "getsram", "putsram", "getring", "putring", "trace", "fastarray", "cntlinst", "istep",
        "nvdimm", "caps", "getffdc", "quiesce", "unknown"}

\* A request of the OCC SRAM is for whole words.
ASSUME RequestAssumption ==
    /\ Requests \subseteq [op : Ops, len : Nat, addr : Nat, extra : Int, flags : SUBSET STRING]
    /\ \A r \in Requests : r.op \in {"getsram", "putsram"} => r.len % 4 = 0
    /\ SramGranule % 8 = 0
    /\ RingMaxWords \in Nat /\ TraceRows \in Nat \ {0} /\ Cores \in Seq(Nat \ {0})

\* Words of a message behind its command header.
NumRegs(r) == r.len
Payload(r) ==
    CASE r.op = "putreg" -> 3 * NumRegs(r)
      [] r.op = "getreg" -> NumRegs(r)
      [] r.op = "putmem" -> align4ByteWordLength(r.len)
      [] r.op = "putsram" -> r.len \div 4
      [] r.op = "putring" -> r.len
      [] OTHER -> 0
ArgWords(r) == IF r.op \in {"nvdimm", "caps", "getffdc", "quiesce", "unknown"} THEN 0 ELSE ReqWords
MessageWords(r) == ArgWords(r) + Payload(r) + r.extra

Message(r) ==
    <<<<"cmd", r>>>> \o [i \in 1..MessageWords(r) |-> <<"arg", i>>] \o <<<<"eot">>>>

NoRequest == [op |-> "unknown", len |-> 0, addr |-> 0, extra |-> 0, flags |-> {}]

----------------------------------------------------------------------------
(* The service processor: left is what it has still to write, got what it  *)
(* has read since it asked.                                                *)

Idle == [busy |-> FALSE, left |-> <<>>, got |-> <<>>]

SpUnchanged == UNCHANGED <<faults, p, regions, opened, req, hw>>

SpAsk ==
    /\ ~sp.busy /\ ~reset
    /\ \E r \in Requests : sp' = [busy |-> TRUE, left |-> Message(r), got |-> <<>>]
    /\ UNCHANGED <<up, down, reset>> /\ SpUnchanged

SpWrite ==
    /\ sp.left # <<>> /\ ~reset /\ Len(up) < UpDepth
    /\ up' = Append(up, Head(sp.left))
    /\ sp' = [sp EXCEPT !.left = Tail(@)]
    /\ UNCHANGED <<down, reset>> /\ SpUnchanged

\* The EOT entry ends the exchange.
SpRead ==
    /\ down # <<>> /\ ~reset
    /\ down' = Tail(down)
    /\ sp' = IF Head(down)[1] = "eot" THEN Idle ELSE [sp EXCEPT !.got = Append(@, Head(down))]
    /\ UNCHANGED <<up, reset>> /\ SpUnchanged

SpReset ==
    /\ sp.busy /\ ~reset
    /\ reset' = TRUE /\ sp' = Idle
    /\ UNCHANGED <<up, down>> /\ SpUnchanged

\* It may go on reading, and need not, while it waits for the reset.
SpDrain ==
    /\ down # <<>> /\ reset
    /\ down' = Tail(down)
    /\ UNCHANGED <<up, reset, sp>> /\ SpUnchanged

ServiceProcessor == SpAsk \/ SpWrite \/ SpRead \/ SpReset \/ SpDrain

----------------------------------------------------------------------------
(* The command's way in and its response's way out *)

sbeUpFifoPerformReset ==
    /\ At("idle") /\ reset
    /\ up' = <<>> /\ down' = <<>> /\ reset' = FALSE /\ faults' = 0
    /\ UNCHANGED <<p, req, hw, regions, opened>>

Entry(op) ==
    CASE op \in {"getmem", "putmem"} -> "mem"
      [] op \in {"getsram", "putsram"} -> "sram"
      [] op \in {"getreg", "putreg"} -> "reg"
      [] op = "unknown" -> "return"
      [] OTHER -> op

\* The command header is taken and the chip-op found; one that is not in the
\* tables has its return code instead.  What a chip-op that lost its FIFO left in
\* it is no command here: it waits for the SP's reset.
Receive ==
    /\ At("idle") /\ ~reset /\ up # <<>> /\ Head(up)[1] = "cmd"
    /\ LET r == Head(up)[2]
       IN  /\ req' = r /\ up' = Tail(up) /\ faults' = 0
           /\ p' = [Frame EXCEPT !.at = Entry(r.op),
                                 !.rc = IF r.op = "unknown" THEN "NOT_SUPPORTED" ELSE "OK"]
    /\ UNCHANGED <<down, reset, hw, regions, opened>>

\* The processor goes back to its loop.
Ends ==
    /\ p' = Frame /\ req' = NoRequest /\ hw' = Hardware
    /\ UNCHANGED <<up, down, reset, faults, regions, opened>>

\* sbeHandleFifoResponse, by the chip-op's return code.
Respond ==
    /\ At("return")
    /\ CASE p.rc = "NOT_SUPPORTED" ->
                Goes(Deq(p, "response.header", "response.flushed", 1, TRUE, TRUE))
         [] p.rc \in {"INSUFFICIENT_DATA", "EXCESS_DATA"} -> Goes(To("response.header"))
         [] p.rc = "OK" -> Goes(Eot(p, "response.done", "response.done"))
         [] OTHER -> Ends

\* A flush that failed: the FIFO is lost, or only a word of it.
RespondFlushed ==
    /\ At("response.flushed")
    /\ IF p.rc \in {"RESET", "ACCESS_FAILURE"} THEN Ends ELSE Goes(To("response.header"))

RespondHeader ==
    /\ At("response.header")
    /\ Goes(Enq(p, "response.eot", "response.done",
                RespHdr(IF req.op = "unknown" THEN "NOT_SUPPORTED" ELSE "INVALID_DATA", FALSE)))

RespondEot == At("response.eot") /\ Goes(Eot(p, "response.done", "response.done"))

RespondDone == At("response.done") /\ Ends

sbeHandleFifoResponse == Respond \/ RespondFlushed \/ RespondHeader \/ RespondEot \/ RespondDone

\* A chip-op's own header.
Header(q, first) == sbeDsSendRespHdr(q, first, "return", q.status, q.fapi)
SendHeader == At("header") /\ Goes(Header(p, <<>>))

----------------------------------------------------------------------------
(* SCOM access *)

\* checkIndirectAndDoScom: done; an address that is not for chip-ops, or that
\* the security tables keep; no answer in time, or none possible; a PIB error.
checkIndirectAndDoScom(q) ==
    \/ Does(q, [hw EXCEPT !.done = @ + 1])
    \/ \E status \in {"USER_ERROR", "ACCESS_DENIED", "EXECUTION_FAILURE"} :
          Does(Refuses("header", status), [hw EXCEPT !.failed = TRUE])
    \/ Does(Failed("header"), [hw EXCEPT !.failed = TRUE])

ScomOps == {"getscom", "putscom", "modscom", "putscommask"}

ScomRequest ==
    /\ p.at \in ScomOps /\ At(p.at)
    /\ Goes(Deq(p, "scom.check", "return", ReqWords, TRUE, FALSE))

\* sbeModifyScom looks at its operation mode.
ScomCheck ==
    /\ At("scom.check")
    /\ Goes(IF req.op = "modscom" /\ "badmode" \in req.flags THEN Refuses("header", "INVALID_DATA")
            ELSE To(IF req.op = "putscom" THEN "scom.write" ELSE "scom.read"))

\* The read of sbeGetScom goes downstream, the others' into the write.
ScomRead ==
    /\ At("scom.read")
    /\ checkIndirectAndDoScom(IF req.op = "getscom"
                              THEN Enq(p, "header", "return", Data(0, 2))
                              ELSE To("scom.write"))

ScomWrite == At("scom.write") /\ checkIndirectAndDoScom(To("header"))

sbeScomAccess == ScomRequest \/ ScomCheck \/ ScomRead \/ ScomWrite

----------------------------------------------------------------------------
(* Register access: sbeGetReg and sbePutReg *)

RegRequest == At("reg") /\ Goes(Deq(p, "reg.check", "return", ReqWords, FALSE, FALSE))

RegCheck ==
    /\ At("reg.check")
    /\ Goes(IF "invalid" \in req.flags THEN Refuses("header", "INVALID_DATA")
            ELSE Deq(p, "reg.setup", "return", Payload(req), TRUE, FALSE))

RegLoop(n) == IF n < NumRegs(req) THEN "reg.access" ELSE "reg.cleanup"

RegSetup ==
    /\ At("reg.setup")
    /\ Hwp([p EXCEPT !.at = RegLoop(0)], [hw EXCEPT !.open = TRUE], "header")

Package_Shifted(n) == SubSeq(p.buf, n + 1, n + 3)

\* sbeRegAccessPackage_t: the number of a register and its data.
Package(n) == SubSeq(p.buf, 3 * n + 1, 3 * n + 3)

\* A word that cannot be sent ends the loop, not the chip-op.
RegAccess ==
    LET next == RegLoop(p.count + 1)
        q == [p EXCEPT !.count = @ + 1, !.at = next]
    IN  /\ At("reg.access")
        /\ IF req.op = "getreg"
           THEN Hwp(Enq(q, next, "reg.cleanup", Data(p.count, 2)), hw, "header")
           ELSE Hwp(q, [hw EXCEPT !.wrote = @ \o Package(p.count)], "header")

RegCleanup_Skipped ==
    /\ At("reg.cleanup")
    /\ IF p.rc = "OK" THEN Hwp(To("header"), [hw EXCEPT !.open = FALSE], "header")
       ELSE Goes(To("return"))

RegCleanup ==
    /\ At("reg.cleanup")
    /\ LET next == IF p.rc = "OK" THEN "header" ELSE "return"
       IN  Hwp(To(next), [hw EXCEPT !.open = FALSE], next)

sbeRegAccess == RegRequest \/ RegCheck \/ RegSetup \/ RegAccess \/ RegCleanup

----------------------------------------------------------------------------
(* Rings: len is the ring's in bits, or the payload's in words.            *)

RingLoops == (req.len + GETRING_GRANULE - 1) \div GETRING_GRANULE
RingMod == req.len % GETRING_GRANULE

\* p.count is l_bitSentCnt, which starts with the granule that is read first.
GetRing ==
    /\ At("getring")
    /\ Goes(Deq([p EXCEPT !.count = GETRING_GRANULE], "getring.setup", "return",
                ReqWords, TRUE, FALSE))

GetRingSetup ==
    /\ At("getring.setup")
    /\ Hwp(To(IF RingLoops > 0 THEN "getring.read" ELSE "getring.rotate"), hw, "getring.reply")

\* l_cnt: the procedures done are the setup and the reads.
RingGranules == hw.done - 1

\* The first read shifts nothing, the last one the remainder.
RingShift_Whole == IF RingGranules = 0 THEN 0 ELSE GETRING_GRANULE
RingShift ==
    IF RingGranules = RingLoops - 1 /\ RingMod # 0 THEN RingMod
    ELSE IF RingGranules = 0 THEN 0 ELSE GETRING_GRANULE

GetRingRead ==
    /\ At("getring.read")
    /\ Hwp(Enq([p EXCEPT !.count = @ + RingShift],
               IF RingGranules + 1 < RingLoops THEN "getring.read" ELSE "getring.rotate",
               "return", Data(RingGranules, 2)),
           hw, "getring.reply")

\* The ring goes back to its start and its check word is compared.
GetRingRotate == At("getring.rotate") /\ Hwp(To("getring.verify"), hw, "getring.reply")
GetRingVerify == At("getring.verify") /\ Hwp(To("getring.reply"), hw, "getring.reply")
GetRingReply == At("getring.reply") /\ Goes(Header(p, <<<<"len", p.count>>>>))

sbeGetRing == GetRing \/ GetRingSetup \/ GetRingRead \/ GetRingRotate \/ GetRingVerify
              \/ GetRingReply

\* The payload's length comes from the command header.
PutRing ==
    /\ At("putring")
    /\ Goes(IF req.len > RingMaxWords
            THEN Deq([p EXCEPT !.status = "INVALID_DATA"], "header", "return",
                     ReqWords + req.len, TRUE, TRUE)
            ELSE Deq(p, "putring.payload", "return", ReqWords, FALSE, FALSE))

PutRingPayload ==
    /\ At("putring.payload")
    /\ Goes(Deq(p, "putring.apply", "return", req.len, TRUE, FALSE))

PutRingApply == At("putring.apply") /\ Hwp(To("header"), [hw EXCEPT !.wrote = @ \o p.buf], "header")

sbePutRing == PutRing \/ PutRingPayload \/ PutRingApply

----------------------------------------------------------------------------
(* Trace and fast arrays *)

Target(l, b) ==
    IF "badtarget" \in req.flags THEN Refuses(b, "INVALID_DATA") ELSE To(l)

TraceArray == At("trace") /\ Goes(Deq(p, "trace.target", "return", ReqWords, TRUE, FALSE))
TraceTarget == At("trace.target") /\ Goes(Target("trace.row", "trace.reply"))

\* A row, if the dump is wanted; p.count is l_NumWordsRead.
TraceRow ==
    LET words == p.count + TraceWords
        next == IF words < TraceRows * TraceWords THEN "trace.row" ELSE "trace.reply"
    IN  /\ At("trace.row")
        /\ Hwp(IF "dump" \in req.flags
               THEN Enq([p EXCEPT !.count = words], next, "return",
                        Data(p.count \div TraceWords, TraceWords))
               ELSE To("trace.reply"),
               hw, "trace.reply")

TraceReply == At("trace.reply") /\ Goes(Header(p, <<<<"len", p.count>>>>))

sbeControlTraceArray == TraceArray \/ TraceTarget \/ TraceRow \/ TraceReply

FastArray == At("fastarray") /\ Goes(Deq(p, "fastarray.target", "return", ReqWords, TRUE, FALSE))
FastArrayTarget == At("fastarray.target") /\ Goes(Target("fastarray.run", "header"))

\* A failure sets the FFDC and not the status.
FastArrayRun ==
    /\ At("fastarray.run")
    /\ \/ Does(To("header"), [hw EXCEPT !.done = @ + 1])
       \/ Does([To("header") EXCEPT !.fapi = TRUE], [hw EXCEPT !.failed = TRUE])

sbeControlFastArray == FastArray \/ FastArrayTarget \/ FastArrayRun

----------------------------------------------------------------------------
(* Instruction control: addr is a core or 0 for all of them.               *)

Targets ==
    IF req.addr = 0 THEN Cores ELSE IF req.addr \in ToSet(Cores) THEN <<req.addr>> ELSE <<>>
Core == Targets[p.count + 1]
Ignores == "ignore" \in req.flags

\* The loop over the cores from its n-th.
CoreLoop(q, n, l, done) ==
    [q EXCEPT !.count = IF n < Len(Targets) THEN n ELSE 0,
              !.at = IF n < Len(Targets) THEN l ELSE done]

SleepLoop(q, n) == CoreLoop(q, n, "cntlinst.sleep", "header")
ThreadLoop(q, n) ==
    LET r == CoreLoop(q, n, "cntlinst.thread", "cntlinst.threads")
    IN  IF r.at = "cntlinst.threads" THEN SleepLoop(r, 0) ELSE r
WakeLoop(q, n) ==
    LET r == CoreLoop(q, n, "cntlinst.wake", "cntlinst.woken")
    IN  IF r.at = "cntlinst.woken" THEN ThreadLoop(r, 0) ELSE r

CntlInst == At("cntlinst") /\ Goes(Deq(p, "cntlinst.check", "return", ReqWords, TRUE, FALSE))

CntlInstCheck ==
    /\ At("cntlinst.check")
    /\ Goes(IF "invalid" \in req.flags THEN Refuses("header", "INVALID_DATA")
            ELSE IF "wakeup" \in req.flags THEN WakeLoop(p, 0) ELSE ThreadLoop(p, 0))

\* specialWakeUpCoreAssert: the wakeup is done; its SCOM fails, before or after
\* the assertion; it is not done in time, which is no FAPI error, so that the
\* threads are controlled all the same.
specialWakeUpCoreAssert ==
    LET awake == [hw EXCEPT !.awake = @ \cup {Core}]
        bad == [p EXCEPT !.status = "EXECUTION_FAILURE"]
    IN  /\ At("cntlinst.wake")
        /\ \/ Does(WakeLoop(p, p.count + 1), [awake EXCEPT !.done = @ + 1])
           \/ \E h \in {hw, awake} :
                 Does(LET q == [bad EXCEPT !.fapi = TRUE]
                      IN  IF Ignores THEN WakeLoop(q, p.count + 1) ELSE [q EXCEPT !.at = "header"],
                      [h EXCEPT !.failed = TRUE])
           \/ Does(LET q == [bad EXCEPT !.fapi = FALSE]
                   IN  IF Ignores THEN WakeLoop(q, p.count + 1) ELSE ThreadLoop(q, 0),
                   [awake EXCEPT !.failed = TRUE])

ControlThreads_Ignore ==
    /\ At("cntlinst.thread")
    /\ \/ Does(ThreadLoop(p, p.count + 1), [hw EXCEPT !.done = @ + 1])
       \/ Does(IF Ignores THEN To("header") ELSE Failed("header"), [hw EXCEPT !.failed = TRUE])

ControlThreads ==
    /\ At("cntlinst.thread")
    /\ \/ Does(ThreadLoop(p, p.count + 1), [hw EXCEPT !.done = @ + 1])
       \/ Does(IF Ignores THEN ThreadLoop(p, p.count + 1) ELSE Failed("header"),
               [hw EXCEPT !.failed = TRUE])

\* specialWakeUpCoreDeAssert: its write, or the read that follows it, may fail.
specialWakeUpCoreDeAssert ==
    LET asleep == [hw EXCEPT !.awake = @ \ {Core}]
        bad == [p EXCEPT !.status = "EXECUTION_FAILURE", !.fapi = TRUE]
    IN  /\ At("cntlinst.sleep")
        /\ \/ Does(SleepLoop(p, p.count + 1), [asleep EXCEPT !.done = @ + 1])
           \/ \E h \in {hw, asleep} :
                 Does(IF Ignores THEN SleepLoop(bad, p.count + 1) ELSE [bad EXCEPT !.at = "header"],
                      [h EXCEPT !.failed = TRUE])

sbeCntlInst == CntlInst \/ CntlInstCheck \/ specialWakeUpCoreAssert \/ ControlThreads
               \/ specialWakeUpCoreDeAssert

----------------------------------------------------------------------------
(* Isteps, NVDIMM flush, capabilities, FFDC, quiesce *)

Istep == At("istep") /\ Goes(Deq(p, "istep.run", "return", ReqWords, TRUE, FALSE))

\* A system checkstop is a failure without FFDC.
IstepRun ==
    /\ At("istep.run")
    /\ IF "invalid" \in req.flags THEN Goes(Refuses("header", "INVALID_DATA"))
       ELSE \/ Hwp(To("header"), hw, "header")
            \/ Does(Refuses("header", "EXECUTION_FAILURE"), [hw EXCEPT !.failed = TRUE])

Nvdimm == At("nvdimm") /\ Goes(Deq(p, "nvdimm.stop", "return", 0, TRUE, FALSE))
NvdimmStop == At("nvdimm.stop") /\ Hwp(To("nvdimm.flush"), hw, "header")
NvdimmFlush == At("nvdimm.flush") /\ Hwp(To("header"), hw, "header")
sbeHandleFlushNVDIMM == Nvdimm \/ NvdimmStop \/ NvdimmFlush

Caps == At("caps") /\ Goes(Deq(p, "caps.send", "return", 0, TRUE, FALSE))
CapsSend == At("caps.send") /\ Goes(Enq(p, "header", "return", Data(0, 2)))
sbeGetCapabilities == Caps \/ CapsSend

\* With or without FFDC of a procedure, the SBE's own in any case.
GetFfdc == At("getffdc") /\ Goes(Deq(p, "getffdc.send", "return", 0, TRUE, FALSE))
GetFfdcSend ==
    /\ At("getffdc.send")
    /\ \E hwp \in {HwpFfdc, <<>>} : Goes(Enq(p, "header", "return", hwp \o SbeFfdc))
sbeGetFfdc == GetFfdc \/ GetFfdcSend

\* The dequeue's return code is overwritten by the header's.
Quiesce == At("quiesce") /\ Goes(Deq(p, "quiesce.suspend", "header", 0, TRUE, FALSE))
QuiesceSuspend ==
    /\ At("quiesce.suspend")
    /\ \/ Does(To("header"), [hw EXCEPT !.done = @ + 1])
       \/ Does(Refuses("header", "EXECUTION_FAILURE"), [hw EXCEPT !.failed = TRUE])
sbeFifoQuiesce == Quiesce \/ QuiesceSuspend

----------------------------------------------------------------------------
ChipOp ==
    \/ MemoryOps \/ sbeScomAccess \/ sbeRegAccess \/ sbeGetRing \/ sbePutRing
    \/ sbeControlTraceArray \/ sbeControlFastArray \/ sbeCntlInst
    \/ Istep \/ IstepRun \/ sbeHandleFlushNVDIMM \/ sbeGetCapabilities
    \/ sbeGetFfdc \/ sbeFifoQuiesce \/ SendHeader \/ sbeHandleFifoResponse

Init ==
    /\ FifoInit /\ regions = <<>> /\ opened = {}
    /\ req = NoRequest /\ hw = Hardware /\ sp = Idle

\* The processor's steps between two of the SP's.
Processor ==
    /\ \/ FifoStep /\ UNCHANGED <<req, hw, regions, opened>>
       \/ ChipOp \/ Receive \/ sbeUpFifoPerformReset
    /\ UNCHANGED sp

Fault == FifoAccessFails /\ UNCHANGED <<req, hw, regions, opened, sp>>

\* The processor serves the host between two messages of the SP.
HostUpdatesRegions ==
    /\ At("idle") /\ ~sp.busy /\ ~reset /\ sbeUpdateMemAccessRegion
    /\ UNCHANGED <<up, down, reset, faults, p, req, hw, sp>>

Next == Processor \/ ServiceProcessor \/ Fault \/ HostUpdatesRegions

\* The processor runs, and an SP that has begun a message ends it and reads.
Spec ==
    /\ Init /\ [][Next]_vars
    /\ WF_vars(Processor) /\ WF_vars(SpWrite) /\ WF_vars(SpRead)

----------------------------------------------------------------------------
(* Properties *)

TypeOK ==
    /\ FifoTypeOK
    /\ req.op \in Ops
    /\ Len(regions) <= MaxRegions /\ \A i \in DOMAIN regions : regions[i] \in Region
    /\ hw.done \in Nat /\ hw.max \in 0..MaxGranules /\ hw.curr \in 0..MaxGranules
    /\ hw.awake \subseteq ToSet(Cores)

\* The response so far; it is complete when the EOT entry has been written, in
\* an exchange without a reset or a failed access.
Response == sp.got \o down
Complete ==
    /\ At("response.done") /\ ~reset /\ faults = 0
    /\ Response # <<>> /\ Last(Response) = <<"eot">>

\* The reader goes back from the end by the distance.
HeaderAt == Len(Response) - Response[Len(Response) - 1][2]
Answer == Response[HeaderAt + 1][2]
Before == SubSeq(Response, 1, HeaderAt - 1)

\* When the SP sees the end of a response its message has been taken to the end:
\* nothing of it is left for the receiver to take for a command, also when the
\* chip-op gave up half-way (flushUpstreamFifo, sbeHandleFifoResponse).  A register
\* request that is refused is answered with its payload still in the FIFO
\* (sbeGetReg, sbePutReg), and is not among the requests.
MessageBoundary == Complete => up = <<>> /\ sp.left = <<>>

\* The reader finds the header where the distance says and the FFDC packages
\* behind it, each as long as its own length word, fill the rest
\* (sbeDsSendRespHdr, sendOverFIFO).
ResponseParses ==
    Complete =>
        LET n == Len(Response)
            packages ==
                \E starts \in SUBSET ((HeaderAt + 2)..(n - 1)) :
                    /\ HeaderAt + 2 \in starts
                    /\ \A i \in starts \ {n - 1} :
                          /\ Response[i][1] = "ffdc" /\ Response[i][2] > 0
                          /\ i + Response[i][2] \in starts
        IN  /\ n > 3 /\ Response[n - 1][1] = "dist" /\ HeaderAt \in 1..n
            /\ Response[HeaderAt] = <<"magic">> /\ Response[HeaderAt + 1][1] = "status"
            /\ packages
            /\ \A i \in DOMAIN Before : Before[i][1] # "magic"

\* Bytes, bits or words a request that succeeds is told of.
Asked ==
    CASE req.op = "trace" -> IF "dump" \in req.flags THEN TraceRows * TraceWords ELSE 0
      [] req.op \in {"getmem", "putmem"} /\ (isEccMode \/ isItagMode) ->
            sbeAduLenInUpStreamFifo(getDataLenCacheAlign)
      [] OTHER -> req.len

\* A memory access of another length is served as far as its whole granules go,
\* and reported as a success all the same.
WholeGranules ==
    req.op \in {"getmem", "putmem"} => req.len = getDataLenCacheAlign * granuleSize

\* The length word in front of the header is the length of the data that was
\* sent before it, or given to the hardware by a put, also when the chip-op
\* stopped half-way, and on success the length that was asked for.  Excepted:
\* the second half of a block of 8 bytes, which an SRAM access counts although
\* it is neither read nor written (LengthWritten); memory accesses that are not of
\* whole granules, which are told less than they asked for; granules of an ECC or
\* ITAG read that waited for their group of four, the same bytes of a put, which
\* its message does not hold; and a ring of which no granule was read.  Rings
\* shorter than a granule, which are counted twice, are not among the requests.
LengthTrue ==
    Complete /\ Before # <<>> /\ Last(Before)[1] = "len" =>
        LET n == Last(Before)[2]
            words == Len(Before) - 1
            read == Cardinality({i \in 1..words : Before[i][1] = "data"})
            packs == isEccMode \/ isItagMode
        IN  /\ Answer = "OK" /\ WholeGranules => n = Asked
            /\ CASE req.op = "trace" -> words = n
                 [] req.op = "getring" -> \/ words = 2 * ((n + 63) \div 64)
                                          \/ hw.failed /\ words = 0
                 [] req.op = "getsram" -> words = n \div 4 /\ read = 2 * (n \div 8)
                 [] req.op = "putsram" -> Len(hw.wrote) = 2 * (n \div 8)
                 [] isRead -> \/ words = align4ByteWordLength(n)
                              \/ packs /\ hw.failed /\ words < align4ByteWordLength(n)
                 [] OTHER -> packs \/ Len(hw.wrote) = align4ByteWordLength(n)

\* "first enqueue the length of data actually written" (sbeOccSramAccess_Wrap): an
\* SRAM put reports the bytes that were written.  False of half blocks; no run
\* checks it.
LengthWritten ==
    Complete /\ req.op = "putsram" /\ Before # <<>> => Last(Before)[2] = 4 * Len(hw.wrote)

\* "supported values[1/2/4/multiples of 8]" (processAduRequest): an access of the
\* ADU that succeeds has one of these lengths.  False of reads; no run checks it.
AduLengthSupported ==
    Complete /\ Answer = "OK" /\ req.op \in {"getmem", "putmem"} /\ ~isPba =>
        req.len \in {1, 2, 4} \/ req.len % 8 = 0

\* Procedures a request needs.
Work ==
    CASE req.op \in {"getscom", "putscom", "putring", "istep", "quiesce"} -> 1
      [] req.op \in {"modscom", "putscommask", "nvdimm"} -> 2
      [] req.op \in {"getreg", "putreg"} -> 2 + NumRegs(req)
      [] req.op \in {"getmem", "putmem"} -> getDataLenCacheAlign
      [] req.op \in {"getsram", "putsram"} ->
            (req.len + SramGranule - 1) \div SramGranule
            + IF "circular" \in req.flags THEN 0 ELSE 1
      [] req.op = "getring" -> RingLoops + 3
      [] req.op = "trace" -> IF "dump" \in req.flags THEN TraceRows ELSE 1
      [] req.op = "cntlinst" -> (IF "wakeup" \in req.flags THEN 3 ELSE 2) * Len(Targets)
      [] OTHER -> 0

\* A response that reports success means that all of the message was good, all
\* of the work was done, all of the payload handed over, and the host told where
\* it waits for it.  Of an SRAM put it means the payload's whole blocks of 8 bytes:
\* a last half block is left out (LengthWritten).  Of a memory read it means the
\* whole granules.  The fast-array chip-op, and instruction control that was told
\* to ignore errors, report success over a failed procedure.
OkMeansDone ==
    Complete /\ Answer = "OK" =>
        /\ req.extra = 0
        /\ req.op # "fastarray" /\ ~(req.op = "cntlinst" /\ Ignores) =>
              ~hw.failed /\ hw.done = Work
        /\ req.op \in {"putreg", "putmem", "putring"} => Len(hw.wrote) = Payload(req)
        /\ req.op = "putsram" => Len(hw.wrote) = 2 * (req.len \div 8)
        /\ req.op = "putmem" /\ isPassThrough => hw.bell

\* What the hardware is given is the payload from its beginning, without a gap,
\* a repetition or a word of the request structure, however the words arrived.
PayloadInOrder == \A i \in DOMAIN hw.wrote : hw.wrote[i] = ReqWords + i

\* The object keeps to the procedures' contract: no access outside a setup, the
\* first granule announced as such, the last one granted told to clean up, and
\* nothing open behind a request that succeeded (sbeMemAccessInterface).
InterfaceProtocol ==
    /\ ~hw.misused
    /\ Complete /\ Answer = "OK" => ~hw.open

\* A core is not left in RAM mode, even by a FIFO reset or a FIFO access failure
\* in the middle of the registers, unless a RAM procedure failed.
RamCleanedUp == At("return") /\ req.op \in {"getreg", "putreg"} /\ ~hw.failed => ~hw.open

\* When instruction control reports success no core is held awake any more.
WakeupsReleased == Complete /\ Answer = "OK" => hw.awake = {}

\* As RegionsDecide says, whenever the table changes, of the new table.
RegionsDecided == [][regions' # regions => RegionsDecide']_vars

\* Every message is answered to its end unless the SP gives it up or a register
\* access failed, and a reset is performed wherever the chip-op is, except in
\* sbeDownFifoSignalEot over a full FIFO, which does not look for it.  An SRAM
\* access in an unknown mode, whose return code has no response, is not among
\* the requests.
Served ==
    /\ sp.busy ~> (~sp.busy \/ faults > 0)
    /\ reset ~> (~reset \/ (p.fn = "eot" /\ Len(down) = DownDepth))
=============================================================================
