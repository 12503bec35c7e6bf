------------------------ MODULE SbeChipOpsDataProofs ------------------------
(***************************************************************************)
(* Theorems about the words that go from a message to the hardware, and    *)
(* about the table that decides which memory they may go to.               *)
(*                                                                         *)
(* Numbered says which word of the message comes next, by where the        *)
(* chip-op is and what it has taken; Given relates the words in the buffer *)
(* and those the hardware has to that number.  TableInv says that the      *)
(* table of regions is what the host was told.                             *)
(***************************************************************************)
EXTENDS SbeChipOpsHwProofs, WellFoundedInduction

----------------------------------------------------------------------------
(* The invariant *)

\* Where the request structure is taken, where a granule of the payload is, and
\* where all of the payload is at once.
Structs == {"mem.check", "sram.check", "reg.check", "putring.payload"}
Granules == {"mem.access", "sram.access"}
Takes == {"reg.setup", "putring.apply"}
DataLabels == Starts \cup Structs \cup Granules \cup Takes \cup {"reg.access", "idle"}

\* The words of s are those that follow the n-th.
InOrder(s, n) == \A i \in 1..Len(s) : s[i] = n + i

Given(q, h) ==
    /\ InOrder(h.wrote, ReqWords)
    /\ q.at \in Starts \cup Structs \cup Takes \cup {"idle"} => h.wrote = <<>>
    /\ q.at \in Starts => q.fn = "none"
    /\ q.at \in Structs /\ AtOpen(q.at, req) =>
          /\ q.fn = "deq" => q.extra = 0 /\ Len(q.buf) < q.want /\ q.want = ReqWords
          /\ q.fn = "none" => Len(q.buf) = ReqWords
    /\ q.at \in Granules =>
          /\ InOrder(q.buf, ReqWords + Len(h.wrote))
          /\ q.fn = "deq" => AtOpen(q.at, req) /\ q.extra = 0 /\ Len(q.buf) < q.want
    /\ q.at \in Takes => InOrder(q.buf, ReqWords)
    /\ q.at = "reg.access" /\ req.op = "putreg" =>
          q.fn = "none" /\ InOrder(q.buf, ReqWords) /\ Len(h.wrote) = 3 * q.count

\* Words of the message that have been taken, where it matters.
InMessage(q) ==
    \/ q.at \in Starts
    \/ q.at \in Structs \cup Granules /\ AtOpen(q.at, req)
    \/ q.at \in Takes /\ q.fn = "deq" /\ q.extra = 0

TakenWords(q, h) ==
    IF q.at \in Starts THEN 0
    ELSE IF q.at \in Structs THEN Len(q.buf)
    ELSE ReqWords + Len(h.wrote) + Len(q.buf)

Numbered == ~reset /\ InMessage(p) => Rest(Stream, TakenWords(p, hw))

DataInv == Given(p, hw) /\ Numbered

----------------------------------------------------------------------------
(* A step of a chip-op *)

\* Where no word of a message is on its way to the hardware.
Elsewhere == Labels \ DataLabels

\* The hardware has no more of them.
Untouched(h) == h.wrote = hw.wrote

Apart == Untouched(hw') /\ p'.at \in Elsewhere

\* A step takes no word from the FIFO: what was taken is in the buffer or with the
\* hardware.
Carries ==
    /\ Given(p', hw')
    /\ InMessage(p') => InMessage(p) /\ TakenWords(p', hw') = TakenWords(p, hw)

LEMMA ElsewhereLabels ==
    {"return", "header", "response.header", "response.flushed", "response.eot", "response.done",
     "scom.check", "scom.read", "scom.write", "reg.cleanup", "getring.setup", "getring.read",
     "getring.rotate", "getring.verify", "getring.reply", "trace.target", "trace.row",
     "trace.reply", "fastarray.target", "fastarray.run", "cntlinst.check", "cntlinst.wake",
     "cntlinst.thread", "cntlinst.sleep", "istep.run", "nvdimm.stop", "nvdimm.flush", "caps.send",
     "getffdc.send", "quiesce.suspend", "mem.loop", "mem.tail", "mem.reply", "mem.bell",
     "sram.loop", "sram.tail", "sram.reply"} \subseteq Elsewhere
  BY DEF Elsewhere, Labels, DataLabels, Starts, ScomOps, Structs, Granules, Takes

LEMMA ElsewhereGiven ==
    ASSUME NEW q, NEW h, q.at \in Elsewhere, InOrder(h.wrote, ReqWords)
    PROVE  Given(q, h) /\ ~InMessage(q)
<1>1. q.at \notin DataLabels
  BY DEF Elsewhere
<1> QED BY <1>1 DEF Given, InMessage, DataLabels

LEMMA ElsewhereSilent == ASSUME NEW q, q.at \in Elsewhere PROVE ~InMessage(q)
<1>1. q.at \notin DataLabels
  BY DEF Elsewhere
<1> QED BY <1>1 DEF InMessage, DataLabels

LEMMA ApartCarries == ASSUME Given(p, hw), Apart PROVE Carries
<1>1. InOrder(hw'.wrote, ReqWords) /\ p'.at \in Elsewhere
  BY DEF Given, Apart, Untouched
<1> QED BY <1>1, ElsewhereGiven DEF Carries

LEMMA CallsAt ==
    ASSUME NEW q \in Frames
    PROVE  /\ \A l, b, n, eot, flush : Deq(q, l, b, n, eot, flush).at = l
           /\ \A l, b, w : Enq(q, l, b, w).at = l
           /\ \A l, b : Eot(q, l, b).at = l
  BY DEF Frames, Deq, Enq, Eot

LEMMA JumpsTo ==
    ASSUME Ready
    PROVE  \A l : To(l).at = l /\ Failed(l).at = l /\ \A s : Refuses(l, s).at = l
  BY DEF Ready, Frames, To, Failed, Refuses

LEMMA DoesApart ==
    ASSUME NEW q, NEW h, Does(q, h), q.at \in Elsewhere, Untouched(h) PROVE Apart
  BY DEF Does, Apart

LEMMA GoesApart == ASSUME NEW q, Goes(q), q.at \in Elsewhere PROVE Apart
  BY DEF Goes, Does, Apart, Untouched

LEMMA HwWords ==
    ASSUME Ready
    PROVE  /\ Untouched(hw) /\ Untouched([hw EXCEPT !.done = @ + 1])
           /\ Untouched([hw EXCEPT !.failed = TRUE])
  BY DEF Ready, Hardwares, Untouched

\* A chip-op that takes its message.
LEMMA DeqApart ==
    ASSUME NEW q \in Frames, NEW l \in Elsewhere, NEW b, NEW n, NEW eot, NEW flush,
           Goes(Deq(q, l, b, n, eot, flush))
    PROVE  Apart
<1>1. Deq(q, l, b, n, eot, flush).at = l
  BY DEF Deq, Frames
<1> QED BY <1>1, GoesApart

LEMMA HwpApart ==
    ASSUME Ready, NEW q, NEW l \in Elsewhere, Hwp(q, hw, l), q.at \in Elsewhere
    PROVE  Apart
<1>1. Failed(l).at \in Elsewhere
  BY JumpsTo
<1> QED BY <1>1, HwWords, DoesApart DEF Hwp

----------------------------------------------------------------------------
(* The chip-ops that give the hardware no words of a message *)

LEMMA ScomApart == ASSUME Ready, sbeScomAccess PROVE Apart
<1>a. p \in Frames /\ hw \in Hardwares
  BY DEF Ready
<1>1. CASE ScomRequest
  BY <1>1, <1>a, ElsewhereLabels, DeqApart DEF ScomRequest
<1>2. CASE ScomCheck
  BY <1>2, ElsewhereLabels, JumpsTo, GoesApart DEF ScomCheck
<1>3. ASSUME NEW q, q.at \in Elsewhere, checkIndirectAndDoScom(q) PROVE Apart
  BY <1>3, <1>a, ElsewhereLabels, JumpsTo, HwWords, DoesApart DEF checkIndirectAndDoScom
<1>4. CASE ScomRead
  BY <1>3, <1>4, <1>a, ElsewhereLabels, JumpsTo, CallsAt DEF ScomRead
<1>5. CASE ScomWrite
  BY <1>3, <1>5, ElsewhereLabels, JumpsTo DEF ScomWrite
<1> QED BY <1>1, <1>2, <1>4, <1>5 DEF sbeScomAccess

\* A header, with a length or without.
LEMMA HeaderApart ==
    ASSUME Ready, NEW first, NEW l \in Elsewhere,
           Goes(sbeDsSendRespHdr(p, first, l, p.status, p.fapi))
    PROVE  Apart
  BY CallsAt, GoesApart DEF Ready, sbeDsSendRespHdr

LEMMA CountingTyped ==
    ASSUME Ready, NEW n \in Nat PROVE [p EXCEPT !.count = n] \in Frames
  BY DEF Ready, Frames

LEMMA GetRingApart == ASSUME Ready, sbeGetRing PROVE Apart
<1>a. p \in Frames /\ hw \in Hardwares /\ p.count \in Nat
  BY DEF Ready, Frames
<1>1. CASE GetRing
  <2>1. [p EXCEPT !.count = GETRING_GRANULE] \in Frames
    BY CountingTyped DEF GETRING_GRANULE
  <2> QED BY <1>1, <2>1, ElsewhereLabels, DeqApart DEF GetRing
<1>2. CASE GetRingSetup \/ GetRingRotate \/ GetRingVerify
  BY <1>2, <1>a, ElsewhereLabels, JumpsTo, HwpApart DEF GetRingSetup, GetRingRotate, GetRingVerify
<1>3. CASE GetRingRead
  <2> DEFINE q == [p EXCEPT !.count = p.count + RingShift]
             l == IF RingGranules + 1 < RingLoops THEN "getring.read" ELSE "getring.rotate"
  <2>1. q \in Frames
    BY <1>a, RingTyped, CountingTyped
  <2>2. Hwp(Enq(q, l, "return", Data(RingGranules, 2)), hw, "getring.reply")
    BY <1>3, <1>a DEF GetRingRead, Frames
  <2>3. l \in Elsewhere
    BY ElsewhereLabels
  <2> HIDE DEF q, l
  <2> QED BY <1>a, <2>1, <2>2, <2>3, ElsewhereLabels, CallsAt, HwpApart
<1>4. CASE GetRingReply
  BY <1>4, ElsewhereLabels, HeaderApart DEF GetRingReply, Header
<1> QED BY <1>1, <1>2, <1>3, <1>4 DEF sbeGetRing

LEMMA ArrayApart == ASSUME Ready, sbeControlTraceArray \/ sbeControlFastArray PROVE Apart
<1>a. p \in Frames /\ hw \in Hardwares /\ p.count \in Nat
  BY DEF Ready, Frames
<1>1. CASE TraceArray \/ FastArray
  BY <1>1, <1>a, ElsewhereLabels, DeqApart DEF TraceArray, FastArray
<1>2. CASE TraceTarget \/ FastArrayTarget
  <2>1. \A l, b \in Elsewhere : Target(l, b).at \in Elsewhere
    BY JumpsTo DEF Target
  <2> QED BY <1>2, <2>1, ElsewhereLabels, GoesApart DEF TraceTarget, FastArrayTarget
<1>3. CASE TraceRow
  <2> DEFINE n == p.count + TraceWords
             l == IF n < TraceRows * TraceWords THEN "trace.row" ELSE "trace.reply"
             q == [p EXCEPT !.count = n]
             w == Data(p.count \div TraceWords, TraceWords)
  <2>1. Hwp(IF "dump" \in req.flags THEN Enq(q, l, "return", w) ELSE To("trace.reply"),
            hw, "trace.reply")
    BY <1>3 DEF TraceRow
  <2>2. n \in Nat /\ l \in Elsewhere
    BY <1>a, ElsewhereLabels DEF TraceWords
  <2> HIDE DEF n, l
  <2>3. q \in Frames
    BY <2>2, CountingTyped
  <2> HIDE DEF q, w
  <2> QED BY <1>a, <2>1, <2>2, <2>3, ElsewhereLabels, JumpsTo, CallsAt, HwpApart
<1>4. CASE TraceReply
  BY <1>4, ElsewhereLabels, HeaderApart DEF TraceReply, Header
<1>5. CASE FastArrayRun
  <2>1. [To("header") EXCEPT !.fapi = TRUE].at = "header"
    BY <1>a DEF To, Frames
  <2> DEFINE q == [To("header") EXCEPT !.fapi = TRUE]
  <2>2. q.at \in Elsewhere /\ To("header").at \in Elsewhere
    BY <2>1, ElsewhereLabels, JumpsTo
  <2> HIDE DEF q
  <2> QED BY <1>5, <2>2, HwWords, DoesApart DEF FastArrayRun, q
<1> QED BY <1>1, <1>2, <1>3, <1>4, <1>5 DEF sbeControlTraceArray, sbeControlFastArray

LEMMA OtherApart ==
    ASSUME Ready, Istep \/ IstepRun \/ sbeHandleFlushNVDIMM \/ sbeGetCapabilities \/ sbeGetFfdc
                  \/ sbeFifoQuiesce \/ SendHeader
    PROVE  Apart
<1>a. p \in Frames /\ hw \in Hardwares
  BY DEF Ready
<1>1. CASE Istep \/ Nvdimm \/ Caps \/ GetFfdc \/ Quiesce
  BY <1>1, <1>a, ElsewhereLabels, DeqApart DEF Istep, Nvdimm, Caps, GetFfdc, Quiesce
<1>2. CASE IstepRun
  <2>1. /\ To("header").at \in Elsewhere /\ Refuses("header", "INVALID_DATA").at \in Elsewhere
        /\ Refuses("header", "EXECUTION_FAILURE").at \in Elsewhere /\ "header" \in Elsewhere
    BY ElsewhereLabels, JumpsTo
  <2>2. CASE Goes(Refuses("header", "INVALID_DATA"))
    BY <2>1, <2>2, GoesApart
  <2>3. CASE Hwp(To("header"), hw, "header")
    BY <2>1, <2>3, HwpApart
  <2>4. CASE Does(Refuses("header", "EXECUTION_FAILURE"), [hw EXCEPT !.failed = TRUE])
    BY <2>1, <2>4, HwWords, DoesApart
  <2> QED BY <1>2, <2>2, <2>3, <2>4 DEF IstepRun
<1>3. CASE NvdimmStop \/ NvdimmFlush
  BY <1>3, <1>a, ElsewhereLabels, JumpsTo, HwpApart DEF NvdimmStop, NvdimmFlush
<1>4. CASE CapsSend \/ GetFfdcSend
  BY <1>4, <1>a, ElsewhereLabels, CallsAt, GoesApart DEF CapsSend, GetFfdcSend
<1>5. CASE QuiesceSuspend
  BY <1>5, <1>a, ElsewhereLabels, JumpsTo, HwWords, DoesApart DEF QuiesceSuspend
<1>6. CASE SendHeader
  BY <1>6, ElsewhereLabels, HeaderApart DEF SendHeader, Header
<1> QED BY <1>1, <1>2, <1>3, <1>4, <1>5, <1>6
        DEF sbeHandleFlushNVDIMM, sbeGetCapabilities, sbeGetFfdc, sbeFifoQuiesce

LEMMA CoreElsewhere ==
    ASSUME Ready, NEW q \in Frames, NEW n \in Nat
    PROVE  /\ WakeLoop(q, n).at \in Elsewhere /\ ThreadLoop(q, n).at \in Elsewhere
           /\ SleepLoop(q, n).at \in Elsewhere
  BY WakeLoopTyped, ThreadLoopTyped, SleepLoopTyped, ElsewhereLabels DEF AtCore, CoreLabels

LEMMA CntlInstApart == ASSUME Ready, sbeCntlInst PROVE Apart
<1>a. p \in Frames /\ hw \in Hardwares /\ p.count \in Nat /\ p.count + 1 \in Nat
      /\ "header" \in Elsewhere
  BY ElsewhereLabels DEF Ready, Frames
<1>1. CASE CntlInst
  BY <1>1, <1>a, ElsewhereLabels, DeqApart DEF CntlInst
<1>2. CASE CntlInstCheck
  <2>1. /\ WakeLoop(p, 0).at \in Elsewhere /\ ThreadLoop(p, 0).at \in Elsewhere
        /\ Refuses("header", "INVALID_DATA").at \in Elsewhere
    BY <1>a, CoreElsewhere, JumpsTo
  <2> QED BY <1>2, <2>1, GoesApart DEF CntlInstCheck
<1>3. CASE specialWakeUpCoreAssert
  <2> DEFINE awake == [hw EXCEPT !.awake = @ \cup {Core}]
             bad == [p EXCEPT !.status = "EXECUTION_FAILURE"]
             q1 == [bad EXCEPT !.fapi = TRUE]
             q2 == [bad EXCEPT !.fapi = FALSE]
             r1 == [q1 EXCEPT !.at = "header"]
  <2>1. bad \in Frames
    BY <1>a DEF Frames, Status
  <2>2. q1 \in Frames /\ q2 \in Frames
    <3> HIDE DEF bad
    <3>1. q1 \in Frames
      BY <2>1 DEF Frames
    <3>2. q2 \in Frames
      BY <2>1 DEF Frames
    <3> QED BY <3>1, <3>2
  <2>3. r1.at \in Elsewhere
    <3> HIDE DEF q1
    <3> QED BY <1>a, <2>2 DEF Frames
  <2>4. /\ WakeLoop(p, p.count + 1).at \in Elsewhere /\ WakeLoop(q1, p.count + 1).at \in Elsewhere
        /\ WakeLoop(q2, p.count + 1).at \in Elsewhere /\ ThreadLoop(q2, 0).at \in Elsewhere
    BY <1>a, <2>2, CoreElsewhere
  <2>5. /\ Untouched([awake EXCEPT !.done = @ + 1]) /\ Untouched([awake EXCEPT !.failed = TRUE])
        /\ Untouched([hw EXCEPT !.failed = TRUE])
    BY <1>a DEF Untouched, Hardwares
  <2>6. \E q \in {WakeLoop(p, p.count + 1), WakeLoop(q1, p.count + 1), WakeLoop(q2, p.count + 1),
                  ThreadLoop(q2, 0), r1},
           h \in {[awake EXCEPT !.done = @ + 1], [awake EXCEPT !.failed = TRUE],
                  [hw EXCEPT !.failed = TRUE]} : Does(q, h)
    BY <1>3 DEF specialWakeUpCoreAssert
  <2> HIDE DEF awake, q1, q2, r1
  <2> QED BY <2>3, <2>4, <2>5, <2>6, DoesApart
<1>4. CASE ControlThreads
  <2>1. ThreadLoop(p, p.count + 1).at \in Elsewhere /\ Failed("header").at \in Elsewhere
    BY <1>a, CoreElsewhere, JumpsTo
  <2> QED BY <1>4, <2>1, HwWords, DoesApart DEF ControlThreads
<1>5. CASE specialWakeUpCoreDeAssert
  <2> DEFINE asleep == [hw EXCEPT !.awake = @ \ {Core}]
             bad == [p EXCEPT !.status = "EXECUTION_FAILURE", !.fapi = TRUE]
             r1 == [bad EXCEPT !.at = "header"]
  <2>1. bad \in Frames
    BY <1>a DEF Frames, Status
  <2>2. r1.at \in Elsewhere
    <3> HIDE DEF bad
    <3> QED BY <1>a, <2>1 DEF Frames
  <2>3. SleepLoop(p, p.count + 1).at \in Elsewhere /\ SleepLoop(bad, p.count + 1).at \in Elsewhere
    BY <1>a, <2>1, CoreElsewhere
  <2>4. /\ Untouched([asleep EXCEPT !.done = @ + 1]) /\ Untouched([asleep EXCEPT !.failed = TRUE])
        /\ Untouched([hw EXCEPT !.failed = TRUE])
    BY <1>a DEF Untouched, Hardwares
  <2>5. \E q \in {SleepLoop(p, p.count + 1), SleepLoop(bad, p.count + 1), r1},
           h \in {[asleep EXCEPT !.done = @ + 1], [asleep EXCEPT !.failed = TRUE],
                  [hw EXCEPT !.failed = TRUE]} : Does(q, h)
    BY <1>5 DEF specialWakeUpCoreDeAssert
  <2> HIDE DEF asleep, bad, r1
  <2> QED BY <2>2, <2>3, <2>4, <2>5, DoesApart
<1> QED BY <1>1, <1>2, <1>3, <1>4, <1>5 DEF sbeCntlInst

LEMMA RespondApart == ASSUME Ready, sbeHandleFifoResponse PROVE Apart \/ Ends
<1>a. p \in Frames
  BY DEF Ready
<1>1. CASE Respond
  <2>1. /\ Eot(p, "response.done", "response.done").at \in Elsewhere
        /\ To("response.header").at \in Elsewhere /\ "response.header" \in Elsewhere
    BY <1>a, ElsewhereLabels, JumpsTo, CallsAt
  <2>2. CASE p.rc = "NOT_SUPPORTED"
    BY <1>1, <1>a, <2>1, <2>2, DeqApart DEF Respond
  <2>3. CASE p.rc \in {"INSUFFICIENT_DATA", "EXCESS_DATA"}
    BY <1>1, <2>1, <2>3, GoesApart DEF Respond
  <2>4. CASE p.rc = "OK"
    BY <1>1, <2>1, <2>4, GoesApart DEF Respond
  <2>5. CASE p.rc \notin {"OK", "INSUFFICIENT_DATA", "EXCESS_DATA", "NOT_SUPPORTED"}
    BY <1>1, <2>5 DEF Respond
  <2> QED BY <2>2, <2>3, <2>4, <2>5
<1>2. CASE RespondFlushed
  BY <1>2, ElsewhereLabels, JumpsTo, GoesApart DEF RespondFlushed
<1>3. CASE RespondHeader \/ RespondEot
  <2>1. PICK w : \/ Goes(Enq(p, "response.eot", "response.done", w))
                 \/ Goes(Eot(p, "response.done", "response.done"))
    BY <1>3 DEF RespondHeader, RespondEot
  <2>2. /\ Enq(p, "response.eot", "response.done", w).at \in Elsewhere
        /\ Eot(p, "response.done", "response.done").at \in Elsewhere
    BY <1>a, ElsewhereLabels, CallsAt
  <2> QED BY <2>1, <2>2, GoesApart
<1>4. CASE RespondDone
  BY <1>4 DEF RespondDone
<1> QED BY <1>1, <1>2, <1>3, <1>4 DEF sbeHandleFifoResponse

\* The ends of the memory chip-ops.
LEMMA TailApart ==
    ASSUME Ready, MemTail \/ MemReply \/ MemBell \/ SramTail \/ SramReply PROVE Apart
<1>a. p \in Frames /\ hw \in Hardwares
  BY DEF Ready
<1>1. CASE MemTail \/ SramTail
  <2>1. PICK l \in {"mem.reply", "sram.reply"} :
           Goes(IF isRead THEN To(l) ELSE Deq(p, l, "return", 0, TRUE, p.status # "OK"))
    BY <1>1 DEF MemTail, SramTail, flushUpstreamFifo
  <2>2. l \in Elsewhere /\ To(l).at \in Elsewhere
    BY ElsewhereLabels, JumpsTo
  <2> QED BY <1>a, <2>1, <2>2, DeqApart, GoesApart
<1>2. CASE MemReply \/ SramReply
  BY <1>2, ElsewhereLabels, HeaderApart DEF MemReply, SramReply
<1>3. CASE MemBell
  <2>1. \/ Goes(To("return")) \/ Does(To("return"), [hw EXCEPT !.bell = TRUE])
        \/ p' = [p EXCEPT !.at = "return", !.rc = "GENERIC_FAILURE"] /\ UNCHANGED hw
    BY <1>3 DEF MemBell
  <2>2. /\ To("return").at \in Elsewhere
        /\ [p EXCEPT !.at = "return", !.rc = "GENERIC_FAILURE"].at \in Elsewhere
    BY <1>a, ElsewhereLabels, JumpsTo DEF Frames
  <2>3. Untouched([hw EXCEPT !.bell = TRUE])
    BY <1>a DEF Untouched, Hardwares
  <2>4. CASE p' = [p EXCEPT !.at = "return", !.rc = "GENERIC_FAILURE"] /\ UNCHANGED hw
    BY <2>2, <2>4 DEF Apart, Untouched
  <2> QED BY <2>1, <2>2, <2>3, <2>4, GoesApart, DoesApart
<1> QED BY <1>1, <1>2, <1>3

----------------------------------------------------------------------------
(* Words in order *)

LEMMA OrderEmpty == \A n : InOrder(<<>>, n)
  BY DEF InOrder

LEMMA OrderJoin ==
    ASSUME NEW a \in Buffers, NEW b \in Buffers, NEW n \in Nat, InOrder(a, n), InOrder(b, n + Len(a))
    PROVE  InOrder(a \o b, n) /\ a \o b \in Buffers /\ Len(a \o b) = Len(a) + Len(b)
<1>1. /\ a \o b \in Buffers /\ Len(a \o b) = Len(a) + Len(b)
      /\ \A i \in 1..(Len(a) + Len(b)) : (a \o b)[i] = IF i <= Len(a) THEN a[i] ELSE b[i - Len(a)]
  BY ConcatProperties DEF Buffers
<1>2. Len(a) \in Nat /\ Len(b) \in Nat
  BY DEF Buffers
<1>3. ASSUME NEW i \in 1..(Len(a) + Len(b)) PROVE (a \o b)[i] = n + i
  <2>1. CASE i <= Len(a)
    BY <1>1, <1>2, <2>1 DEF InOrder
  <2>2. CASE i > Len(a)
    <3>1. i - Len(a) \in 1..Len(b) /\ (n + Len(a)) + (i - Len(a)) = n + i
      BY <1>2, <2>2
    <3> QED BY <1>1, <1>2, <2>2, <3>1 DEF InOrder
  <2> QED BY <1>2, <2>1, <2>2
<1> QED BY <1>1, <1>3 DEF InOrder

LEMMA OrderAppend ==
    ASSUME NEW a \in Buffers, NEW n \in Nat, InOrder(a, n)
    PROVE  InOrder(Append(a, n + Len(a) + 1), n) /\ Len(Append(a, n + Len(a) + 1)) = Len(a) + 1
<1> DEFINE w == n + Len(a) + 1
           c == Append(a, w)
<1>1. Len(a) \in Nat /\ w \in Nat \cup Requests
  BY DEF Buffers
<1>2. /\ c \in Buffers /\ Len(c) = Len(a) + 1 /\ c[Len(a) + 1] = w
      /\ \A i \in 1..Len(a) : c[i] = a[i]
  BY <1>1, AppendProperties DEF Buffers
<1> HIDE DEF c
<1>3. InOrder(c, n)
  <2>1. ASSUME NEW i \in 1..(Len(a) + 1) PROVE c[i] = n + i
    <3>1. CASE i \in 1..Len(a)
      BY <1>2, <3>1 DEF InOrder
    <3>2. CASE i = Len(a) + 1
      BY <1>1, <1>2, <3>2 DEF w
    <3> QED BY <1>1, <3>1, <3>2
  <2> QED BY <1>2, <2>1 DEF InOrder
<1> QED BY <1>2, <1>3 DEF c, w

LEMMA OrderPart ==
    ASSUME NEW b \in Buffers, NEW n \in Nat, InOrder(b, n), NEW k \in Nat, k + 3 <= Len(b)
    PROVE  LET s == SubSeq(b, k + 1, k + 3)
           IN  s \in Buffers /\ Len(s) = 3 /\ InOrder(s, n + k)
<1> DEFINE s == SubSeq(b, k + 1, k + 3)
<1>1. Len(b) \in Nat /\ k + 1 \in 1..(Len(b) + 1) /\ k + 3 \in k..Len(b)
  BY DEF Buffers
<1>2. s \in Buffers /\ Len(s) = 3 /\ \A i \in 1..3 : s[i] = b[k + i]
  BY <1>1 DEF Buffers
<1> HIDE DEF s
<1>3. ASSUME NEW i \in 1..3 PROVE s[i] = (n + k) + i
  <2>1. k + i \in 1..Len(b) /\ n + (k + i) = (n + k) + i
    BY <1>1
  <2> QED BY <1>2, <2>1 DEF InOrder
<1> QED BY <1>2, <1>3 DEF InOrder, s

----------------------------------------------------------------------------
(* The chip-ops that do *)

LEMMA FreshBuffer ==
    ASSUME NEW q \in Frames, NEW l, NEW b, NEW n, NEW eot, NEW flush
    PROVE  LET d == Deq(q, l, b, n, eot, flush)
           IN  d.fn = "deq" /\ d.at = l /\ d.want = n /\ d.buf = <<>> /\ d.extra = 0 /\ Len(d.buf) = 0
<1>1. Len(<<>>) = 0
  OBVIOUS
<1> QED BY <1>1 DEF Deq, Frames

\* The request structure is taken.
LEMMA StructCarries ==
    ASSUME Ready, Given(p, hw), p.at \in Starts, NEW l \in Structs, NEW b, NEW eot, NEW flush,
           Goes(Deq(p, l, b, ReqWords, eot, flush))
    PROVE  Carries
<1>1. /\ p'.fn = "deq" /\ p'.at = l /\ p'.want = ReqWords /\ p'.extra = 0 /\ Len(p'.buf) = 0
      /\ hw' = hw
  BY FreshBuffer DEF Ready, Goes, Does
<1>2. l \notin Starts \cup Granules \cup Takes \cup {"reg.access"} /\ 0 < ReqWords
  BY MemAssumption DEF Structs, Starts, ScomOps, Granules, Takes
<1>3. hw.wrote = <<>> /\ InOrder(hw.wrote, ReqWords)
  BY DEF Given
<1>4. Given(p', hw')
  BY <1>1, <1>2, <1>3 DEF Given
<1>5. InMessage(p) /\ TakenWords(p, hw) = 0 /\ TakenWords(p', hw') = 0
  BY <1>1, <1>2 DEF InMessage, TakenWords
<1> QED BY <1>4, <1>5 DEF Carries

\* All of the payload is taken at once.
LEMMA PayloadCarries ==
    ASSUME Ready, Given(p, hw), p.fn = "none", p.at \in {"reg.check", "putring.payload"},
           NEW l \in Takes, NEW b, NEW n, NEW eot, NEW flush, Goes(Deq(p, l, b, n, eot, flush))
    PROVE  Carries
<1>1. /\ p'.fn = "deq" /\ p'.at = l /\ p'.extra = 0 /\ p'.buf = <<>> /\ Len(p'.buf) = 0
      /\ hw' = hw
  BY FreshBuffer DEF Ready, Goes, Does
<1>2. /\ l \notin Starts \cup Granules \cup Structs \cup {"reg.access"}
      /\ p.at \in Structs /\ p.at \notin Starts /\ AtOpen(p.at, req) /\ ReqWords \in Nat
  BY MemAssumption DEF Structs, Starts, ScomOps, Granules, Takes, AtOpen
<1>3. hw.wrote = <<>> /\ InOrder(hw.wrote, ReqWords) /\ Len(p.buf) = ReqWords /\ Len(hw.wrote) = 0
  <2>1. hw.wrote = <<>> /\ InOrder(hw.wrote, ReqWords) /\ Len(p.buf) = ReqWords
    BY <1>2 DEF Given
  <2> QED BY <2>1
<1>4. Given(p', hw')
  BY <1>1, <1>2, <1>3, OrderEmpty DEF Given
<1>5. InMessage(p) /\ TakenWords(p, hw) = ReqWords /\ TakenWords(p', hw') = ReqWords
  BY <1>1, <1>2, <1>3 DEF InMessage, TakenWords
<1> QED BY <1>4, <1>5 DEF Carries

\* A frame from which all of the message that was taken is with the hardware.
Looping(q, h) ==
    /\ Given(q, h)
    /\ InMessage(q) => ~isRead /\ TakenWords(q, h) = ReqWords + Len(h.wrote)

LEMMA ElsewhereLooping ==
    ASSUME NEW q, NEW h, q.at \in Elsewhere, InOrder(h.wrote, ReqWords) PROVE Looping(q, h)
  BY ElsewhereGiven DEF Looping

\* The loop over the granules, from its condition.
LEMMA LoopCarries ==
    ASSUME NEW q \in Frames, q.fn = "none", NEW h \in Hardwares, InOrder(h.wrote, ReqWords),
           NEW more, NEW l \in Granules, NEW n, more => n \in Nat \ {0}, NEW tail \in Elsewhere,
           NEW r, r = Loop(q, more, l, n, tail)
    PROVE  Looping(r, h)
<1>a. /\ l \notin Starts \cup Structs \cup Takes \cup {"reg.access", "idle"}
      /\ (AtOpen(l, req) <=> ~isRead) /\ ReqWords \in Nat /\ Len(h.wrote) \in Nat
  <2>1. l \notin Starts \cup Structs \cup Takes \cup {"reg.access", "idle"}
    BY DEF Granules, Starts, ScomOps, Structs, Takes
  <2>2. AtOpen(l, req) <=> ~isRead
    BY DEF Granules, AtOpen, Starts, ScomOps, PutLabels, ReadOps, isRead
  <2>3. ReqWords \in Nat /\ Len(h.wrote) \in Nat
    BY MemAssumption DEF Hardwares, Buffers
  <2> QED BY <2>1, <2>2, <2>3
<1>1. CASE ~more
  <2>1. r.at = tail
    BY <1>1 DEF Loop, Frames
  <2> QED BY <2>1, ElsewhereLooping
<1>2. CASE more /\ isRead
  <2>1. r.at = l /\ r.buf = <<>> /\ r.fn = "none"
    BY <1>2 DEF Loop, Frames
  <2>2. Given(r, h)
    BY <1>a, <2>1, OrderEmpty DEF Given
  <2> QED BY <1>2, <1>a, <2>1, <2>2 DEF InMessage, Looping
<1>3. CASE more /\ ~isRead
  <2>1. r = Deq(q, l, "return", n, FALSE, FALSE)
    BY <1>3 DEF Loop
  <2>2. /\ r.fn = "deq" /\ r.at = l /\ r.want = n /\ r.buf = <<>> /\ r.extra = 0
        /\ Len(r.buf) = 0
    BY <2>1 DEF Deq, Frames
  <2>a. 0 < n
    BY <1>3
  <2>3. Given(r, h)
    BY <1>3, <1>a, <2>2, <2>a, OrderEmpty DEF Given
  <2>4. TakenWords(r, h) = ReqWords + Len(h.wrote)
    BY <1>a, <2>2 DEF TakenWords
  <2> QED BY <1>3, <2>3, <2>4 DEF Looping
<1> QED BY <1>1, <1>2, <1>3

LEMMA MemLoopCarries ==
    ASSUME Ready, NEW q \in Frames, q.fn = "none", NEW h \in Hardwares, InOrder(h.wrote, ReqWords)
    PROVE  Looping(MemLoop(q), h)
<1>1. sizeMultiplier \in Nat \ {0}
  <2>1. PbaLines \in Nat \ {0} /\ req.len \in Nat
    BY MemAssumption, RequestTyped DEF Ready
  <2> QED BY <2>1 DEF sizeMultiplier
<1>2. "mem.access" \in Granules /\ "mem.tail" \in Elsewhere
  BY ElsewhereLabels DEF Granules
<1> QED BY <1>1, <1>2, LoopCarries DEF MemLoop

LEMMA SramLoopCarries ==
    ASSUME Ready, p.at \in {"sram.check", "sram.access", "sram.loop"},
           NEW q \in Frames, q.fn = "none", q.count % 4 = 0,
           NEW h \in Hardwares, InOrder(h.wrote, ReqWords)
    PROVE  Looping(SramLoop(q), h)
<1>1. q.count \in Nat /\ p.at \in SramLabels /\ p.at \notin Common
  BY DEF Frames, SramLabels, Common
<1>2. q.count < req.len => SramPass(q.count) \div 4 \in Nat \ {0}
  BY <1>1, SramPassTyped
<1>3. "sram.access" \in Granules /\ "sram.tail" \in Elsewhere
  BY ElsewhereLabels DEF Granules
<1> QED BY <1>2, <1>3, LoopCarries DEF SramLoop

\* A step from where the request was checked, from a granule, and from one that
\* has been sent.
LEMMA CheckedCarries ==
    ASSUME Ready, Given(p, hw), p.fn = "none", p.at \in {"mem.check", "sram.check"},
           NEW q, NEW h, Untouched(h), Looping(q, h), Does(q, h)
    PROVE  Carries
<1>1. p' = q /\ hw' = h
  BY DEF Does
<1>2. p.at \in Structs /\ p.at \notin Starts /\ (~isRead => AtOpen(p.at, req)) /\ ReqWords \in Nat
  BY MemAssumption DEF Structs, Starts, ScomOps, AtOpen, PutLabels, ReadOps, isRead
<1>3. hw.wrote = <<>> /\ (~isRead => Len(p.buf) = ReqWords)
  BY <1>2 DEF Given
<1>4. h.wrote = <<>> /\ Len(h.wrote) = 0
  BY <1>3 DEF Untouched
<1>5. ASSUME InMessage(q) PROVE InMessage(p) /\ TakenWords(q, h) = TakenWords(p, hw)
  <2>1. ~isRead /\ TakenWords(q, h) = ReqWords + Len(h.wrote)
    BY <1>5 DEF Looping
  <2>2. InMessage(p) /\ TakenWords(p, hw) = ReqWords
    BY <1>2, <1>3, <2>1 DEF InMessage, TakenWords
  <2> QED BY <1>2, <1>4, <2>1, <2>2
<1> QED BY <1>1, <1>5 DEF Carries, Looping

LEMMA GranuleCarries ==
    ASSUME Ready, Given(p, hw), p.fn = "none", p.at \in Granules,
           NEW q, NEW h, InMessage(q) => h.wrote = hw.wrote \o p.buf, Looping(q, h), Does(q, h)
    PROVE  Carries
<1>1. p' = q /\ hw' = h
  BY DEF Does
<1>2. /\ p.at \notin Structs /\ p.at \notin Starts /\ (~isRead => AtOpen(p.at, req))
  BY DEF Granules, Structs, Starts, ScomOps, AtOpen, PutLabels, ReadOps, isRead
<1>3. /\ InMessage(q) => Len(h.wrote) = Len(hw.wrote) + Len(p.buf)
      /\ Len(hw.wrote) \in Nat /\ Len(p.buf) \in Nat /\ ReqWords \in Nat
  <2>1. hw.wrote \in Buffers /\ p.buf \in Buffers
    BY DEF Ready, Frames, Hardwares
  <2>2. Len(hw.wrote \o p.buf) = Len(hw.wrote) + Len(p.buf)
    BY <2>1, ConcatProperties DEF Buffers
  <2>3. Len(hw.wrote) \in Nat /\ Len(p.buf) \in Nat /\ ReqWords \in Nat
    BY <2>1, MemAssumption DEF Buffers
  <2> QED BY <2>2, <2>3
<1>4. ASSUME InMessage(q) PROVE InMessage(p) /\ TakenWords(q, h) = TakenWords(p, hw)
  <2>1. ~isRead /\ TakenWords(q, h) = ReqWords + Len(h.wrote)
    BY <1>4 DEF Looping
  <2>2. InMessage(p) /\ TakenWords(p, hw) = ReqWords + Len(hw.wrote) + Len(p.buf)
    BY <1>2, <2>1 DEF InMessage, TakenWords
  <2>3. ReqWords + Len(h.wrote) = ReqWords + Len(hw.wrote) + Len(p.buf)
    <3> DEFINE a == Len(hw.wrote)
               b == Len(p.buf)
               d == Len(h.wrote)
    <3>1. ReqWords \in Nat /\ a \in Nat /\ b \in Nat /\ d = a + b
      BY <1>3, <1>4
    <3> HIDE DEF a, b, d
    <3>2. ReqWords + d = ReqWords + a + b
      BY <3>1
    <3> QED BY <3>2 DEF a, b, d
  <2> QED BY <2>1, <2>2, <2>3, Zenon
<1> QED BY <1>1, <1>4 DEF Carries, Looping

LEMMA GranuleOrder ==
    ASSUME Ready, Given(p, hw), p.at \in Granules
    PROVE  InOrder(hw.wrote \o p.buf, ReqWords)
<1>1. hw.wrote \in Buffers /\ p.buf \in Buffers /\ ReqWords \in Nat
  BY MemAssumption DEF Ready, Frames, Hardwares
<1>2. InOrder(hw.wrote, ReqWords) /\ InOrder(p.buf, ReqWords + Len(hw.wrote))
  BY DEF Given
<1> QED BY <1>1, <1>2, OrderJoin

LEMMA LoopedCarries ==
    ASSUME Ready, Given(p, hw), p.at \in Loops, NEW q, NEW h, Looping(q, h), Does(q, h)
    PROVE  Carries
<1>1. p' = q /\ hw' = h /\ isRead
  BY DEF Does, Ready, Control, ReadOps, isRead
<1> QED BY <1>1 DEF Carries, Looping

LEMMA MemWrapCarries == ASSUME Ready, Given(p, hw), sbeMemAccess_Wrap PROVE Carries
<1>1. p.at \in Starts /\ Goes(Deq(p, "mem.check", "return", ReqWords, isRead, FALSE))
  BY DEF sbeMemAccess_Wrap, At, Starts
<1>2. "mem.check" \in Structs
  BY DEF Structs
<1> QED BY <1>1, <1>2, StructCarries

LEMMA SramWrapCarries == ASSUME Ready, Given(p, hw), sbeOccSramAccess_Wrap PROVE Carries
<1>1. p.at \in Starts /\ Goes(Deq(p, "sram.check", "return", ReqWords, isRead, FALSE))
  BY DEF sbeOccSramAccess_Wrap, At, Starts
<1>2. "sram.check" \in Structs
  BY DEF Structs
<1> QED BY <1>1, <1>2, StructCarries

LEMMA MemCheckCarries == ASSUME Ready, Given(p, hw), MemCheck PROVE Carries
<1>1. p.fn = "none" /\ p.at = "mem.check" /\ p \in Frames /\ hw \in Hardwares
      /\ InOrder(hw.wrote, ReqWords)
  BY DEF MemCheck, At, Ready, Given
<1>2. PICK refusal : Does(IF refusal = "OK" THEN MemLoop(p) ELSE Refuses("mem.tail", refusal), hw)
  BY DEF MemCheck, Goes
<1>3. Looping(MemLoop(p), hw)
  BY <1>1, MemLoopCarries
<1>4. Looping(Refuses("mem.tail", refusal), hw)
  <2>1. Refuses("mem.tail", refusal).at \in Elsewhere
    BY ElsewhereLabels, JumpsTo
  <2> QED BY <1>1, <2>1, ElsewhereLooping
<1> QED BY <1>1, <1>2, <1>3, <1>4, HwWords, CheckedCarries

LEMMA MemSetupCarries == ASSUME Ready, Given(p, hw), MemSetup PROVE Carries
<1>a. p \in Frames /\ hw \in Hardwares /\ p.fn = "none" /\ p.at = "mem.access"
  BY DEF MemSetup, At, Ready
<1>1. CASE \E n \in 1..MaxGranules :
              Does(To("mem.access"),
                   [hw EXCEPT !.misused = @ \/ hw.open, !.open = TRUE, !.granted = n,
                              !.used = 0, !.max = n, !.curr = 0, !.cleaned = FALSE])
  <2>1. hw'.wrote = hw.wrote /\ p' = p
    <3>1. hw'.wrote = hw.wrote /\ p' = To("mem.access")
      BY <1>1, <1>a DEF Does, Hardwares
    <3>2. To("mem.access") = p
      BY <1>a DEF To, Frames
    <3> QED BY <3>1, <3>2
  <2>2. Given(p', hw') /\ TakenWords(p', hw') = TakenWords(p, hw)
    BY <2>1 DEF Given, TakenWords
  <2> QED BY <2>1, <2>2 DEF Carries
<1>2. CASE Does(Failed("mem.tail"), [hw EXCEPT !.failed = TRUE, !.open = FALSE, !.curr = 0,
                                               !.cleaned = FALSE])
  <2>1. Untouched([hw EXCEPT !.failed = TRUE, !.open = FALSE, !.curr = 0, !.cleaned = FALSE])
    BY <1>a DEF Untouched, Hardwares
  <2>2. Failed("mem.tail").at \in Elsewhere
    BY ElsewhereLabels, JumpsTo
  <2> QED BY <1>2, <2>1, <2>2, DoesApart, ApartCarries
<1> QED BY <1>1, <1>2 DEF MemSetup, setup

LEMMA AccessGives ==
    ASSUME Ready, NEW last \in BOOLEAN, NEW q, NEW l, accessGranule(last, q, l)
    PROVE  \/ \E h \in Hardwares : h.wrote = hw.wrote \o p.buf /\ Does(q, h)
           \/ \E h \in Hardwares : Untouched(h) /\ Does(Failed(l), h)
<1> DEFINE clean == CleansUp(last)
           bad == ~hw.open \/ (hw.curr = 0) # (hw.used = 0) \/ (hw.used + 1 = hw.granted /\ ~clean)
           h == [hw EXCEPT !.done = @ + 1, !.wrote = @ \o p.buf,
                           !.misused = @ \/ bad, !.open = ~clean, !.used = @ + 1,
                           !.cleaned = clean, !.max = @ - 1, !.curr = @ + 1]
           f == [hw EXCEPT !.failed = TRUE, !.misused = @ \/ bad, !.open = FALSE, !.cleaned = clean]
<1>1. h \in Hardwares /\ f \in Hardwares
  BY AccessTyped
<1>2. Does(q, h) \/ Does(Failed(l), f)
  BY DEF accessGranule
<1>3. h.wrote = hw.wrote \o p.buf
  BY DEF Ready, Hardwares
<1>4. Untouched(f)
  BY DEF Ready, Hardwares, Untouched
<1> HIDE DEF h, f
<1> QED BY <1>1, <1>2, <1>3, <1>4

LEMMA MemAccessCarries == ASSUME Ready, Given(p, hw), MemAccess PROVE Carries
<1> DEFINE last == p.count = getDataLenCacheAlign - 1
           words == IF isPba THEN sizeMultiplier ELSE AduWords(p.count)
           q == [p EXCEPT !.count = @ + 1]
           e == Enq(q, "mem.loop", "return", Data(p.count, words))
           r == IF isRead /\ words > 0 THEN e ELSE MemLoop(q)
<1>1. p.fn = "none" /\ p.at \in Granules /\ accessGranule(last, r, "mem.tail")
  BY DEF MemAccess, At, Granules
<1>2. q \in Frames /\ q.fn = "none"
  BY <1>1, CountTyped
<1>3. last \in BOOLEAN
  OBVIOUS
<1> HIDE DEF q, words, last
<1>4. e.at \in Elsewhere
  BY <1>2, ElsewhereLabels, CallsAt
<1> HIDE DEF e
<1>5. ASSUME NEW h \in Hardwares, h.wrote = hw.wrote \o p.buf PROVE Looping(r, h)
  <2>1. InOrder(h.wrote, ReqWords)
    BY <1>1, <1>5, GranuleOrder
  <2>2. Looping(e, h)
    BY <1>4, <2>1, ElsewhereLooping
  <2>3. Looping(MemLoop(q), h)
    BY <1>2, <2>1, MemLoopCarries
  <2> QED BY <2>2, <2>3
<1> HIDE DEF r
<1>6. CASE \E h \in Hardwares : h.wrote = hw.wrote \o p.buf /\ Does(r, h)
  BY <1>1, <1>5, <1>6, GranuleCarries
<1>7. CASE \E h \in Hardwares : Untouched(h) /\ Does(Failed("mem.tail"), h)
  <2>1. Failed("mem.tail").at \in Elsewhere
    BY ElsewhereLabels, JumpsTo
  <2> QED BY <1>7, <2>1, DoesApart, ApartCarries
<1> QED BY <1>1, <1>3, <1>6, <1>7, AccessGives

LEMMA SentCarries == ASSUME Ready, Given(p, hw), MemSent \/ SramSent PROVE Carries
<1>1. p.fn = "none" /\ p.at \in Loops /\ p \in Frames /\ hw \in Hardwares /\ InOrder(hw.wrote, ReqWords)
  BY DEF MemSent, SramSent, At, Loops, Ready, Given
<1>2. CASE MemSent
  BY <1>1, <1>2, MemLoopCarries, LoopedCarries DEF MemSent, Goes
<1>3. CASE SramSent
  <2>1. p.at = "sram.loop" /\ p.count % 4 = 0 /\ Does(SramLoop(p), hw)
    BY <1>3 DEF SramSent, At, Goes, Ready, Control, Counted
  <2> QED BY <1>1, <2>1, SramLoopCarries, LoopedCarries
<1> QED BY <1>2, <1>3

LEMMA SramCheckCarries == ASSUME Ready, Given(p, hw), SramCheck PROVE Carries
<1>1. p.fn = "none" /\ p.at = "sram.check" /\ p \in Frames /\ hw \in Hardwares
      /\ InOrder(hw.wrote, ReqWords) /\ p.count % 4 = 0
  BY DEF SramCheck, At, Ready, Given, Control, Counted
<1>2. CASE Goes([p EXCEPT !.at = "return", !.rc = "GENERIC_FAILURE"])
  <2>1. [p EXCEPT !.at = "return", !.rc = "GENERIC_FAILURE"].at \in Elsewhere
    BY <1>1, ElsewhereLabels DEF Frames
  <2> QED BY <1>2, <2>1, GoesApart, ApartCarries
<1>3. CASE Goes(Refuses("sram.tail", "ACCESS_DENIED"))
  BY <1>3, ElsewhereLabels, JumpsTo, GoesApart, ApartCarries
<1>4. CASE Goes(SramLoop(p))
  BY <1>1, <1>4, HwWords, SramLoopCarries, CheckedCarries DEF Goes
<1>5. CASE Hwp(SramLoop(p), hw, "sram.tail")
  <2> DEFINE h == [hw EXCEPT !.done = @ + 1]
  <2>1. h \in Hardwares /\ Untouched(h) /\ InOrder(h.wrote, ReqWords)
    BY <1>1, HwWords, HardwareTyped DEF Untouched
  <2>2. Failed("sram.tail").at \in Elsewhere
    BY ElsewhereLabels, JumpsTo
  <2>3. CASE Does(SramLoop(p), h)
    <3> HIDE DEF h
    <3> QED BY <1>1, <2>1, <2>3, SramLoopCarries, CheckedCarries
  <2>4. CASE Does(Failed("sram.tail"), [hw EXCEPT !.failed = TRUE])
    BY <2>2, <2>4, HwWords, DoesApart, ApartCarries
  <2> QED BY <1>5, <2>3, <2>4 DEF Hwp
<1> QED BY <1>2, <1>3, <1>4, <1>5 DEF SramCheck

\* A procedure that takes words, past what it does to the rest of the hardware.
LEMMA WordsGiven ==
    ASSUME Ready, NEW s \in Buffers
    PROVE  LET h == [[hw EXCEPT !.wrote = s] EXCEPT !.done = @ + 1]
           IN  h \in Hardwares /\ h.wrote = s
<1> DEFINE g == [hw EXCEPT !.wrote = s]
<1>1. g \in Hardwares /\ g.wrote = s
  BY DEF Ready, Hardwares
<1> HIDE DEF g
<1>2. [g EXCEPT !.done = @ + 1] \in Hardwares /\ [g EXCEPT !.done = @ + 1].wrote = s
  BY <1>1 DEF Hardwares
<1> QED BY <1>2 DEF g

\* Words that are given are those of the buffer, without the last word of half a
\* block, which only the last pass has.
LEMMA BlocksOrder ==
    ASSUME Ready, Given(p, hw), p.at \in Granules, NEW pass \in Nat
    PROVE  InOrder(hw.wrote \o SramBlocks(pass), ReqWords)
<1> DEFINE s == SramBlocks(pass)
           n == ReqWords + Len(hw.wrote)
<1>1. hw.wrote \in Buffers /\ s \in Buffers /\ ReqWords \in Nat
  BY MemAssumption, BlocksTyped DEF Ready, Hardwares
<1>2. InOrder(hw.wrote, ReqWords) /\ InOrder(p.buf, n)
  BY DEF Given
<1>3. \A i \in 1..Len(s) : i \in 1..Len(p.buf) /\ s[i] = p.buf[i]
  BY BlocksTyped
<1> HIDE DEF s, n
<1>4. InOrder(s, n)
  BY <1>2, <1>3 DEF InOrder
<1> QED BY <1>1, <1>2, <1>4, OrderJoin DEF s, n

LEMMA FullPass ==
    ASSUME NEW n \in Nat, req.len \in Nat, n + SramPass(n) < req.len
    PROVE  SramPass(n) = SramGranule /\ HalfBlock(SramPass(n)) = 0
<1>1. SramGranule \in Nat /\ SramGranule % 8 = 0
  BY MemAssumption, RequestAssumption
<1>2. SramPass(n) = SramGranule
  BY <1>1 DEF SramPass
<1> QED BY <1>1, <1>2, HalfTyped

LEMMA WholeBlocks ==
    ASSUME Ready, NEW pass \in Nat, HalfBlock(pass) = 0 PROVE SramBlocks(pass) = p.buf
<1> DEFINE b == p.buf
           n == Len(b)
<1>1. b \in Buffers /\ n \in Nat /\ SramBlocks(pass) = SubSeq(b, 1, n)
  <2>1. b \in Buffers /\ n \in Nat
    BY DEF Ready, Frames, Buffers
  <2>2. Len(p.buf) - HalfBlock(pass) = n
    BY <2>1
  <2> QED BY <2>1, <2>2 DEF SramBlocks
<1> HIDE DEF b
<1>2. b \in Seq(Nat \cup Requests)
  BY <1>1 DEF Buffers
<1>3. SubSeq(b, 1, Len(b)) = b
  BY <1>2
<1> QED BY <1>1, <1>3 DEF b

LEMMA SramAccessCarries == ASSUME Ready, Given(p, hw), SramAccess PROVE Carries
<1> DEFINE pass == SramPass(p.count)
           q == [p EXCEPT !.count = @ + pass]
           e == Enq(q, "sram.loop", "return", SramData(p.count, pass))
           r == IF isRead THEN e ELSE SramLoop(q)
           w == hw.wrote \o SramBlocks(pass)
           h == [[hw EXCEPT !.wrote = w] EXCEPT !.done = @ + 1]
<1>1. p.fn = "none" /\ p.at = "sram.access" /\ p.at \in SramLabels /\ p.at \notin Common
      /\ p.at \in Granules /\ Hwp(r, [hw EXCEPT !.wrote = w], "sram.tail")
  BY DEF SramAccess, At, SramLabels, Common, Granules, Ready, Hardwares
<1>3. p.count \in Nat /\ p.count % 4 = 0 /\ p.count < req.len
  BY <1>1 DEF Ready, Frames, Control, Counted
<1>4. pass \in Nat /\ (p.count + pass) % 4 = 0
  BY <1>1, <1>3, SramPassTyped
<1> HIDE DEF pass
<1>a. q \in Frames /\ q.fn = "none" /\ q.count = p.count + pass
  <2>1. p \in Frames /\ p.count + pass \in Nat
    BY <1>3, <1>4 DEF Ready
  <2> QED BY <1>1, <2>1 DEF Frames
<1> HIDE DEF q
<1>5. q \in Frames /\ q.fn = "none" /\ q.count = p.count + pass /\ q.count % 4 = 0
  BY <1>a, <1>4
<1>6. e.at \in Elsewhere
  BY <1>5, ElsewhereLabels, CallsAt
<1> HIDE DEF e
<1>7. h \in Hardwares /\ h.wrote = w
  <2>1. w \in Buffers
    BY <1>4, BlocksTyped
  <2> HIDE DEF w
  <2> QED BY <2>1, WordsGiven
<1>8. InOrder(h.wrote, ReqWords)
  BY <1>1, <1>4, <1>7, BlocksOrder
<1> HIDE DEF h
<1>9. Looping(r, h)
  <2>1. Looping(SramLoop(q), h)
    BY <1>1, <1>5, <1>7, <1>8, SramLoopCarries
  <2> QED BY <1>6, <1>8, <2>1, ElsewhereLooping
<1>b. InMessage(r) => h.wrote = hw.wrote \o p.buf
  <2>1. ASSUME InMessage(e) PROVE FALSE
    BY <1>6, <2>1, ElsewhereSilent
  <2>2. ASSUME InMessage(SramLoop(q)) PROVE h.wrote = hw.wrote \o p.buf
    <3>1. q.count < req.len
      <4> SUFFICES ASSUME ~(q.count < req.len) PROVE FALSE
        OBVIOUS
      <4>1. SramLoop(q).at \in Elsewhere
        BY <1>5, ElsewhereLabels DEF SramLoop, Loop, Frames
      <4> QED BY <2>2, <4>1, ElsewhereSilent
    <3>2. p.count + pass < req.len /\ req.len \in Nat
      BY <1>5, <3>1, RequestTyped
    <3>3. HalfBlock(pass) = 0
      BY <1>3, <3>2, FullPass DEF pass
    <3> QED BY <1>4, <1>7, <3>3, WholeBlocks
  <2> QED BY <2>1, <2>2
<1> HIDE DEF r
<1>10. CASE Does(r, h)
  BY <1>1, <1>9, <1>b, <1>10, GranuleCarries
<1>11. CASE Does(Failed("sram.tail"), [hw EXCEPT !.failed = TRUE])
  <2>1. Failed("sram.tail").at \in Elsewhere
    BY ElsewhereLabels, JumpsTo
  <2> QED BY <1>11, <2>1, HwWords, DoesApart, ApartCarries
<1> QED BY <1>1, <1>10, <1>11 DEF Hwp, h

LEMMA PutRingCarries == ASSUME Ready, Given(p, hw), sbePutRing PROVE Carries
<1>a. p \in Frames /\ hw \in Hardwares
  BY DEF Ready
<1>1. CASE PutRing
  <2>1. p.fn = "none" /\ p.at \in Starts
    BY <1>1 DEF PutRing, At, Starts
  <2>2. CASE req.len > RingMaxWords
    <3> DEFINE q == [p EXCEPT !.status = "INVALID_DATA"]
    <3>1. q \in Frames
      BY <1>a DEF Frames, Status
    <3>2. Goes(Deq(q, "header", "return", ReqWords + req.len, TRUE, TRUE))
      BY <1>1, <2>2 DEF PutRing
    <3> HIDE DEF q
    <3> QED BY <3>1, <3>2, ElsewhereLabels, DeqApart, ApartCarries
  <2>3. CASE ~(req.len > RingMaxWords)
    <3>1. Goes(Deq(p, "putring.payload", "return", ReqWords, FALSE, FALSE))
      BY <1>1, <2>3 DEF PutRing
    <3>2. "putring.payload" \in Structs
      BY DEF Structs
    <3> QED BY <2>1, <3>1, <3>2, StructCarries
  <2> QED BY <2>2, <2>3
<1>2. CASE PutRingPayload
  <2>1. /\ p.fn = "none" /\ p.at \in {"reg.check", "putring.payload"} /\ "putring.apply" \in Takes
        /\ Goes(Deq(p, "putring.apply", "return", req.len, TRUE, FALSE))
    BY <1>2 DEF PutRingPayload, At, Takes
  <2> QED BY <2>1, PayloadCarries
<1>3. CASE PutRingApply
  <2> DEFINE w == hw.wrote \o p.buf
             h == [[hw EXCEPT !.wrote = w] EXCEPT !.done = @ + 1]
  <2>1. p.at \in Takes /\ Hwp(To("header"), [hw EXCEPT !.wrote = w], "header")
    BY <1>3, <1>a DEF PutRingApply, At, Takes, Hardwares
  <2>2. w \in Buffers /\ InOrder(w, ReqWords)
    <3>1. /\ hw.wrote = <<>> /\ InOrder(hw.wrote, ReqWords) /\ InOrder(p.buf, ReqWords)
          /\ hw.wrote \in Buffers /\ p.buf \in Buffers /\ ReqWords \in Nat
      BY <1>a, <2>1, MemAssumption DEF Given, Frames, Hardwares
    <3>2. Len(hw.wrote) = 0 /\ ReqWords + Len(hw.wrote) = ReqWords
      BY <3>1
    <3> QED BY <3>1, <3>2, OrderJoin
  <2> HIDE DEF w
  <2>3. h \in Hardwares /\ h.wrote = w
    BY <2>2, WordsGiven
  <2> HIDE DEF h
  <2>4. To("header").at \in Elsewhere /\ Failed("header").at \in Elsewhere
    BY ElsewhereLabels, JumpsTo
  <2>5. CASE Does(To("header"), h)
    <3>1. Looping(To("header"), h) /\ ~InMessage(To("header"))
      BY <2>2, <2>3, <2>4, ElsewhereLooping, ElsewhereGiven
    <3> QED BY <2>5, <3>1 DEF Carries, Looping, Does
  <2>6. CASE Does(Failed("header"), [hw EXCEPT !.failed = TRUE])
    BY <2>4, <2>6, HwWords, DoesApart, ApartCarries
  <2> QED BY <2>1, <2>5, <2>6 DEF Hwp, h
<1> QED BY <1>1, <1>2, <1>3 DEF sbePutRing

\* A step among the registers.
LEMMA RegCarries ==
    ASSUME NEW q, NEW h, Does(q, h), InOrder(h.wrote, ReqWords), q.at \in {"reg.access", "reg.cleanup"},
           q.at = "reg.access" /\ req.op = "putreg" =>
               q.fn = "none" /\ InOrder(q.buf, ReqWords) /\ Len(h.wrote) = 3 * q.count
    PROVE  Carries
<1>1. p' = q /\ hw' = h
  BY DEF Does
<1>2. q.at \notin Starts \cup Structs \cup Granules \cup Takes \cup {"idle"}
  BY DEF Starts, ScomOps, Structs, Granules, Takes
<1> QED BY <1>1, <1>2 DEF Carries, Given, InMessage

LEMMA PackageOrder ==
    ASSUME Ready, Given(p, hw), p.fn = "none", p.at = "reg.access", req.op = "putreg"
    PROVE  LET w == hw.wrote \o Package(p.count)
           IN  w \in Buffers /\ InOrder(w, ReqWords) /\ Len(w) = 3 * (p.count + 1)
<1>1. /\ p.buf \in Buffers /\ hw.wrote \in Buffers /\ p.count \in Nat /\ req.len \in Nat
      /\ ReqWords \in Nat
  BY RequestTyped, MemAssumption DEF Ready, Frames, Hardwares
<1>2. p.count < req.len /\ Len(p.buf) = 3 * req.len
  BY DEF Ready, Control, Counted, Filled
<1>3. InOrder(p.buf, ReqWords) /\ Len(hw.wrote) = 3 * p.count /\ InOrder(hw.wrote, ReqWords)
  BY DEF Given
<1> DEFINE k == 3 * p.count
           s == SubSeq(p.buf, k + 1, k + 3)
<1>4. k \in Nat /\ k + 3 <= Len(p.buf) /\ k + 3 = 3 * (p.count + 1) /\ Len(hw.wrote) = k
  <2> DEFINE c == p.count
             m == req.len
  <2>1. c \in Nat /\ m \in Nat /\ c < m
    BY <1>1, <1>2
  <2> HIDE DEF c, m
  <2>2. 3 * c \in Nat /\ 3 * c + 3 <= 3 * m /\ 3 * c + 3 = 3 * (c + 1)
    BY <2>1
  <2> QED BY <1>2, <1>3, <2>2, Zenon DEF c, m
<1>5. Package(p.count) = s
  BY DEF Package
<1> HIDE DEF k
<1>6. s \in Buffers /\ Len(s) = 3 /\ InOrder(s, ReqWords + k)
  BY <1>1, <1>3, <1>4, OrderPart
<1> HIDE DEF s
<1>7. InOrder(hw.wrote \o s, ReqWords) /\ hw.wrote \o s \in Buffers /\ Len(hw.wrote \o s) = Len(hw.wrote) + Len(s)
  BY <1>1, <1>3, <1>4, <1>6, OrderJoin
<1> QED BY <1>4, <1>5, <1>6, <1>7, Zenon

LEMMA RegAccessCarries == ASSUME Ready, Given(p, hw), RegAccess PROVE Carries
<1> DEFINE next == RegLoop(p.count + 1)
           k == p.count + 1
           q == [p EXCEPT !.count = k, !.at = next]
           e == Enq(q, next, "reg.cleanup", Data(p.count, 2))
           w == hw.wrote \o Package(p.count)
           h == [[hw EXCEPT !.wrote = w] EXCEPT !.done = @ + 1]
           g == [hw EXCEPT !.done = @ + 1]
<1>a. p \in Frames /\ hw \in Hardwares /\ p.count \in Nat /\ p.fn = "none" /\ p.at = "reg.access"
  BY DEF Ready, Frames, RegAccess, At
<1>1. \/ req.op = "getreg" /\ Does(e, g)
      \/ req.op # "getreg" /\ Does(q, h)
      \/ Does(Failed("header"), [hw EXCEPT !.failed = TRUE])
  BY <1>a DEF RegAccess, Hwp, Frames, Hardwares
<1>2. next \in {"reg.access", "reg.cleanup"} /\ next \in Labels /\ k \in Nat
  BY <1>a, RegLoopTyped
<1>b. req.op \in RegOps
  BY <1>a DEF Ready, Control, Owned, Common, RegLabels
<1> HIDE DEF next
<1>3. q \in Frames /\ q.at = next /\ q.count = k /\ q.buf = p.buf /\ q.fn = "none"
  <2> HIDE DEF k
  <2> QED BY <1>2, <1>a DEF Frames
<1> HIDE DEF q
<1>4. CASE req.op = "getreg" /\ Does(e, g)
  <2>1. e.at = next
    BY <1>3, CallsAt
  <2>2. InOrder(g.wrote, ReqWords)
    BY HwWords DEF Untouched, Given
  <2> HIDE DEF e, g
  <2> QED BY <1>2, <1>4, <2>1, <2>2, RegCarries
<1>5. CASE req.op # "getreg" /\ Does(q, h)
  <2>1. req.op = "putreg"
    BY <1>5, <1>b DEF RegOps
  <2>2. w \in Buffers /\ InOrder(w, ReqWords) /\ Len(w) = 3 * k
    BY <1>a, <2>1, PackageOrder
  <2> HIDE DEF w, k
  <2>3. h.wrote = w
    BY <2>2, WordsGiven
  <2> HIDE DEF h
  <2>4. InOrder(q.buf, ReqWords)
    BY <1>3, <1>a, <2>1 DEF Given
  <2> QED BY <1>2, <1>3, <1>5, <2>2, <2>3, <2>4, RegCarries
<1>6. CASE Does(Failed("header"), [hw EXCEPT !.failed = TRUE])
  <2>1. Failed("header").at \in Elsewhere
    BY ElsewhereLabels, JumpsTo
  <2> QED BY <1>6, <2>1, HwWords, DoesApart, ApartCarries
<1> QED BY <1>1, <1>4, <1>5, <1>6

LEMMA RegAccessesCarry == ASSUME Ready, Given(p, hw), sbeRegAccess PROVE Carries
<1>a. p \in Frames /\ hw \in Hardwares /\ "header" \in Elsewhere /\ Failed("header").at \in Elsewhere
  BY ElsewhereLabels, JumpsTo DEF Ready
<1>1. CASE RegRequest
  <2>1. /\ p.at \in Starts /\ "reg.check" \in Structs
        /\ Goes(Deq(p, "reg.check", "return", ReqWords, FALSE, FALSE))
    BY <1>1 DEF RegRequest, At, Starts, Structs
  <2> QED BY <2>1, StructCarries
<1>2. CASE RegCheck
  <2>1. p.fn = "none" /\ p.at \in {"reg.check", "putring.payload"} /\ "reg.setup" \in Takes
    BY <1>2 DEF RegCheck, At, Takes
  <2>2. CASE Goes(Refuses("header", "INVALID_DATA"))
    BY <1>a, <2>2, JumpsTo, GoesApart, ApartCarries
  <2>3. CASE Goes(Deq(p, "reg.setup", "return", Payload(req), TRUE, FALSE))
    BY <2>1, <2>3, PayloadCarries
  <2> QED BY <1>2, <2>2, <2>3 DEF RegCheck
<1>3. CASE RegSetup
  <2> DEFINE l == RegLoop(0)
             h == [[hw EXCEPT !.open = TRUE] EXCEPT !.done = @ + 1]
  <2>1. /\ p.fn = "none" /\ p.at = "reg.setup"
        /\ Does(To(l), h) \/ Does(Failed("header"), [hw EXCEPT !.failed = TRUE])
    BY <1>3 DEF RegSetup, At, To, Hwp
  <2>2. l \in {"reg.access", "reg.cleanup"} /\ l \in Labels
    BY RegLoopTyped
  <2> HIDE DEF l
  <2>3. To(l).at = l /\ To(l).count = p.count /\ To(l).buf = p.buf /\ To(l).fn = "none"
    BY <1>a, <2>1, <2>2 DEF To, Frames
  <2>4. Untouched(h)
    BY <1>a DEF Untouched, Hardwares
  <2> HIDE DEF h
  <2>5. p.count = 0 /\ hw.wrote = <<>> /\ InOrder(p.buf, ReqWords) /\ InOrder(hw.wrote, ReqWords)
    BY <2>1 DEF Ready, Control, Counted, Given, Takes
  <2>6. h.wrote = <<>> /\ Len(h.wrote) = 3 * p.count /\ InOrder(h.wrote, ReqWords)
    BY <2>4, <2>5 DEF Untouched
  <2>7. CASE Does(To(l), h)
    BY <2>2, <2>3, <2>5, <2>6, <2>7, RegCarries
  <2>8. CASE Does(Failed("header"), [hw EXCEPT !.failed = TRUE])
    BY <1>a, <2>8, HwWords, DoesApart, ApartCarries
  <2> QED BY <2>1, <2>7, <2>8
<1>4. CASE RegAccess
  BY <1>4, RegAccessCarries
<1>5. CASE RegCleanup
  <2> DEFINE next == IF p.rc = "OK" THEN "header" ELSE "return"
             h == [[hw EXCEPT !.open = FALSE] EXCEPT !.done = @ + 1]
  <2>1. Does(To(next), h) \/ Does(Failed(next), [hw EXCEPT !.failed = TRUE])
    BY <1>5 DEF RegCleanup, Hwp
  <2>2. next \in Elsewhere
    BY ElsewhereLabels
  <2>3. Untouched(h)
    BY <1>a DEF Untouched, Hardwares
  <2> HIDE DEF next, h
  <2>4. To(next).at \in Elsewhere /\ Failed(next).at \in Elsewhere
    BY <2>2, JumpsTo
  <2> QED BY <2>1, <2>3, <2>4, HwWords, DoesApart, ApartCarries
<1> QED BY <1>1, <1>2, <1>3, <1>4, <1>5 DEF sbeRegAccess

LEMMA ChipOpCarries == ASSUME Ready, Given(p, hw), ChipOp PROVE Carries \/ Ends
<1>1. CASE MemoryOps
  BY <1>1, MemWrapCarries, MemCheckCarries, MemSetupCarries, MemAccessCarries, SentCarries,
     SramWrapCarries, SramCheckCarries, SramAccessCarries, TailApart, ApartCarries DEF MemoryOps
<1>2. CASE sbeScomAccess \/ sbeGetRing \/ sbeControlTraceArray \/ sbeControlFastArray \/ sbeCntlInst
  BY <1>2, ScomApart, GetRingApart, ArrayApart, CntlInstApart, ApartCarries
<1>3. CASE Istep \/ IstepRun \/ sbeHandleFlushNVDIMM \/ sbeGetCapabilities \/ sbeGetFfdc
           \/ sbeFifoQuiesce \/ SendHeader
  BY <1>3, OtherApart, ApartCarries
<1>4. CASE sbeRegAccess \/ sbePutRing
  BY <1>4, RegAccessesCarry, PutRingCarries
<1>5. CASE sbeHandleFifoResponse
  BY <1>5, RespondApart, ApartCarries
<1> QED BY <1>1, <1>2, <1>3, <1>4, <1>5 DEF ChipOp

----------------------------------------------------------------------------
(* The FIFO layer *)

LEMMA GivenNext == ASSUME Given(p', hw'), req' = req PROVE Given(p, hw)'
  BY DEF Given, AtOpen

\* A routine comes back, one that took words with the end of the message.
LEMMA ReturnGiven ==
    ASSUME Ready, Given(p, hw), p.fn # "none", NEW rc \in Rc,
           rc = "OK" /\ p.fn = "deq" => p.eot
    PROVE  Given(Return(p, rc), hw) /\ ~InMessage(Return(p, rc))
<1> DEFINE d == Return(p, rc)
<1>1. /\ d.fn = "none" /\ d.at = (IF rc = "OK" THEN p.at ELSE p.brk)
      /\ d.buf = p.buf /\ d.count = p.count
  BY ReturnTyped DEF Ready
<1>2. p.fn \in {"deq", "enq", "eot"} /\ Control(p, req) /\ InOrder(hw.wrote, ReqWords)
  BY DEF Ready, Frames, Given
<1> HIDE DEF d
<1>3. CASE rc # "OK"
  <2>1. d.at \in {"return", "header", "response.flushed", "reg.cleanup", "response.done"}
    BY <1>1, <1>2, <1>3 DEF Control
  <2>2. d.at \in Elsewhere
    BY <2>1, ElsewhereLabels
  <2> QED BY <1>2, <2>2, ElsewhereGiven DEF d
<1>4. CASE rc = "OK"
  <2>1. d.at = p.at /\ ~AtOpen(p.at, req) /\ p.at # "idle"
    BY <1>1, <1>2, <1>4 DEF Control
  <2>2. p.at \notin Starts
    BY <2>1 DEF AtOpen
  <2>3. ~InMessage(d)
    BY <1>1, <2>1, <2>2 DEF InMessage
  <2>4. Given(d, hw)
    BY <1>1, <2>1, <2>2 DEF Given
  <2> QED BY <2>3, <2>4 DEF d
<1> QED BY <1>3, <1>4

\* A word that there is room for.
LEMMA WordKept ==
    ASSUME Ready, p.fn = "deq", NEW w \in Nat \cup Requests, ~p.flush, p.extra = 0, Len(p.buf) < p.want
    PROVE  LET d == DeqWord(w)
               b == Append(p.buf, w)
           IN  /\ d.at = p.at /\ d.buf = b /\ b \in Buffers /\ Len(b) = Len(p.buf) + 1
               /\ \/ d.fn = "deq" /\ d.extra = 0 /\ d.want = p.want /\ (p.eot \/ Len(b) < p.want)
                  \/ d.fn = "none" /\ ~p.eot /\ Len(b) = p.want
<1> DEFINE b == Append(p.buf, w)
           q == [p EXCEPT !.buf = b]
           more == p.eot \/ Len(p.buf) + 1 < p.want
           d == DeqWord(w)
<1>1. p \in Frames /\ p.buf \in Buffers /\ Len(p.buf) \in Nat /\ p.want \in Nat
  BY DEF Ready, Frames, Buffers
<1>2. b \in Buffers /\ Len(b) = Len(p.buf) + 1
  BY <1>1, AppendProperties DEF Buffers
<1>3. Taken = Len(p.buf)
  BY <1>1 DEF Taken
<1>4. d = IF more THEN q ELSE Return(q, "OK")
  BY <1>1, <1>3 DEF DeqWord, Frames
<1> HIDE DEF b
<1>5. /\ q \in Frames /\ q.fn = "deq" /\ q.at = p.at /\ q.buf = b /\ q.extra = 0 /\ q.want = p.want
  BY <1>1, <1>2 DEF Frames
<1> HIDE DEF q, d
<1>6. CASE more
  BY <1>1, <1>2, <1>4, <1>5, <1>6 DEF b, d
<1>7. CASE ~more
  <2>1. "OK" \in Rc
    BY DEF Rc
  <2>2. d.fn = "none" /\ d.at = p.at /\ d.buf = b
    BY <1>4, <1>5, <1>7, <2>1, ReturnTyped
  <2>3. ~p.eot /\ Len(b) = p.want
    BY <1>1, <1>2, <1>7
  <2> QED BY <1>2, <2>2, <2>3 DEF b, d
<1> QED BY <1>6, <1>7

\* A word of the message is the next one where the chip-op takes its own.
LEMMA WordGiven ==
    ASSUME Ready, Given(p, hw), p.fn = "deq", NEW w \in Nat \cup Requests,
           InMessage(p) => w = TakenWords(p, hw) + 1
    PROVE  /\ Given(DeqWord(w), hw)
           /\ InMessage(DeqWord(w)) =>
                 InMessage(p) /\ TakenWords(DeqWord(w), hw) = TakenWords(p, hw) + 1
<1> DEFINE d == DeqWord(w)
           b == Append(p.buf, w)
           n == ReqWords + Len(hw.wrote)
<1>1. d.at = p.at
  BY WordFrame
<1>2. /\ p.buf \in Buffers /\ Len(p.buf) \in Nat /\ p.want \in Nat /\ p.extra \in {0, 1}
      /\ ReqWords \in Nat /\ Len(hw.wrote) \in Nat /\ n \in Nat
  <2>1. p.buf \in Buffers /\ hw.wrote \in Buffers /\ p.want \in Nat /\ p.extra \in {0, 1} /\ ReqWords \in Nat
    BY MemAssumption DEF Ready, Frames, Hardwares
  <2>2. Len(p.buf) \in Nat /\ Len(hw.wrote) \in Nat
    BY <2>1 DEF Buffers
  <2> QED BY <2>1, <2>2
<1>3. /\ p.eot <=> ~AtOpen(p.at, req)
      /\ p.flush => p.eot
      /\ p.at \notin Starts \cup {"idle"}
      /\ ~(p.at = "reg.access" /\ req.op = "putreg")
  BY DEF Ready, Control, Given
<1>a. InOrder(hw.wrote, ReqWords) /\ (p.at \in Structs \cup Takes => hw.wrote = <<>>)
  BY DEF Given
<1>4. CASE p.at \in Structs
  <2>1. p.at \notin Granules \cup Takes
    BY <1>4 DEF Structs, Granules, Takes
  <2>2. CASE ~AtOpen(p.at, req)
    <3> HIDE DEF d
    <3>1. Given(d, hw) /\ ~InMessage(d)
      BY <1>1, <1>3, <1>4, <1>a, <2>1, <2>2 DEF Given, InMessage
    <3> QED BY <3>1 DEF d
  <2>3. CASE AtOpen(p.at, req)
    <3>1. /\ p.extra = 0 /\ Len(p.buf) < p.want /\ p.want = ReqWords /\ ~p.flush /\ ~p.eot
          /\ InMessage(p) /\ TakenWords(p, hw) = Len(p.buf)
      BY <1>3, <1>4, <2>3 DEF Given, InMessage, TakenWords
    <3>2. /\ d.buf = b /\ Len(b) = Len(p.buf) + 1
          /\ \/ d.fn = "deq" /\ d.extra = 0 /\ d.want = p.want /\ Len(b) < p.want
             \/ d.fn = "none" /\ Len(b) = p.want
      BY <3>1, WordKept
    <3> HIDE DEF d, b
    <3>3. Given(d, hw)
      BY <1>1, <1>3, <1>4, <1>a, <2>1, <3>1, <3>2 DEF Given
    <3>4. TakenWords(d, hw) = Len(b)
      BY <1>1, <1>3, <1>4, <3>2 DEF TakenWords
    <3> QED BY <3>1, <3>2, <3>3, <3>4 DEF d
  <2> QED BY <2>2, <2>3
<1>5. CASE p.at \in Granules
  <2>1. p.at \notin Structs \cup Takes \cup {"reg.access"}
    BY <1>5 DEF Structs, Granules, Takes
  <2>2. /\ p.extra = 0 /\ Len(p.buf) < p.want /\ ~p.flush /\ ~p.eot /\ AtOpen(p.at, req)
        /\ InMessage(p) /\ TakenWords(p, hw) = n + Len(p.buf) /\ InOrder(p.buf, n)
    BY <1>3, <1>5, <2>1 DEF Given, InMessage, TakenWords
  <2>3. /\ d.buf = b /\ Len(b) = Len(p.buf) + 1
        /\ \/ d.fn = "deq" /\ d.extra = 0 /\ d.want = p.want /\ Len(b) < p.want
           \/ d.fn = "none"
    BY <2>2, WordKept
  <2>4. InOrder(b, n)
    BY <1>2, <2>2, OrderAppend
  <2> HIDE DEF d, b
  <2>5. Given(d, hw)
    BY <1>1, <1>3, <1>5, <1>a, <2>1, <2>2, <2>3, <2>4 DEF Given
  <2>6. TakenWords(d, hw) = n + Len(b)
    BY <1>1, <1>3, <2>1, <2>3 DEF TakenWords
  <2> HIDE DEF n
  <2>7. TakenWords(d, hw) = TakenWords(p, hw) + 1
    BY <1>2, <2>2, <2>3, <2>6
  <2> QED BY <2>2, <2>5, <2>7 DEF d
<1>6. CASE p.at \in Takes
  <2>1. p.at \notin Structs \cup Granules \cup {"reg.access"} /\ ~AtOpen(p.at, req)
    BY <1>6 DEF Structs, Granules, Takes, AtOpen, Starts, ScomOps, PutLabels
  <2>2. hw.wrote = <<>> /\ InOrder(p.buf, ReqWords) /\ p.eot
    BY <1>3, <1>6, <2>1 DEF Given
  <2>3. n = ReqWords
    BY <1>2, <2>2
  <2>4. CASE ~p.flush /\ Taken < p.want
    <3>1. p.extra = 0 /\ Len(p.buf) < p.want
      BY <1>2, <2>4 DEF Ready, Calls, Taken
    <3>2. InMessage(p) /\ TakenWords(p, hw) = n + Len(p.buf)
      BY <1>3, <1>6, <2>1, <3>1 DEF InMessage, TakenWords
    <3>3. d.buf = b /\ Len(b) = Len(p.buf) + 1
      BY <2>4, <3>1, WordKept
    <3>4. InOrder(b, n)
      BY <1>2, <2>2, <2>3, <3>2, OrderAppend
    <3> HIDE DEF d, b
    <3>5. Given(d, hw)
      BY <1>1, <1>3, <1>6, <1>a, <2>1, <2>3, <3>3, <3>4 DEF Given
    <3>6. TakenWords(d, hw) = n + Len(b)
      BY <1>1, <1>3, <2>1, <3>3 DEF TakenWords
    <3> HIDE DEF n
    <3>7. TakenWords(d, hw) = TakenWords(p, hw) + 1
      BY <1>2, <3>2, <3>3, <3>6
    <3> QED BY <3>2, <3>5, <3>7 DEF d
  <2>5. CASE ~(~p.flush /\ Taken < p.want)
    <3>1. d = [p EXCEPT !.extra = 1]
      BY <2>2, <2>5 DEF DeqWord
    <3>2. d.buf = p.buf /\ d.extra = 1
      BY <3>1 DEF Ready, Frames
    <3> HIDE DEF d
    <3>3. Given(d, hw)
      BY <1>1, <1>3, <1>6, <1>a, <2>1, <2>2, <3>2 DEF Given
    <3>4. ~InMessage(d)
      BY <1>1, <1>3, <2>1, <3>2 DEF InMessage
    <3> QED BY <3>3, <3>4 DEF d
  <2> QED BY <2>4, <2>5
<1>7. CASE p.at \notin Structs \cup Granules \cup Takes
  <2> HIDE DEF d
  <2>1. Given(d, hw) /\ ~InMessage(d)
    BY <1>1, <1>3, <1>7, <1>a DEF Given, InMessage
  <2> QED BY <2>1 DEF d
<1> QED BY <1>4, <1>5, <1>6, <1>7

\* Where the chip-op comes to, no word of the message is on its way.
LEMMA OutOfMessage ==
    ASSUME Given(p', hw'), ~InMessage(p'), req' = req PROVE DataInv'
<1>1. ~InMessage(p)'
  BY DEF InMessage, AtOpen
<1> QED BY <1>1, GivenNext DEF DataInv, Numbered

LEMMA ReturnData ==
    ASSUME Ready, DataInv, p.fn # "none", NEW rc \in Rc, rc = "OK" /\ p.fn = "deq" => p.eot,
           p' = Return(p, rc), UNCHANGED <<req, hw>>
    PROVE  DataInv'
  BY ReturnGiven, OutOfMessage DEF DataInv

LEMMA TakenTyped == ASSUME Ready PROVE TakenWords(p, hw) \in Nat
<1>1. p.buf \in Buffers /\ hw.wrote \in Buffers /\ ReqWords \in Nat
  BY MemAssumption DEF Ready, Frames, Hardwares
<1>2. Len(p.buf) \in Nat /\ Len(hw.wrote) \in Nat
  BY <1>1 DEF Buffers
<1>3. ReqWords + Len(hw.wrote) + Len(p.buf) \in Nat /\ 0 \in Nat
  <2> DEFINE a == Len(hw.wrote)
             b == Len(p.buf)
  <2>1. a \in Nat /\ b \in Nat /\ ReqWords \in Nat
    BY <1>1, <1>2
  <2> HIDE DEF a, b
  <2>2. ReqWords + a + b \in Nat /\ 0 \in Nat
    BY <2>1
  <2> QED BY <2>2 DEF a, b
<1> QED BY <1>2, <1>3, Zenon DEF TakenWords

LEMMA DeqData ==
    ASSUME Inv, DataInv, sbeUpFifoDeq_mult, UNCHANGED <<req, hw, sp>> PROVE DataInv'
<1>a. Ready /\ Wires /\ p.fn = "deq" /\ Given(p, hw) /\ reset' = reset
  BY DEF Inv, DataInv, sbeUpFifoDeq_mult
<1>1. CASE p' = Return(p, "RESET")
  BY <1>1, <1>a, ReturnData DEF Rc
<1>2. CASE p' = Return(p, EotRc(Taken))
  <2>1. EotRc(Taken) \in Rc /\ (EotRc(Taken) = "OK" => p.eot)
    BY <1>a DEF EotRc, Rc, Ready, Control
  <2> QED BY <1>2, <1>a, <2>1, ReturnData
<1>3. CASE ~reset /\ up # <<>> /\ up' = Tail(up) /\ Head(up)[1] # "eot" /\ p' = DeqWord(Head(up)[2])
  <2> DEFINE w == Head(up)[2]
             n == TakenWords(p, hw)
  <2>1. /\ Stream' = Tail(Stream) /\ Stream # <<>> /\ Stream[1] = Head(up) /\ Head(up) \in UpWord
        /\ Stream \in UpWords
    <3>1. sp.left \in UpWords /\ up \in UpWords /\ Stream \in UpWords
      BY <1>a, StreamTyped
    <3>2. /\ Tail(up) \o sp.left = Tail(up \o sp.left) /\ up \o sp.left # <<>>
          /\ (up \o sp.left)[1] = Head(up) /\ Head(up) \in UpWord
      BY <1>3, <3>1, TakeHead
    <3> QED BY <1>3, <3>1, <3>2 DEF Stream
  <2>2. w \in Nat \cup Requests /\ Head(up) # <<"eot">>
    BY <1>3, <2>1, UpWordKinds
  <2>3. n \in Nat
    BY <1>a, TakenTyped
  <2>4. ASSUME InMessage(p) PROVE w = n + 1 /\ Rest(Stream', n + 1)
    <3>1. Rest(Stream, n)
      BY <1>3, <2>4 DEF DataInv, Numbered
    <3>2. Stream[1] = <<"arg", n + 1>> /\ Rest(Tail(Stream), n + 1)
      <4> HIDE DEF n
      <4> QED BY <2>1, <2>2, <2>3, <3>1, TailRest
    <3> QED BY <2>1, <3>2
  <2>5. /\ Given(DeqWord(w), hw)
        /\ InMessage(DeqWord(w)) => InMessage(p) /\ TakenWords(DeqWord(w), hw) = n + 1
    BY <1>a, <2>2, <2>4, WordGiven
  <2>6. Given(p, hw)'
    BY <1>3, <2>5, GivenNext
  <2>7. InMessage(p)' => InMessage(p')
    BY DEF InMessage, AtOpen
  <2>8. TakenWords(p, hw)' = TakenWords(p', hw)
    BY DEF TakenWords
  <2>9. Numbered'
    BY <1>3, <2>4, <2>5, <2>7, <2>8 DEF Numbered
  <2> QED BY <2>6, <2>9 DEF DataInv
<1> QED BY <1>1, <1>2, <1>3 DEF sbeUpFifoDeq_mult

LEMMA EnqData ==
    ASSUME Inv, DataInv, sbeDownFifoEnq_mult, UNCHANGED <<req, hw>> PROVE DataInv'
<1>a. Ready /\ p.fn = "enq" /\ Given(p, hw) /\ p \in Frames
  BY DEF Inv, Ready, DataInv, sbeDownFifoEnq_mult
<1>1. CASE p' = Return(p, "RESET") \/ p' = Return(p, "OK")
  BY <1>1, <1>a, ReturnData DEF Rc
<1>2. CASE p' = [p EXCEPT !.out = Tail(@)]
  <2>1. p'.at = p.at /\ p'.fn = "enq" /\ p'.buf = p.buf
    BY <1>2, <1>a DEF Frames
  <2>2. ~AtOpen(p.at, req) /\ p.at # "idle"
    BY <1>a DEF Ready, Control
  <2>3. p.at \notin Starts
    BY <2>2 DEF AtOpen
  <2>4. Given(p', hw') /\ ~InMessage(p')
    BY <1>a, <2>1, <2>2, <2>3 DEF Given, InMessage
  <2> QED BY <2>4, OutOfMessage
<1> QED BY <1>1, <1>2 DEF sbeDownFifoEnq_mult

LEMMA EotData ==
    ASSUME Inv, DataInv, sbeDownFifoSignalEot, UNCHANGED <<req, hw>> PROVE DataInv'
  BY ReturnData DEF Inv, sbeDownFifoSignalEot, Rc

LEMMA FaultData == ASSUME Inv, DataInv, Fault PROVE DataInv'
<1>1. Ready /\ p.fn # "none" /\ UNCHANGED <<req, hw>>
  BY DEF Inv, Fault, FifoAccessFails
<1>2. PICK rc \in {"ACCESS_FAILURE", "PARITY_ERROR"} : p' = Return(p, rc)
  BY DEF Fault, FifoAccessFails
<1>3. rc \in Rc /\ rc # "OK"
  BY DEF Rc
<1> QED BY <1>1, <1>2, <1>3, ReturnData

----------------------------------------------------------------------------
(* The other steps *)

\* A chip-op starts, and one has ended, with nothing given to the hardware.
LEMMA FreshGiven ==
    ASSUME NEW q, q.fn = "none", q.at \in Starts \cup {"return", "idle"}, NEW h, h.wrote = <<>>
    PROVE  Given(q, h)
<1>1. q.at \notin Structs \cup Granules \cup Takes \cup {"reg.access"}
  BY DEF Starts, ScomOps, Structs, Granules, Takes
<1>2. InOrder(h.wrote, ReqWords)
  BY OrderEmpty
<1> QED BY <1>1, <1>2 DEF Given

LEMMA FreshGivenState ==
    p.fn = "none" /\ p.at \in Starts \cup {"return", "idle"} /\ hw.wrote = <<>> => Given(p, hw)
  BY FreshGiven

LEMMA FreshGivenNext ==
    ASSUME p'.fn = "none", p'.at \in Starts \cup {"return", "idle"}, hw'.wrote = <<>>
    PROVE  Given(p, hw)'
<1>1. (p.fn = "none" /\ p.at \in Starts \cup {"return", "idle"} /\ hw.wrote = <<>>)'
  BY DEF Starts, ScomOps
<1> QED BY <1>1, FreshGivenState, PTL

LEMMA IdleNumbered == ASSUME p'.at \in {"idle", "return"} PROVE Numbered'
<1>1. p'.at \notin Starts \cup Structs \cup Granules \cup Takes
  BY DEF Starts, ScomOps, Structs, Granules, Takes
<1>2. ~InMessage(p)'
  BY <1>1 DEF InMessage, Starts, ScomOps, Structs, Granules, Takes
<1> QED BY <1>2 DEF Numbered

LEMMA EndsData == ASSUME Ends PROVE DataInv'
<1>1. p' = Frame /\ hw' = Hardware /\ Frame.fn = "none" /\ Frame.at = "idle" /\ Hardware.wrote = <<>>
  BY DEF Ends, Frame, Hardware
<1>2. Given(p, hw)' /\ Numbered'
  BY <1>1, FreshGivenNext, IdleNumbered
<1> QED BY <1>2 DEF DataInv

LEMMA CarriesData == ASSUME DataInv, Carries, Moves, UNCHANGED sp PROVE DataInv'
<1>1. Stream' = Stream /\ req' = req /\ reset' = reset
  BY DEF Moves, Stream
<1>2. Given(p, hw)'
  BY <1>1, GivenNext DEF Carries
<1>3. InMessage(p)' => InMessage(p')
  BY <1>1 DEF InMessage, AtOpen
<1>4. TakenWords(p, hw)' = TakenWords(p', hw')
  BY DEF TakenWords
<1>5. Numbered'
  BY <1>1, <1>3, <1>4 DEF DataInv, Numbered, Carries
<1> QED BY <1>2, <1>5 DEF DataInv

LEMMA ReceiveData == ASSUME Inv, DataInv, Receive, UNCHANGED sp PROVE DataInv'
<1> DEFINE r == Head(up)[2]
           l == Entry(r.op)
           c == IF r.op = "unknown" THEN "NOT_SUPPORTED" ELSE "OK"
<1>a. /\ Wires /\ p.fn = "none" /\ p.at = "idle" /\ ~Serves(p) /\ ~reset /\ up # <<>>
      /\ Head(up)[1] = "cmd" /\ UNCHANGED hw /\ Given(p, hw) /\ up' = Tail(up)
      /\ p' = [Frame EXCEPT !.at = l, !.rc = c]
  BY DEF Inv, Receive, At, Serves, DataInv
<1>1. sp.left \in UpWords /\ up \in UpWords /\ Stream \in UpWords
  BY <1>a, StreamTyped
<1>2. /\ Stream' = Tail(Stream) /\ Stream # <<>> /\ Stream[1] = Head(up) /\ Head(up) \in UpWord
  <2>1. /\ Tail(up) \o sp.left = Tail(up \o sp.left) /\ up \o sp.left # <<>>
        /\ (up \o sp.left)[1] = Head(up) /\ Head(up) \in UpWord
    BY <1>1, <1>a, TakeHead
  <2> QED BY <1>a, <2>1 DEF Stream
<1>3. r.op \in Ops
  BY <1>2, <1>a, UpWordKinds, RequestAssumption
<1> HIDE DEF r
<1>4. l \in Starts \cup {"return"}
  BY <1>3 DEF Entry, Ops, Starts, ScomOps
<1> HIDE DEF l, c
<1>5. p'.at = l /\ p'.fn = "none"
  BY <1>a DEF Frame
<1>6. hw'.wrote = <<>>
  BY <1>a DEF Given
<1>7. Given(p, hw)'
  BY <1>4, <1>5, <1>6, FreshGivenNext
<1>8. Whole(Stream)
  <2>1. Len(Stream) \in Nat /\ 1 \in 1..Len(Stream)
    BY <1>1, <1>2, TailOf DEF UpWords
  <2>2. Head(up) = up[1] /\ Len(up) >= 1 /\ Len(up) \in Nat
    BY <1>1, <1>a, TailOf DEF UpWords
  <2>3. ~NoCommand(Stream) /\ ~NoCommand(up)
    BY <1>2, <1>a, <2>1, <2>2 DEF NoCommand
  <2> QED BY <1>a, <2>3 DEF Inv, Boundary, Asks
<1>9. Rest(Stream', 0)
  BY <1>2, <1>8 DEF Whole
<1>10. CASE l \in Starts
  <2>1. TakenWords(p, hw)' = 0
    BY <1>5, <1>10 DEF TakenWords, Starts, ScomOps
  <2> QED BY <1>7, <1>9, <2>1 DEF DataInv, Numbered
<1>11. CASE l = "return"
  BY <1>5, <1>7, <1>11, IdleNumbered DEF DataInv
<1> QED BY <1>4, <1>10, <1>11

LEMMA SameData ==
    ASSUME DataInv, UNCHANGED <<p, req, hw>>, Numbered' PROVE DataInv'
<1>1. Given(p', hw')
  BY DEF DataInv
<1> QED BY <1>1, GivenNext DEF DataInv

\* The service processor writes the message as it is, and asks for no other before
\* it has the answer.
LEMMA SpData == ASSUME Inv, DataInv, ServiceProcessor PROVE DataInv'
<1>a. UNCHANGED <<p, req, hw>> /\ Wires
  BY DEF ServiceProcessor, SpAsk, SpWrite, SpRead, SpReset, SpDrain, SpUnchanged, Inv
<1>b. InMessage(p)' <=> InMessage(p)
  BY <1>a DEF InMessage, AtOpen
<1>c. TakenWords(p, hw)' = TakenWords(p, hw)
  BY <1>a DEF TakenWords
<1>d. ASSUME Stream' = Stream, ~reset PROVE Numbered'
  BY <1>b, <1>c, <1>d DEF DataInv, Numbered
<1>e. InMessage(p) => Serves(p)
  BY DEF InMessage, Serves, Starts, ScomOps, Structs, Granules
<1>1. CASE SpAsk
  <2>1. ~Serves(p)
    BY <1>1 DEF SpAsk, Inv, Boundary, Serving
  <2>2. Numbered'
    BY <1>b, <1>e, <2>1 DEF Numbered
  <2> QED BY <1>a, <2>2, SameData
<1>2. CASE SpWrite
  <2> DEFINE t == Tail(sp.left)
  <2>1. /\ ~reset /\ up' \o t = up \o sp.left
        /\ sp' = [sp EXCEPT !.left = t] /\ sp \in [busy : BOOLEAN, left : UpWords, got : DownWords]
    <3>1. up \in UpWords /\ sp.left \in UpWords
      BY <1>a, StreamTyped
    <3> QED BY <1>2, <1>a, <3>1, MoveWord DEF SpWrite, Wires
  <2> HIDE DEF t
  <2>2. sp'.left = t
    BY <2>1
  <2>3. Stream' = Stream
    BY <2>1, <2>2 DEF Stream
  <2> QED BY <1>a, <1>d, <2>1, <2>3, SameData
<1>3. CASE SpRead
  <2>1. /\ down # <<>> /\ ~reset /\ UNCHANGED up
        /\ sp' = IF Head(down)[1] = "eot" THEN Idle ELSE [sp EXCEPT !.got = Append(@, Head(down))]
        /\ sp \in [busy : BOOLEAN, left : UpWords, got : DownWords]
    BY <1>3, <1>a DEF SpRead, Wires
  <2>2. CASE ~Serves(p)
    <3>1. Numbered'
      BY <1>b, <1>e, <2>2 DEF Numbered
    <3> QED BY <1>a, <3>1, SameData
  <2>3. CASE Serves(p)
    <3>1. Head(down) = down[1] /\ Len(down) >= 1 /\ Len(down) \in Nat
      BY <1>a, <2>1, TailOf DEF Wires
    <3>2. Head(down)[1] # "eot"
      BY <2>1, <2>3, <3>1 DEF Inv, Boundary, Serving, NoEot
    <3>3. sp'.left = sp.left
      <4> DEFINE g == Append(sp.got, Head(down))
      <4>1. sp' = [sp EXCEPT !.got = g]
        BY <2>1, <3>2
      <4> HIDE DEF g
      <4> QED BY <2>1, <4>1
    <3>4. Stream' = Stream
      BY <2>1, <3>3 DEF Stream
    <3> QED BY <1>a, <1>d, <2>1, <3>4, SameData
  <2> QED BY <2>2, <2>3
<1>4. CASE SpReset \/ SpDrain
  <2>1. reset'
    BY <1>4 DEF SpReset, SpDrain
  <2>2. Numbered'
    BY <2>1 DEF Numbered
  <2> QED BY <1>a, <2>2, SameData
<1> QED BY <1>1, <1>2, <1>3, <1>4 DEF ServiceProcessor

----------------------------------------------------------------------------
(* The theorem *)

LEMMA NextData == ASSUME Inv, DataInv, [Next]_vars PROVE DataInv'
<1>1. CASE FifoStep /\ UNCHANGED <<req, hw, sp>>
  BY <1>1, DeqData, EnqData, EotData DEF FifoStep
<1>2. CASE ChipOp /\ UNCHANGED sp
  <2>1. Ready /\ Given(p, hw)
    BY DEF Inv, DataInv
  <2>2. CASE Ends
    BY <2>2, EndsData
  <2>3. CASE Carries /\ ~Ends
    <3>1. Moves
      BY <1>2, <2>1, <2>3, ChipOpMoves DEF Drops
    <3> QED BY <1>2, <2>3, <3>1, CarriesData
  <2> QED BY <1>2, <2>1, <2>2, <2>3, ChipOpCarries
<1>3. CASE Receive /\ UNCHANGED sp
  BY <1>3, ReceiveData
<1>4. CASE sbeUpFifoPerformReset /\ UNCHANGED sp
  BY <1>4, IdleNumbered, SameData DEF sbeUpFifoPerformReset, At
<1>5. CASE ServiceProcessor
  BY <1>5, SpData
<1>6. CASE Fault
  BY <1>6, FaultData
<1>7. CASE UNCHANGED <<up, down, reset, faults, p, req, hw, sp>>
  <2>1. Stream' = Stream /\ (InMessage(p)' <=> InMessage(p))
    BY <1>7 DEF Stream, InMessage, AtOpen
  <2>2. TakenWords(p, hw)' = TakenWords(p, hw)
    BY <1>7 DEF TakenWords
  <2>3. Numbered'
    BY <1>7, <2>1, <2>2 DEF DataInv, Numbered
  <2> QED BY <1>7, <2>3, SameData
<1> QED BY <1>1, <1>2, <1>3, <1>4, <1>5, <1>6, <1>7 DEF Next, Processor, HostUpdatesRegions, vars

LEMMA DataInvariance == Spec => [](Inv /\ DataInv)
<1>1. Init => Inv /\ DataInv
  <2> SUFFICES ASSUME Init PROVE Inv /\ DataInv
    OBVIOUS
  <2>1. p.fn = "none" /\ p.at = "idle" /\ hw.wrote = <<>>
    BY DEF Init, FifoInit, Frame, Hardware
  <2>2. Given(p, hw)
    BY <2>1, FreshGiven
  <2>3. ~InMessage(p)
    BY <2>1 DEF InMessage, Starts, ScomOps, Structs, Granules, Takes
  <2> QED BY <2>2, <2>3, InitInv DEF DataInv, Numbered
<1>2. Inv /\ DataInv /\ [Next]_vars => Inv' /\ DataInv'
  BY NextKeeps, NextData
<1> QED BY <1>1, <1>2, PTL DEF Spec

\* What the hardware has of a message is its payload from the first word on, in
\* the order the SP wrote it and without a gap or a repetition: for any depth of
\* the FIFOs, sizes of the granules and requests, and also when a chip-op is given
\* up half-way or an access to the FIFO fails.  It is what sbeUpFifoDeq_mult and the
\* loops over granules of sbeMemAccess_Wrap and sbeOccSramAccess_Wrap, sbePutReg's
\* loop over its packages and sbePutRing do together.
THEOREM PayloadKeepsOrder == Spec => []PayloadInOrder
<1>1. Inv /\ DataInv => PayloadInOrder
  <2> SUFFICES ASSUME Inv, DataInv PROVE PayloadInOrder
    OBVIOUS
  <2>1. hw.wrote \in Buffers /\ InOrder(hw.wrote, ReqWords)
    BY DEF Inv, Ready, Hardwares, DataInv, Given
  <2>2. DOMAIN hw.wrote = 1..Len(hw.wrote)
    BY <2>1 DEF Buffers
  <2> QED BY <2>1, <2>2 DEF PayloadInOrder, InOrder
<1> QED BY <1>1, DataInvariance, PTL

----------------------------------------------------------------------------
(* What the host has opened: the search of the table                       *)

\* Regions and accesses that have a byte, and the bytes of one.
Extent == [start : Nat, size : Nat \ {0}, mode : SUBSET {"R", "W"}]
Holds(s, a) == s.start <= a /\ a < s.start + s.size

\* The end has an address, and the two sizes together have one of the size's width.
Bounded(s) == s \in Extent /\ s.start + s.size < AddrMod
Fits(r, s) == r.size + s.size < SizeMod

\* As 2^64 is a multiple of 2^32.
Aligned == AddrMod % SizeMod = 0

\* No byte is in two regions of t.
Disjoint(t) ==
    \A i, j \in DOMAIN t : i # j =>
        \/ t[i].start + t[i].size <= t[j].start
        \/ t[j].start + t[j].size <= t[i].start

\* A table whose regions are apart, searched for an access that does not wrap.
Regular(t, r) ==
    /\ Bounded(r) /\ Aligned /\ Disjoint(t)
    /\ DOMAIN t \subseteq Nat /\ \E n \in Nat : DOMAIN t \subseteq 0..n
    /\ \A i \in DOMAIN t : Bounded(t[i]) /\ Fits(r, t[i])

\* A byte that is open for one of the modes in m.
Open(t, m, a) == \E i \in DOMAIN t : Holds(t[i], a) /\ m \cap t[i].mode # {}

\* What is left of r when all but its last k bytes are covered; that these k bytes
\* are open; and that the loop of isAccessAllowed goes on from there.
LeftOver(r, k) == [r EXCEPT !.start = (r.start + r.size - k) % AddrMod, !.size = k]
Reached(t, r, k) == \A a \in (r.start + r.size - k)..(r.start + r.size - 1) : Open(t, r.mode, a)
Proceeds(t, r, k) ==
    LET f == getPartialRegionSize(t, LeftOver(r, k))
    IN  r.mode \cap f.mode # {} /\ LeftOver(r, k).start = f.start

\* The last byte of an extent.
LEMMA EndMeans ==
  ASSUME NEW s, Bounded(s) PROVE End(s) = s.start + s.size - 1
<1>1. s.start \in Nat /\ s.size \in Nat \ {0} /\ AddrMod \in Nat \ {0} /\ s.start + s.size < AddrMod
  BY RegionAssumption DEF Bounded, Extent
<1>2. PICK x \in Nat : x = s.start + s.size - 1
  BY <1>1
<1>3. (AddrMod + x) % AddrMod = x
  BY <1>1, <1>2
<1>4. AddrMod + s.start + s.size - 1 = AddrMod + x
  BY <1>1, <1>2
<1> QED BY <1>2, <1>3, <1>4 DEF End

\* The span of two extents is shorter than both together when they have a byte in
\* common.
LEMMA OverlapMeans ==
  ASSUME NEW r, NEW s, Bounded(r), Bounded(s), Fits(r, s)
  PROVE  Overlap(r, s) <=> r.start < s.start + s.size /\ s.start < r.start + r.size
<1>1. /\ r.start \in Nat /\ r.size \in Nat \ {0} /\ r.start + r.size < AddrMod
      /\ s.start \in Nat /\ s.size \in Nat \ {0} /\ s.start + s.size < AddrMod
      /\ AddrMod \in Nat \ {0} /\ SizeMod \in Nat \ {0} /\ r.size + s.size < SizeMod
  BY RegionAssumption DEF Bounded, Extent, Fits
<1> DEFINE first == IF r.start < s.start THEN r.start ELSE s.start
           last  == IF End(r) >= End(s) THEN End(r) ELSE End(s)
<1>2. End(r) = r.start + r.size - 1 /\ End(s) = s.start + s.size - 1
  BY EndMeans
<1>3. PICK x \in Nat : x = last - first + 1
  BY <1>1, <1>2
<1>4. x < AddrMod /\ AddrMod + last - first + 1 = AddrMod + x
  BY <1>1, <1>2, <1>3
<1>5. (AddrMod + x) % AddrMod = x
  BY <1>1, <1>3, <1>4
<1>6. PICK y \in Nat : y = r.size + s.size
  BY <1>1
<1>7. y % SizeMod = y
  BY <1>1, <1>6
<1>8. Overlap(r, s) <=> x < y
  BY <1>4, <1>5, <1>6, <1>7 DEF Overlap
<1>9. x < y <=> r.start < s.start + s.size /\ s.start < r.start + r.size
  BY <1>1, <1>2, <1>3, <1>6
<1> QED BY <1>8, <1>9

\* r begins in s.
LEMMA InsideMeans ==
  ASSUME NEW r, NEW s, Bounded(r), Bounded(s)
  PROVE  Inside(r, s) <=> Holds(s, r.start)
<1>1. /\ s.start \in Nat /\ s.size \in Nat \ {0} /\ s.start + s.size < AddrMod
      /\ AddrMod \in Nat \ {0} /\ r.start \in Nat
  BY RegionAssumption DEF Bounded, Extent
<1>2. PICK y \in Nat : y = s.start + s.size
  BY <1>1
<1>3. y % AddrMod = y
  BY <1>1, <1>2
<1> QED BY <1>1, <1>2, <1>3 DEF Inside, Holds

\* A multiple of the modulus does not count.
LEMMA AlignedMod ==
  ASSUME NEW y \in Nat, NEW m \in Nat \ {0}, y % m = 0, NEW x \in Nat, x < m
  PROVE  (y + x) % m = x
OBVIOUS

\* A region that holds the beginning of an access, cut to it, is not empty and not
\* longer than the access.
LEMMA CutMeans ==
  ASSUME NEW r, NEW s, Bounded(r), Bounded(s), Fits(r, s), Aligned, Holds(s, r.start)
  PROVE  /\ Cut(r, s).start = r.start /\ Cut(r, s).mode = s.mode
         /\ Cut(r, s).size \in 1..r.size
         /\ \A a \in r.start..(r.start + Cut(r, s).size - 1) : Holds(s, a)
         /\ Cut(r, s).size < r.size => r.start + Cut(r, s).size = s.start + s.size
<1>1. /\ r.start \in Nat /\ r.size \in Nat \ {0} /\ r.start + r.size < AddrMod
      /\ s.start \in Nat /\ s.size \in Nat \ {0} /\ s.start + s.size < AddrMod
      /\ AddrMod \in Nat \ {0} /\ SizeMod \in Nat \ {0} /\ r.size + s.size < SizeMod
      /\ s.start <= r.start /\ r.start < s.start + s.size
  BY RegionAssumption DEF Bounded, Extent, Fits, Holds
<1>2. PICK x \in Nat : x = s.start + s.size - r.start
  BY <1>1
<1>3. x < SizeMod /\ x > 0 /\ AddrMod + s.start + s.size - r.start = AddrMod + x
  BY <1>1, <1>2
<1>4. AddrMod \in Nat /\ AddrMod % SizeMod = 0
  BY <1>1 DEF Aligned
<1>5. (AddrMod + x) % SizeMod = x
  BY <1>1, <1>3, <1>4, AlignedMod
<1>6. (AddrMod + s.start + s.size - r.start) % SizeMod = x
  BY <1>3, <1>5
<1> DEFINE c == IF x > r.size THEN r.size ELSE x
<1>7. Cut(r, s) = [s EXCEPT !.start = r.start, !.size = c]
  BY <1>6 DEF Cut
<1>8. s = [start |-> s.start, size |-> s.size, mode |-> s.mode]
  BY DEF Bounded, Extent
<1>9. Cut(r, s).start = r.start /\ Cut(r, s).mode = s.mode /\ Cut(r, s).size = c
  BY <1>7, <1>8
<1>10. c \in 1..r.size
  BY <1>1, <1>3
<1>11. \A a \in r.start..(r.start + c - 1) : Holds(s, a)
  BY <1>1, <1>2 DEF Holds
<1>12. c < r.size => r.start + c = s.start + s.size
  BY <1>1, <1>2
<1> QED BY <1>9, <1>10, <1>11, <1>12

\* A set of numbers has a least one, and when it is bounded a greatest.
LEMMA LeastOf ==
  ASSUME NEW S \in SUBSET Nat, S # {}
  PROVE  \E i \in S : \A j \in S : i <= j
<1>1. PICK i \in S : \A j \in S : ~(<<j, i>> \in OpToRel(<, Nat))
  BY NatLessThanWellFounded, WFMin
<1>2. \A j \in S : ~(j < i)
  BY <1>1 DEF OpToRel
<1>3. i \in Nat /\ \A j \in S : j \in Nat
  OBVIOUS
<1>4. \A j \in S : i <= j
  BY <1>2, <1>3
<1> QED BY <1>4

LEMMA GreatestOf ==
  ASSUME NEW n \in Nat, NEW S \in SUBSET (0..n), S # {}
  PROVE  \E i \in S : \A j \in S : i >= j
<1> DEFINE T == {n - i : i \in S}
<1>0. PICK s \in S : TRUE
  OBVIOUS
<1>a. n - s \in T
  BY <1>0
<1>b. \A i \in S : n - i \in Nat
  OBVIOUS
<1>1. T \in SUBSET Nat /\ T # {}
  BY <1>a, <1>b
<1>2. PICK t \in T : \A j \in T : t <= j
  BY <1>1, LeastOf
<1>3. PICK i \in S : t = n - i
  BY <1>2
<1>4. \A j \in S : n - i <= n - j
  BY <1>2, <1>3
<1> QED BY <1>4

\* The search finds the region that holds the beginning of the access, if one does;
\* otherwise something that does not begin there, or nothing when none overlaps.
LEMMA FindMeans ==
  ASSUME NEW t, NEW r, Regular(t, r)
  PROVE  \/ \E i \in DOMAIN t : Holds(t[i], r.start) /\ getPartialRegionSize(t, r) = Cut(r, t[i])
         \/ /\ \A i \in DOMAIN t : ~Holds(t[i], r.start)
            /\ \/ /\ getPartialRegionSize(t, r) = NoRegion
                  /\ \A i \in DOMAIN t : ~Overlap(r, t[i])
               \/ \E i \in DOMAIN t : getPartialRegionSize(t, r) = t[i]
<1> DEFINE hits  == {i \in DOMAIN t : Overlap(r, t[i])}
           exact == {i \in hits : Inside(r, t[i])}
           least == CHOOSE i \in exact : \A j \in exact : i <= j
           most  == CHOOSE i \in hits : \A j \in hits : i >= j
<1>1. /\ Bounded(r) /\ DOMAIN t \subseteq Nat /\ \E n \in Nat : DOMAIN t \subseteq 0..n
      /\ \A i \in DOMAIN t : Bounded(t[i]) /\ Fits(r, t[i])
  BY DEF Regular
<1>2. \A i \in DOMAIN t : Inside(r, t[i]) <=> Holds(t[i], r.start)
  BY <1>1, InsideMeans
<1>3. \A i \in DOMAIN t : Holds(t[i], r.start) => Overlap(r, t[i])
  <2> SUFFICES ASSUME NEW i \in DOMAIN t, Holds(t[i], r.start) PROVE Overlap(r, t[i])
    OBVIOUS
  <2>1. Bounded(t[i]) /\ Fits(r, t[i]) /\ Bounded(r)
    BY <1>1
  <2>2. t[i].start \in Nat /\ r.start \in Nat /\ r.size \in Nat \ {0}
    BY <2>1 DEF Bounded, Extent
  <2>3. r.start < t[i].start + t[i].size /\ t[i].start < r.start + r.size
    BY <2>2 DEF Holds
  <2> QED BY <2>1, <2>3, OverlapMeans
<1>4. exact = {i \in DOMAIN t : Holds(t[i], r.start)}
  BY <1>2, <1>3
<1>5. getPartialRegionSize(t, r) =
        IF exact # {} THEN Cut(r, t[least]) ELSE IF hits # {} THEN t[most] ELSE NoRegion
  BY DEF getPartialRegionSize
<1>6. exact # {} => least \in exact
  <2>1. exact \in SUBSET Nat
    BY <1>1
  <2> HIDE DEF exact
  <2>2. exact # {} => \E i \in exact : \A j \in exact : i <= j
    BY <2>1, LeastOf
  <2> QED BY <2>2
<1>7. hits # {} => most \in hits
  <2>1. PICK n \in Nat : hits \in SUBSET (0..n)
    BY <1>1
  <2> HIDE DEF hits
  <2>2. hits # {} => \E i \in hits : \A j \in hits : i >= j
    BY <2>1, GreatestOf
  <2> QED BY <2>2
<1>8. hits = {i \in DOMAIN t : Overlap(r, t[i])}
  OBVIOUS
<1> HIDE DEF exact, hits, least, most
<1>9. CASE exact # {}
  <2>1. least \in DOMAIN t /\ Holds(t[least], r.start)
    BY <1>4, <1>6, <1>9
  <2>2. getPartialRegionSize(t, r) = Cut(r, t[least])
    BY <1>5, <1>9
  <2> QED BY <2>1, <2>2
<1>10. CASE exact = {}
  <2>1. \A i \in DOMAIN t : ~Holds(t[i], r.start)
    BY <1>4, <1>10
  <2>2. CASE hits # {}
    BY <1>5, <1>7, <1>8, <1>10, <2>1, <2>2
  <2>3. CASE hits = {}
    BY <1>5, <1>8, <1>10, <2>1, <2>3
  <2> QED BY <2>2, <2>3
<1> QED BY <1>9, <1>10

\* What is left of an access is an access.
LEMMA LeftMeans ==
  ASSUME NEW t, NEW r, Regular(t, r), NEW k \in 1..r.size
  PROVE  /\ LeftOver(r, k) = [start |-> r.start + r.size - k, size |-> k, mode |-> r.mode]
         /\ Regular(t, LeftOver(r, k))
<1>1. /\ r \in Extent /\ r.start \in Nat /\ r.size \in Nat \ {0} /\ r.start + r.size < AddrMod
      /\ AddrMod \in Nat \ {0} /\ SizeMod \in Nat \ {0} /\ k \in Nat \ {0} /\ k <= r.size
  BY RegionAssumption DEF Regular, Bounded, Extent
<1>2. PICK x \in Nat : x = r.start + r.size - k
  BY <1>1
<1>3. x % AddrMod = x
  BY <1>1, <1>2
<1>4. r = [start |-> r.start, size |-> r.size, mode |-> r.mode] /\ r.mode \in SUBSET {"R", "W"}
  BY <1>1 DEF Extent
<1>a. LeftOver(r, k) = [r EXCEPT !.start = x, !.size = k]
  BY <1>2, <1>3 DEF LeftOver
<1>5. LeftOver(r, k) = [start |-> x, size |-> k, mode |-> r.mode]
  BY <1>4, <1>a
<1>6. Bounded(LeftOver(r, k))
  BY <1>1, <1>2, <1>4, <1>5 DEF Bounded, Extent
<1>7. ASSUME NEW i \in DOMAIN t PROVE Fits(LeftOver(r, k), t[i])
  <2>1. t[i].size \in Nat /\ r.size + t[i].size < SizeMod
    BY DEF Regular, Bounded, Extent, Fits
  <2>2. LeftOver(r, k).size = k
    BY <1>5
  <2> QED BY <1>1, <2>1, <2>2 DEF Fits
<1> QED BY <1>2, <1>5, <1>6, <1>7 DEF Regular


\* One round of the loop: it goes on just when the region found is open for the mode,
\* and what it takes off are bytes of that region only.
LEMMA StepMeans ==
  ASSUME NEW t, NEW r, Regular(t, r), NEW k \in 1..r.size,
         NEW f, f = getPartialRegionSize(t, LeftOver(r, k))
  PROVE  /\ Proceeds(t, r, k) => f.size \in 1..k
         /\ Reached(t, r, k) <=> Proceeds(t, r, k) /\ Reached(t, r, k - f.size)
<1> DEFINE z == LeftOver(r, k)
<1>1. z.start = r.start + r.size - k /\ z.size = k /\ z.mode = r.mode /\ Regular(t, z)
  BY LeftMeans
<1>2. /\ r.start \in Nat /\ r.size \in Nat \ {0} /\ k \in Nat \ {0} /\ k <= r.size
      /\ z.start \in Nat
  BY <1>1 DEF Regular, Bounded, Extent
<1>3. Proceeds(t, r, k) <=> r.mode \cap f.mode # {} /\ z.start = f.start
  BY DEF Proceeds
<1> HIDE DEF z
<1>4. ASSUME NEW i \in DOMAIN t, Holds(t[i], z.start), f = Cut(z, t[i])
      PROVE  /\ Proceeds(t, r, k) => f.size \in 1..k
             /\ Reached(t, r, k) <=> Proceeds(t, r, k) /\ Reached(t, r, k - f.size)
  <2>1. Bounded(z) /\ Bounded(t[i]) /\ Fits(z, t[i]) /\ Aligned
    BY <1>1 DEF Regular
  <2>2. /\ f.start = z.start /\ f.mode = t[i].mode /\ f.size \in 1..k
        /\ \A a \in z.start..(z.start + f.size - 1) : Holds(t[i], a)
    BY <1>1, <1>4, <2>1, CutMeans
  <2>3. ASSUME NEW a \in z.start..(z.start + f.size - 1)
        PROVE  Open(t, r.mode, a) <=> r.mode \cap t[i].mode # {}
    <3>1. a \in Int /\ Holds(t[i], a)
      BY <2>2
    <3>2. ASSUME NEW j \in DOMAIN t, Holds(t[j], a) PROVE j = i
      <4>1. /\ t[i].start \in Nat /\ t[i].size \in Nat /\ t[j].start \in Nat /\ t[j].size \in Nat
            /\ i # j => \/ t[i].start + t[i].size <= t[j].start
                        \/ t[j].start + t[j].size <= t[i].start
        BY DEF Regular, Disjoint, Bounded, Extent
      <4> QED BY <3>1, <3>2, <4>1 DEF Holds
    <3> QED BY <3>1, <3>2 DEF Open
  <2>4. Proceeds(t, r, k) <=> r.mode \cap t[i].mode # {}
    BY <1>3, <2>2
  <2>5. z.start \in z.start..(z.start + f.size - 1)
    BY <1>2, <2>2
  <2>6. /\ (r.start + r.size - k)..(r.start + r.size - 1) =
            (z.start..(z.start + f.size - 1)) \cup
               ((r.start + r.size - (k - f.size))..(r.start + r.size - 1))
    BY <1>1, <1>2, <2>2
  <2> HIDE DEF z
  <2>7. Reached(t, r, k) <=>
          (\A a \in z.start..(z.start + f.size - 1) : Open(t, r.mode, a)) /\ Reached(t, r, k - f.size)
    BY <2>6 DEF Reached
  <2>8. (\A a \in z.start..(z.start + f.size - 1) : Open(t, r.mode, a)) <=> r.mode \cap t[i].mode # {}
    BY <2>3, <2>5
  <2> QED BY <2>2, <2>4, <2>7, <2>8
<1>5. ASSUME \A i \in DOMAIN t : ~Holds(t[i], z.start),
             f = NoRegion \/ \E i \in DOMAIN t : f = t[i]
      PROVE  ~Proceeds(t, r, k) /\ ~Reached(t, r, k)
  <2>1. ~Open(t, r.mode, z.start) /\ z.start \in (r.start + r.size - k)..(r.start + r.size - 1)
    BY <1>1, <1>2, <1>5 DEF Open
  <2>2. f = NoRegion => f.mode = {}
    BY DEF NoRegion
  <2>3. ASSUME NEW i \in DOMAIN t, f = t[i], z.start = f.start PROVE FALSE
    <3>1. t[i].start \in Nat /\ t[i].size \in Nat \ {0}
      BY DEF Regular, Bounded, Extent
    <3> QED BY <1>5, <2>3, <3>1 DEF Holds
  <2>4. ~Proceeds(t, r, k)
    BY <1>3, <1>5, <2>2, <2>3
  <2> QED BY <2>1, <2>4 DEF Reached
<1> QED BY <1>1, <1>4, <1>5, FindMeans DEF z

\* The loop as a whole.  allowed is the function that isAccessAllowed chooses; the set
\* of sizes at which it and Reached differ would have a least member.
LEMMA AccessMeans ==
  ASSUME NEW t, NEW r, Regular(t, r)
  PROVE  isAccessAllowed(t, r) <=> (FWSecurityEnabled => Reached(t, r, r.size))
<1> DEFINE n == r.size
           found(k) == getPartialRegionSize(t, LeftOver(r, k))
           solves(g) == g = [k \in 0..r.size |->
                                \/ k = 0
                                \/ /\ r.mode \cap found(k).mode # {}
                                   /\ LeftOver(r, k).start = found(k).start
                                   /\ g[k - found(k).size]]
           cov == [k \in 0..n |-> Reached(t, r, k)]
           all == CHOOSE g : solves(g)
<1>1. n \in Nat
  BY DEF Regular, Bounded, Extent
<1>2. ASSUME NEW k \in 1..n
      PROVE  /\ Proceeds(t, r, k) => found(k).size \in 1..k
             /\ Reached(t, r, k) <=> Proceeds(t, r, k) /\ Reached(t, r, k - found(k).size)
  BY StepMeans
<1>3. Reached(t, r, 0)
  <2>1. r.start \in Nat /\ r.size \in Nat
    BY DEF Regular, Bounded, Extent
  <2>2. (r.start + r.size - 0)..(r.start + r.size - 1) = {}
    BY <2>1
  <2> QED BY <2>2 DEF Reached
<1>4. isAccessAllowed(t, r) <=> (FWSecurityEnabled => all[r.size])
  BY DEF isAccessAllowed, LeftOver
<1>5. \A g : solves(g) <=>
         g = [k \in 0..n |-> (k = 0 \/ (Proceeds(t, r, k) /\ g[k - found(k).size]))]
  BY DEF Proceeds
<1> HIDE DEF solves, n, found
<1>6. solves(cov)
  <2>1. ASSUME NEW k \in 0..n
        PROVE  Reached(t, r, k) = (k = 0 \/ (Proceeds(t, r, k) /\ cov[k - found(k).size]))
    <3>1. CASE k = 0
      BY <1>3, <3>1 DEF Reached
    <3>2. CASE k # 0 /\ Proceeds(t, r, k)
      <4>1. k \in 1..n /\ k - found(k).size \in 0..n
        BY <1>1, <1>2, <3>2
      <4>2. cov[k - found(k).size] = Reached(t, r, k - found(k).size)
        BY <4>1
      <4> HIDE DEF cov
      <4> QED BY <1>2, <3>2, <4>1, <4>2 DEF Reached
    <3>3. CASE k # 0 /\ ~Proceeds(t, r, k)
      <4>1. k \in 1..n
        BY <1>1, <3>3
      <4>2. ~Reached(t, r, k)
        BY <1>2, <3>3, <4>1
      <4> QED BY <3>3, <4>2 DEF Reached
    <3> QED BY <3>1, <3>2, <3>3
  <2>2. cov = [k \in 0..n |-> (k = 0 \/ (Proceeds(t, r, k) /\ cov[k - found(k).size]))]
    BY <2>1
  <2> QED BY <1>5, <2>2
<1>7. solves(all)
  BY <1>6
<1> HIDE DEF all, cov
<1>8. \A k \in 0..n : all[k] = (k = 0 \/ (Proceeds(t, r, k) /\ all[k - found(k).size]))
  BY <1>5, <1>7
<1>9. \A k \in 0..n : all[k] <=> Reached(t, r, k)
  <2> DEFINE S == {k \in 0..n : ~(all[k] <=> Reached(t, r, k))}
  <2>1. SUFFICES ASSUME S # {} PROVE FALSE
    OBVIOUS
  <2>2. S \in SUBSET Nat
    BY <1>1
  <2>3. PICK k \in S : \A j \in S : k <= j
    <3> HIDE DEF S
    <3> QED BY <2>1, <2>2, LeastOf
  <2>4. k \in 0..n /\ ~(all[k] <=> Reached(t, r, k))
    BY <2>3
  <2>5. k # 0
    <3>1. SUFFICES ASSUME k = 0 PROVE FALSE
      OBVIOUS
    <3>2. all[0] = TRUE
      BY <1>8, <2>4, <3>1
    <3> QED BY <1>3, <2>4, <3>1, <3>2
  <2>6. k \in 1..n
    BY <1>1, <2>4, <2>5
  <2>7. CASE Proceeds(t, r, k)
    <3>1. k - found(k).size \in 0..n /\ k - found(k).size < k
      BY <1>1, <1>2, <2>6, <2>7
    <3>2. k - found(k).size \notin S
      BY <1>1, <2>3, <2>6, <3>1
    <3>3. all[k - found(k).size] <=> Reached(t, r, k - found(k).size)
      BY <3>1, <3>2
    <3>4. all[k] <=> all[k - found(k).size]
      BY <1>8, <2>4, <2>5, <2>7
    <3> QED BY <1>2, <2>4, <2>6, <2>7, <3>3, <3>4
  <2>8. CASE ~Proceeds(t, r, k)
    BY <1>2, <1>8, <2>4, <2>5, <2>6, <2>8
  <2> QED BY <2>7, <2>8
<1>10. r.size \in 0..n /\ r.size = n
  BY <1>1 DEF n
<1> QED BY <1>4, <1>9, <1>10

----------------------------------------------------------------------------
(* The table *)

\* What is assumed of the host's regions: they have a mode and a byte, and no sum of
\* two of them wraps.
RegionsBounded ==
    /\ Aligned
    /\ \A r \in HostRegions : r.mode # {} /\ Bounded(r)
    /\ \A r, s \in HostRegions : Fits(r, s)

\* The table is what the host was told, and its regions are apart.
TableInv ==
    /\ regions \in Seq(HostRegions) /\ Disjoint(regions)
    /\ opened = {regions[i] : i \in DOMAIN regions}

LEMMA TableRegular ==
  ASSUME RegionsBounded, TableInv, NEW r, Bounded(r), \A s \in HostRegions : Fits(r, s)
  PROVE  Regular(regions, r)
<1>1. /\ regions \in Seq(HostRegions) /\ Len(regions) \in Nat /\ DOMAIN regions = 1..Len(regions)
      /\ \A i \in DOMAIN regions : regions[i] \in HostRegions
  BY DEF TableInv
<1>2. DOMAIN regions \subseteq Nat /\ DOMAIN regions \subseteq 0..Len(regions)
  BY <1>1
<1>3. \A i \in DOMAIN regions : Bounded(regions[i]) /\ Fits(r, regions[i])
  BY <1>1 DEF RegionsBounded
<1> QED BY <1>1, <1>2, <1>3 DEF Regular, RegionsBounded, TableInv

\* add refuses what overlaps: an empty mode means that nothing was found.
LEMMA AddKeeps ==
  ASSUME RegionsBounded, TableInv, NEW r \in HostRegions, add(r)
  PROVE  TableInv'
<1>1. /\ getPartialRegionSize(regions, r).mode = {}
      /\ regions' = Append(regions, r) /\ opened' = opened \cup {r}
  BY DEF add
<1>2. /\ regions \in Seq(HostRegions) /\ Len(regions) \in Nat /\ DOMAIN regions = 1..Len(regions)
      /\ \A i \in DOMAIN regions : regions[i] \in HostRegions
      /\ opened = {regions[i] : i \in DOMAIN regions}
  BY DEF TableInv
<1>3. /\ Bounded(r) /\ \A i \in DOMAIN regions : Bounded(regions[i]) /\ Fits(r, regions[i])
      /\ \A i \in DOMAIN regions : regions[i].mode # {}
      /\ Aligned
  BY <1>2 DEF RegionsBounded
<1>4. Regular(regions, r)
  BY <1>3, TableRegular DEF RegionsBounded
<1>5. \A i \in DOMAIN regions : ~Overlap(r, regions[i])
  <2>1. ASSUME NEW i \in DOMAIN regions, Holds(regions[i], r.start),
               getPartialRegionSize(regions, r) = Cut(r, regions[i])
        PROVE  FALSE
    <3>1. Cut(r, regions[i]).mode = regions[i].mode
      BY <1>3, <2>1, CutMeans
    <3> QED BY <1>1, <1>3, <2>1, <3>1
  <2>2. ASSUME NEW i \in DOMAIN regions, getPartialRegionSize(regions, r) = regions[i] PROVE FALSE
    BY <1>1, <1>3, <2>2
  <2> QED BY <1>4, <2>1, <2>2, FindMeans
<1>6. ASSUME NEW i \in DOMAIN regions
      PROVE  \/ regions[i].start + regions[i].size <= r.start
             \/ r.start + r.size <= regions[i].start
  <2>1. ~(r.start < regions[i].start + regions[i].size /\ regions[i].start < r.start + r.size)
    BY <1>3, <1>5, OverlapMeans
  <2>2. /\ r.start \in Nat /\ r.size \in Nat
        /\ regions[i].start \in Nat /\ regions[i].size \in Nat
    BY <1>3 DEF Bounded, Extent
  <2> QED BY <2>1, <2>2
<1> DEFINE n == Len(regions)
<1>7. /\ regions' \in Seq(HostRegions) /\ DOMAIN regions' = DOMAIN regions \cup {n + 1}
      /\ \A i \in DOMAIN regions : regions'[i] = regions[i]
      /\ regions'[n + 1] = r
  BY <1>1, <1>2
<1> HIDE DEF n
<1>8. opened' = {regions'[i] : i \in DOMAIN regions'}
  BY <1>1, <1>2, <1>7
<1>9. Disjoint(regions')
  BY <1>6, <1>7 DEF Disjoint, TableInv
<1> QED BY <1>7, <1>8, <1>9 DEF TableInv

\* remove closes one region, because no two begin at the same address.
LEMMA RemoveKeeps ==
  ASSUME RegionsBounded, TableInv, NEW start, remove(start)
  PROVE  TableInv'
<1>1. PICK i \in DOMAIN regions :
        /\ regions[i].start = start /\ regions' = RemoveAt(regions, i)
        /\ opened' = {r \in opened : r.start # start}
  BY DEF remove
<1>2. /\ regions \in Seq(HostRegions) /\ Len(regions) \in Nat /\ DOMAIN regions = 1..Len(regions)
      /\ \A j \in DOMAIN regions : regions[j] \in HostRegions
      /\ opened = {regions[j] : j \in DOMAIN regions}
  BY DEF TableInv
<1> DEFINE n == Len(regions)
           a == SubSeq(regions, 1, i - 1)
           b == SubSeq(regions, i + 1, n)
<1>3. n \in Nat /\ i \in 1..n
  BY <1>2
<1>4. a \in Seq(HostRegions) /\ Len(a) = i - 1 /\ \A j \in 1..(i - 1) : a[j] = regions[j]
  BY <1>2
<1>5. b \in Seq(HostRegions) /\ Len(b) = n - i /\ \A j \in 1..(n - i) : b[j] = regions[j + i]
  BY <1>2
<1>6. regions' = a \o b
  BY <1>1 DEF RemoveAt
<1> HIDE DEF a, b, n
<1>7. /\ regions' \in Seq(HostRegions) /\ Len(regions') = n - 1
      /\ \A j \in 1..(n - 1) : regions'[j] = IF j <= i - 1 THEN a[j] ELSE b[j - (i - 1)]
  <2>1. Len(a) + Len(b) = n - 1
    BY <1>3, <1>4, <1>5
  <2>2. /\ a \o b \in Seq(HostRegions) /\ Len(a \o b) = Len(a) + Len(b)
        /\ \A j \in 1..(Len(a) + Len(b)) : (a \o b)[j] = IF j <= Len(a) THEN a[j] ELSE b[j - Len(a)]
    BY <1>4, <1>5, JoinAll
  <2> QED BY <1>4, <1>6, <2>1, <2>2
<1>8. /\ DOMAIN regions' = 1..(n - 1)
      /\ \A j \in 1..(n - 1) : regions'[j] = IF j < i THEN regions[j] ELSE regions[j + 1]
  <2>1. DOMAIN regions' = 1..(n - 1)
    BY <1>7
  <2>2. ASSUME NEW j \in 1..(n - 1), j < i PROVE regions'[j] = regions[j]
    BY <1>3, <1>4, <1>7, <2>2
  <2>3. ASSUME NEW j \in 1..(n - 1), ~(j < i) PROVE regions'[j] = regions[j + 1]
    <3>1. ~(j <= i - 1) /\ j - (i - 1) \in 1..(n - i) /\ (j - (i - 1)) + i = j + 1
      BY <1>3, <2>3
    <3> QED BY <1>5, <1>7, <3>1
  <2> QED BY <2>1, <2>2, <2>3
<1>9. DOMAIN regions = 1..n
  BY <1>2 DEF n
<1>10. Disjoint(regions')
  <2> SUFFICES ASSUME NEW j \in 1..(n - 1), NEW k \in 1..(n - 1), j # k
               PROVE  \/ regions'[j].start + regions'[j].size <= regions'[k].start
                      \/ regions'[k].start + regions'[k].size <= regions'[j].start
    BY <1>8 DEF Disjoint
  <2>1. PICK jj \in 1..n : regions'[j] = regions[jj] /\ jj = IF j < i THEN j ELSE j + 1
    BY <1>3, <1>8
  <2>2. PICK kk \in 1..n : regions'[k] = regions[kk] /\ kk = IF k < i THEN k ELSE k + 1
    BY <1>3, <1>8
  <2>3. jj # kk
    BY <1>3, <2>1, <2>2
  <2> QED BY <1>9, <2>1, <2>2, <2>3 DEF TableInv, Disjoint
<1>11. ASSUME NEW j \in 1..n PROVE regions[j].start # start <=> j # i
  <2>1. /\ regions[j].start \in Nat /\ regions[j].size \in Nat \ {0}
        /\ regions[i].start \in Nat /\ regions[i].size \in Nat \ {0}
    <3>1. regions[j] \in HostRegions /\ regions[i] \in HostRegions
      BY <1>2, <1>9
    <3> QED BY <3>1 DEF RegionsBounded, Bounded, Extent
  <2>2. j # i => \/ regions[i].start + regions[i].size <= regions[j].start
                 \/ regions[j].start + regions[j].size <= regions[i].start
    BY <1>9 DEF TableInv, Disjoint
  <2> QED BY <1>1, <2>1, <2>2
<1>12. opened' = {regions[j] : j \in (1..n) \ {i}}
  BY <1>1, <1>2, <1>9, <1>11
<1>13. {regions[j] : j \in (1..n) \ {i}} = {regions'[j] : j \in 1..(n - 1)}
  <2>1. ASSUME NEW j \in (1..n) \ {i} PROVE \E k \in 1..(n - 1) : regions'[k] = regions[j]
    <3>1. CASE j < i
      BY <1>3, <1>8, <3>1
    <3>2. CASE j > i
      <4>1. j - 1 \in 1..(n - 1) /\ ~(j - 1 < i) /\ (j - 1) + 1 = j
        BY <1>3, <3>2
      <4> QED BY <1>8, <4>1
    <3> QED BY <1>3, <3>1, <3>2
  <2>2. ASSUME NEW k \in 1..(n - 1) PROVE \E j \in (1..n) \ {i} : regions'[k] = regions[j]
    BY <1>3, <1>8
  <2> QED BY <2>1, <2>2
<1> QED BY <1>7, <1>8, <1>10, <1>12, <1>13 DEF TableInv

\* Nobody else writes the table.
LEMMA TableKept == ASSUME RegionsBounded, Ready, TableInv, [Next]_vars PROVE TableInv'
<1>1. CASE UNCHANGED <<regions, opened>>
  BY <1>1 DEF TableInv, Disjoint
<1>2. CASE HostUpdatesRegions
  BY <1>2, AddKeeps, RemoveKeeps DEF HostUpdatesRegions, sbeUpdateMemAccessRegion
<1>3. CASE ChipOp
  BY <1>1, <1>3, ChipOpMoves DEF Moves, Drops, Ends
<1>4. CASE Receive \/ sbeUpFifoPerformReset \/ ServiceProcessor \/ Fault
  BY <1>1, <1>4 DEF Receive, sbeUpFifoPerformReset, Fault, ServiceProcessor, SpAsk, SpWrite, SpRead,
     SpReset, SpDrain, SpUnchanged
<1> QED BY <1>1, <1>2, <1>3, <1>4 DEF Next, Processor, vars

LEMMA TableInvariance == ASSUME RegionsBounded PROVE Spec => []TableInv
<1>1. Init => TableInv
  <2> SUFFICES ASSUME Init PROVE TableInv
    OBVIOUS
  <2>1. regions = <<>> /\ opened = {}
    BY DEF Init
  <2>2. regions \in Seq(HostRegions) /\ DOMAIN regions = {}
    BY <2>1
  <2> QED BY <2>1, <2>2 DEF TableInv, Disjoint
<1>2. Inv /\ TableInv /\ [Next]_vars => TableInv'
  BY TableKept DEF Inv
<1> QED BY <1>1, <1>2, Invariance, PTL DEF Spec

\* The accesses whose size is added up without a wrap.
Accesses ==
    {r \in Extent : Bounded(r) /\ \A s \in HostRegions : Fits(r, s)}

\* Such an access is allowed exactly when the host has opened all of it, or the
\* firmware's security is off.
AllDecided ==
    \A r \in Accesses : isAccessAllowed(regions, r) <=> (FWSecurityEnabled => Covered(r))

\* The regions the host was told, and the table.
LEMMA CoveredMeans ==
  ASSUME RegionsBounded, TableInv, NEW r \in Accesses
  PROVE  Covered(r) <=> Reached(regions, r, r.size)
<1>1. r.start \in Nat /\ r.size \in Nat
  BY DEF Accesses, Extent
<1>2. ASSUME NEW a \in Int, NEW i \in DOMAIN regions
      PROVE  a \in regions[i].start..(regions[i].start + regions[i].size - 1) <=> Holds(regions[i], a)
  <2>1. regions[i].start \in Nat /\ regions[i].size \in Nat
    BY DEF TableInv, RegionsBounded, Bounded, Extent
  <2> QED BY <2>1 DEF Holds
<1>3. opened = {regions[i] : i \in DOMAIN regions}
  BY DEF TableInv
<1>4. r.start + r.size - r.size = r.start
  BY <1>1
<1>5. \A a \in r.start..(r.start + r.size - 1) : a \in Int
  BY <1>1
<1>6. ASSUME NEW a \in r.start..(r.start + r.size - 1)
      PROVE  (\E s \in opened : a \in s.start..(s.start + s.size - 1) /\ r.mode \cap s.mode # {})
                <=> Open(regions, r.mode, a)
  BY <1>2, <1>3, <1>5 DEF Open
<1> QED BY <1>4, <1>6 DEF Covered, Reached

LEMMA TableDecides == ASSUME RegionsBounded, TableInv PROVE AllDecided
<1> SUFFICES ASSUME NEW r \in Accesses
             PROVE  isAccessAllowed(regions, r) <=> (FWSecurityEnabled => Covered(r))
  BY DEF AllDecided
<1>1. Regular(regions, r)
  BY TableRegular DEF Accesses
<1> QED BY <1>1, AccessMeans, CoveredMeans

\* isAccessAllowed follows what the host opened and closed last (add, remove), for every
\* access and not only those at the ends of regions: whatever the number of regions,
\* the order in which they were opened and closed, and how many of them the access spans.
THEOREM AccessesDecided == ASSUME RegionsBounded PROVE Spec => []AllDecided
<1>1. TableInv => AllDecided
  BY TableDecides
<1> QED BY <1>1, TableInvariance, PTL

\* The regions are so near to each other that an access from one to another has a size.
RegionsNear ==
    \A q, r, s \in HostRegions :
        /\ s.start + s.size + 1 < AddrMod
        /\ s.start + s.size + 1 + r.size < SizeMod + q.start

\* RegionsDecided for all values of the constants with firmware security on: whenever
\* the host's chip-op has changed the table, the accesses at the ends of its regions are
\* allowed exactly when they are covered (isAccessAllowed, getPartialRegionSize).
THEOREM OpenedIsAllowed ==
  ASSUME RegionsBounded, RegionsNear, FWSecurityEnabled PROVE Spec => RegionsDecided
<1>1. AllDecided => RegionsDecide
  <2> SUFFICES ASSUME AllDecided, NEW first \in Edges, NEW last \in Edges, NEW m \in {"R", "W"},
                      first <= last,
                      NEW r, r = [start |-> first, size |-> last + 1 - first, mode |-> {m}]
               PROVE  isAccessAllowed(regions, r) <=> Covered(r)
    BY DEF RegionsDecide
  <2>1. PICK q \in HostRegions : first \in {q.start, q.start + 1, q.start + q.size - 1, q.start + q.size}
    BY DEF Edges
  <2>2. PICK s \in HostRegions : last \in {s.start, s.start + 1, s.start + s.size - 1, s.start + s.size}
    BY DEF Edges
  <2>3. q.start \in Nat /\ q.size \in Nat \ {0} /\ s.start \in Nat /\ s.size \in Nat \ {0}
    BY DEF RegionsBounded, Bounded, Extent
  <2>4. /\ first \in Nat /\ last \in Nat /\ first >= q.start /\ last <= s.start + s.size
    BY <2>1, <2>2, <2>3
  <2>5. r.start = first /\ r.size = last + 1 - first /\ r.mode = {m}
    OBVIOUS
  <2>6. r.size \in Nat \ {0}
    BY <2>4, <2>5
  <2>7. r \in Extent
    BY <2>4, <2>5, <2>6 DEF Extent
  <2>8. r.start + r.size < AddrMod
    BY <2>3, <2>4, <2>5, RegionAssumption DEF RegionsNear
  <2>9. ASSUME NEW t \in HostRegions PROVE Fits(r, t)
    <3>1. t.size \in Nat
      BY DEF RegionsBounded, Bounded, Extent
    <3>2. s.start + s.size + 1 + t.size < SizeMod + q.start
      BY DEF RegionsNear
    <3> QED BY <2>3, <2>4, <2>5, <3>1, <3>2, RegionAssumption DEF Fits
  <2>10. r \in Accesses
    BY <2>7, <2>8, <2>9 DEF Accesses, Bounded
  <2> QED BY <2>10 DEF AllDecided
<1>2. AllDecided' => RegionsDecide'
  BY <1>1, PTL
<1>3. AllDecided' => [regions' # regions => RegionsDecide']_vars
  BY <1>2
<1> QED BY <1>3, AccessesDecided, PTL DEF RegionsDecided

=============================================================================
