-------------------------- MODULE SbeChipOpsHwProofs --------------------------
(***************************************************************************)
(* What a chip-op leaves behind in the hardware, and what its response     *)
(* says of it: theorems for any requests, any depth of the FIFOs, any      *)
(* number of cores and granules and any number of failing accesses.        *)
(*                                                                         *)
(* Kept says where a chip-op may hold an interface, a core's RAM mode or a *)
(* core's wakeup, and what it knows of the granules then; Reply says that  *)
(* the words sent end with a header whose status is the one the hardware   *)
(* was left with.  Both rest on the invariant of SbeChipOpsProofs.         *)
(***************************************************************************)
EXTENDS SbeChipOpsProofs

----------------------------------------------------------------------------
(* The invariant *)

\* Where a chip-op holds an interface or a core, and where it has sent its header.
MemLabels == {"mem", "mem.check", "mem.access", "mem.loop"}
Held == {"mem.access", "mem.loop", "reg.access", "reg.cleanup"} \cup CoreLabels
Told == {"return", "mem.bell", "response.header", "response.flushed", "response.eot",
         "response.done"}

Released(h) == ~h.open /\ h.awake = {}

\* The cores of the request behind its first n.
CoresBehind(n) == {TargetsOf(req)[i] : i \in (n + 1)..Len(TargetsOf(req))}

\* The object and the interface: nothing is open before the first setup; then the
\* object and the procedures agree on the granules that are left.
Interface(q, h) ==
    /\ ~h.misused /\ h.max \in Nat /\ h.max + h.curr <= MaxGranules
    /\ q.at \in {"mem", "mem.check"} => h.cleaned
    /\ q.at \in MemLabels /\ h.cleaned => ~h.open
    /\ q.at \in {"mem.access", "mem.loop"} /\ ~h.cleaned =>
          /\ h.open /\ h.used = h.curr /\ h.granted = h.max + h.curr /\ h.max >= 1
          /\ q.count < getDataLenCacheAlign
    /\ q.at = "mem.access" => q.count < getDataLenCacheAlign

\* The RAM mode of a core.
Ram(q, h) ==
    req.op \in RegOps /\ ~h.failed /\ h.open =>
        /\ q.at \in {"reg.access", "reg.cleanup"}
        /\ q.fn # "none" => q.brk = "reg.cleanup"

\* As long as nothing went wrong.
Wakeups(q, h) ==
    /\ q.status = "OK" /\ q.at \notin Held \cup Told => Released(h)
    /\ q.status = "OK" /\ q.at \in CoreLabels =>
          /\ ~h.open
          /\ h.awake \subseteq IF q.at = "cntlinst.sleep" THEN CoresBehind(q.count) ELSE CoresBehind(0)
    /\ q.status = "OK" /\ q.at \in Held \ CoreLabels => h.awake = {}

Kept(q, h) ==
    /\ Interface(q, h) /\ Ram(q, h) /\ Wakeups(q, h)
    /\ q.at = "idle" => h = Hardware
    /\ q.fn # "none" /\ q.brk = "header" => q.at = "quiesce.suspend"
    /\ q.fn # "none" /\ q.brk = "reg.cleanup" => q.at \notin Told
    /\ q.fn = "deq" => q.at \notin Told \ {"response.header"}
    /\ q.at = "mem.bell" /\ q.fn = "none" => q.rc = "OK"

----------------------------------------------------------------------------
(* The response *)

NoMagic(s) == \A i \in 1..Len(s) : s[i][1] # "magic"

\* The words sent, and those the routine in progress is still to send.
Sent == Response \o (IF p.fn = "enq" THEN p.out ELSE <<>>)

\* The header has been sent, or is on its way.
Answering(q) ==
    \/ q.fn = "enq" /\ q.at \in {"return", "mem.bell", "response.eot"}
    \/ q.fn = "none" /\ (q.at \in {"mem.bell", "response.eot"} \/ (q.at = "return" /\ q.rc = "OK"))
    \/ q.fn = "eot"

Headed(s, w, good) ==
    \E status \in Status, fapi \in BOOLEAN, first \in DownWords :
        /\ s = first \o RespHdr(status, fapi) \o w /\ NoMagic(first)
        /\ status = "OK" => good

Reply ==
    ~reset /\ faults = 0 =>
        /\ Serves(p) /\ ~Answering(p) => NoMagic(Sent)
        /\ Answering(p) => Headed(Sent, <<>>, Released(hw))
        /\ At("response.done") /\ Response # <<>> => Headed(Response, <<<<"eot">>>>, Released(hw))

KeptInv == Kept(p, hw) /\ Reply

----------------------------------------------------------------------------
(* A step of a chip-op *)

\* Where it holds nothing and has not answered.
Ordinary == Labels \ (Held \cup Told \cup MemLabels \cup {"idle"})

Same(h) ==
    /\ h.open = hw.open /\ h.granted = hw.granted /\ h.used = hw.used /\ h.misused = hw.misused
    /\ h.cleaned = hw.cleaned /\ h.max = hw.max /\ h.curr = hw.curr /\ h.awake = hw.awake
    /\ hw.failed => h.failed

Stays(q) ==
    /\ q.at \in Ordinary /\ q.fn # "eot"
    /\ q.status = "OK" => p.status = "OK"
    /\ q.fn # "none" /\ q.brk = "header" => q.at = "quiesce.suspend"
    /\ q.fn = "enq" => NoMagic(q.out)

\* q sends a header.
Heads(q, good) ==
    \E status \in Status, fapi \in BOOLEAN, first \in DownWords :
        /\ q.out = first \o RespHdr(status, fapi) /\ NoMagic(first)
        /\ status = "OK" => good

Answers(q) ==
    /\ q.fn = "enq" /\ q.at \in {"return", "mem.bell"} /\ q.brk = "return"
    /\ Heads(q, p.status = "OK")

\* q ends without a response.
GivesUp(q) == q.fn = "none" /\ q.at = "return" /\ q.rc # "OK"

Steady ==
    /\ p.fn = "none" /\ p.at \in Ordinary /\ Same(hw')
    /\ Stays(p') \/ Answers(p') \/ GivesUp(p')

\* What a step means for the hardware and the response.
Effect ==
    /\ Kept(p', hw')
    /\ ~Answering(p') => /\ faults' = 0 => ~Answering(p)
                         /\ p'.fn = "enq" => NoMagic(p'.out)
    /\ Answering(p') => \/ ~Answering(p) /\ p'.fn = "enq" /\ Heads(p', Released(hw'))
                        \/ Answering(p) /\ p'.fn # "enq" /\ (Released(hw) => Released(hw'))

LEMMA SteadyEffect == ASSUME Ready, Kept(p, hw), Steady PROVE Effect
<1>1. p.status = "OK" => Released(hw)
  BY DEF Kept, Wakeups, Steady, Ordinary
<1>2. Released(hw) => Released(hw')
  BY DEF Released, Steady, Same
<1>3. req.op \in RegOps /\ ~hw'.failed => ~hw'.open
  BY DEF Kept, Ram, Steady, Same, Ordinary, Held
<1>4. ~hw'.misused /\ hw'.max \in Nat /\ hw'.max + hw'.curr <= MaxGranules
  BY DEF Kept, Interface, Steady, Same
<1>5. ~Answering(p)
  BY DEF Steady, Ordinary, Told, Answering
<1>6. CASE Stays(p')
  <2>1. p'.at \notin Held \cup Told \cup MemLabels \cup {"idle"}
    BY <1>6 DEF Stays, Ordinary
  <2>2. Interface(p', hw')
    BY <1>4, <2>1 DEF Interface, MemLabels
  <2>3. Ram(p', hw') /\ Wakeups(p', hw')
    BY <1>1, <1>2, <1>3, <1>6, <2>1 DEF Ram, Wakeups, Stays, Held
  <2>4. Kept(p', hw')
    BY <1>6, <2>1, <2>2, <2>3 DEF Kept, Stays, Told
  <2>5. ~Answering(p')
    BY <1>6, <2>1 DEF Answering, Stays, Told
  <2> QED BY <1>5, <1>6, <2>4, <2>5 DEF Effect, Stays
<1>7. CASE Answers(p')
  <2>1. p'.at \notin Held \cup MemLabels \cup {"idle"} /\ p'.at \in Told
    BY <1>7 DEF Answers, Held, CoreLabels, MemLabels, Told
  <2>2. Interface(p', hw')
    BY <1>4, <2>1 DEF Interface, MemLabels
  <2>3. Ram(p', hw') /\ Wakeups(p', hw')
    BY <1>3, <2>1 DEF Ram, Wakeups, Held
  <2>4. Kept(p', hw')
    BY <1>7, <2>1, <2>2, <2>3 DEF Kept, Answers
  <2>5. Answering(p') /\ p'.fn = "enq"
    BY <1>7 DEF Answering, Answers
  <2>6. Heads(p', Released(hw'))
    BY <1>1, <1>2, <1>7 DEF Heads, Answers
  <2> QED BY <1>5, <2>4, <2>5, <2>6 DEF Effect
<1>8. CASE GivesUp(p')
  <2>1. p'.at \notin Held \cup MemLabels \cup {"idle"} /\ p'.at \in Told
    BY <1>8 DEF GivesUp, Held, CoreLabels, MemLabels, Told
  <2>2. Interface(p', hw') /\ Ram(p', hw') /\ Wakeups(p', hw')
    BY <1>3, <1>4, <2>1 DEF Interface, MemLabels, Ram, Wakeups, Held
  <2>3. Kept(p', hw') /\ ~Answering(p')
    BY <1>8, <2>1, <2>2 DEF Kept, GivesUp, Answering
  <2> QED BY <1>5, <1>8, <2>3 DEF Effect, GivesUp
<1> QED BY <1>6, <1>7, <1>8 DEF Steady

LEMMA StaysTo ==
    ASSUME Ready, p.fn = "none", NEW l \in Ordinary
    PROVE  /\ Stays(To(l)) /\ Stays(Failed(l))
           /\ \A status \in Status \ {"OK"} : Stays(Refuses(l, status))
  BY DEF Ready, Frames, Stays, To, Failed, Refuses

LEMMA StaysDeq ==
    ASSUME Ready, NEW q \in Frames, q.status = "OK" => p.status = "OK", NEW l \in Ordinary, NEW b,
           b = "header" => l = "quiesce.suspend", NEW n, NEW eot, NEW flush
    PROVE  Stays(Deq(q, l, b, n, eot, flush))
  BY DEF Frames, Stays, Deq

LEMMA StaysEnq ==
    ASSUME Ready, NEW q \in Frames, q.status = "OK" => p.status = "OK", NEW l \in Ordinary,
           NEW w, NoMagic(w)
    PROVE  Stays(Enq(q, l, "return", w))
  BY DEF Frames, Stays, Enq

LEMMA DataNoMagic == ASSUME NEW n, NEW k \in Nat PROVE NoMagic(Data(n, k))
  BY DEF NoMagic, Data

LEMMA SramDataNoMagic == ASSUME NEW n, NEW pass \in Nat PROVE NoMagic(SramData(n, pass))
  BY DEF NoMagic, SramData

LEMMA SameDone ==
    ASSUME Ready
    PROVE  /\ Same(hw) /\ Same([hw EXCEPT !.failed = TRUE]) /\ Same([hw EXCEPT !.done = @ + 1])
           /\ \A w : Same([[hw EXCEPT !.wrote = w] EXCEPT !.done = @ + 1])
<1>1. hw \in Hardwares
  BY DEF Ready
<1>2. Same(hw) /\ Same([hw EXCEPT !.failed = TRUE]) /\ Same([hw EXCEPT !.done = @ + 1])
  BY <1>1 DEF Same, Hardwares
<1>3. ASSUME NEW w PROVE Same([[hw EXCEPT !.wrote = w] EXCEPT !.done = @ + 1])
  BY <1>1 DEF Same, Hardwares
<1> QED BY <1>2, <1>3

LEMMA DoesSteady ==
    ASSUME p.fn = "none", p.at \in Ordinary, NEW q, Stays(q) \/ Answers(q) \/ GivesUp(q), NEW h, Same(h),
           Does(q, h)
    PROVE  Steady
  BY DEF Does, Steady

LEMMA GoesSteady ==
    ASSUME Ready, p.fn = "none", p.at \in Ordinary, NEW q, Stays(q) \/ Answers(q) \/ GivesUp(q), Goes(q)
    PROVE  Steady
  BY DoesSteady, SameDone DEF Goes

LEMMA HwpSteady ==
    ASSUME Ready, p.fn = "none", p.at \in Ordinary, NEW q, Stays(q), NEW h,
           Same([h EXCEPT !.done = @ + 1]), NEW l \in Ordinary, Hwp(q, h, l)
    PROVE  Steady
<1>1. Stays(Failed(l)) /\ Same([hw EXCEPT !.failed = TRUE])
  BY StaysTo, SameDone
<1> QED BY <1>1, DoesSteady DEF Hwp

LEMMA HeaderAnswers ==
    ASSUME Ready, p.fn = "none", NEW first \in DownWords, NoMagic(first), NEW l \in {"return", "mem.bell"}
    PROVE  Answers(sbeDsSendRespHdr(p, first, l, p.status, p.fapi))
<1> DEFINE q == sbeDsSendRespHdr(p, first, l, p.status, p.fapi)
           w == first \o RespHdr(p.status, p.fapi)
<1>1. p \in Frames /\ p.status \in Status /\ p.fapi \in BOOLEAN
  BY DEF Ready, Frames
<1>2. q = [p EXCEPT !.fn = "enq", !.at = l, !.brk = "return", !.out = w]
  BY DEF sbeDsSendRespHdr, Enq
<1> HIDE DEF w
<1>3. q.fn = "enq" /\ q.at = l /\ q.brk = "return" /\ q.out = w
  BY <1>1, <1>2 DEF Frames
<1>4. Heads(q, p.status = "OK")
  BY <1>1, <1>3 DEF Heads, w
<1> QED BY <1>3, <1>4 DEF Answers

----------------------------------------------------------------------------
(* The chip-ops that hold nothing *)

LEMMA OrdinaryLabels ==
    /\ ScomOps \subseteq Ordinary
    /\ {"header", "scom.check", "scom.read", "scom.write", "reg", "reg.check", "reg.setup",
        "getring", "getring.setup", "getring.read", "getring.rotate", "getring.verify",
        "getring.reply", "putring", "putring.payload", "putring.apply", "trace", "trace.target",
        "trace.row", "trace.reply", "fastarray", "fastarray.target", "fastarray.run", "cntlinst",
        "cntlinst.check", "istep", "istep.run", "nvdimm", "nvdimm.stop", "nvdimm.flush", "caps",
        "caps.send", "getffdc", "getffdc.send", "quiesce", "quiesce.suspend", "mem.tail",
        "mem.reply", "sram", "sram.check", "sram.access", "sram.loop", "sram.tail", "sram.reply"}
       \subseteq Ordinary
  BY DEF Ordinary, Labels, Starts, ScomOps, Held, CoreLabels, Told, MemLabels

\* A chip-op that takes its message.
LEMMA TakesSteady ==
    ASSUME Ready, p.fn = "none", p.at \in Ordinary, NEW l \in Ordinary, NEW n, NEW eot, NEW flush,
           Goes(Deq(p, l, "return", n, eot, flush))
    PROVE  Steady
  BY StaysDeq, GoesSteady DEF Ready

LEMMA ScomSteady == ASSUME Ready, sbeScomAccess PROVE Steady
<1>a. p \in Frames /\ {"header", "scom.check", "scom.read", "scom.write"} \subseteq Ordinary
  BY OrdinaryLabels DEF Ready
<1>1. CASE ScomRequest
  BY <1>1, <1>a, OrdinaryLabels, TakesSteady DEF ScomRequest, At
<1>2. CASE ScomCheck
  <2>1. p.fn = "none" /\ p.at \in Ordinary
    BY <1>2, <1>a DEF ScomCheck, At
  <2>2. /\ Stays(Refuses("header", "INVALID_DATA")) /\ Stays(To("scom.write"))
        /\ Stays(To("scom.read"))
    BY <1>a, <2>1, StaysTo DEF Status
  <2> QED BY <1>2, <2>1, <2>2, GoesSteady DEF ScomCheck
<1>3. ASSUME p.fn = "none", p.at \in Ordinary, NEW q, Stays(q), checkIndirectAndDoScom(q)
      PROVE  Steady
  <2>1. /\ \A s \in {"USER_ERROR", "ACCESS_DENIED", "EXECUTION_FAILURE"} : Stays(Refuses("header", s))
        /\ Stays(Failed("header"))
    BY <1>a, <1>3, StaysTo DEF Status
  <2> QED BY <1>3, <2>1, SameDone, DoesSteady DEF checkIndirectAndDoScom
<1>4. CASE ScomRead
  <2>1. p.fn = "none" /\ p.at \in Ordinary
    BY <1>4, <1>a DEF ScomRead, At
  <2>2. Stays(To("scom.write")) /\ Stays(Enq(p, "header", "return", Data(0, 2)))
    BY <1>a, <2>1, StaysTo, StaysEnq, DataNoMagic
  <2> QED BY <1>3, <1>4, <2>1, <2>2 DEF ScomRead
<1>5. CASE ScomWrite
  <2>1. p.fn = "none" /\ p.at \in Ordinary
    BY <1>5, <1>a DEF ScomWrite, At
  <2>2. Stays(To("header"))
    BY <1>a, <2>1, StaysTo
  <2> QED BY <1>3, <1>5, <2>1, <2>2 DEF ScomWrite
<1> QED BY <1>1, <1>2, <1>4, <1>5 DEF sbeScomAccess

\* The length in front of a header.
LEMMA LenSteady ==
    ASSUME Ready, p.fn = "none", p.at \in Ordinary, NEW n \in Int, NEW l \in {"return", "mem.bell"},
           Goes(sbeDsSendRespHdr(p, <<<<"len", n>>>>, l, p.status, p.fapi))
    PROVE  Steady
<1>1. <<<<"len", n>>>> \in DownWords /\ NoMagic(<<<<"len", n>>>>)
  BY LenTyped DEF NoMagic
<1> QED BY <1>1, HeaderAnswers, GoesSteady

LEMMA GetRingSteady == ASSUME Ready, sbeGetRing PROVE Steady
<1>a. p \in Frames /\ p.count \in Nat
      /\ {"getring", "getring.setup", "getring.read", "getring.rotate", "getring.verify",
          "getring.reply"} \subseteq Ordinary
  BY OrdinaryLabels DEF Ready, Frames
<1>1. CASE GetRing
  <2> DEFINE q == [p EXCEPT !.count = GETRING_GRANULE]
  <2>1. q \in Frames /\ q.status = p.status
    BY <1>a DEF Frames, GETRING_GRANULE
  <2> HIDE DEF q
  <2>2. Stays(Deq(q, "getring.setup", "return", ReqWords, TRUE, FALSE))
    BY <1>a, <2>1, StaysDeq
  <2> QED BY <1>1, <1>a, <2>2, GoesSteady DEF GetRing, At, q
<1>2. CASE GetRingSetup
  <2>1. p.fn = "none" /\ p.at \in Ordinary
    BY <1>2, <1>a DEF GetRingSetup, At
  <2>2. Stays(To("getring.read")) /\ Stays(To("getring.rotate"))
    BY <1>a, <2>1, StaysTo
  <2> QED BY <1>2, <1>a, <2>1, <2>2, SameDone, HwpSteady DEF GetRingSetup
<1>3. CASE GetRingRead
  <2> DEFINE q == [p EXCEPT !.count = @ + RingShift]
             w == Data(RingGranules, 2)
             l == IF RingGranules + 1 < RingLoops THEN "getring.read" ELSE "getring.rotate"
  <2>1. p.fn = "none" /\ p.at \in Ordinary /\ Hwp(Enq(q, l, "return", w), hw, "getring.reply")
    BY <1>3, <1>a DEF GetRingRead, At
  <2>2. q \in Frames /\ q.status = p.status
    <3>1. p.count + RingShift \in Nat
      BY <1>a, RingTyped
    <3> QED BY <1>a, <3>1 DEF Frames
  <2>3. l \in Ordinary /\ NoMagic(w)
    BY <1>a, DataNoMagic
  <2> HIDE DEF q, w, l
  <2>4. Stays(Enq(q, l, "return", w))
    BY <2>2, <2>3, StaysEnq
  <2> QED BY <1>a, <2>1, <2>4, SameDone, HwpSteady
<1>4. CASE GetRingRotate \/ GetRingVerify
  <2>1. p.fn = "none" /\ p.at \in Ordinary
    BY <1>4, <1>a DEF GetRingRotate, GetRingVerify, At
  <2>2. Stays(To("getring.verify")) /\ Stays(To("getring.reply"))
    BY <1>a, <2>1, StaysTo
  <2> QED BY <1>4, <1>a, <2>1, <2>2, SameDone, HwpSteady DEF GetRingRotate, GetRingVerify
<1>5. CASE GetRingReply
  BY <1>5, <1>a, LenSteady DEF GetRingReply, At, Header
<1> QED BY <1>1, <1>2, <1>3, <1>4, <1>5 DEF sbeGetRing

LEMMA PutRingSteady == ASSUME Ready, sbePutRing PROVE Steady
<1>a. p \in Frames /\ {"putring", "putring.payload", "putring.apply", "header"} \subseteq Ordinary
  BY OrdinaryLabels DEF Ready
<1>1. CASE PutRing
  <2> DEFINE q == [p EXCEPT !.status = "INVALID_DATA"]
  <2>1. q \in Frames /\ q.status # "OK"
    BY <1>a DEF Frames, Status
  <2> HIDE DEF q
  <2>2. Stays(Deq(q, "header", "return", ReqWords + req.len, TRUE, TRUE))
    BY <1>a, <2>1, StaysDeq
  <2>3. Stays(Deq(p, "putring.payload", "return", ReqWords, FALSE, FALSE))
    BY <1>a, StaysDeq
  <2> QED BY <1>1, <1>a, <2>2, <2>3, GoesSteady DEF PutRing, At, q
<1>2. CASE PutRingPayload
  BY <1>2, <1>a, TakesSteady DEF PutRingPayload, At
<1>3. CASE PutRingApply
  <2>1. p.fn = "none" /\ p.at \in Ordinary
    BY <1>3, <1>a DEF PutRingApply, At
  <2>2. Stays(To("header"))
    BY <1>a, <2>1, StaysTo
  <2>3. Hwp(To("header"), [hw EXCEPT !.wrote = hw.wrote \o p.buf], "header")
    BY <1>3 DEF PutRingApply, Ready, Hardwares
  <2> QED BY <1>a, <2>1, <2>2, <2>3, SameDone, HwpSteady
<1> QED BY <1>1, <1>2, <1>3 DEF sbePutRing

LEMMA ArraySteady == ASSUME Ready, sbeControlTraceArray \/ sbeControlFastArray PROVE Steady
<1>a. p \in Frames /\ p.count \in Nat
      /\ {"trace", "trace.target", "trace.row", "trace.reply", "fastarray", "fastarray.target",
          "fastarray.run", "header"} \subseteq Ordinary
  BY OrdinaryLabels DEF Ready, Frames
<1>b. ASSUME p.fn = "none", NEW l \in Ordinary, NEW b \in Ordinary PROVE Stays(Target(l, b))
  <2>1. Stays(Refuses(b, "INVALID_DATA")) /\ Stays(To(l))
    BY <1>b, StaysTo DEF Status
  <2> QED BY <2>1 DEF Target
<1>1. CASE TraceArray \/ FastArray
  BY <1>1, <1>a, TakesSteady DEF TraceArray, FastArray, At
<1>2. CASE TraceTarget \/ FastArrayTarget
  BY <1>2, <1>a, <1>b, GoesSteady DEF TraceTarget, FastArrayTarget, At
<1>3. CASE TraceRow
  <2> DEFINE words == p.count + TraceWords
             next == IF words < TraceRows * TraceWords THEN "trace.row" ELSE "trace.reply"
             q == [p EXCEPT !.count = words]
             w == Data(p.count \div TraceWords, TraceWords)
             e == Enq(q, next, "return", w)
  <2>1. p.fn = "none" /\ p.at \in Ordinary
        /\ Hwp(IF "dump" \in req.flags THEN e ELSE To("trace.reply"), hw, "trace.reply")
    BY <1>3, <1>a DEF TraceRow, At
  <2>2. q \in Frames /\ q.status = p.status
    BY <1>a DEF Frames, TraceWords
  <2>3. next \in Ordinary /\ NoMagic(w)
    BY <1>a, DataNoMagic DEF TraceWords
  <2> HIDE DEF q, next, w
  <2>4. Stays(e) /\ Stays(To("trace.reply"))
    BY <1>a, <2>1, <2>2, <2>3, StaysEnq, StaysTo
  <2> HIDE DEF e
  <2> QED BY <1>a, <2>1, <2>4, SameDone, HwpSteady
<1>4. CASE TraceReply
  BY <1>4, <1>a, LenSteady DEF TraceReply, At, Header
<1>5. CASE FastArrayRun
  <2> DEFINE q == [To("header") EXCEPT !.fapi = TRUE]
  <2>1. p.fn = "none" /\ p.at \in Ordinary
    BY <1>5, <1>a DEF FastArrayRun, At
  <2>2. Stays(To("header"))
    BY <1>a, <2>1, StaysTo
  <2>3. q.at = "header" /\ q.fn = "none" /\ q.status = p.status
    BY <1>a, <2>1 DEF To, Frames
  <2>4. Stays(q)
    BY <1>a, <2>3 DEF Stays
  <2> HIDE DEF q
  <2> QED BY <1>5, <2>1, <2>2, <2>4, SameDone, DoesSteady DEF FastArrayRun, q
<1> QED BY <1>1, <1>2, <1>3, <1>4, <1>5 DEF sbeControlTraceArray, sbeControlFastArray

LEMMA JoinNoMagic ==
    ASSUME NEW a \in DownWords, NEW b \in DownWords, NoMagic(a), NoMagic(b) PROVE NoMagic(a \o b)
<1>1. Len(a) \in Nat /\ Len(b) \in Nat
  BY DEF DownWords
<1> HIDE DEF DownWords
<1>2. /\ Len(a \o b) = Len(a) + Len(b)
      /\ \A i \in 1..Len(a) : (a \o b)[i] = a[i]
      /\ \A i \in 1..Len(b) : (a \o b)[Len(a) + i] = b[i]
  BY Join, Zenon
<1> DEFINE c == a \o b
<1> HIDE DEF c
<1>3. /\ Len(c) = Len(a) + Len(b) /\ \A i \in 1..Len(a) : c[i] = a[i]
      /\ \A i \in 1..Len(b) : c[Len(a) + i] = b[i]
  BY <1>2 DEF c
<1>4. ASSUME NEW i \in 1..Len(c) PROVE c[i][1] # "magic"
  <2>1. CASE i <= Len(a)
    BY <1>1, <1>3, <2>1 DEF NoMagic
  <2>2. CASE ~(i <= Len(a))
    <3>1. i - Len(a) \in 1..Len(b) /\ Len(a) + (i - Len(a)) = i
      BY <1>1, <1>3, <2>2
    <3>2. c[Len(a) + (i - Len(a))] = b[i - Len(a)]
      BY <1>3, <3>1
    <3> QED BY <3>1, <3>2 DEF NoMagic
  <2> QED BY <2>1, <2>2
<1> QED BY <1>4 DEF NoMagic, c

LEMMA FfdcNoMagic == NoMagic(HwpFfdc \o SbeFfdc) /\ NoMagic(<<>> \o SbeFfdc)
<1>1. SbeFfdc \in DownWords /\ NoMagic(SbeFfdc)
  BY SbeFfdcTyped DEF NoMagic, SbeFfdc
<1>2. HwpFfdc \in DownWords /\ NoMagic(HwpFfdc)
  <2> DEFINE a == <<<<"ffdc", 1 + HwpFfdcWords>>>>
             b == Words("hwpffdc", HwpFfdcWords)
  <2>1. HwpFfdcWords \in Nat
    BY FifoAssumption
  <2>2. a \in DownWords /\ NoMagic(a)
    BY <2>1 DEF DownWords, DownWord, NoMagic
  <2>3. b \in DownWords /\ NoMagic(b)
    <3>1. b \in [1..HwpFfdcWords -> DownWord]
      BY <2>1 DEF Words, DownWord
    <3>2. \A i \in 1..HwpFfdcWords : b[i][1] = "hwpffdc"
      BY DEF Words
    <3> HIDE DEF b
    <3>3. b \in Seq(DownWord) /\ Len(b) = HwpFfdcWords
      BY <2>1, <3>1
    <3> QED BY <3>2, <3>3 DEF DownWords, NoMagic
  <2> HIDE DEF a, b
  <2>4. HwpFfdc = a \o b
    BY DEF HwpFfdc, a, b
  <2>5. a \o b \in DownWords /\ NoMagic(a \o b)
    BY <2>2, <2>3, Join, JoinNoMagic, Zenon
  <2> QED BY <2>4, <2>5
<1>3. <<>> \in DownWords /\ NoMagic(<<>>)
  BY EmptyTyped DEF NoMagic
<1>4. NoMagic(HwpFfdc \o SbeFfdc)
  BY <1>1, <1>2, JoinNoMagic, Zenon
<1>5. NoMagic(<<>> \o SbeFfdc)
  BY <1>1, <1>3, JoinNoMagic, Zenon
<1> QED BY <1>4, <1>5

LEMMA OtherSteady ==
    ASSUME Ready, Istep \/ IstepRun \/ sbeHandleFlushNVDIMM \/ sbeGetCapabilities \/ sbeGetFfdc
                  \/ sbeFifoQuiesce \/ SendHeader
    PROVE  Steady
<1>a. p \in Frames
      /\ {"istep", "istep.run", "nvdimm", "nvdimm.stop", "nvdimm.flush", "caps", "caps.send", "getffdc",
          "getffdc.send", "quiesce", "quiesce.suspend", "header"} \subseteq Ordinary
  BY OrdinaryLabels DEF Ready
<1>1. CASE Istep \/ Nvdimm \/ Caps \/ GetFfdc
  BY <1>1, <1>a, TakesSteady DEF Istep, Nvdimm, Caps, GetFfdc, At
<1>b. ASSUME p.fn = "none"
      PROVE  /\ Stays(To("header")) /\ Stays(To("nvdimm.flush"))
             /\ Stays(Refuses("header", "INVALID_DATA")) /\ Stays(Refuses("header", "EXECUTION_FAILURE"))
  BY <1>a, <1>b, StaysTo DEF Status
<1>2. CASE IstepRun
  <2>1. p.fn = "none" /\ p.at \in Ordinary
    BY <1>2, <1>a DEF IstepRun, At
  <2>2. CASE "invalid" \in req.flags
    BY <1>2, <1>b, <2>1, <2>2, GoesSteady DEF IstepRun
  <2>3. CASE Hwp(To("header"), hw, "header")
    BY <1>a, <1>b, <2>1, <2>3, SameDone, HwpSteady
  <2>4. CASE Does(Refuses("header", "EXECUTION_FAILURE"), [hw EXCEPT !.failed = TRUE])
    BY <1>b, <2>1, <2>4, SameDone, DoesSteady
  <2> QED BY <1>2, <2>2, <2>3, <2>4 DEF IstepRun
<1>3. CASE NvdimmStop \/ NvdimmFlush
  <2>1. p.fn = "none" /\ p.at \in Ordinary
    BY <1>3, <1>a DEF NvdimmStop, NvdimmFlush, At
  <2> QED BY <1>3, <1>a, <1>b, <2>1, SameDone, HwpSteady DEF NvdimmStop, NvdimmFlush
<1>4. CASE CapsSend
  <2>1. Stays(Enq(p, "header", "return", Data(0, 2)))
    BY <1>a, StaysEnq, DataNoMagic
  <2> QED BY <1>4, <1>a, <2>1, GoesSteady DEF CapsSend, At
<1>5. CASE GetFfdcSend
  <2>1. \A w \in {HwpFfdc, <<>>} : Stays(Enq(p, "header", "return", w \o SbeFfdc))
    <3> SUFFICES ASSUME NEW w \in {HwpFfdc, <<>>} PROVE Stays(Enq(p, "header", "return", w \o SbeFfdc))
      OBVIOUS
    <3>1. NoMagic(w \o SbeFfdc)
      BY FfdcNoMagic
    <3> QED BY <1>a, <3>1, StaysEnq
  <2> QED BY <1>5, <1>a, <2>1, GoesSteady DEF GetFfdcSend, At
<1>6. CASE Quiesce
  <2>1. Stays(Deq(p, "quiesce.suspend", "header", 0, TRUE, FALSE))
    BY <1>a, StaysDeq
  <2> QED BY <1>6, <1>a, <2>1, GoesSteady DEF Quiesce, At
<1>7. CASE QuiesceSuspend
  BY <1>7, <1>a, <1>b, SameDone, DoesSteady DEF QuiesceSuspend, At
<1>8. CASE SendHeader
  <2>1. <<>> \in DownWords /\ NoMagic(<<>>) /\ p.fn = "none" /\ p.at \in Ordinary
    BY <1>8, <1>a, EmptyTyped DEF NoMagic, SendHeader, At
  <2>2. Answers(Header(p, <<>>))
    BY <2>1, HeaderAnswers DEF Header
  <2> QED BY <1>8, <2>1, <2>2, GoesSteady DEF SendHeader
<1> QED BY <1>1, <1>2, <1>3, <1>4, <1>5, <1>6, <1>7, <1>8
        DEF sbeHandleFlushNVDIMM, sbeGetCapabilities, sbeGetFfdc, sbeFifoQuiesce

LEMMA LoopStays ==
    ASSUME Ready, NEW q \in Frames, q.fn = "none", q.status = p.status, NEW more, NEW l \in Ordinary,
           NEW n, NEW tail \in Ordinary
    PROVE  Stays(Loop(q, more, l, n, tail))
<1>1. Stays(Deq(q, l, "return", n, FALSE, FALSE))
  BY StaysDeq
<1>2. \A at \in Ordinary : Stays([q EXCEPT !.at = at, !.buf = <<>>])
  BY DEF Stays, Frames
<1> QED BY <1>1, <1>2 DEF Loop

LEMMA TailStays ==
    ASSUME Ready, p.fn = "none", NEW l \in Ordinary
    PROVE  Stays(IF isRead THEN To(l) ELSE flushUpstreamFifo(l))
<1>1. p \in Frames
  BY DEF Ready
<1>2. Stays(To(l)) /\ Stays(Deq(p, l, "return", 0, TRUE, p.status # "OK"))
  BY <1>1, StaysTo, StaysDeq
<1> QED BY <1>2 DEF flushUpstreamFifo

SramOp == sbeOccSramAccess_Wrap \/ SramCheck \/ SramAccess \/ SramSent \/ SramTail \/ SramReply

LEMMA SramSteady == ASSUME Ready, SramOp PROVE Steady
<1>a. p \in Frames /\ p.count \in Nat
      /\ {"sram", "sram.check", "sram.access", "sram.loop", "sram.tail", "sram.reply"} \subseteq Ordinary
  BY OrdinaryLabels DEF Ready, Frames
<1>1. CASE sbeOccSramAccess_Wrap
  BY <1>1, <1>a, TakesSteady DEF sbeOccSramAccess_Wrap, At
<1>b. ASSUME NEW q \in Frames, q.fn = "none", q.status = p.status PROVE Stays(SramLoop(q))
  BY <1>a, <1>b, LoopStays DEF SramLoop
<1>2. CASE SramCheck
  <2>1. p.fn = "none" /\ p.at \in Ordinary
    BY <1>2, <1>a DEF SramCheck, At
  <2>2. Stays(SramLoop(p)) /\ Stays(Refuses("sram.tail", "ACCESS_DENIED"))
    BY <1>a, <1>b, <2>1, StaysTo DEF Status
  <2>3. CASE Goes([p EXCEPT !.at = "return", !.rc = "GENERIC_FAILURE"])
    <3>1. GivesUp([p EXCEPT !.at = "return", !.rc = "GENERIC_FAILURE"])
      BY <1>a, <2>1 DEF GivesUp, Frames
    <3> QED BY <2>1, <2>3, <3>1, GoesSteady
  <2>4. CASE Hwp(SramLoop(p), hw, "sram.tail")
    BY <1>a, <2>1, <2>2, <2>4, SameDone, HwpSteady
  <2>5. CASE Goes(Refuses("sram.tail", "ACCESS_DENIED")) \/ Goes(SramLoop(p))
    BY <2>1, <2>2, <2>5, GoesSteady
  <2> QED BY <1>2, <2>3, <2>4, <2>5 DEF SramCheck
<1>3. CASE SramAccess
  <2> DEFINE q == [p EXCEPT !.count = @ + SramPass(p.count)]
             w == SramData(p.count, SramPass(p.count))
             e == Enq(q, "sram.loop", "return", w)
             h == [hw EXCEPT !.wrote = hw.wrote \o SramBlocks(SramPass(p.count))]
  <2>1. p.fn = "none" /\ p.at = "sram.access" /\ Hwp(IF isRead THEN e ELSE SramLoop(q), h, "sram.tail")
    BY <1>3 DEF SramAccess, At, Ready, Hardwares
  <2>2. SramPass(p.count) \in Nat /\ SramPass(p.count) \div 4 \in Nat
    <3>1. p.count < req.len /\ req.len \in Nat /\ SramGranule \in Nat
      BY <2>1, RequestTyped, MemAssumption DEF Ready, Control, Counted
    <3>2. SramPass(p.count) \in Nat
      BY <1>a, <3>1 DEF SramPass
    <3> QED BY <3>2
  <2>3. q \in Frames /\ q.fn = "none" /\ q.status = p.status
    BY <1>a, <2>1, <2>2 DEF Frames
  <2>4. NoMagic(w)
    BY <2>2, SramDataNoMagic
  <2>5. Same([h EXCEPT !.done = @ + 1])
    BY SameDone
  <2> HIDE DEF q, w, h
  <2>6. Stays(SramLoop(q)) /\ Stays(e)
    BY <1>a, <1>b, <2>3, <2>4, StaysEnq
  <2> HIDE DEF e
  <2> QED BY <1>a, <2>1, <2>5, <2>6, HwpSteady
<1>4. CASE SramSent
  BY <1>4, <1>a, <1>b, GoesSteady DEF SramSent, At
<1>5. CASE SramTail
  BY <1>5, <1>a, TailStays, GoesSteady DEF SramTail, At
<1>6. CASE SramReply
  BY <1>6, <1>a, LenSteady DEF SramReply, At
<1> QED BY <1>1, <1>2, <1>3, <1>4, <1>5, <1>6 DEF SramOp

----------------------------------------------------------------------------
(* Memory access: the interface *)

\* A step that goes on in the part where the interface is held, or out of it.
MemStep(q, h) ==
    /\ q.at \in {"mem.check", "mem.access", "mem.loop", "mem.tail"} /\ q.fn \in {"none", "deq", "enq"}
    /\ q.fn # "none" => q.brk = "return"
    /\ q.fn = "enq" => NoMagic(q.out)
    /\ Interface(q, h) /\ Wakeups(q, h)

LEMMA MemRequest == ASSUME Ready, p.at \in MemLabels PROVE req.op \notin RegOps
  BY DEF Ready, Control, Owned, MemLabels, Common, RegLabels

LEMMA MemStepEffect ==
    ASSUME Ready, p.fn = "none", p.at \in MemLabels, MemStep(p', hw') PROVE Effect
<1>1. Ram(p', hw')
  BY MemRequest DEF Ram
<1>2. Kept(p', hw')
  BY <1>1 DEF MemStep, Kept, Told
<1>3. ~Answering(p) /\ ~Answering(p')
  BY DEF MemStep, Answering, MemLabels
<1> QED BY <1>2, <1>3 DEF Effect, MemStep

\* The loop's condition, from a frame q.
MemLoops(r, q) ==
    /\ r.at = IF q.count < getDataLenCacheAlign THEN "mem.access" ELSE "mem.tail"
    /\ r.fn \in {"none", "deq"} /\ (r.fn # "none" => r.brk = "return")
    /\ r.status = q.status /\ r.count = q.count

LEMMA MemLoopGoes == ASSUME NEW q \in Frames, q.fn = "none" PROVE MemLoops(MemLoop(q), q)
  BY DEF MemLoop, Loop, Deq, MemLoops, Frames

\* What is known of the hardware where the interface may be held.
LEMMA MemHolds ==
    ASSUME Kept(p, hw), p.at \in MemLabels
    PROVE  /\ p.status = "OK" => hw.awake = {}
           /\ ~hw.misused /\ hw.max \in Nat /\ hw.max + hw.curr <= MaxGranules
  BY DEF Kept, Interface, Wakeups, Released, MemLabels, Held, CoreLabels, Told

\* The loop without an open interface, and with one when there are granules left.
LEMMA LoopStep ==
    ASSUME NEW r, NEW q, NEW h \in Hardwares, MemLoops(r, q),
           q.status = "OK" => h.awake = {},
           ~h.misused, h.max \in Nat, h.max + h.curr <= MaxGranules,
           h.cleaned => ~h.open,
           ~h.cleaned => /\ h.open /\ h.used = h.curr /\ h.granted = h.max + h.curr /\ h.max >= 1
                         /\ q.count < getDataLenCacheAlign
    PROVE  MemStep(r, h)
<1>1. Interface(r, h)
  BY DEF MemLoops, Interface, MemLabels
<1>2. Wakeups(r, h)
  BY DEF MemLoops, Wakeups, Released, Held, CoreLabels, Told
<1> QED BY <1>1, <1>2 DEF MemStep, MemLoops

LEMMA MemWrapEffect == ASSUME Ready, Kept(p, hw), sbeMemAccess_Wrap PROVE Effect
<1>1. /\ p.fn = "none" /\ p.at = "mem" /\ p \in Frames /\ hw' = hw
      /\ p' = Deq(p, "mem.check", "return", ReqWords, isRead, FALSE)
  BY DEF sbeMemAccess_Wrap, At, Goes, Does, Ready
<1>2. p'.at = "mem.check" /\ p'.fn = "deq" /\ p'.brk = "return" /\ p'.status = p.status
  BY <1>1 DEF Deq, Frames
<1>3. Interface(p', hw')
  BY <1>1, <1>2 DEF Kept, Interface, MemLabels
<1>4. Wakeups(p', hw')
  BY <1>1, <1>2 DEF Kept, Wakeups, Held, CoreLabels, Told
<1>5. MemStep(p', hw')
  BY <1>2, <1>3, <1>4 DEF MemStep
<1> QED BY <1>1, <1>5, MemStepEffect DEF MemLabels

\* A refused request.
LEMMA OutStep ==
    ASSUME NEW q, NEW h, q.at = "mem.tail", q.fn = "none", q.status # "OK",
           ~h.misused, h.max \in Nat, h.max + h.curr <= MaxGranules
    PROVE  MemStep(q, h)
<1>1. Interface(q, h) /\ Wakeups(q, h)
  BY DEF Interface, Wakeups, MemLabels
<1> QED BY <1>1 DEF MemStep

LEMMA MemCheckEffect == ASSUME Ready, Kept(p, hw), MemCheck PROVE Effect
<1> DEFINE refusal == IF isPba THEN PbaRefusal ELSE AduRefusal
<1>1. /\ p.fn = "none" /\ p.at = "mem.check" /\ p \in Frames /\ hw' = hw /\ hw \in Hardwares
      /\ p' = IF refusal = "OK" THEN MemLoop(p) ELSE Refuses("mem.tail", refusal)
  BY DEF MemCheck, At, Goes, Does, Ready
<1> HIDE DEF refusal
<1>2. hw.cleaned /\ ~hw.open
  BY <1>1 DEF Kept, Interface, MemLabels
<1>3. /\ p.status = "OK" => hw.awake = {}
      /\ ~hw.misused /\ hw.max \in Nat /\ hw.max + hw.curr <= MaxGranules
  BY <1>1, MemHolds DEF MemLabels
<1>4. MemStep(p', hw')
  <2>1. CASE refusal = "OK"
    <3>1. MemLoops(p', p)
      BY <1>1, <2>1, MemLoopGoes
    <3> QED BY <1>1, <1>2, <1>3, <3>1, LoopStep
  <2>2. CASE refusal # "OK"
    <3>1. p'.at = "mem.tail" /\ p'.fn = "none" /\ p'.status # "OK"
      BY <1>1, <2>2 DEF Refuses, Frames
    <3> QED BY <1>1, <1>3, <3>1, OutStep
  <2> QED BY <2>1, <2>2
<1> QED BY <1>1, <1>4, MemStepEffect DEF MemLabels

LEMMA MemSetupEffect == ASSUME Ready, Kept(p, hw), MemSetup PROVE Effect
<1>1. /\ p.fn = "none" /\ p.at = "mem.access" /\ p \in Frames /\ hw \in Hardwares /\ hw.cleaned
      /\ setup("mem.access", "mem.tail")
  BY DEF MemSetup, At, Ready
<1>2. ~hw.open /\ p.count < getDataLenCacheAlign
  BY <1>1 DEF Kept, Interface, MemLabels
<1>3. /\ p.status = "OK" => hw.awake = {}
      /\ ~hw.misused /\ hw.max \in Nat /\ hw.max + hw.curr <= MaxGranules
  BY <1>1, MemHolds DEF MemLabels
<1>4. ASSUME NEW n \in 1..MaxGranules,
             Does(To("mem.access"),
                  [hw EXCEPT !.misused = @ \/ hw.open, !.open = TRUE, !.granted = n,
                             !.used = 0, !.max = n, !.curr = 0, !.cleaned = FALSE])
      PROVE  MemStep(p', hw')
  <2>1. /\ ~hw'.misused /\ hw'.open /\ hw'.granted = n /\ hw'.used = 0 /\ hw'.max = n
        /\ hw'.curr = 0 /\ ~hw'.cleaned /\ hw'.awake = hw.awake
    BY <1>1, <1>2, <1>3, <1>4 DEF Does, Hardwares
  <2>2. p'.at = "mem.access" /\ p'.fn = "none" /\ p'.status = p.status /\ p'.count = p.count
    BY <1>1, <1>4 DEF Does, To, Frames
  <2>3. MaxGranules \in Nat
    BY MemAssumption
  <2>4. Interface(p', hw')
    BY <1>2, <2>1, <2>2, <2>3 DEF Interface, MemLabels
  <2>5. Wakeups(p', hw')
    BY <1>3, <2>1, <2>2 DEF Wakeups, Held, CoreLabels, Told
  <2> QED BY <2>2, <2>4, <2>5 DEF MemStep
<1>5. ASSUME Does(Failed("mem.tail"), [hw EXCEPT !.failed = TRUE, !.open = FALSE, !.curr = 0,
                                                 !.cleaned = FALSE])
      PROVE  MemStep(p', hw')
  <2>1. ~hw'.misused /\ hw'.max = hw.max /\ hw'.curr = 0
    BY <1>1, <1>3, <1>5 DEF Does, Hardwares
  <2>2. p'.at = "mem.tail" /\ p'.fn = "none" /\ p'.status # "OK"
    BY <1>1, <1>5 DEF Does, Failed, Frames
  <2>3. hw'.max \in Nat /\ hw'.max + hw'.curr <= MaxGranules
    <3>1. hw.curr \in Nat /\ MaxGranules \in Nat
      BY <1>1, MemAssumption DEF Hardwares
    <3> QED BY <1>3, <2>1, <3>1
  <2> QED BY <2>1, <2>2, <2>3, OutStep
<1>6. MemStep(p', hw')
  BY <1>1, <1>4, <1>5 DEF setup
<1> QED BY <1>1, <1>6, MemStepEffect DEF MemLabels

LEMMA DataLenTyped == ASSUME Ready PROVE getDataLenCacheAlign \in Nat
<1> DEFINE lines == IF req.len < 8 THEN 1 ELSE req.len \div 8
<1>1. req.len \in Nat /\ PbaLines \in Nat \ {0}
  BY RequestTyped, MemAssumption
<1>2. lines \in Nat
  BY <1>1
<1> HIDE DEF lines
<1>3. lines \div PbaLines \in Nat
  BY <1>1, <1>2
<1> QED BY <1>2, <1>3 DEF getDataLenCacheAlign, lines

\* A granule that was read goes downstream.
LEMMA SentStep ==
    ASSUME NEW r, NEW q, NEW h \in Hardwares, r.at = "mem.loop", r.fn = "enq", r.brk = "return",
           NoMagic(r.out), r.status = q.status, r.count = q.count,
           q.status = "OK" => h.awake = {},
           ~h.misused, h.max \in Nat, h.max + h.curr <= MaxGranules,
           h.cleaned => ~h.open,
           ~h.cleaned => /\ h.open /\ h.used = h.curr /\ h.granted = h.max + h.curr /\ h.max >= 1
                         /\ q.count < getDataLenCacheAlign
    PROVE  MemStep(r, h)
<1>1. Interface(r, h)
  BY DEF Interface, MemLabels
<1>2. Wakeups(r, h)
  BY DEF Wakeups, Held, CoreLabels, Told
<1> QED BY <1>1, <1>2 DEF MemStep

\* The procedure and the object agree on the granules.
LEMMA AccessEffect ==
    ASSUME Ready, Kept(p, hw), p.at = "mem.access", ~hw.cleaned,
           NEW last, last = (p.count = getDataLenCacheAlign - 1), NEW q, NEW l, accessGranule(last, q, l)
    PROVE  \/ /\ p' = q /\ ~hw'.misused /\ hw'.awake = hw.awake
              /\ hw'.max \in Nat /\ hw'.max + hw'.curr <= MaxGranules
              /\ hw'.cleaned => ~hw'.open
              /\ ~hw'.cleaned => /\ hw'.open /\ hw'.used = hw'.curr /\ hw'.granted = hw'.max + hw'.curr
                                 /\ hw'.max >= 1 /\ p.count + 1 < getDataLenCacheAlign
           \/ /\ p' = Failed(l) /\ ~hw'.misused /\ hw'.max \in Nat /\ hw'.max + hw'.curr <= MaxGranules
<1> DEFINE clean == CleansUp(last)
           bad == ~hw.open \/ (hw.curr = 0) # (hw.used = 0) \/ (hw.used + 1 = hw.granted /\ ~clean)
           h == [hw EXCEPT !.done = @ + 1, !.wrote = @ \o p.buf,
                           !.misused = @ \/ bad, !.open = ~clean, !.used = @ + 1,
                           !.cleaned = clean, !.max = @ - 1, !.curr = @ + 1]
           f == [hw EXCEPT !.failed = TRUE, !.misused = @ \/ bad, !.open = FALSE, !.cleaned = clean]
<1>a. hw \in Hardwares /\ p.count \in Nat /\ getDataLenCacheAlign \in Nat /\ MaxGranules \in Nat
  BY DataLenTyped, MemAssumption DEF Ready, Frames
<1>1. /\ hw.open /\ hw.used = hw.curr /\ hw.granted = hw.max + hw.curr /\ hw.max >= 1
      /\ p.count < getDataLenCacheAlign /\ ~hw.misused /\ hw.max \in Nat /\ hw.curr \in Nat
      /\ hw.max + hw.curr <= MaxGranules
  BY <1>a DEF Kept, Interface, Hardwares
<1>2. clean \in BOOLEAN /\ (~clean => hw.max # 1 /\ ~last)
  BY DEF CleansUp
<1> HIDE DEF clean
<1>3. ~bad
  BY <1>1, <1>2
<1> HIDE DEF bad
<1>4. Does(q, h) \/ Does(Failed(l), f)
  BY DEF accessGranule, clean, bad
<1>5. CASE Does(q, h)
  <2>1. /\ p' = q /\ ~hw'.misused /\ hw'.awake = hw.awake /\ hw'.max = hw.max - 1 /\ hw'.curr = hw.curr + 1
        /\ hw'.used = hw.used + 1 /\ hw'.granted = hw.granted
    BY <1>1, <1>3, <1>5, <1>a DEF Does, Hardwares
  <2>2. hw'.cleaned = clean /\ hw'.open = ~clean
    <3> DEFINE o == ~clean
               m == hw.misused \/ bad
    <3>1. hw' = [hw EXCEPT !.done = @ + 1, !.wrote = @ \o p.buf, !.misused = m, !.open = o,
                           !.used = @ + 1, !.cleaned = clean, !.max = @ - 1, !.curr = @ + 1]
      BY <1>5, <1>a DEF Does, Hardwares
    <3> HIDE DEF o, m
    <3>2. hw'.cleaned = clean /\ hw'.open = o
      BY <1>a, <3>1 DEF Hardwares
    <3> QED BY <3>2 DEF o
  <2>3. hw'.max \in Nat /\ hw'.max + hw'.curr <= MaxGranules
    BY <1>1, <1>a, <2>1
  <2>4. ASSUME ~clean PROVE hw'.max >= 1 /\ p.count + 1 < getDataLenCacheAlign
    <3>1. hw.max # 1 /\ p.count # getDataLenCacheAlign - 1
      BY <1>2, <2>4
    <3> QED BY <1>1, <1>a, <2>1, <3>1
  <2>5. hw'.used = hw'.curr /\ hw'.granted = hw'.max + hw'.curr
    BY <1>1, <1>a, <2>1
  <2> QED BY <2>1, <2>2, <2>3, <2>4, <2>5
<1>6. CASE Does(Failed(l), f)
  <2>1. p' = Failed(l) /\ ~hw'.misused /\ hw'.max = hw.max /\ hw'.curr = hw.curr
    BY <1>1, <1>3, <1>6, <1>a DEF Does, Hardwares
  <2> QED BY <1>1, <2>1
<1> QED BY <1>4, <1>5, <1>6

LEMMA MemAccessEffect == ASSUME Ready, Kept(p, hw), MemAccess, hw' \in Hardwares PROVE Effect
<1> DEFINE last == p.count = getDataLenCacheAlign - 1
           words == IF isPba THEN sizeMultiplier ELSE AduWords(p.count)
           q == [p EXCEPT !.count = @ + 1]
           e == Enq(q, "mem.loop", "return", Data(p.count, words))
           r == IF isRead /\ words > 0 THEN e ELSE MemLoop(q)
<1>1. p.fn = "none" /\ p.at = "mem.access" /\ ~hw.cleaned /\ accessGranule(last, r, "mem.tail")
  BY DEF MemAccess, At
<1>2. p.count \in Nat /\ words \in Nat
  <2>1. p.count \in Nat
    BY DEF Ready, Frames
  <2> QED BY <2>1, AduWordsTyped, MemAssumption DEF sizeMultiplier
<1>3. q \in Frames /\ q.fn = "none" /\ q.count = p.count + 1 /\ q.status = p.status
  BY <1>1, <1>2 DEF Ready, Frames
<1>4. p.status = "OK" => hw.awake = {}
  BY <1>1, MemHolds DEF MemLabels
<1> DEFINE d == Data(p.count, words)
<1>5. NoMagic(d)
  BY <1>2, DataNoMagic
<1> HIDE DEF d, q, words
<1>6. /\ e.at = "mem.loop" /\ e.fn = "enq" /\ e.brk = "return" /\ NoMagic(e.out)
      /\ e.status = q.status /\ e.count = q.count
  BY <1>3, <1>5 DEF Enq, Frames, d
<1>7. MemLoops(MemLoop(q), q)
  BY <1>3, MemLoopGoes
<1> HIDE DEF e
<1>8. ASSUME hw'.misused = FALSE, hw'.awake = hw.awake, hw'.max \in Nat, hw'.max + hw'.curr <= MaxGranules,
             hw'.cleaned => ~hw'.open,
             ~hw'.cleaned => /\ hw'.open /\ hw'.used = hw'.curr /\ hw'.granted = hw'.max + hw'.curr
                             /\ hw'.max >= 1 /\ q.count < getDataLenCacheAlign
      PROVE  MemStep(r, hw')
  <2>1. q.status = "OK" => hw'.awake = {}
    BY <1>3, <1>4, <1>8
  <2>2. MemStep(e, hw')
    BY <1>6, <1>8, <2>1, SentStep
  <2>3. MemStep(MemLoop(q), hw')
    BY <1>7, <1>8, <2>1, LoopStep
  <2> QED BY <2>2, <2>3
<1>9. MemStep(Failed("mem.tail"), hw') \/ ~(~hw'.misused /\ hw'.max \in Nat /\ hw'.max + hw'.curr <= MaxGranules)
  <2>1. Failed("mem.tail").at = "mem.tail" /\ Failed("mem.tail").fn = "none"
        /\ Failed("mem.tail").status # "OK"
    BY <1>1 DEF Failed, Ready, Frames
  <2> QED BY <2>1, OutStep
<1> HIDE DEF last, r
<1>10. MemStep(p', hw')
  <2>1. last = (p.count = getDataLenCacheAlign - 1)
    BY DEF last
  <2>2. hw'.misused \in BOOLEAN
    BY DEF Hardwares
  <2>3. \/ /\ p' = r /\ ~hw'.misused /\ hw'.awake = hw.awake
           /\ hw'.max \in Nat /\ hw'.max + hw'.curr <= MaxGranules
           /\ hw'.cleaned => ~hw'.open
           /\ ~hw'.cleaned => /\ hw'.open /\ hw'.used = hw'.curr /\ hw'.granted = hw'.max + hw'.curr
                              /\ hw'.max >= 1 /\ p.count + 1 < getDataLenCacheAlign
        \/ /\ p' = Failed("mem.tail") /\ ~hw'.misused
           /\ hw'.max \in Nat /\ hw'.max + hw'.curr <= MaxGranules
    BY <1>1, <2>1, AccessEffect, Zenon
  <2>4. CASE p' = Failed("mem.tail")
    BY <1>9, <2>3, <2>4, <1>3, <1>8, <2>2
  <2>5. CASE p' # Failed("mem.tail")
    BY <1>3, <1>8, <2>2, <2>3, <2>5
  <2> QED BY <2>4, <2>5
<1> QED BY <1>1, <1>10, MemStepEffect DEF MemLabels

LEMMA MemSentEffect == ASSUME Ready, Kept(p, hw), MemSent PROVE Effect
<1>1. /\ p.fn = "none" /\ p.at = "mem.loop" /\ p \in Frames /\ hw' = hw /\ hw \in Hardwares
      /\ p' = MemLoop(p)
  BY DEF MemSent, At, Goes, Does, Ready
<1>2. MemLoops(p', p)
  BY <1>1, MemLoopGoes
<1>3. /\ p.status = "OK" => hw.awake = {}
      /\ ~hw.misused /\ hw.max \in Nat /\ hw.max + hw.curr <= MaxGranules
  BY <1>1, MemHolds DEF MemLabels
<1>4. /\ hw.cleaned => ~hw.open
      /\ ~hw.cleaned => /\ hw.open /\ hw.used = hw.curr /\ hw.granted = hw.max + hw.curr /\ hw.max >= 1
                        /\ p.count < getDataLenCacheAlign
  BY <1>1 DEF Kept, Interface, MemLabels
<1>5. MemStep(p', hw)
  BY <1>1, <1>2, <1>3, <1>4, LoopStep
<1> QED BY <1>1, <1>5, MemStepEffect DEF MemLabels

LEMMA MemEndSteady == ASSUME Ready, MemTail \/ MemReply PROVE Steady
<1>a. {"mem.tail", "mem.reply"} \subseteq Ordinary
  BY OrdinaryLabels
<1>1. CASE MemTail
  BY <1>1, <1>a, TailStays, GoesSteady DEF MemTail, At
<1>2. CASE MemReply
  <2> DEFINE n == IF isPba THEN p.count * granuleSize ELSE sbeAduLenInUpStreamFifo(p.count)
  <2>1. p.count \in Nat /\ req.len \in Nat
    BY RequestTyped DEF Ready, Frames
  <2>2. granuleSize \in Nat
    BY <2>1, MemAssumption DEF granuleSize
  <2>3. p.count * granuleSize \in Int
    BY <2>1, <2>2
  <2>4. n \in Int
    BY <2>1, <2>3 DEF sbeAduLenInUpStreamFifo
  <2>5. p.fn = "none" /\ p.at \in Ordinary
        /\ Goes(sbeDsSendRespHdr(p, <<<<"len", n>>>>, "mem.bell", p.status, p.fapi))
    BY <1>2, <1>a DEF MemReply, At, MemLen
  <2> HIDE DEF n
  <2> QED BY <2>4, <2>5, LenSteady
<1> QED BY <1>1, <1>2

\* After the header nothing is held any more that was not.
LEMMA ToldKept ==
    ASSUME Kept(p, hw), p.at \in Told, Same(hw'), p'.at \in Told,
           p'.fn # "none" => p'.brk \notin {"header", "reg.cleanup"},
           p'.fn = "deq" => p'.at = "response.header",
           p'.at = "mem.bell" /\ p'.fn = "none" => p'.rc = "OK"
    PROVE  Kept(p', hw')
<1>1. p.at \notin Held \cup MemLabels \cup {"idle"} /\ p'.at \notin Held \cup MemLabels \cup {"idle"}
  BY DEF Told, Held, CoreLabels, MemLabels
<1>2. Interface(p', hw')
  BY <1>1 DEF Kept, Interface, Same, MemLabels
<1>3. Ram(p', hw') /\ Wakeups(p', hw')
  BY <1>1 DEF Kept, Ram, Wakeups, Same, Held
<1> QED BY <1>1, <1>2, <1>3 DEF Kept

LEMMA MemBellEffect == ASSUME Ready, Wires, Kept(p, hw), MemBell PROVE Effect
<1>1. p.fn = "none" /\ p.at = "mem.bell" /\ p \in Frames /\ hw \in Hardwares /\ faults \in Nat
  BY DEF MemBell, At, Ready, Wires
<1>2. p.rc = "OK" /\ Answering(p)
  BY <1>1 DEF Kept, Answering
<1>3. Same(hw) /\ Same([hw EXCEPT !.bell = TRUE])
  BY <1>1 DEF Same, Hardwares
<1>4. CASE \E h \in {hw, [hw EXCEPT !.bell = TRUE]} : Does(To("return"), h)
  <2>1. p' = To("return") /\ Same(hw')
    BY <1>3, <1>4 DEF Does
  <2>2. p'.at = "return" /\ p'.fn = "none" /\ p'.rc = "OK"
    BY <1>1, <1>2, <2>1 DEF To, Frames
  <2>3. Kept(p', hw')
    BY <1>1, <2>1, <2>2, ToldKept DEF Told
  <2>4. Answering(p') /\ (Released(hw) => Released(hw'))
    BY <2>1, <2>2 DEF Answering, Released, Same
  <2> QED BY <1>2, <2>2, <2>3, <2>4 DEF Effect
<1>5. CASE /\ faults' = faults + 1 /\ p' = [p EXCEPT !.at = "return", !.rc = "GENERIC_FAILURE"]
           /\ UNCHANGED hw
  <2>1. p'.at = "return" /\ p'.fn = "none" /\ p'.rc # "OK" /\ Same(hw') /\ faults' # 0
    BY <1>1, <1>3, <1>5 DEF Frames
  <2>2. Kept(p', hw')
    BY <1>1, <2>1, ToldKept DEF Told
  <2>3. ~Answering(p')
    BY <2>1 DEF Answering
  <2> QED BY <2>1, <2>2, <2>3 DEF Effect
<1> QED BY <1>4, <1>5 DEF MemBell, Goes

LEMMA HeaderHeads ==
    ASSUME NEW q, NEW status \in Status, NEW fapi \in BOOLEAN, NEW good, q.out = RespHdr(status, fapi),
           status = "OK" => good
    PROVE  Heads(q, good)
<1>1. <<>> \in DownWords /\ NoMagic(<<>>) /\ RespHdr(status, fapi) \in DownWords
  BY EmptyTyped, RespHdrShape DEF NoMagic
<1>2. RespHdr(status, fapi) = <<>> \o RespHdr(status, fapi)
  <2> DEFINE h == RespHdr(status, fapi)
  <2> HIDE DEF h
  <2>1. h = <<>> \o h
    BY <1>1 DEF h, DownWords
  <2> QED BY <2>1 DEF h
<1> QED BY <1>1, <1>2 DEF Heads

LEMMA RespondEffect ==
    ASSUME Ready, Kept(p, hw), sbeHandleFifoResponse PROVE Effect \/ Ends
<1>a. p \in Frames /\ hw \in Hardwares /\ Same(hw)
  BY SameDone DEF Ready
<1>b. ASSUME p.at \in Told, p.fn = "none", Goes(p'), p'.at \in Told,
             p'.fn # "none" => p'.brk \notin {"header", "reg.cleanup"}, p'.at # "mem.bell",
             p'.fn = "deq" => p'.at = "response.header",
             p'.fn # "enq", Answering(p) <=> Answering(p')
      PROVE  Effect
  <2>1. hw' = hw
    BY <1>b DEF Goes, Does
  <2>2. Kept(p', hw')
    BY <1>a, <1>b, <2>1, ToldKept
  <2> QED BY <1>b, <2>1, <2>2 DEF Effect
<1>1. CASE Respond
  <2>1. p.fn = "none" /\ p.at = "return"
    BY <1>1 DEF Respond, At
  <2>2. CASE p.rc = "NOT_SUPPORTED"
    <3>1. p' = Deq(p, "response.header", "response.flushed", 1, TRUE, TRUE) /\ Goes(p')
      BY <1>1, <2>2 DEF Respond, Goes, Does
    <3>2. p'.fn = "deq" /\ p'.at = "response.header" /\ p'.brk = "response.flushed"
      BY <1>a, <3>1 DEF Deq, Frames
    <3> QED BY <1>b, <2>1, <2>2, <3>1, <3>2 DEF Told, Answering
  <2>3. CASE p.rc \in {"INSUFFICIENT_DATA", "EXCESS_DATA"}
    <3>1. p' = To("response.header") /\ Goes(p')
      BY <1>1, <2>3 DEF Respond, Goes, Does
    <3>2. p'.fn = "none" /\ p'.at = "response.header"
      BY <1>a, <2>1, <3>1 DEF To, Frames
    <3> QED BY <1>b, <2>1, <2>3, <3>1, <3>2 DEF Told, Answering
  <2>4. CASE p.rc = "OK"
    <3>1. p' = Eot(p, "response.done", "response.done") /\ Goes(p')
      BY <1>1, <2>4 DEF Respond, Goes, Does
    <3>2. p'.fn = "eot" /\ p'.at = "response.done" /\ p'.brk = "response.done"
      BY <1>a, <3>1 DEF Eot, Frames
    <3> QED BY <1>b, <2>1, <2>4, <3>1, <3>2 DEF Told, Answering
  <2> QED BY <1>1, <2>2, <2>3, <2>4 DEF Respond
<1>2. CASE RespondFlushed
  <2>1. p.fn = "none" /\ p.at = "response.flushed"
    BY <1>2 DEF RespondFlushed, At
  <2>2. CASE Goes(To("response.header"))
    <3>1. p' = To("response.header") /\ Goes(p')
      BY <2>2 DEF Goes, Does
    <3>2. p'.fn = "none" /\ p'.at = "response.header"
      BY <1>a, <2>1, <3>1 DEF To, Frames
    <3> QED BY <1>b, <2>1, <3>1, <3>2 DEF Told, Answering
  <2> QED BY <1>2, <2>2 DEF RespondFlushed
<1>3. CASE RespondHeader
  <2> DEFINE status == IF req.op = "unknown" THEN "NOT_SUPPORTED" ELSE "INVALID_DATA"
             w == RespHdr(status, FALSE)
  <2>1. /\ p.fn = "none" /\ p.at = "response.header" /\ hw' = hw
        /\ p' = Enq(p, "response.eot", "response.done", w)
    BY <1>3 DEF RespondHeader, At, Goes, Does
  <2>2. status \in Status /\ status # "OK"
    BY DEF Status
  <2> HIDE DEF status
  <2>3. p'.fn = "enq" /\ p'.at = "response.eot" /\ p'.brk = "response.done" /\ p'.out = w
    BY <1>a, <2>1 DEF Enq, Frames
  <2>4. Heads(p', Released(hw'))
    BY <2>2, <2>3, HeaderHeads
  <2>5. Kept(p', hw')
    BY <1>a, <2>1, <2>3, ToldKept DEF Told
  <2>6. Answering(p') /\ ~Answering(p)
    BY <2>1, <2>3 DEF Answering
  <2> QED BY <2>3, <2>4, <2>5, <2>6 DEF Effect
<1>4. CASE RespondEot
  <2>1. /\ p.fn = "none" /\ p.at = "response.eot" /\ Goes(p')
        /\ p' = Eot(p, "response.done", "response.done")
    BY <1>4 DEF RespondEot, At, Goes, Does
  <2>2. p'.fn = "eot" /\ p'.at = "response.done" /\ p'.brk = "response.done"
    BY <1>a, <2>1 DEF Eot, Frames
  <2> QED BY <1>b, <2>1, <2>2 DEF Told, Answering
<1> QED BY <1>1, <1>2, <1>3, <1>4 DEF sbeHandleFifoResponse, RespondDone

----------------------------------------------------------------------------
(* Registers: the RAM mode of a core *)

LEMMA QuietEffect ==
    ASSUME Kept(p', hw'), ~Answering(p), ~Answering(p'), p'.fn = "enq" => NoMagic(p'.out) PROVE Effect
  BY DEF Effect

\* The object's fields are not a register's or a core's.
Aside(h) == h.misused = hw.misused /\ h.max = hw.max /\ h.curr = hw.curr

RegStep(q) ==
    /\ q.at \in {"reg.access", "reg.cleanup"} /\ q.fn \in {"none", "enq"}
    /\ q.fn # "none" => q.brk = "reg.cleanup"
    /\ q.fn = "enq" => NoMagic(q.out)
    /\ q.status = "OK" => p.status = "OK"

RegPlaces == {"reg.setup", "reg.access", "reg.cleanup"}

LEMMA RegPlace ==
    ASSUME Kept(p, hw), p.at \in RegPlaces
    PROVE  /\ p.status = "OK" => hw.awake = {}
           /\ ~hw.misused /\ hw.max \in Nat /\ hw.max + hw.curr <= MaxGranules
           /\ p.fn = "none" => ~Answering(p)
  BY DEF Kept, Interface, Wakeups, Released, RegPlaces, Held, CoreLabels, Told, Answering

LEMMA RegStepEffect ==
    ASSUME Kept(p, hw), p.fn = "none", p.at \in RegPlaces, Aside(hw'), hw'.awake = hw.awake, RegStep(p')
    PROVE  Effect
<1>1. /\ p.status = "OK" => hw.awake = {}
      /\ ~hw.misused /\ hw.max \in Nat /\ hw.max + hw.curr <= MaxGranules
      /\ ~Answering(p)
  BY RegPlace
<1>2. Interface(p', hw')
  BY <1>1 DEF Interface, Aside, RegStep, MemLabels
<1>3. Ram(p', hw')
  BY DEF Ram, RegStep
<1>4. Wakeups(p', hw')
  BY <1>1 DEF Wakeups, RegStep, Held, CoreLabels
<1>5. Kept(p', hw') /\ ~Answering(p')
  BY <1>2, <1>3, <1>4 DEF Kept, RegStep, Answering, Told
<1> QED BY <1>1, <1>5, QuietEffect DEF RegStep

\* Out of the RAM mode, or with a failure behind it.
RegOut(q, h) ==
    /\ q.fn = "none" /\ (q.at = "header" \/ (q.at = "return" /\ q.rc # "OK"))
    /\ ~h.open \/ (h.failed /\ q.status # "OK")
    /\ q.status = "OK" => p.status = "OK"

LEMMA RegOutEffect ==
    ASSUME Kept(p, hw), p.fn = "none", p.at \in RegPlaces, Aside(hw'), hw'.awake = hw.awake,
           RegOut(p', hw')
    PROVE  Effect
<1>1. /\ p.status = "OK" => hw.awake = {}
      /\ ~hw.misused /\ hw.max \in Nat /\ hw.max + hw.curr <= MaxGranules
      /\ ~Answering(p)
  BY RegPlace
<1>2. Interface(p', hw')
  BY <1>1 DEF Interface, Aside, RegOut, MemLabels
<1>3. Ram(p', hw')
  BY DEF Ram, RegOut
<1>4. Wakeups(p', hw')
  BY <1>1 DEF Wakeups, RegOut, Released, Held, CoreLabels, Told
<1>5. Kept(p', hw') /\ ~Answering(p')
  BY <1>2, <1>3, <1>4 DEF Kept, RegOut, Answering
<1> QED BY <1>1, <1>5, QuietEffect DEF RegOut

\* A RAM procedure, from p to q on success and to l on failure.
LEMMA RegHwp ==
    ASSUME Ready, Kept(p, hw), p.fn = "none", p.at \in RegPlaces, NEW q, RegStep(q),
           NEW h \in Hardwares, Aside(h), h.awake = hw.awake, Hwp(q, h, "header")
    PROVE  Effect
<1>a. hw \in Hardwares /\ p \in Frames
  BY DEF Ready
<1>1. CASE Does(q, [h EXCEPT !.done = @ + 1])
  <2>1. p' = q /\ Aside(hw') /\ hw'.awake = hw.awake
    BY <1>1 DEF Does, Aside, Hardwares
  <2> QED BY <2>1, RegStepEffect
<1>2. CASE Does(Failed("header"), [hw EXCEPT !.failed = TRUE])
  <2>1. Aside(hw') /\ hw'.awake = hw.awake /\ hw'.failed
    BY <1>2, <1>a DEF Does, Aside, Hardwares
  <2>2. p'.at = "header" /\ p'.fn = "none" /\ p'.status # "OK"
    BY <1>2, <1>a DEF Does, Failed, Frames
  <2> QED BY <2>1, <2>2, RegOutEffect DEF RegOut
<1> QED BY <1>1, <1>2 DEF Hwp

LEMMA RegEffect == ASSUME Ready, Kept(p, hw), sbeRegAccess PROVE Effect
<1>a. p \in Frames /\ hw \in Hardwares /\ p.count \in Nat
      /\ {"reg", "reg.check", "reg.setup", "header"} \subseteq Ordinary
  BY OrdinaryLabels DEF Ready, Frames
<1>1. CASE RegRequest
  BY <1>1, <1>a, TakesSteady, SteadyEffect DEF RegRequest, At
<1>2. CASE RegCheck
  <2>1. p.fn = "none" /\ p.at \in Ordinary
    BY <1>2, <1>a DEF RegCheck, At
  <2>2. /\ Stays(Refuses("header", "INVALID_DATA"))
        /\ Stays(Deq(p, "reg.setup", "return", Payload(req), TRUE, FALSE))
    BY <1>a, <2>1, StaysTo, StaysDeq DEF Status
  <2> QED BY <1>2, <2>1, <2>2, GoesSteady, SteadyEffect DEF RegCheck
<1>3. CASE RegSetup
  <2> DEFINE l == RegLoop(0)
             q == [p EXCEPT !.at = l]
             h == [hw EXCEPT !.open = TRUE]
  <2>1. p.fn = "none" /\ p.at \in RegPlaces /\ Hwp(q, h, "header")
    BY <1>3 DEF RegSetup, At, RegPlaces
  <2>2. l \in {"reg.access", "reg.cleanup"}
    BY DEF RegLoop
  <2>3. h \in Hardwares /\ Aside(h) /\ h.awake = hw.awake
    BY <1>a DEF Hardwares, Aside
  <2> HIDE DEF l, h
  <2>4. RegStep(q)
    BY <1>a, <2>1, <2>2 DEF RegStep, Frames
  <2> HIDE DEF q
  <2> QED BY <2>1, <2>3, <2>4, RegHwp
<1>4. CASE RegAccess
  <2> DEFINE next == RegLoop(p.count + 1)
             q == [p EXCEPT !.count = @ + 1, !.at = next]
             words == Data(p.count, 2)
             e == Enq(q, next, "reg.cleanup", words)
             wrote == hw.wrote \o Package(p.count)
             h == [hw EXCEPT !.wrote = wrote]
  <2>1. p.fn = "none" /\ p.at \in RegPlaces
        /\ IF req.op = "getreg" THEN Hwp(e, hw, "header") ELSE Hwp(q, h, "header")
    BY <1>4, <1>a DEF RegAccess, At, RegPlaces, Hardwares
  <2>2. next \in {"reg.access", "reg.cleanup"} /\ NoMagic(words)
    BY DataNoMagic DEF RegLoop
  <2> HIDE DEF next, words
  <2>3. q.at = next /\ q.fn = "none" /\ q.status = p.status
    BY <1>a, <2>1 DEF Frames
  <2>4. e.at = next /\ e.fn = "enq" /\ e.brk = "reg.cleanup" /\ e.status = p.status /\ e.out = words
    BY <1>a DEF Enq, Frames
  <2>5. RegStep(q) /\ RegStep(e)
    BY <2>2, <2>3, <2>4 DEF RegStep
  <2>6. Aside(hw) /\ Aside([h EXCEPT !.done = @ + 1]) /\ [h EXCEPT !.done = @ + 1].awake = hw.awake
    BY <1>a DEF Aside, Hardwares
  <2> HIDE DEF q, e
  <2>7. CASE req.op = "getreg"
    BY <1>a, <2>1, <2>5, <2>6, <2>7, RegHwp
  <2>8. CASE Does(q, [h EXCEPT !.done = @ + 1])
    <3>1. p' = q /\ Aside(hw') /\ hw'.awake = hw.awake
      BY <2>6, <2>8 DEF Does
    <3> QED BY <2>1, <2>5, <3>1, RegStepEffect
  <2>9. CASE Does(Failed("header"), [hw EXCEPT !.failed = TRUE])
    <3>1. Hwp(q, hw, "header")
      BY <2>9 DEF Hwp
    <3> QED BY <1>a, <2>1, <2>5, <2>6, <3>1, RegHwp
  <2> QED BY <2>1, <2>7, <2>8, <2>9 DEF Hwp
<1>5. CASE RegCleanup
  <2> DEFINE next == IF p.rc = "OK" THEN "header" ELSE "return"
  <2>1. p.fn = "none" /\ p.at \in RegPlaces /\ Hwp(To(next), [hw EXCEPT !.open = FALSE], next)
    BY <1>5 DEF RegCleanup, At, RegPlaces
  <2>2. next = "header" \/ (next = "return" /\ p.rc # "OK")
    OBVIOUS
  <2> HIDE DEF next
  <2>3. CASE Does(To(next), [[hw EXCEPT !.open = FALSE] EXCEPT !.done = @ + 1])
    <3>1. Aside(hw') /\ hw'.awake = hw.awake /\ ~hw'.open
      BY <1>a, <2>3 DEF Does, Aside, Hardwares
    <3>2. p'.at = next /\ p'.fn = "none" /\ p'.rc = p.rc /\ p'.status = p.status
      BY <1>a, <2>1, <2>3 DEF Does, To, Frames
    <3> QED BY <2>1, <2>2, <3>1, <3>2, RegOutEffect DEF RegOut
  <2>4. CASE Does(Failed(next), [hw EXCEPT !.failed = TRUE])
    <3>1. Aside(hw') /\ hw'.awake = hw.awake /\ hw'.failed
      BY <1>a, <2>4 DEF Does, Aside, Hardwares
    <3>2. p'.at = next /\ p'.fn = "none" /\ p'.rc = p.rc /\ p'.status # "OK"
      BY <1>a, <2>1, <2>4 DEF Does, Failed, Frames
    <3> QED BY <2>1, <2>2, <3>1, <3>2, RegOutEffect DEF RegOut
  <2> QED BY <2>1, <2>3, <2>4 DEF Hwp
<1> QED BY <1>1, <1>2, <1>3, <1>4, <1>5 DEF sbeRegAccess

----------------------------------------------------------------------------
(* Instruction control *)

\* What the cores' wakeups are where a loop goes on with frame r.
Awakes(r, awake) ==
    /\ r.at = "cntlinst.sleep" => awake \subseteq CoresBehind(r.count)
    /\ r.at \in {"cntlinst.wake", "cntlinst.thread"} => awake \subseteq CoresBehind(0)
    /\ r.at = "header" => awake = {}

CoreStep(r, h) ==
    /\ r.fn = "none" /\ r.at \in CoreLabels \cup {"header"}
    /\ r.status = "OK" => ~h.open /\ Awakes(r, h.awake)

LEMMA CoreStepEffect ==
    ASSUME Ready, Kept(p, hw), p.fn = "none", p.at \in CoreLabels \cup {"cntlinst.check"},
           Aside(hw'), CoreStep(p', hw')
    PROVE  Effect
<1>1. req.op \notin RegOps
  BY DEF Ready, Control, Owned, CoreLabels, Common, RegLabels
<1>2. Interface(p', hw')
  BY DEF Kept, Interface, Aside, CoreStep, MemLabels, CoreLabels
<1>3. Ram(p', hw')
  BY <1>1 DEF Ram
<1>4. Wakeups(p', hw')
  BY DEF Wakeups, CoreStep, Awakes, Released, Held, CoreLabels, Told
<1>5. Kept(p', hw') /\ ~Answering(p')
  BY <1>2, <1>3, <1>4 DEF Kept, CoreStep, CoreLabels, Answering
<1>6. ~Answering(p) /\ p'.fn # "enq"
  BY DEF Answering, CoreLabels, CoreStep
<1> QED BY <1>5, <1>6, QuietEffect

LEMMA BehindAll ==
    ASSUME NEW n \in Nat, n >= Len(TargetsOf(req)) PROVE CoresBehind(n) = {}
<1>1. Len(TargetsOf(req)) \in Nat
  BY TargetsTyped
<1> HIDE DEF TargetsOf
<1> QED BY <1>1 DEF CoresBehind

\* Where the loops go, with the wakeups of the cores from the n-th.
LEMMA SleepLoopAwakes ==
    ASSUME Ready, NEW q \in Frames, NEW n \in Nat, NEW awake, awake \subseteq CoresBehind(n)
    PROVE  Awakes(SleepLoop(q, n), awake)
<1> DEFINE c == IF n < Len(Targets) THEN n ELSE 0
           a == IF n < Len(Targets) THEN "cntlinst.sleep" ELSE "header"
           r == [q EXCEPT !.count = c, !.at = a]
<1>1. SleepLoop(q, n) = r
  BY DEF SleepLoop, CoreLoop
<1>2. Len(Targets) \in Nat /\ Targets = TargetsOf(req)
  BY TargetsTyped
<1>3. (a = "cntlinst.sleep" /\ c = n) \/ (a = "header" /\ n >= Len(TargetsOf(req)))
  <2> HIDE DEF Targets, TargetsOf
  <2> QED BY <1>2
<1> HIDE DEF a, c
<1>4. r.at = a /\ r.count = c
  BY DEF Frames
<1> HIDE DEF r
<1>5. Awakes(r, awake)
  BY <1>3, <1>4, BehindAll DEF Awakes
<1> QED BY <1>1, <1>5

LEMMA ThreadLoopAwakes ==
    ASSUME Ready, NEW q \in Frames, NEW n \in Nat, NEW awake, awake \subseteq CoresBehind(0)
    PROVE  Awakes(ThreadLoop(q, n), awake)
<1> DEFINE r == CoreLoop(q, n, "cntlinst.thread", "cntlinst.threads")
           s == ThreadLoop(q, n)
<1>1. "cntlinst.thread" \in Labels /\ "cntlinst.threads" \in Labels
  BY DEF Labels
<1>2. s = IF r.at = "cntlinst.threads" THEN SleepLoop(r, 0) ELSE r
  BY DEF ThreadLoop
<1>3. LoopsTo(r, q, n, "cntlinst.thread", "cntlinst.threads")
  BY <1>1, CoreLoopTyped
<1> HIDE DEF r, s
<1>4. ASSUME r.at = "cntlinst.thread" PROVE Awakes(s, awake)
  BY <1>2, <1>4 DEF Awakes
<1>5. ASSUME r.at = "cntlinst.threads" PROVE Awakes(s, awake)
  <2>1. r \in Frames
    BY <1>3 DEF LoopsTo
  <2> QED BY <1>2, <1>5, <2>1, SleepLoopAwakes
<1>6. Awakes(s, awake)
  BY <1>3, <1>4, <1>5 DEF LoopsTo
<1> QED BY <1>6 DEF s

LEMMA WakeLoopAwakes ==
    ASSUME Ready, NEW q \in Frames, NEW n \in Nat, NEW awake, awake \subseteq CoresBehind(0)
    PROVE  Awakes(WakeLoop(q, n), awake)
<1> DEFINE r == CoreLoop(q, n, "cntlinst.wake", "cntlinst.woken")
           s == WakeLoop(q, n)
<1>1. "cntlinst.wake" \in Labels /\ "cntlinst.woken" \in Labels
  BY DEF Labels
<1>2. s = IF r.at = "cntlinst.woken" THEN ThreadLoop(r, 0) ELSE r
  BY DEF WakeLoop
<1>3. LoopsTo(r, q, n, "cntlinst.wake", "cntlinst.woken")
  BY <1>1, CoreLoopTyped
<1> HIDE DEF r, s
<1>4. ASSUME r.at = "cntlinst.wake" PROVE Awakes(s, awake)
  BY <1>2, <1>4 DEF Awakes
<1>5. ASSUME r.at = "cntlinst.woken" PROVE Awakes(s, awake)
  <2>1. r \in Frames
    BY <1>3 DEF LoopsTo
  <2> QED BY <1>2, <1>5, <2>1, ThreadLoopAwakes
<1>6. Awakes(s, awake)
  BY <1>3, <1>4, <1>5 DEF LoopsTo
<1> QED BY <1>6 DEF s

\* The core a step is at.
LEMMA CoreBehind ==
    ASSUME Ready, p.at \in CoreLabels
    PROVE  /\ Core \in CoresBehind(0) /\ Core \in CoresBehind(p.count)
           /\ CoresBehind(p.count) \ {Core} \subseteq CoresBehind(p.count + 1)
<1>1. p.count \in Nat /\ p.count < Len(TargetsOf(req))
  BY DEF Ready, Frames, Control, Counted
<1>2. Targets = TargetsOf(req) /\ Len(TargetsOf(req)) \in Nat
  BY TargetsTyped
<1>3. Core = TargetsOf(req)[p.count + 1]
  BY <1>2 DEF Core
<1> HIDE DEF TargetsOf
<1>4. p.count + 1 \in (p.count + 1)..Len(TargetsOf(req)) /\ p.count + 1 \in 1..Len(TargetsOf(req))
  BY <1>1, <1>2
<1>5. \A i \in (p.count + 1)..Len(TargetsOf(req)) :
          i = p.count + 1 \/ i \in (p.count + 1 + 1)..Len(TargetsOf(req))
  BY <1>1, <1>2
<1>6. Core \in CoresBehind(0) /\ Core \in CoresBehind(p.count)
  BY <1>3, <1>4 DEF CoresBehind
<1>7. CoresBehind(p.count) \ {Core} \subseteq CoresBehind(p.count + 1)
  BY <1>3, <1>5 DEF CoresBehind
<1> QED BY <1>6, <1>7

LEMMA CoreLoopsStep ==
    ASSUME Ready, NEW q \in Frames, q.fn = "none", NEW n \in Nat, NEW h, q.status = "OK" => ~h.open
    PROVE  /\ (q.status = "OK" => h.awake \subseteq CoresBehind(0)) =>
                 CoreStep(WakeLoop(q, n), h) /\ CoreStep(ThreadLoop(q, n), h)
           /\ (q.status = "OK" => h.awake \subseteq CoresBehind(n)) => CoreStep(SleepLoop(q, n), h)
<1>1. ASSUME NEW r, AtCore(r, q), q.status = "OK" => Awakes(r, h.awake) PROVE CoreStep(r, h)
  BY <1>1 DEF AtCore, CoreStep
<1>2. AtCore(WakeLoop(q, n), q) /\ AtCore(ThreadLoop(q, n), q) /\ AtCore(SleepLoop(q, n), q)
  BY WakeLoopTyped, ThreadLoopTyped, SleepLoopTyped
<1>3. ASSUME q.status = "OK", h.awake \subseteq CoresBehind(0)
      PROVE  Awakes(WakeLoop(q, n), h.awake) /\ Awakes(ThreadLoop(q, n), h.awake)
  BY <1>3, WakeLoopAwakes, ThreadLoopAwakes
<1>4. ASSUME q.status = "OK", h.awake \subseteq CoresBehind(n)
      PROVE  Awakes(SleepLoop(q, n), h.awake)
  BY <1>4, SleepLoopAwakes
<1> QED BY <1>1, <1>2, <1>3, <1>4

\* A failure tells the header.
LEMMA BadStep ==
    ASSUME p \in Frames, p.fn = "none", NEW h
    PROVE  CoreStep(Failed("header"), h) /\ CoreStep(Refuses("header", "INVALID_DATA"), h)
<1>1. Failed("header").at = "header" /\ Failed("header").fn = "none" /\ Failed("header").status # "OK"
  BY DEF Failed, Frames
<1>2. /\ Refuses("header", "INVALID_DATA").at = "header" /\ Refuses("header", "INVALID_DATA").fn = "none"
      /\ Refuses("header", "INVALID_DATA").status # "OK"
  BY DEF Refuses, Frames
<1> QED BY <1>1, <1>2 DEF CoreStep

LEMMA CntlInstEffect == ASSUME Ready, Kept(p, hw), sbeCntlInst PROVE Effect
<1>a. p \in Frames /\ hw \in Hardwares /\ p.count \in Nat /\ p.count + 1 \in Nat
      /\ {"cntlinst", "cntlinst.check"} \subseteq Ordinary
  BY OrdinaryLabels DEF Ready, Frames
<1>b. ASSUME NEW q, NEW h, Does(q, h), Aside(h), CoreStep(q, h), p.fn = "none",
             p.at \in CoreLabels \cup {"cntlinst.check"}
      PROVE  Effect
  <2>1. p' = q /\ hw' = h
    BY <1>b DEF Does
  <2> QED BY <1>b, <2>1, CoreStepEffect
<1>c. ASSUME NEW h \in Hardwares, NEW g, Aside(h),
             g = [h EXCEPT !.done = @ + 1] \/ g = [h EXCEPT !.failed = TRUE]
      PROVE  Aside(g) /\ g.open = h.open /\ g.awake = h.awake
  BY <1>c DEF Aside, Hardwares
<1>d. Aside(hw) /\ p.status \in Status
  BY <1>a DEF Aside, Frames
<1>1. CASE CntlInst
  BY <1>1, <1>a, TakesSteady, SteadyEffect DEF CntlInst, At
<1>2. CASE CntlInstCheck
  <2>1. p.fn = "none" /\ p.at = "cntlinst.check"
    BY <1>2 DEF CntlInstCheck, At
  <2>2. p.status = "OK" => ~hw.open /\ hw.awake \subseteq CoresBehind(0)
    BY <2>1 DEF Kept, Wakeups, Released, Held, CoreLabels, Told
  <2>3. CoreStep(WakeLoop(p, 0), hw) /\ CoreStep(ThreadLoop(p, 0), hw)
    BY <1>a, <2>1, <2>2, CoreLoopsStep
  <2>4. CoreStep(Refuses("header", "INVALID_DATA"), hw)
    BY <1>a, <2>1, BadStep
  <2>5. \E q \in {WakeLoop(p, 0), ThreadLoop(p, 0), Refuses("header", "INVALID_DATA")} : Does(q, hw)
    BY <1>2 DEF CntlInstCheck, Goes
  <2> QED BY <1>b, <1>d, <2>1, <2>3, <2>4, <2>5
<1>3. CASE specialWakeUpCoreAssert
  <2> DEFINE awake == [hw EXCEPT !.awake = @ \cup {Core}]
             bad == [p EXCEPT !.status = "EXECUTION_FAILURE"]
             q1 == [bad EXCEPT !.fapi = TRUE]
             q2 == [bad EXCEPT !.fapi = FALSE]
             r1 == [q1 EXCEPT !.at = "header"]
  <2>1. p.fn = "none" /\ p.at = "cntlinst.wake" /\ p.at \in CoreLabels
    BY <1>3 DEF specialWakeUpCoreAssert, At, CoreLabels
  <2>2. p.status = "OK" => ~hw.open /\ hw.awake \subseteq CoresBehind(0)
    BY <2>1 DEF Kept, Wakeups
  <2>3. Core \in ToSet(Cores)
    BY <1>a, <2>1, TargetsTyped DEF Core, Ready, Control, Counted
  <2>4. /\ awake \in Hardwares /\ Aside(awake) /\ awake.open = hw.open
        /\ awake.awake = hw.awake \cup {Core}
    <3>1. awake \in Hardwares
      BY <1>a, <2>3, AwakeTyped
    <3> QED BY <1>a, <3>1 DEF Hardwares, Aside
  <2>5. p.status = "OK" => awake.awake \subseteq CoresBehind(0)
    BY <2>1, <2>2, <2>4, CoreBehind
  <2>6. bad \in Frames /\ bad.fn = "none" /\ bad.status # "OK"
    BY <1>a, <2>1 DEF Frames, Status
  <2>7. /\ q1 \in Frames /\ q1.fn = "none" /\ q1.status # "OK"
        /\ q2 \in Frames /\ q2.fn = "none" /\ q2.status # "OK"
    <3> HIDE DEF bad
    <3>1. q1 \in Frames /\ q1.fn = "none" /\ q1.status # "OK"
      BY <2>6 DEF Frames
    <3>2. q2 \in Frames /\ q2.fn = "none" /\ q2.status # "OK"
      BY <2>6 DEF Frames
    <3> QED BY <3>1, <3>2
  <2>8. r1.at = "header" /\ r1.fn = "none" /\ r1.status # "OK"
    <3> HIDE DEF bad, q1
    <3> QED BY <2>7 DEF Frames
  <2> DEFINE g1 == [awake EXCEPT !.done = @ + 1]
             g2 == [awake EXCEPT !.failed = TRUE]
             g3 == [hw EXCEPT !.failed = TRUE]
  <2>9. \/ Does(WakeLoop(p, p.count + 1), g1)
        \/ \E q \in {WakeLoop(q1, p.count + 1), WakeLoop(q2, p.count + 1), ThreadLoop(q2, 0), r1},
              h \in {g2, g3} : Does(q, h)
    BY <1>3 DEF specialWakeUpCoreAssert
  <2> HIDE DEF awake, q1, q2, r1
  <2>10. Aside(g1) /\ Aside(g2) /\ Aside(g3) /\ g1.open = hw.open /\ g1.awake = awake.awake
    BY <1>a, <1>c, <1>d, <2>4
  <2> HIDE DEF g1, g2, g3
  <2>11. CoreStep(WakeLoop(p, p.count + 1), g1)
    BY <1>a, <2>1, <2>2, <2>5, <2>10, CoreLoopsStep
  <2>12. \A h \in {g2, g3} :
            /\ CoreStep(WakeLoop(q1, p.count + 1), h) /\ CoreStep(WakeLoop(q2, p.count + 1), h)
            /\ CoreStep(ThreadLoop(q2, 0), h) /\ CoreStep(r1, h)
    <3>1. ASSUME NEW h
          PROVE  /\ CoreStep(WakeLoop(q1, p.count + 1), h) /\ CoreStep(WakeLoop(q2, p.count + 1), h)
                 /\ CoreStep(ThreadLoop(q2, 0), h)
      BY <1>a, <2>7, CoreLoopsStep
    <3>2. ASSUME NEW h PROVE CoreStep(r1, h)
      BY <2>8 DEF CoreStep
    <3> QED BY <3>1, <3>2
  <2> QED BY <1>b, <2>1, <2>9, <2>10, <2>11, <2>12
<1>4. CASE ControlThreads
  <2> DEFINE g1 == [hw EXCEPT !.done = @ + 1]
             g2 == [hw EXCEPT !.failed = TRUE]
  <2>1. p.fn = "none" /\ p.at = "cntlinst.thread" /\ p.at \in CoreLabels
        /\ \E q \in {ThreadLoop(p, p.count + 1), Failed("header")}, h \in {g1, g2} : Does(q, h)
    BY <1>4 DEF ControlThreads, At, CoreLabels
  <2>2. p.status = "OK" => ~hw.open /\ hw.awake \subseteq CoresBehind(0)
    BY <2>1 DEF Kept, Wakeups
  <2>3. /\ Aside(g1) /\ g1.open = hw.open /\ g1.awake = hw.awake
        /\ Aside(g2) /\ g2.open = hw.open /\ g2.awake = hw.awake
    BY <1>a, <1>c, <1>d
  <2> HIDE DEF g1, g2
  <2>4. CoreStep(ThreadLoop(p, p.count + 1), g1) /\ CoreStep(ThreadLoop(p, p.count + 1), g2)
    BY <1>a, <2>1, <2>2, <2>3, CoreLoopsStep
  <2>5. CoreStep(Failed("header"), g1) /\ CoreStep(Failed("header"), g2)
    BY <1>a, <2>1, BadStep
  <2> QED BY <1>b, <2>1, <2>3, <2>4, <2>5
<1>5. CASE specialWakeUpCoreDeAssert
  <2> DEFINE asleep == [hw EXCEPT !.awake = @ \ {Core}]
             bad == [p EXCEPT !.status = "EXECUTION_FAILURE", !.fapi = TRUE]
             r1 == [bad EXCEPT !.at = "header"]
  <2>1. p.fn = "none" /\ p.at = "cntlinst.sleep" /\ p.at \in CoreLabels
    BY <1>5 DEF specialWakeUpCoreDeAssert, At, CoreLabels
  <2>2. p.status = "OK" => ~hw.open /\ hw.awake \subseteq CoresBehind(p.count)
    BY <2>1 DEF Kept, Wakeups
  <2>3. Core \in ToSet(Cores)
    BY <1>a, <2>1, TargetsTyped DEF Core, Ready, Control, Counted
  <2>4. /\ asleep \in Hardwares /\ Aside(asleep) /\ asleep.open = hw.open
        /\ asleep.awake = hw.awake \ {Core}
    <3>1. asleep \in Hardwares
      BY <1>a, <2>3, AwakeTyped
    <3> QED BY <1>a, <3>1 DEF Hardwares, Aside
  <2>5. p.status = "OK" => asleep.awake \subseteq CoresBehind(p.count + 1)
    BY <2>1, <2>2, <2>4, CoreBehind
  <2>6. bad \in Frames /\ bad.fn = "none" /\ bad.status # "OK"
    BY <1>a, <2>1 DEF Frames, Status
  <2>7. r1.at = "header" /\ r1.fn = "none" /\ r1.status # "OK"
    <3> HIDE DEF bad
    <3> QED BY <2>6 DEF Frames
  <2> DEFINE g1 == [asleep EXCEPT !.done = @ + 1]
             g2 == [asleep EXCEPT !.failed = TRUE]
             g3 == [hw EXCEPT !.failed = TRUE]
  <2>8. \/ Does(SleepLoop(p, p.count + 1), g1)
        \/ \E q \in {SleepLoop(bad, p.count + 1), r1}, h \in {g2, g3} : Does(q, h)
    BY <1>5 DEF specialWakeUpCoreDeAssert
  <2> HIDE DEF asleep, bad, r1
  <2>9. Aside(g1) /\ Aside(g2) /\ Aside(g3) /\ g1.open = hw.open /\ g1.awake = asleep.awake
    BY <1>a, <1>c, <1>d, <2>4
  <2> HIDE DEF g1, g2, g3
  <2>10. CoreStep(SleepLoop(p, p.count + 1), g1)
    BY <1>a, <2>1, <2>2, <2>5, <2>9, CoreLoopsStep
  <2>11. \A h \in {g2, g3} : CoreStep(SleepLoop(bad, p.count + 1), h) /\ CoreStep(r1, h)
    <3>1. ASSUME NEW h PROVE CoreStep(SleepLoop(bad, p.count + 1), h)
      BY <1>a, <2>6, CoreLoopsStep
    <3>2. ASSUME NEW h PROVE CoreStep(r1, h)
      BY <2>7 DEF CoreStep
    <3> QED BY <3>1, <3>2
  <2> QED BY <1>b, <2>1, <2>8, <2>9, <2>10, <2>11
<1> QED BY <1>1, <1>2, <1>3, <1>4, <1>5 DEF sbeCntlInst

----------------------------------------------------------------------------
(* A chip-op's step *)

LEMMA ChipOpEffect == ASSUME Ready, Wires, Kept(p, hw), ChipOp PROVE Effect \/ Ends
<1>1. CASE MemoryOps
  <2>1. ASSUME MemAccess PROVE hw' \in Hardwares
    BY <2>1, MemAccessMoves DEF Moves
  <2>2. CASE SramOp
    BY <2>2, SramSteady, SteadyEffect
  <2> QED BY <1>1, <2>1, <2>2, MemWrapEffect, MemCheckEffect, MemSetupEffect, MemAccessEffect, MemSentEffect,
             MemEndSteady, MemBellEffect, SteadyEffect DEF MemoryOps, SramOp
<1>2. CASE sbeScomAccess \/ sbeGetRing \/ sbePutRing \/ sbeControlTraceArray \/ sbeControlFastArray
  BY <1>2, ScomSteady, GetRingSteady, PutRingSteady, ArraySteady, SteadyEffect
<1>3. CASE Istep \/ IstepRun \/ sbeHandleFlushNVDIMM \/ sbeGetCapabilities \/ sbeGetFfdc
           \/ sbeFifoQuiesce \/ SendHeader
  BY <1>3, OtherSteady, SteadyEffect
<1>4. CASE sbeRegAccess \/ sbeCntlInst \/ sbeHandleFifoResponse
  BY <1>4, RegEffect, CntlInstEffect, RespondEffect
<1> QED BY <1>1, <1>2, <1>3, <1>4 DEF ChipOp

----------------------------------------------------------------------------
(* The words on their way *)

LEMMA JoinAll ==
    ASSUME NEW S, NEW a \in Seq(S), NEW b \in Seq(S)
    PROVE  /\ a \o b \in Seq(S) /\ Len(a \o b) = Len(a) + Len(b)
           /\ \A i \in 1..(Len(a) + Len(b)) : (a \o b)[i] = IF i <= Len(a) THEN a[i] ELSE b[i - Len(a)]
           /\ Len(a) \in Nat /\ Len(b) \in Nat
  BY ConcatProperties

LEMMA JoinEmpty == ASSUME NEW S, NEW a \in Seq(S) PROVE a \o <<>> = a
  OBVIOUS

LEMMA JoinAssoc ==
    ASSUME NEW S, NEW a \in Seq(S), NEW b \in Seq(S), NEW c \in Seq(S)
    PROVE  (a \o b) \o c = a \o (b \o c)
  BY ConcatAssociative

LEMMA JoinDown ==
    ASSUME NEW a \in DownWords, NEW b \in DownWords, NEW c \in DownWords
    PROVE  a \o (b \o c) = (a \o b) \o c
<1>1. (a \o b) \o c = a \o (b \o c)
  BY JoinAssoc DEF DownWords
<1> QED BY <1>1, Zenon

LEMMA JoinAppend ==
    ASSUME NEW S, NEW a \in Seq(S), NEW b \in Seq(S), NEW w \in S
    PROVE  a \o Append(b, w) = Append(a \o b, w) /\ Append(a, w) = a \o <<w>>
<1>1. Append(b, w) = b \o <<w>> /\ Append(a, w) = a \o <<w>> /\ <<w>> \in Seq(S)
  BY AppendIsConcat
<1>2. a \o b \in Seq(S)
  BY JoinAll
<1>3. Append(a \o b, w) = (a \o b) \o <<w>>
  BY <1>2, AppendIsConcat
<1> QED BY <1>1, <1>3, JoinAssoc

LEMMA HeadAndTail ==
    ASSUME NEW S, NEW a \in Seq(S), a # <<>>
    PROVE  <<Head(a)>> \o Tail(a) = a /\ Head(a) \in S /\ Tail(a) \in Seq(S) /\ <<Head(a)>> \in Seq(S)
<1>1. Head(a) \in S /\ Tail(a) \in Seq(S) /\ <<Head(a)>> \in Seq(S)
  BY HeadTailProperties
<1>2. <<Head(a)>> \o Tail(a) = a
  BY ConcatSimplifications
<1> QED BY <1>1, <1>2

\* A word that leaves the routine's buffer is the next of the response.
LEMMA WordSent ==
    ASSUME NEW S, NEW a \in Seq(S), NEW c \in Seq(S), c # <<>>
    PROVE  Append(a, Head(c)) \o Tail(c) = a \o c
<1>1. <<Head(c)>> \o Tail(c) = c /\ Head(c) \in S /\ Tail(c) \in Seq(S) /\ <<Head(c)>> \in Seq(S)
  BY HeadAndTail
<1>2. Append(a, Head(c)) = a \o <<Head(c)>>
  BY <1>1, JoinAppend
<1>3. (a \o <<Head(c)>>) \o Tail(c) = a \o (<<Head(c)>> \o Tail(c))
  BY <1>1, JoinAssoc
<1> QED BY <1>1, <1>2, <1>3

\* Until the end of a transfer there is none of it in the FIFO.
LEMMA ResponseTyped ==
    ASSUME Wires, NoEot(down)
    PROVE  sp.got \in DownWords /\ down \in DownWords /\ Response \in DownWords
<1>1. sp.got \in DownWords
  BY DEF Wires
<1>2. down \in DownWords
  <2>1. down \in Seq(DownWord \cup {<<"eot">>}) /\ Len(down) \in Nat
    BY DEF Wires
  <2>2. \A i \in 1..Len(down) : down[i] \in DownWord
    BY <2>1, ElementOfSeq DEF NoEot
  <2> QED BY <2>1, <2>2 DEF DownWords
<1>3. Response \in DownWords
  BY <1>1, <1>2, JoinAll DEF Response, DownWords
<1> QED BY <1>1, <1>2, <1>3

----------------------------------------------------------------------------
(* The steps keep the invariant *)

LEMMA KeptNext == ASSUME Kept(p', hw'), req' = req PROVE Kept(p, hw)'
<1>1. getDataLenCacheAlign' = getDataLenCacheAlign
  BY DEF getDataLenCacheAlign, isPba
<1>2. CoresBehind(0)' = CoresBehind(0)
  BY DEF CoresBehind, TargetsOf
<1>3. CoresBehind(p.count)' = CoresBehind(p'.count)
  BY DEF CoresBehind, TargetsOf
<1>4. Interface(p, hw)'
  BY <1>1 DEF Kept, Interface
<1>5. Ram(p, hw)'
  BY DEF Kept, Ram
<1>6. Wakeups(p, hw)'
  BY <1>2, <1>3 DEF Kept, Wakeups, Released
<1> QED BY <1>4, <1>5, <1>6 DEF Kept

\* A step of a chip-op sends a header, or nothing.
LEMMA SentResponse ==
    ASSUME Inv, ~reset, Serves(p), p.fn # "enq" PROVE Sent = Response /\ Response \in DownWords
<1>1. Response \in DownWords
  BY ResponseTyped DEF Inv, Boundary, Serving
<1> QED BY <1>1, JoinEmpty DEF Sent, DownWords

LEMMA SentStays ==
    ASSUME Inv, ~reset, Moves, UNCHANGED sp, p'.fn # "enq"
    PROVE  Sent' = Sent /\ Response' = Response
<1>1. Response' = Response /\ Sent = Response /\ Response \in DownWords
  BY SentResponse DEF Moves, Response
<1>2. Sent' = Response \o <<>>
  BY <1>1 DEF Sent
<1> QED BY <1>1, <1>2, JoinEmpty DEF DownWords

LEMMA HeadsSent ==
    ASSUME Inv, ~reset, Moves, UNCHANGED sp, p'.fn = "enq", NoMagic(Response), NEW good, Heads(p', good)
    PROVE  Headed(Sent', <<>>, good)
<1>1. Response' = Response /\ Sent' = Response' \o p'.out /\ Response \in DownWords
  BY SentResponse DEF Moves, Response, Sent
<1>2. PICK status \in Status, fapi \in BOOLEAN, first \in DownWords :
          p'.out = first \o RespHdr(status, fapi) /\ NoMagic(first) /\ (status = "OK" => good)
  BY DEF Heads
<1> DEFINE h == RespHdr(status, fapi)
<1>3. h \in DownWords
  BY RespHdrShape
<1> HIDE DEF h
<1>4. Response \o first \in DownWords /\ (Response \o first) \o h \in DownWords
  BY <1>1, <1>3, JoinAll DEF DownWords
<1>5. Response \o (first \o h) = (Response \o first) \o h
  BY <1>1, <1>3, JoinDown
<1>6. (Response \o first) \o h = (Response \o first) \o h \o <<>>
  BY <1>4, JoinEmpty DEF DownWords
<1>7. NoMagic(Response \o first)
  BY <1>1, <1>2, JoinNoMagic
<1>8. Sent' = (Response \o first) \o RespHdr(status, fapi) \o <<>>
  BY <1>1, <1>2, <1>5, <1>6 DEF h
<1> QED BY <1>2, <1>4, <1>7, <1>8 DEF Headed

LEMMA EffectReply ==
    ASSUME Inv, Reply, Effect, Moves, UNCHANGED sp PROVE Reply'
<1> SUFFICES ASSUME ~reset, faults' = 0
             PROVE  /\ Serves(p') /\ ~Answering(p') => NoMagic(Sent')
                    /\ Answering(p') => Headed(Sent', <<>>, Released(hw'))
  BY DEF Reply, Moves, Move, At, Serves, Answering
<1>1. p.fn = "none" /\ Serves(p) /\ Wires /\ Response' = Response /\ faults = 0 /\ p' \in Frames
  BY DEF Inv, Moves, Move, Response, Wires
<1>2. Sent = Response /\ Response \in DownWords
  BY <1>1, SentResponse
<1>3. CASE ~Answering(p')
  <2>1. NoMagic(Response)
    BY <1>1, <1>2, <1>3 DEF Reply, Effect
  <2>2. CASE p'.fn = "enq"
    <3>1. Sent' = Response \o p'.out /\ p'.out \in DownWords /\ NoMagic(p'.out)
      BY <1>1, <1>3, <2>2 DEF Sent, Frames, Effect
    <3> QED BY <1>2, <1>3, <2>1, <3>1, JoinNoMagic
  <2>3. CASE p'.fn # "enq"
    <3>1. Sent' = Response
      BY <1>2, <2>3, SentStays
    <3> QED BY <1>3, <2>1, <3>1
  <2> QED BY <2>2, <2>3
<1>4. CASE Answering(p') /\ ~Answering(p)
  <2>1. p'.fn = "enq" /\ Heads(p', Released(hw')) /\ NoMagic(Response)
    BY <1>1, <1>2, <1>4 DEF Reply, Effect
  <2>2. Headed(Sent', <<>>, Released(hw'))
    BY <2>1, HeadsSent
  <2> QED BY <1>4, <2>2
<1>5. CASE Answering(p') /\ Answering(p)
  <2>1. p'.fn # "enq" /\ (Released(hw) => Released(hw')) /\ Headed(Sent, <<>>, Released(hw))
    BY <1>1, <1>5 DEF Reply, Effect
  <2>2. Sent' = Sent
    BY <2>1, SentStays
  <2>3. Headed(Sent', <<>>, Released(hw'))
    BY <2>1, <2>2 DEF Headed
  <2> QED BY <1>5, <2>3
<1> QED BY <1>3, <1>4, <1>5

\* A routine of the FIFO layer comes back.
LEMMA ReturnKept ==
    ASSUME Ready, Kept(p, hw), p.fn # "none", NEW rc \in Rc, UNCHANGED <<req, hw>>,
           p'.fn = "none", p'.rc = rc, p'.at = IF rc = "OK" THEN p.at ELSE p.brk,
           p'.count = p.count, p'.status = p.status
    PROVE  Kept(p, hw)'
<1>1. Control(p, req) /\ p.at # "idle"
  BY DEF Ready, Frames, Control
<1>2. CASE rc = "OK"
  <2>1. Interface(p', hw')
    BY <1>2 DEF Kept, Interface
  <2>2. Ram(p', hw') /\ Wakeups(p', hw')
    BY <1>2 DEF Kept, Ram, Wakeups
  <2>3. Kept(p', hw')
    BY <1>1, <1>2, <2>1, <2>2 DEF Kept
  <2> QED BY <2>3, KeptNext
<1>3. CASE rc # "OK"
  <2>1. p'.at \in {"return", "header", "response.flushed", "response.done", "reg.cleanup"}
        /\ (p'.at = "header" => p.at = "quiesce.suspend")
        /\ (p'.at = "reg.cleanup" => p.at \notin Told /\ req.op \in RegOps)
    BY <1>1, <1>3 DEF Kept, Control, Ready, Frames, Owned, Common, RegLabels
  <2>2. Interface(p', hw')
    BY <2>1 DEF Kept, Interface, MemLabels
  <2>3. Ram(p', hw')
    BY <1>3, <2>1 DEF Kept, Ram
  <2>4. Wakeups(p', hw')
    <3>1. CASE p'.at = "header"
      BY <2>1, <3>1 DEF Kept, Wakeups, Held, CoreLabels, Told
    <3>2. CASE p'.at = "reg.cleanup"
      <4>1. p.at \notin CoreLabels
        BY <1>1, <2>1, <3>2 DEF Control, Owned, CoreLabels, Common, RegLabels
      <4> QED BY <2>1, <3>2, <4>1 DEF Kept, Wakeups, Released, Held, CoreLabels
    <3>3. CASE p'.at \in Told
      BY <3>3 DEF Wakeups, Held, CoreLabels, Told
    <3> QED BY <2>1, <3>1, <3>2, <3>3 DEF Told
  <2>5. Kept(p', hw')
    BY <2>1, <2>2, <2>3, <2>4 DEF Kept
  <2> QED BY <2>5, KeptNext
<1> QED BY <1>2, <1>3

\* A dequeue sends nothing: the answer has not begun, before or after.
LEMMA DeqReply ==
    ASSUME Inv, Reply, Kept(p, hw), p.fn = "deq", UNCHANGED <<down, reset, faults, sp, hw>>,
           p'.fn \in {"none", "deq"}, p'.fn = "deq" => p'.at = p.at,
           p'.fn = "none" => p'.at = IF p'.rc = "OK" THEN p.at ELSE p.brk
    PROVE  Reply'
<1>1. ~Answering(p) /\ Serves(p) /\ p.at \notin Told \ {"response.header"}
  BY DEF Answering, Serves, Kept
<1>2. p.brk \in {"return", "header", "response.flushed"} /\ p.at # "response.done"
  BY DEF Inv, Ready, Control
<1>3. ~Answering(p') /\ ~At("response.done")'
  BY <1>1, <1>2 DEF Answering, At, Told
<1>4. Sent' = Sent
  BY DEF Sent, Response
<1> QED BY <1>1, <1>3, <1>4 DEF Reply

LEMMA DeqKept ==
    ASSUME Inv, KeptInv, sbeUpFifoDeq_mult, UNCHANGED <<req, hw, sp>> PROVE KeptInv'
<1>a. Ready /\ Wires /\ p.fn = "deq" /\ p \in Frames /\ Kept(p, hw) /\ UNCHANGED <<down, reset, faults>>
  BY DEF Inv, Ready, sbeUpFifoDeq_mult, KeptInv
<1>b. ASSUME NEW rc \in Rc, p' = Return(p, rc) PROVE KeptInv'
  <2>1. /\ p'.fn = "none" /\ p'.rc = rc /\ p'.at = (IF rc = "OK" THEN p.at ELSE p.brk)
        /\ p'.count = p.count /\ p'.status = p.status
    BY <1>a, <1>b, ReturnTyped
  <2>2. Kept(p, hw)'
    BY <1>a, <1>b, <2>1, ReturnKept
  <2>3. Reply'
    BY <1>a, <2>1, DeqReply DEF KeptInv
  <2> QED BY <2>2, <2>3 DEF KeptInv
<1>1. CASE reset /\ p' = Return(p, "RESET")
  BY <1>1, <1>b DEF Rc
<1>2. CASE p' = Return(p, EotRc(Taken))
  <2>1. EotRc(Taken) \in Rc
    BY DEF EotRc, Rc
  <2> QED BY <1>2, <1>b, <2>1
<1>3. ASSUME NEW w \in Nat \cup Requests, p' = DeqWord(w) PROVE KeptInv'
  <2> DEFINE q == IF ~p.flush /\ Taken < p.want
                  THEN [p EXCEPT !.buf = Append(@, w)] ELSE [p EXCEPT !.extra = 1]
             more == p.flush \/ p.eot \/ Taken + 1 < p.want
  <2>1. q \in Frames
    BY <1>a, <1>3, WordTaken
  <2>2. q.fn = "deq" /\ q.at = p.at /\ q.brk = p.brk /\ q.count = p.count /\ q.status = p.status
    <3>1. CASE q = [p EXCEPT !.extra = 1]
      BY <1>a, <3>1 DEF Frames
    <3>2. CASE q = [p EXCEPT !.buf = Append(@, w)]
      <4> DEFINE b == Append(p.buf, w)
      <4>1. q = [p EXCEPT !.buf = b]
        BY <3>2, <1>a DEF Frames
      <4> HIDE DEF b, q
      <4> QED BY <1>a, <4>1 DEF Frames
    <3> QED BY <3>1, <3>2
  <2>3. p' = IF more THEN q ELSE Return(q, "OK")
    BY <1>3 DEF DeqWord
  <2> HIDE DEF q, more
  <2>4. CASE more
    <3>1. p' = q
      BY <2>3, <2>4
    <3>2. Interface(p', hw')
      BY <1>a, <2>2, <3>1 DEF Kept, Interface
    <3>3. Ram(p', hw') /\ Wakeups(p', hw')
      BY <1>a, <2>2, <3>1 DEF Kept, Ram, Wakeups
    <3>4. p.at # "idle"
      BY <1>a DEF Ready, Control
    <3>5. Kept(p', hw')
      BY <1>a, <2>2, <3>1, <3>2, <3>3, <3>4 DEF Kept
    <3>6. Kept(p, hw)'
      BY <3>5, KeptNext
    <3>7. Reply'
      BY <1>a, <2>2, <3>1, DeqReply DEF KeptInv
    <3> QED BY <3>6, <3>7 DEF KeptInv
  <2>5. CASE ~more
    <3>1. "OK" \in Rc
      BY DEF Rc
    <3>2. /\ p'.fn = "none" /\ p'.rc = "OK" /\ p'.at = p.at
          /\ p'.count = p.count /\ p'.status = p.status
      BY <2>1, <2>2, <2>3, <2>5, <3>1, ReturnTyped
    <3>3. Kept(p, hw)'
      BY <1>a, <3>1, <3>2, ReturnKept
    <3>4. Reply'
      BY <1>a, <3>2, DeqReply DEF KeptInv
    <3> QED BY <3>3, <3>4 DEF KeptInv
  <2> QED BY <2>4, <2>5
<1>4. CASE ~reset /\ up # <<>> /\ Head(up)[1] # "eot" /\ p' = DeqWord(Head(up)[2])
  <2>1. Head(up) \in UpWord
    BY <1>a, <1>4, TailOf DEF Wires, UpWords
  <2>2. Head(up)[2] \in Nat \cup Requests
    BY <1>4, <2>1, UpWordKinds
  <2> QED BY <1>3, <1>4, <2>2
<1> QED BY <1>1, <1>2, <1>4 DEF sbeUpFifoDeq_mult

\* The words in the routine's buffer become words of the response.
LEMMA EnqSent ==
    ASSUME Inv, ~reset, sbeDownFifoEnq_mult, UNCHANGED sp
    PROVE  /\ Sent' = Sent /\ p'.at = p.at /\ p'.brk = p.brk /\ p'.count = p.count
           /\ p'.status = p.status /\ p'.buf = p.buf
           /\ (p'.fn = "enq" /\ p'.rc = p.rc) \/ (p'.fn = "none" /\ p'.rc = "OK" /\ p' = Return(p, "OK"))
<1> DEFINE t == Tail(p.out)
<1>a. /\ Wires /\ p.fn = "enq" /\ p \in Frames /\ Serves(p) /\ down' = Append(down, Head(p.out))
      /\ p' = IF Len(p.out) > 1 THEN [p EXCEPT !.out = Tail(@)] ELSE Return(p, "OK")
  BY DEF Inv, Ready, sbeDownFifoEnq_mult, Serves
<1>1. p.out \in DownWords /\ p.out # <<>>
  BY <1>a DEF Inv, Ready, Frames, Calls
<1>2. t \in DownWords /\ Len(t) = Len(p.out) - 1 /\ Len(p.out) \in Nat /\ Len(p.out) >= 1
  BY <1>1, TailOf DEF DownWords
<1>3. sp.got \in DownWords /\ down \in DownWords
  BY <1>a, ResponseTyped DEF Inv, Boundary, Serving
<1>4. Response' \o t = Response \o p.out
  <2> DEFINE g == sp.got
             o == p.out
  <2>a. g \in Seq(DownWord) /\ down \in Seq(DownWord) /\ o \in Seq(DownWord) /\ o # <<>>
    BY <1>1, <1>3 DEF DownWords
  <2> HIDE DEF g, o
  <2>b. g \o Append(down, Head(o)) = Append(g \o down, Head(o)) /\ g \o down \in Seq(DownWord)
    BY <2>a, JoinAppend, JoinAll, HeadAndTail
  <2>c. Response' = g \o Append(down, Head(o)) /\ Response = g \o down
    BY <1>a, Zenon DEF Response, g, o
  <2>d. Append(Response, Head(o)) \o Tail(o) = Response \o o
    <3> DEFINE r == Response
    <3>1. r \in Seq(DownWord)
      BY <2>b, <2>c
    <3> HIDE DEF r
    <3>2. Append(r, Head(o)) \o Tail(o) = r \o o
      BY <2>a, <3>1, WordSent
    <3> QED BY <3>2 DEF r
  <2>e. Response' = Append(Response, Head(o))
    BY <2>b, <2>c, Zenon
  <2> QED BY <2>d, <2>e, Zenon DEF o
<1>5. Sent = Response \o p.out
  BY <1>a DEF Sent
<1>6. CASE Len(p.out) > 1
  <2>1. p' = [p EXCEPT !.out = t]
    BY <1>a, <1>6 DEF Frames
  <2> HIDE DEF t
  <2>2. /\ p'.fn = "enq" /\ p'.at = p.at /\ p'.brk = p.brk /\ p'.rc = p.rc /\ p'.out = t
        /\ p'.count = p.count /\ p'.status = p.status /\ p'.buf = p.buf
    BY <1>a, <2>1 DEF Frames
  <2>3. Sent' = Sent
    BY <1>4, <1>5, <2>2 DEF Sent
  <2> QED BY <2>2, <2>3
<1>7. CASE ~(Len(p.out) > 1)
  <2>1. "OK" \in Rc /\ p' = Return(p, "OK")
    BY <1>a, <1>7 DEF Rc
  <2> HIDE DEF t
  <2>2. /\ p'.fn = "none" /\ p'.rc = "OK" /\ p'.at = p.at /\ p'.buf = p.buf
        /\ p'.count = p.count /\ p'.status = p.status
    <3>1. p \in Frames /\ Calls(p)
      BY <1>a DEF Inv, Ready
    <3> QED BY <2>1, <3>1, ReturnTyped
  <2>3. p'.brk = p.brk
    BY <1>a, <2>1 DEF Return, Frames
  <2>4. t = <<>>
    BY <1>2, <1>7 DEF DownWords
  <2>5. Sent' = Sent
    BY <1>4, <1>5, <2>2, <2>4 DEF Sent
  <2> QED BY <2>1, <2>2, <2>3, <2>5
<1> QED BY <1>6, <1>7

LEMMA EnqKept ==
    ASSUME Inv, KeptInv, sbeDownFifoEnq_mult, UNCHANGED <<req, hw, sp>> PROVE KeptInv'
<1>a. Ready /\ p.fn = "enq" /\ p \in Frames /\ Kept(p, hw) /\ UNCHANGED <<up, reset, faults>>
      /\ p.at # "response.done" /\ p.at # "idle" /\ Serves(p)
  BY DEF Inv, Ready, sbeDownFifoEnq_mult, KeptInv, Control, Serves
<1>b. "RESET" \in Rc /\ "OK" \in Rc
  BY DEF Rc
<1>1. CASE reset /\ p' = Return(p, "RESET")
  <2>1. /\ p'.fn = "none" /\ p'.rc = "RESET" /\ p'.at = p.brk
        /\ p'.count = p.count /\ p'.status = p.status
    BY <1>1, <1>a, <1>b, ReturnTyped
  <2>2. Kept(p, hw)'
    BY <1>a, <1>b, <2>1, ReturnKept
  <2> QED BY <1>1, <1>a, <2>2 DEF KeptInv, Reply
<1>2. CASE ~reset
  <2>1. /\ Sent' = Sent /\ p'.at = p.at /\ p'.brk = p.brk /\ p'.count = p.count
        /\ p'.status = p.status
        /\ (p'.fn = "enq" /\ p'.rc = p.rc) \/ (p'.fn = "none" /\ p'.rc = "OK")
    BY <1>2, EnqSent
  <2>2. Reply'
    <3>1. Answering(p') <=> Answering(p)
      BY <1>a, <2>1 DEF Answering
    <3>2. Serves(p') /\ ~At("response.done")'
      BY <1>a, <2>1 DEF Serves, At
    <3> QED BY <1>a, <2>1, <3>1, <3>2 DEF KeptInv, Reply
  <2>3. CASE p'.fn = "enq" /\ p'.rc = p.rc
    <3>1. Interface(p', hw')
      BY <1>a, <2>1 DEF Kept, Interface
    <3>2. Ram(p', hw') /\ Wakeups(p', hw')
      BY <1>a, <2>1, <2>3 DEF Kept, Ram, Wakeups
    <3>3. Kept(p', hw')
      BY <1>a, <2>1, <2>3, <3>1, <3>2 DEF Kept
    <3> QED BY <2>2, <3>3, KeptNext DEF KeptInv
  <2>4. CASE p'.fn = "none" /\ p'.rc = "OK"
    <3>1. Kept(p, hw)'
      BY <1>a, <1>b, <2>1, <2>4, ReturnKept
    <3> QED BY <2>2, <3>1 DEF KeptInv
  <2> QED BY <2>1, <2>3, <2>4
<1> QED BY <1>1, <1>2 DEF sbeDownFifoEnq_mult

\* The end of the transfer is behind the header.
LEMMA EotSent ==
    ASSUME Inv, ~reset, sbeDownFifoSignalEot, UNCHANGED sp, NEW good, Headed(Sent, <<>>, good)
    PROVE  Headed(Response', <<<<"eot">>>>, good)
<1>a. Wires /\ p.fn = "eot" /\ Serves(p) /\ down' = Append(down, <<"eot">>)
  BY DEF Inv, sbeDownFifoSignalEot, Serves
<1>1. sp.got \in DownWords /\ down \in DownWords /\ Response \in DownWords
  BY <1>a, ResponseTyped DEF Inv, Boundary, Serving
<1>2. Sent = Response
  BY <1>1, <1>a, JoinEmpty DEF Sent, DownWords
<1>3. PICK status \in Status, fapi \in BOOLEAN, first \in DownWords :
          /\ Response = first \o RespHdr(status, fapi) \o <<>> /\ NoMagic(first)
          /\ status = "OK" => good
  BY <1>2 DEF Headed
<1> DEFINE h == RespHdr(status, fapi)
           S == DownWord \cup {<<"eot">>}
<1>4. h \in DownWords
  BY RespHdrShape
<1>5. Response = first \o h \o <<>>
  BY <1>3
<1> HIDE DEF h
<1>6. first \o h \in DownWords
  BY <1>4, JoinAll DEF DownWords
<1>7. Response = first \o h
  BY <1>5, <1>6, JoinEmpty DEF DownWords
<1>8. sp.got \in Seq(S) /\ down \in Seq(S) /\ Response \in Seq(S) /\ <<"eot">> \in S
  BY <1>1 DEF DownWords
<1>9. Response' = Append(Response, <<"eot">>)
  <2> HIDE DEF S
  <2> DEFINE g == sp.got
             e == <<"eot">>
  <2>a. g \in Seq(S) /\ down \in Seq(S) /\ e \in S
    BY <1>8
  <2> HIDE DEF g, e
  <2>b. g \o Append(down, e) = Append(g \o down, e)
    BY <2>a, JoinAppend
  <2>1. sp.got \o Append(down, <<"eot">>) = Append(sp.got \o down, <<"eot">>)
    BY <2>b DEF g, e
  <2>2. Response' = sp.got \o Append(down, <<"eot">>) /\ Response = sp.got \o down
    BY <1>a, Zenon DEF Response
  <2> QED BY <2>1, <2>2, Zenon
<1>10. Append(Response, <<"eot">>) = Response \o <<<<"eot">>>>
  <2> HIDE DEF S
  <2> QED BY <1>8, JoinAppend
<1>11. Response' = first \o RespHdr(status, fapi) \o <<<<"eot">>>>
  BY <1>7, <1>9, <1>10 DEF h
<1> QED BY <1>3, <1>11 DEF Headed

LEMMA EotKept ==
    ASSUME Inv, KeptInv, sbeDownFifoSignalEot, UNCHANGED <<req, hw, sp>> PROVE KeptInv'
<1>a. /\ Ready /\ Wires /\ p.fn = "eot" /\ p \in Frames /\ Kept(p, hw) /\ Serves(p) /\ Answering(p)
      /\ down' = Append(down, <<"eot">>) /\ p' = Return(p, "OK") /\ p.at = "response.done"
      /\ UNCHANGED <<up, reset, faults>>
  BY DEF Inv, Ready, sbeDownFifoSignalEot, KeptInv, Serves, Answering, Control
<1>1. "OK" \in Rc
  BY DEF Rc
<1>2. /\ p'.fn = "none" /\ p'.rc = "OK" /\ p'.at = "response.done"
      /\ p'.count = p.count /\ p'.status = p.status
  BY <1>1, <1>a, ReturnTyped
<1>3. Kept(p, hw)'
  BY <1>1, <1>2, <1>a, ReturnKept
<1>4. ASSUME ~reset, faults = 0 PROVE Headed(Response', <<<<"eot">>>>, Released(hw))
  BY <1>4, <1>a, EotSent DEF KeptInv, Reply
<1>5. ~Serves(p') /\ ~Answering(p')
  BY <1>2 DEF Serves, Answering
<1>6. Reply'
  BY <1>4, <1>5, <1>a DEF Reply
<1> QED BY <1>3, <1>6 DEF KeptInv

LEMMA FaultKept == ASSUME Inv, KeptInv, Fault PROVE KeptInv'
<1>a. /\ Ready /\ p.fn # "none" /\ p \in Frames /\ Kept(p, hw) /\ UNCHANGED <<req, hw>>
      /\ faults' = faults + 1 /\ faults \in Nat
  BY DEF Inv, Ready, Fault, FifoAccessFails, Wires, KeptInv
<1>1. PICK rc \in {"ACCESS_FAILURE", "PARITY_ERROR"} : p' = Return(p, rc)
  BY DEF Fault, FifoAccessFails
<1>2. rc \in Rc /\ rc # "OK"
  BY DEF Rc
<1>3. /\ p'.fn = "none" /\ p'.rc = rc /\ p'.at = (IF rc = "OK" THEN p.at ELSE p.brk)
      /\ p'.count = p.count /\ p'.status = p.status
  BY <1>1, <1>2, <1>a, ReturnTyped
<1>4. Kept(p, hw)'
  BY <1>2, <1>3, <1>a, ReturnKept
<1>5. Reply'
  BY <1>a DEF Reply
<1> QED BY <1>4, <1>5 DEF KeptInv

\* A chip-op starts with the hardware as it is between two of them.
LEMMA FreshKept ==
    ASSUME NEW q, q.fn = "none", q.status = "OK", q.at \in Starts \cup {"return", "idle"}
    PROVE  Kept(q, Hardware)
<1>1. /\ ~Hardware.open /\ Hardware.awake = {} /\ ~Hardware.misused /\ Hardware.max = 0
      /\ Hardware.curr = 0 /\ Hardware.cleaned
  BY DEF Hardware
<1>2. q.at \notin {"mem.access", "mem.loop", "mem.bell"} \cup Held
  BY DEF Starts, ScomOps, Held, CoreLabels
<1>3. Interface(q, Hardware)
  BY <1>1, <1>2, MemAssumption DEF Interface
<1>4. Ram(q, Hardware) /\ Wakeups(q, Hardware)
  BY <1>1, <1>2 DEF Ram, Wakeups, Released, Held
<1> QED BY <1>2, <1>3, <1>4 DEF Kept

LEMMA FreshState ==
    p.fn = "none" /\ p.status = "OK" /\ p.at \in Starts \cup {"return", "idle"} /\ hw = Hardware
    => Kept(p, hw)
  BY FreshKept

LEMMA FreshKeptNext ==
    ASSUME p'.fn = "none", p'.status = "OK", p'.at \in Starts \cup {"return", "idle"}, hw' = Hardware
    PROVE  Kept(p, hw)'
<1>1. (p.fn = "none" /\ p.status = "OK" /\ p.at \in Starts \cup {"return", "idle"} /\ hw = Hardware)'
  BY DEF Starts, ScomOps, Hardware
<1> QED BY <1>1, FreshState, PTL

LEMMA IdleReply == ASSUME p'.fn = "none", p'.at = "idle" PROVE Reply'
  BY DEF Reply, Serves, Answering, At

LEMMA EndsKept == ASSUME Ends PROVE KeptInv'
<1>1. p' = Frame /\ hw' = Hardware /\ Frame.fn = "none" /\ Frame.at = "idle" /\ Frame.status = "OK"
  BY DEF Ends, Frame
<1>2. Kept(p, hw)'
  BY <1>1, FreshKeptNext
<1> QED BY <1>1, <1>2, IdleReply DEF KeptInv

LEMMA ReceiveKept == ASSUME Inv, KeptInv, Receive, UNCHANGED sp PROVE KeptInv'
<1> DEFINE r == Head(up)[2]
           l == Entry(r.op)
           c == IF r.op = "unknown" THEN "NOT_SUPPORTED" ELSE "OK"
<1>a. /\ Wires /\ p.fn = "none" /\ p.at = "idle" /\ ~Serves(p) /\ ~reset /\ up # <<>>
      /\ Head(up)[1] = "cmd" /\ UNCHANGED <<down, hw>> /\ Kept(p, hw)
      /\ p' = [Frame EXCEPT !.at = l, !.rc = c]
  BY DEF Inv, Receive, At, Serves, KeptInv
<1>1. Head(up) \in UpWord /\ Head(up) = up[1] /\ Len(up) >= 1 /\ Len(up) \in Nat
  BY <1>a, TailOf DEF Wires, UpWords
<1>2. r \in Requests
  BY <1>1, <1>a, UpWordKinds
<1>3. r.op \in Ops
  BY <1>2, RequestAssumption
<1> HIDE DEF r
<1>4. l \in Starts \cup {"return"} /\ (l = "return" => c # "OK")
  BY <1>3 DEF Entry, Ops, Starts, ScomOps
<1> HIDE DEF l, c
<1>5. p'.at = l /\ p'.rc = c /\ p'.fn = "none" /\ p'.status = "OK"
  BY <1>a DEF Frame
<1>6. hw' = Hardware
  BY <1>a DEF Kept
<1>7. Kept(p, hw)'
  BY <1>4, <1>5, <1>6, FreshKeptNext
<1>8. down = <<>> /\ sp.got = <<>>
  <2>1. ~NoCommand(up)
    BY <1>1, <1>a DEF NoCommand
  <2>2. sp.busy
    BY <1>a, <2>1 DEF Inv, Boundary
  <2>3. up \in UpWords /\ sp.left \in UpWords
    BY <1>a, StreamTyped
  <2>4. /\ Stream[1] = Head(up) /\ Stream \in UpWords /\ Stream # <<>>
    BY <1>a, <2>3, TakeHead, JoinUp DEF Stream
  <2>5. 1 \in 1..Len(Stream)
    BY <2>4, TailOf DEF UpWords
  <2>6. ~NoCommand(Stream)
    BY <1>a, <2>4, <2>5 DEF NoCommand
  <2> QED BY <1>a, <2>2, <2>6 DEF Inv, Boundary, Asks
<1>9. Response' = <<>>
  BY <1>8, <1>a DEF Response
<1>10. NoMagic(Sent')
  BY <1>5, <1>9 DEF Sent, NoMagic
<1>11. ~Answering(p') /\ ~At("response.done")'
  BY <1>4, <1>5 DEF Answering, At, Starts, ScomOps
<1>12. Reply'
  BY <1>10, <1>11 DEF Reply
<1> QED BY <1>7, <1>12 DEF KeptInv

LEMMA ReplySame ==
    ASSUME Reply, UNCHANGED <<p, hw, reset, faults>>, Response' = Response PROVE Reply'
<1>1. Sent' = Sent
  BY DEF Sent
<1> QED BY <1>1 DEF Reply, At

LEMMA KeptSame == ASSUME KeptInv, UNCHANGED <<p, hw, req>>, Reply' PROVE KeptInv'
<1>1. Kept(p', hw')
  BY DEF KeptInv
<1> QED BY <1>1, KeptNext DEF KeptInv

\* The service processor reads what was sent; the end of a transfer, and what it
\* asks next, begin a new response.
LEMMA SpResponse ==
    ASSUME Inv, ServiceProcessor, ~reset'
    PROVE  reset' = reset /\ (Response' = Response \/ (~Serves(p) /\ Response' = <<>>))
<1>a. Wires
  BY DEF Inv
<1>1. CASE SpAsk
  <2>1. ~sp.busy /\ ~reset /\ down' = down /\ sp'.got = <<>> /\ reset' = reset
    BY <1>1 DEF SpAsk
  <2>2. ~Serves(p) /\ down = <<>>
    BY <2>1 DEF Inv, Boundary, Serving
  <2> QED BY <2>1, <2>2 DEF Response
<1>2. CASE SpWrite
  <2>1. sp' = [sp EXCEPT !.left = Tail(@)] /\ down' = down /\ reset' = reset
        /\ sp \in [busy : BOOLEAN, left : UpWords, got : DownWords]
    BY <1>2, <1>a DEF SpWrite, Wires
  <2>2. sp'.got = sp.got
    BY <2>1
  <2> QED BY <2>1, <2>2 DEF Response
<1>3. CASE SpRead
  <2>1. /\ down # <<>> /\ ~reset /\ down' = Tail(down) /\ reset' = reset
        /\ sp' = IF Head(down)[1] = "eot" THEN Idle ELSE [sp EXCEPT !.got = Append(@, Head(down))]
        /\ sp \in [busy : BOOLEAN, left : UpWords, got : DownWords]
        /\ down \in Seq(DownWord \cup {<<"eot">>})
    BY <1>3, <1>a DEF SpRead, Wires
  <2>2. /\ Len(Tail(down)) = Len(down) - 1 /\ Tail(down) \in Seq(DownWord \cup {<<"eot">>})
        /\ Len(down) >= 1 /\ Len(down) \in Nat /\ Head(down) = down[1]
    BY <2>1, TailOf
  <2>3. CASE Head(down)[1] = "eot"
    <3>1. ~Serves(p) /\ EotLast(down)
      BY <2>1, <2>2, <2>3 DEF Inv, Boundary, Serving, NoEot, Asks
    <3>2. Len(down) = 1
      BY <2>2, <2>3, <3>1 DEF EotLast
    <3>3. down' = <<>>
      <4> DEFINE t == Tail(down)
      <4>1. t \in Seq(DownWord \cup {<<"eot">>}) /\ Len(t) = 0
        BY <2>2, <3>2
      <4> HIDE DEF t
      <4>2. t = <<>>
        BY <4>1
      <4> QED BY <2>1, <4>2 DEF t
    <3>4. sp'.got = <<>>
      BY <2>1, <2>3 DEF Idle
    <3>5. Response' = <<>>
      BY <3>3, <3>4 DEF Response
    <3> QED BY <2>1, <3>1, <3>5
  <2>4. CASE Head(down)[1] # "eot"
    <3> DEFINE S == DownWord \cup {<<"eot">>}
               g == sp.got
               a == Append(g, Head(down))
    <3>1. sp' = [sp EXCEPT !.got = a]
      BY <2>1, <2>4
    <3>2. g \in Seq(S) /\ down \in Seq(S) /\ down # <<>>
      BY <2>1 DEF DownWords
    <3> HIDE DEF S, g
    <3>3. a \o Tail(down) = g \o down
      BY <3>2, WordSent
    <3> HIDE DEF a
    <3>4. sp'.got = a
      BY <2>1, <3>1
    <3>5. Response' = a \o Tail(down) /\ Response = g \o down
      BY <2>1, <3>4, Zenon DEF Response, g
    <3>6. Response' = Response
      BY <3>3, <3>5, Zenon
    <3> QED BY <2>1, <3>6
  <2> QED BY <2>3, <2>4
<1>4. ~SpReset /\ ~SpDrain
  BY DEF SpReset, SpDrain
<1> QED BY <1>1, <1>2, <1>3, <1>4 DEF ServiceProcessor

LEMMA SpKept == ASSUME Inv, KeptInv, ServiceProcessor PROVE KeptInv'
<1>1. UNCHANGED <<p, hw, req, faults>> /\ Reply
  BY DEF ServiceProcessor, SpAsk, SpWrite, SpRead, SpReset, SpDrain, SpUnchanged, KeptInv
<1>2. CASE reset'
  <2>1. Reply'
    BY <1>2 DEF Reply
  <2> QED BY <1>1, <2>1, KeptSame
<1>3. CASE ~reset' /\ Response' = Response /\ reset' = reset
  BY <1>1, <1>3, ReplySame, KeptSame
<1>4. CASE ~Serves(p) /\ Response' = <<>>
  <2>1. Reply'
    BY <1>1, <1>4 DEF Reply, Serves, Answering, At, Inv, Ready, Control
  <2> QED BY <1>1, <2>1, KeptSame
<1> QED BY <1>2, <1>3, <1>4, SpResponse

LEMMA NextKept == ASSUME Inv, KeptInv, [Next]_vars PROVE KeptInv'
<1>1. CASE FifoStep /\ UNCHANGED <<req, hw, sp>>
  BY <1>1, DeqKept, EnqKept, EotKept DEF FifoStep
<1>2. CASE ChipOp /\ UNCHANGED sp
  <2>1. Ready /\ Wires /\ Kept(p, hw) /\ Reply
    BY DEF Inv, KeptInv
  <2>2. CASE Ends
    BY <2>2, EndsKept
  <2>3. CASE Effect /\ ~Ends
    <3>1. Moves
      BY <1>2, <2>1, <2>3, ChipOpMoves DEF Drops
    <3>2. Reply'
      BY <1>2, <2>1, <2>3, <3>1, EffectReply
    <3>3. Kept(p, hw)'
      BY <2>3, <3>1, KeptNext DEF Effect, Moves
    <3> QED BY <3>2, <3>3 DEF KeptInv
  <2> QED BY <1>2, <2>1, <2>2, <2>3, ChipOpEffect
<1>3. CASE Receive /\ UNCHANGED sp
  BY <1>3, ReceiveKept
<1>4. CASE sbeUpFifoPerformReset /\ UNCHANGED sp
  BY <1>4, IdleReply, KeptSame DEF sbeUpFifoPerformReset, At
<1>5. CASE ServiceProcessor
  BY <1>5, SpKept
<1>6. CASE Fault
  BY <1>6, FaultKept
<1>7. CASE UNCHANGED <<up, down, reset, faults, p, req, hw, sp>>
  <2>1. Response' = Response
    BY <1>7 DEF Response
  <2> QED BY <1>7, <2>1, ReplySame, KeptSame DEF KeptInv
<1> QED BY <1>1, <1>2, <1>3, <1>4, <1>5, <1>6, <1>7 DEF Next, Processor, HostUpdatesRegions, vars

LEMMA KeptInvariance == Spec => [](Inv /\ KeptInv)
<1>1. Init => Inv /\ KeptInv
  <2> SUFFICES ASSUME Init PROVE Inv /\ KeptInv
    OBVIOUS
  <2>1. p = Frame /\ hw = Hardware /\ Frame.fn = "none" /\ Frame.at = "idle" /\ Frame.status = "OK"
    BY DEF Init, FifoInit, Frame
  <2>2. Kept(p, hw)
    BY <2>1, FreshKept
  <2>3. Reply
    BY <2>1 DEF Reply, Serves, Answering, At
  <2> QED BY <2>2, <2>3, InitInv DEF KeptInv
<1>2. Inv /\ KeptInv /\ [Next]_vars => Inv' /\ KeptInv'
  BY NextKeeps, NextKept
<1> QED BY <1>1, <1>2, PTL DEF Spec

----------------------------------------------------------------------------
(* What the SP reads *)

\* Where the packages of a header are.
HeaderOf(h, a, b) ==
    /\ Len(h) = 3 + a + b
    /\ a > 0 => h[3] = <<"ffdc", a>>
    /\ b > 0 => h[3 + a] = <<"ffdc", b>>

LEMMA HeaderPlaces ==
    ASSUME NEW status \in Status, NEW fapi \in BOOLEAN
    PROVE  \E a, b \in Nat : HeaderOf(RespHdr(status, fapi), a, b)
<1> DEFINE start == <<<<"magic">>, <<"status", status>>>>
           hwp == IF fapi THEN HwpFfdc ELSE <<>>
           internal == IF status # "OK" /\ SendInternalFFDC THEN SbeFfdc ELSE <<>>
           distance == 3 + (IF fapi THEN 1 + HwpFfdcWords ELSE 0) + Len(internal)
           end == <<<<"dist", distance>>>>
<1>1. hwp \in DownWords /\ Len(hwp) \in Nat /\ (Len(hwp) > 0 => hwp[1] = <<"ffdc", Len(hwp)>>)
  <2>1. HwpFfdc \in DownWords /\ Len(HwpFfdc) = 1 + HwpFfdcWords
    BY HwpFfdcTyped
  <2>2. HwpFfdc[1] = <<"ffdc", 1 + HwpFfdcWords>>
    <3> DEFINE w == Words("hwpffdc", HwpFfdcWords)
               f == <<"ffdc", 1 + HwpFfdcWords>>
    <3>1. w \in DownWords
      BY FifoAssumption DEF Words, DownWords, DownWord
    <3>2. f \in DownWord
      BY FifoAssumption DEF DownWord
    <3> HIDE DEF w, f
    <3>3. (<<f>> \o w)[1] = f
      BY <3>1, <3>2 DEF DownWords
    <3> QED BY <3>3 DEF HwpFfdc, w, f
  <2> QED BY <2>1, <2>2, EmptyTyped, FifoAssumption
<1>2. internal \in DownWords /\ Len(internal) \in Nat
      /\ (Len(internal) > 0 => internal[1] = <<"ffdc", Len(internal)>>)
  <2>1. SbeFfdc[1] = <<"ffdc", 2>>
    BY DEF SbeFfdc
  <2> QED BY <2>1, SbeFfdcTyped, EmptyTyped
<1> HIDE DEF internal, hwp
<1>3. distance \in Int
  BY <1>2, FifoAssumption
<1> HIDE DEF distance
<1>4. start \in DownWords /\ Len(start) = 2
  BY DEF DownWords, DownWord
<1>5. end \in DownWords /\ Len(end) = 1
  BY <1>3 DEF DownWords, DownWord
<1> HIDE DEF start, end
<1> DEFINE a == start \o hwp
           b == a \o internal
           h == b \o end
<1>6. /\ a \in DownWords /\ Len(a) = 2 + Len(hwp)
      /\ \A i \in 1..Len(hwp) : a[2 + i] = hwp[i]
  <2>1. /\ start \o hwp \in DownWords /\ Len(start \o hwp) = Len(start) + Len(hwp)
        /\ \A i \in 1..Len(hwp) : (start \o hwp)[Len(start) + i] = hwp[i]
    BY <1>1, <1>4, Join, Zenon
  <2> QED BY <1>4, <2>1
<1> HIDE DEF a
<1>7. /\ b \in DownWords /\ Len(b) = Len(a) + Len(internal)
      /\ \A i \in 1..Len(a) : b[i] = a[i]
      /\ \A i \in 1..Len(internal) : b[Len(a) + i] = internal[i]
  BY <1>2, <1>6, Join, Zenon
<1> HIDE DEF b
<1>8. /\ h \in DownWords /\ Len(h) = Len(b) + Len(end)
      /\ \A i \in 1..Len(b) : h[i] = b[i]
  BY <1>5, <1>7, Join, Zenon
<1> HIDE DEF h
<1>9. Len(h) = 3 + Len(hwp) + Len(internal)
  BY <1>1, <1>2, <1>5, <1>6, <1>7, <1>8
<1>10. ASSUME Len(hwp) > 0 PROVE h[3] = <<"ffdc", Len(hwp)>>
  <2>1. 1 \in 1..Len(hwp) /\ 3 \in 1..Len(a) /\ 3 \in 1..Len(b) /\ 2 + 1 = 3
    BY <1>1, <1>2, <1>6, <1>7, <1>10
  <2>2. a[3] = hwp[1] /\ b[3] = a[3] /\ h[3] = b[3]
    BY <1>6, <1>7, <1>8, <2>1
  <2> QED BY <1>1, <1>10, <2>2
<1>11. ASSUME Len(internal) > 0 PROVE h[3 + Len(hwp)] = <<"ffdc", Len(internal)>>
  <2>1. /\ 1 \in 1..Len(internal) /\ Len(a) + 1 \in 1..Len(b) /\ Len(a) + 1 = 3 + Len(hwp)
    BY <1>1, <1>2, <1>6, <1>7, <1>11
  <2>2. b[Len(a) + 1] = internal[1] /\ h[Len(a) + 1] = b[Len(a) + 1]
    BY <1>7, <1>8, <2>1
  <2> QED BY <1>2, <1>11, <2>1, <2>2
<1>12. h = RespHdr(status, fapi)
  BY DEF RespHdr, h, b, a, start, end, hwp, internal, distance
<1>13. HeaderOf(h, Len(hwp), Len(internal))
  BY <1>9, <1>10, <1>11 DEF HeaderOf
<1> QED BY <1>1, <1>2, <1>12, <1>13

\* The complete response, word by word: data, the header with its packages, the
\* distance and the end of the transfer.
Parts(s, status, k, a, b) ==
    /\ s \in Seq(DownWord \cup {<<"eot">>}) /\ Len(s) = k + 4 + a + b
    /\ s[k + 1] = <<"magic">> /\ s[k + 2] = <<"status", status>>
    /\ a > 0 => s[k + 3] = <<"ffdc", a>>
    /\ b > 0 => s[k + 3 + a] = <<"ffdc", b>>
    /\ s[k + 3 + a + b] = <<"dist", 3 + a + b>>
    /\ \A i \in 1..k : s[i][1] # "magic"

LEMMA HeadedParts ==
    ASSUME NEW s, NEW good, Headed(s, <<<<"eot">>>>, good)
    PROVE  \E status \in Status, k, a, b \in Nat : Parts(s, status, k, a, b) /\ (status = "OK" => good)
<1>1. PICK status \in Status, fapi \in BOOLEAN, first \in DownWords :
          /\ s = first \o RespHdr(status, fapi) \o <<<<"eot">>>> /\ NoMagic(first)
          /\ status = "OK" => good
  BY DEF Headed
<1>2. PICK a \in Nat, b \in Nat : HeaderOf(RespHdr(status, fapi), a, b)
  BY HeaderPlaces
<1> DEFINE h == RespHdr(status, fapi)
           S == DownWord \cup {<<"eot">>}
           e == <<<<"eot">>>>
           k == Len(first)
           f == first \o h
<1>3. /\ h \in DownWords /\ h[1] = <<"magic">> /\ h[2] = <<"status", status>>
      /\ h[Len(h)] = <<"dist", Len(h)>>
  BY RespHdrShape
<1>4. s = f \o e /\ HeaderOf(h, a, b)
  BY <1>1, <1>2
<1>5. k \in Nat /\ Len(e) = 1 /\ e \in Seq(S) /\ e[1] = <<"eot">>
  BY DEF DownWords
<1> HIDE DEF h, e
<1>6. /\ f \in DownWords /\ Len(f) = k + Len(h)
      /\ \A i \in 1..k : f[i] = first[i]
      /\ \A i \in 1..Len(h) : f[k + i] = h[i]
  BY <1>3, Join, Zenon
<1> HIDE DEF f
<1>7. f \in Seq(S)
  BY <1>6 DEF DownWords
<1> HIDE DEF S
<1>8. /\ f \o e \in Seq(S) /\ Len(f \o e) = Len(f) + Len(e)
      /\ \A i \in 1..(Len(f) + Len(e)) : (f \o e)[i] = IF i <= Len(f) THEN f[i] ELSE e[i - Len(f)]
      /\ Len(f) \in Nat
  BY <1>5, <1>7, JoinAll
<1>9. /\ s \in Seq(S) /\ Len(s) = k + Len(h) + 1 /\ \A i \in 1..(k + Len(h)) : s[i] = f[i]
  BY <1>4, <1>5, <1>6, <1>8
<1>10. Len(h) = 3 + a + b
  BY <1>4 DEF HeaderOf
<1>11. ASSUME NEW i \in 1..Len(h) PROVE s[k + i] = h[i]
  <2>1. k + i \in 1..(k + Len(h))
    BY <1>5, <1>10
  <2> QED BY <1>6, <1>9, <2>1
<1> HIDE DEF k
<1>12. /\ 1 \in 1..Len(h) /\ 2 \in 1..Len(h) /\ 3 \in 1..Len(h) /\ 3 + a \in 1..Len(h)
       /\ 3 + a + b \in 1..Len(h)
  BY <1>10
<1>13. s[k + 1] = h[1] /\ s[k + 2] = h[2] /\ s[k + 3] = h[3] /\ s[k + (3 + a)] = h[3 + a]
       /\ s[k + (3 + a + b)] = h[3 + a + b]
  BY <1>11, <1>12
<1>14. k + (3 + a) = k + 3 + a /\ k + (3 + a + b) = k + 3 + a + b /\ k + Len(h) + 1 = k + 4 + a + b
  BY <1>5, <1>10
<1>15. ASSUME NEW i \in 1..k PROVE s[i][1] # "magic"
  <2>1. i \in 1..(k + Len(h))
    BY <1>5, <1>10
  <2>2. s[i] = first[i]
    BY <1>6, <1>9, <2>1
  <2> QED BY <1>1, <2>2 DEF NoMagic, k
<1>16. Parts(s, status, k, a, b)
  <2>1. a > 0 => h[3] = <<"ffdc", a>>
    BY <1>4 DEF HeaderOf
  <2>2. b > 0 => h[3 + a] = <<"ffdc", b>>
    BY <1>4 DEF HeaderOf
  <2>3. h[3 + a + b] = <<"dist", 3 + a + b>>
    BY <1>3, <1>10
  <2>4. s \in Seq(DownWord \cup {<<"eot">>}) /\ Len(s) = k + 4 + a + b
    BY <1>9, <1>14 DEF S
  <2> QED BY <1>3, <1>13, <1>14, <1>15, <2>1, <2>2, <2>3, <2>4 DEF Parts
<1> QED BY <1>1, <1>5, <1>16

----------------------------------------------------------------------------
(* The theorems *)

\* The reader's way back from the end.
LEMMA CompleteParts ==
    ASSUME KeptInv, Complete
    PROVE  \E status \in Status, k, a, b \in Nat :
              /\ Parts(Response, status, k, a, b) /\ (status = "OK" => Released(hw))
              /\ HeaderAt = k + 1 /\ Answer = status
<1>1. Headed(Response, <<<<"eot">>>>, Released(hw))
  BY DEF KeptInv, Reply, Complete
<1>2. PICK status \in Status, k \in Nat, a \in Nat, b \in Nat :
          Parts(Response, status, k, a, b) /\ (status = "OK" => Released(hw))
  BY <1>1, HeadedParts
<1> DEFINE s == Response
<1>3. Parts(s, status, k, a, b)
  BY <1>2
<1>4. HeaderAt = Len(s) - s[Len(s) - 1][2] /\ Answer = s[HeaderAt + 1][2]
  BY DEF HeaderAt, Answer
<1> HIDE DEF s
<1>5. Len(s) - 1 = k + 3 + a + b /\ Len(s) = k + 4 + a + b
  BY <1>3 DEF Parts
<1>6. s[Len(s) - 1][2] = 3 + a + b
  BY <1>3, <1>5 DEF Parts
<1>7. HeaderAt = k + 1
  BY <1>4, <1>5, <1>6
<1>8. HeaderAt + 1 = k + 2 /\ s[k + 2] = <<"status", status>>
  BY <1>3, <1>7 DEF Parts
<1>9. Answer = status
  BY <1>4, <1>8
<1> QED BY <1>2, <1>7, <1>9

\* ResponseParses for every request, every length of FFDC and every depth of the
\* FIFOs: the distance that sbeDsSendRespHdr sends last leads the reader back to
\* the header, the FFDC packages behind it fill the rest by their own lengths,
\* and nothing in front of it looks like a header, in whatever pieces the words
\* were sent and read.
THEOREM ResponsesParse == Spec => []ResponseParses
<1>1. KeptInv => ResponseParses
  <2> SUFFICES ASSUME KeptInv, Complete PROVE ResponseParses
    BY DEF ResponseParses
  <2>1. PICK status \in Status, k \in Nat, a \in Nat, b \in Nat :
            Parts(Response, status, k, a, b) /\ HeaderAt = k + 1
    BY CompleteParts
  <2> DEFINE s == Response
             n == Len(s)
             starts == {k + 3, k + 3 + a, k + 3 + a + b}
  <2>2. Parts(s, status, k, a, b) /\ Before = SubSeq(s, 1, HeaderAt - 1)
    BY <2>1 DEF Before
  <2> HIDE DEF s
  <2>3. /\ n > 3 /\ n - 1 = k + 3 + a + b /\ HeaderAt \in 1..n /\ HeaderAt + 1 = k + 2
        /\ HeaderAt + 2 = k + 3 /\ n = k + 4 + a + b
    BY <2>1, <2>2 DEF Parts
  <2>4. s[n - 1][1] = "dist" /\ s[HeaderAt] = <<"magic">> /\ s[HeaderAt + 1][1] = "status"
    BY <2>1, <2>2, <2>3 DEF Parts
  <2>5. starts \in SUBSET ((HeaderAt + 2)..(n - 1)) /\ HeaderAt + 2 \in starts
    BY <2>3
  <2>6. ASSUME NEW i \in starts \ {n - 1}
        PROVE  s[i][1] = "ffdc" /\ s[i][2] > 0 /\ i + s[i][2] \in starts
    <3>1. CASE i = k + 3 /\ a > 0
      <4>1. s[k + 3] = <<"ffdc", a>>
        BY <2>2, <3>1 DEF Parts
      <4> QED BY <3>1, <4>1
    <3>2. CASE i = k + 3 + a /\ b > 0
      <4>1. s[k + 3 + a] = <<"ffdc", b>>
        BY <2>2, <3>2 DEF Parts
      <4> QED BY <3>2, <4>1
    <3>3. i \in {k + 3, k + 3 + a, k + 3 + a + b} /\ i # k + 3 + a + b
      BY <2>3, <2>6
    <3>4. (i = k + 3 /\ a > 0) \/ (i = k + 3 + a /\ b > 0)
      <4> HIDE DEF starts, n
      <4> QED BY <3>3
    <3> QED BY <3>1, <3>2, <3>4
  <2>7. \A i \in DOMAIN Before : Before[i][1] # "magic"
    <3>1. HeaderAt - 1 = k /\ k \in 0..n /\ s \in Seq(DownWord \cup {<<"eot">>})
      BY <2>1, <2>2, <2>3 DEF Parts
    <3> DEFINE t == SubSeq(s, 1, k)
    <3>2. DOMAIN t = 1..k /\ \A i \in 1..k : t[i] = s[i]
      BY <3>1 DEF Parts
    <3>3. Before = t
      BY <2>2, <3>1
    <3> HIDE DEF t
    <3> QED BY <2>2, <3>2, <3>3 DEF Parts
  <2> HIDE DEF starts
  <2>8. \E z \in SUBSET ((HeaderAt + 2)..(n - 1)) :
            /\ HeaderAt + 2 \in z
            /\ \A i \in z \ {n - 1} : s[i][1] = "ffdc" /\ s[i][2] > 0 /\ i + s[i][2] \in z
    BY <2>5, <2>6
  <2> QED BY <2>3, <2>4, <2>7, <2>8 DEF ResponseParses, s
<1> QED BY <1>1, KeptInvariance, PTL

\* RamCleanedUp for every list of registers: sbeGetReg and sbePutReg leave no core
\* in RAM mode, through a FIFO reset or a failed FIFO access between any two words
\* too, unless a RAM procedure itself failed.
THEOREM RamModeLeft == Spec => []RamCleanedUp
<1>1. KeptInv => RamCleanedUp
  BY DEF KeptInv, Kept, Ram, RamCleanedUp, At, RegOps
<1> QED BY <1>1, KeptInvariance, PTL

\* InterfaceProtocol for every length of a request, every granule size and every
\* number of granules a setup grants: sbeMemAccessInterface never accesses
\* outside a setup, announces the first granule and cleans up with the last one,
\* and a request that is told OK leaves no interface open.
THEOREM InterfaceKept == Spec => []InterfaceProtocol
<1>1. KeptInv => InterfaceProtocol
  <2> SUFFICES ASSUME KeptInv PROVE /\ ~hw.misused
                                    /\ Complete /\ Answer = "OK" => ~hw.open
    BY DEF InterfaceProtocol
  <2>1. ~hw.misused
    BY DEF KeptInv, Kept, Interface
  <2>2. ASSUME Complete, Answer = "OK" PROVE ~hw.open
    BY <2>2, CompleteParts DEF Released
  <2> QED BY <2>1, <2>2
<1> QED BY <1>1, KeptInvariance, PTL

\* WakeupsReleased for every number of cores: when instruction control reports
\* success every special wakeup it asserted has been taken back, and an error of
\* specialWakeUpCoreDeAssert, also one it was told to ignore, is in the status.
THEOREM WakeupsTakenBack == Spec => []WakeupsReleased
<1>1. KeptInv => WakeupsReleased
  BY CompleteParts DEF WakeupsReleased, Released
<1> QED BY <1>1, KeptInvariance, PTL

\* The table of the host's regions.
Table == regions \in Seq(Region) /\ Len(regions) <= MaxRegions

LEMMA TableNext == ASSUME Ready, Table, [Next]_vars PROVE Table'
<1>1. CASE UNCHANGED regions
  BY <1>1 DEF Table
<1>2. CASE HostUpdatesRegions
  <2>1. PICK r \in HostRegions : add(r) \/ remove(r.start)
    BY <1>2 DEF HostUpdatesRegions, sbeUpdateMemAccessRegion
  <2>2. CASE add(r)
    <3>1. r \in Region /\ regions \in Seq(Region) /\ regions' = Append(regions, r)
          /\ Len(regions) < MaxRegions
      BY <2>2, RegionAssumption DEF add, Table
    <3> QED BY <3>1, RegionAssumption DEF Table
  <2>3. CASE remove(r.start)
    <3>1. PICK i \in DOMAIN regions : regions' = RemoveAt(regions, i)
      BY <2>3 DEF remove
    <3>2. regions \in Seq(Region) /\ Len(regions) \in Nat /\ i \in 1..Len(regions)
      BY DEF Table
    <3> DEFINE a == SubSeq(regions, 1, i - 1)
               b == SubSeq(regions, i + 1, Len(regions))
    <3>3. a \in Seq(Region) /\ Len(a) = i - 1
      BY <3>2
    <3>4. b \in Seq(Region) /\ Len(b) = Len(regions) - i
      BY <3>2
    <3>5. regions' = a \o b
      BY <3>1 DEF RemoveAt
    <3> HIDE DEF a, b
    <3>6. a \o b \in Seq(Region) /\ Len(a \o b) = Len(a) + Len(b)
      BY <3>3, <3>4, JoinAll
    <3>7. Len(regions') <= MaxRegions
      BY <3>2, <3>3, <3>4, <3>5, <3>6, RegionAssumption DEF Table
    <3> QED BY <3>5, <3>6, <3>7 DEF Table
  <2> QED BY <2>1, <2>2, <2>3
<1>3. CASE ChipOp
  BY <1>1, <1>3, ChipOpMoves DEF Moves, Drops, Ends
<1>4. CASE Receive \/ sbeUpFifoPerformReset \/ ServiceProcessor \/ Fault
  BY <1>1, <1>4 DEF Receive, sbeUpFifoPerformReset, Fault, ServiceProcessor, SpAsk, SpWrite, SpRead,
     SpReset, SpDrain, SpUnchanged
<1> QED BY <1>1, <1>2, <1>3, <1>4 DEF Next, Processor, vars

\* TypeOK for all values of the constants: the FIFOs stay within their depths,
\* whatever the SP and the chip-ops do; a dequeue never takes more words than its
\* buffer has room for (sbeUpFifoDeq_mult); the object's granule counters stay
\* within the grant (sbeMemAccessInterface); the table of regions stays within
\* its size (SecureMemRegionManager).
THEOREM TypeCorrect == Spec => []TypeOK
<1>1. Init => Table
  BY RegionAssumption DEF Init, Table
<1>2. Inv /\ Table /\ [Next]_vars => Table'
  BY TableNext DEF Inv
<1>3. Inv /\ KeptInv /\ Table => TypeOK
  <2> SUFFICES ASSUME Inv, KeptInv, Table PROVE TypeOK
    OBVIOUS
  <2>a. Wires /\ Ready /\ Kept(p, hw) /\ p \in Frames /\ hw \in Hardwares
    BY DEF Inv, Ready, KeptInv
  <2>1. \A i \in DOMAIN up : up[i][1] \in Word
    <3> SUFFICES ASSUME NEW i \in DOMAIN up PROVE up[i][1] \in Word
      OBVIOUS
    <3>1. up[i] \in UpWord
      BY <2>a DEF Wires, UpWords
    <3> QED BY <3>1, UpWordKinds DEF Word
  <2>2. \A i \in DOMAIN down : down[i][1] \in Word
    <3> SUFFICES ASSUME NEW i \in DOMAIN down PROVE down[i][1] \in Word
      OBVIOUS
    <3>1. down[i] \in DownWord \cup {<<"eot">>}
      BY <2>a DEF Wires
    <3> QED BY <3>1 DEF DownWord, Word
  <2>3. FifoTypeOK
    <3>1. Len(up) <= UpDepth /\ Len(down) <= DownDepth /\ reset \in BOOLEAN /\ faults \in 0..ScomFaults
      BY <2>a DEF Wires
    <3>2. p.fn \in {"none", "deq", "enq", "eot"} /\ p.rc \in Rc /\ p.status \in Status
          /\ p.fapi \in BOOLEAN /\ p.count \in Nat
      BY <2>a DEF Frames
    <3>3. (p.fn = "deq" => Len(p.buf) <= p.want) /\ (p.fn = "enq" => p.out # <<>>)
      BY <2>a DEF Ready, Calls
    <3> QED BY <2>1, <2>2, <3>1, <3>2, <3>3 DEF FifoTypeOK
  <2>4. req.op \in Ops
    BY <2>a, RequestTyped
  <2>5. Len(regions) <= MaxRegions /\ \A i \in DOMAIN regions : regions[i] \in Region
    BY DEF Table
  <2>6. hw.done \in Nat /\ hw.awake \subseteq ToSet(Cores) /\ hw.curr \in Nat
    BY <2>a DEF Hardwares
  <2>7. hw.max \in 0..MaxGranules /\ hw.curr \in 0..MaxGranules
    BY <2>a, <2>6, MemAssumption DEF Kept, Interface
  <2> QED BY <2>3, <2>4, <2>5, <2>6, <2>7 DEF TypeOK
<1> QED BY <1>1, <1>2, <1>3, KeptInvariance, PTL DEF Spec
=============================================================================
