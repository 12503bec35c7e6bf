------------------------ MODULE SbeChipOpsWorkProofs ------------------------
(***************************************************************************)
(* What a response that reports success vouches for.                       *)
(*                                                                         *)
(* Stage says, for each place of a chip-op, how much of its work has been  *)
(* done there if nothing has failed; Measured counts the words of the      *)
(* message that are still to come, so that a dequeue that met its end      *)
(* where it wanted to has judged the length; Vouched carries both over to  *)
(* the header, which is sent some words at a time.                         *)
(***************************************************************************)
EXTENDS SbeChipOpsDataProofs

----------------------------------------------------------------------------
(* A response that reports success: what has been done where a chip-op is  *)

ScomLabels == ScomOps \cup {"scom.check", "scom.read", "scom.write"}
RingLabels ==
    {"getring", "getring.setup", "getring.read", "getring.rotate", "getring.verify",
     "getring.reply"}
PutRingLabels == {"putring", "putring.payload", "putring.apply"}
TraceLabels == {"trace", "trace.target", "trace.row", "trace.reply"}
FastLabels == {"fastarray", "fastarray.target", "fastarray.run"}
InstLabels == {"cntlinst", "cntlinst.check"} \cup CoreLabels
IstepLabels == {"istep", "istep.run"}
NvdimmLabels == {"nvdimm", "nvdimm.stop", "nvdimm.flush"}
SimpleLabels == {"caps", "caps.send", "getffdc", "getffdc.send"}
QuiesceLabels == {"quiesce", "quiesce.suspend"}
AccessLabels == MemLabels \cup {"mem.tail", "mem.reply"}
MemOps == {"getmem", "putmem"}

\* n procedures have been done and none has failed.
Did(h, n) == ~h.failed /\ h.done = n

\* A success that is reported over a failure: see OkMeansDone.
Excused == req.op = "fastarray" \/ (req.op = "cntlinst" /\ Ignores)
Puts == {"putreg", "putmem", "putring"}

Accomplished(h) ==
    /\ ~Excused => Did(h, Work)
    /\ req.op \in Puts => Len(h.wrote) = Payload(req)
    /\ req.op = "putsram" => Len(h.wrote) = 2 * (req.len \div 8)

ScomStage(q, h) ==
    q.at \in ScomLabels =>
        /\ req.op \in ScomOps
        /\ q.at = "scom.read" => req.op # "putscom"
        /\ q.at = "scom.write" => req.op # "getscom"
        /\ Did(h, IF q.at = "scom.write" /\ req.op # "putscom" THEN 1 ELSE 0)

\* A word that could not be sent ends the loop of the registers early.
RegStage(q, h) ==
    q.at \in RegLabels =>
        /\ q.at \in {"reg", "reg.check", "reg.setup"} => Did(h, 0)
        /\ q.at = "reg.access" => Did(h, 1 + q.count)
        /\ q.at = "reg.cleanup" /\ (q.fn # "none" \/ q.rc = "OK") =>
              /\ Did(h, 1 + req.len)
              /\ req.op = "putreg" => Len(h.wrote) = 3 * req.len

RingStage(q, h) ==
    q.at \in RingLabels =>
        /\ req.op = "getring" /\ ~h.failed
        /\ q.at \in {"getring", "getring.setup"} => h.done = 0
        /\ q.at = "getring.read" => h.done \in 1..RingLoops
        /\ q.at = "getring.rotate" => h.done = RingLoops + 1
        /\ q.at = "getring.verify" => h.done = RingLoops + 2
        /\ q.at = "getring.reply" => h.done = RingLoops + 3

PutRingStage(q, h) ==
    q.at \in PutRingLabels =>
        /\ req.op = "putring" /\ Did(h, 0)
        /\ q.at = "putring.apply" => /\ q.fn = "deq" => q.want = req.len
                                     /\ q.fn # "deq" => Len(q.buf) = req.len

TraceStage(q, h) ==
    q.at \in TraceLabels =>
        /\ req.op = "trace" /\ ~h.failed
        /\ q.at \in {"trace", "trace.target"} => h.done = 0 /\ q.count = 0
        /\ q.at = "trace.row" => IF "dump" \in req.flags
                                 THEN q.count = 2 * h.done /\ h.done < TraceRows
                                 ELSE h.done = 0
        /\ q.at = "trace.reply" => h.done = IF "dump" \in req.flags THEN TraceRows ELSE 1

FastStage(q, h) == q.at \in FastLabels => req.op = "fastarray"

\* The loops over the cores, one behind the other.
CoresBefore(l) ==
    (IF "wakeup" \in req.flags /\ l # "cntlinst.wake" THEN Len(Targets) ELSE 0)
    + (IF l = "cntlinst.sleep" THEN Len(Targets) ELSE 0)

InstStage(q, h) ==
    q.at \in InstLabels =>
        /\ req.op = "cntlinst"
        /\ q.at = "cntlinst.wake" => "wakeup" \in req.flags
        /\ q.at \in {"cntlinst", "cntlinst.check"} => Ignores \/ Did(h, 0)
        /\ q.at \in CoreLabels => Ignores \/ Did(h, CoresBefore(q.at) + q.count)

OtherStage(q, h) ==
    /\ q.at \in IstepLabels => req.op = "istep" /\ Did(h, 0)
    /\ q.at \in QuiesceLabels => req.op = "quiesce" /\ Did(h, 0)
    /\ q.at \in NvdimmLabels => req.op = "nvdimm" /\ Did(h, IF q.at = "nvdimm.flush" THEN 1 ELSE 0)
    /\ q.at \in SimpleLabels => req.op \in {"caps", "getffdc"} /\ Did(h, 0)

\* A granule is one access, and has as many words as every other.
AccessStage(q, h) ==
    q.at \in AccessLabels =>
        /\ req.op \in MemOps /\ Did(h, q.count)
        /\ q.at \in {"mem", "mem.check"} => q.count = 0
        /\ q.count <= getDataLenCacheAlign
        /\ q.at \in {"mem.tail", "mem.reply"} => q.count = getDataLenCacheAlign
        /\ req.op = "putmem" =>
              /\ Len(h.wrote) = q.count * sizeMultiplier
              /\ q.at = "mem.access" => IF q.fn = "deq" THEN q.want = sizeMultiplier
                                        ELSE Len(q.buf) = sizeMultiplier
              /\ q.at = "mem.tail" => q.fn = "none" /\ q.buf = <<>>
              /\ q.at = "mem.reply" /\ q.fn # "deq" => Len(h.wrote) = Payload(req)
        /\ q.at = "mem.reply" /\ q.fn = "deq" => req.op = "putmem"

\* The passes of the granules, each of them full until the last.
SramSetup == IF "circular" \in req.flags THEN 0 ELSE 1
Passed(k, n) ==
    /\ k \in Nat /\ n <= k * SramGranule /\ k * SramGranule < n + SramGranule
    /\ n < req.len => n = k * SramGranule /\ n % 8 = 0

\* The words of n bytes that were not handed over: the last half block of the request.
Unwritten(n) == IF n < req.len THEN 0 ELSE HalfBlock(req.len)

SramStage(q, h) ==
    q.at \in SramLabels =>
        /\ ~h.failed
        /\ q.at \in {"sram", "sram.check"} => h.done = 0 /\ q.count = 0
        /\ q.at \notin {"sram", "sram.check"} => Passed(h.done - SramSetup, q.count)
        /\ q.count <= req.len
        /\ q.at \in {"sram.tail", "sram.reply"} => q.count = req.len
        /\ req.op = "putsram" =>
              /\ 4 * (Len(h.wrote) + Unwritten(q.count)) = q.count
              /\ q.at = "sram.access" => IF q.fn = "deq" THEN 4 * q.want = SramPass(q.count)
                                         ELSE 4 * Len(q.buf) = SramPass(q.count)
              /\ q.at = "sram.tail" => q.fn = "none" /\ q.buf = <<>>

HeaderStage(q, h) ==
    q.at = "header" => req.op \notin MemOps \cup SramOps /\ Accomplished(h)

Stage(q, h) ==
    /\ ScomStage(q, h) /\ RegStage(q, h) /\ RingStage(q, h) /\ PutRingStage(q, h)
    /\ TraceStage(q, h) /\ FastStage(q, h) /\ InstStage(q, h) /\ OtherStage(q, h)
    /\ AccessStage(q, h) /\ SramStage(q, h) /\ HeaderStage(q, h)

----------------------------------------------------------------------------
(* The length of the message *)

\* Where the first words of a message are taken, all of them or the request structure.
Firsts ==
    Structs \cup {"scom.check", "getring.setup", "trace.target", "fastarray.target",
                  "cntlinst.check", "istep.run", "nvdimm.stop", "caps.send", "getffdc.send",
                  "quiesce.suspend"}

\* Words taken and not handed over.
Lost(q) == IF q.at \in {"sram.tail", "sram.reply"} THEN HalfBlock(req.len) ELSE 0

\* Words taken before those in the buffer.
Past(q, h) == IF q.at \in Firsts THEN 0 ELSE ReqWords + Len(h.wrote) + Lost(q)

\* A dequeue that looks for the end of the message wants the rest of it.  A request
\* that is still good is not flushed, and the message of a quiesce has no words.
Wanted(q, h) ==
    q.fn = "deq" =>
        /\ q.flush => q.at \in Told
        /\ q.at = "quiesce.suspend" => q.extra = 0
        /\ q.eot /\ ~q.flush => IF q.at = "mem.reply" THEN q.want = 0
                               ELSE Past(q, h) + q.want = ArgWords(req) + Payload(req)

\* Behind it the message was as long as it should be.
Judged(q) ==
    q.fn # "deq" /\ ~AtOpen(q.at, req) /\ q.at \notin Told \cup {"idle"} => req.extra = 0

\* Where the words taken are counted, and their number.
Counts(q) ==
    /\ IsOpen(q, req) /\ ~(q.fn = "none" /\ q.at = "return")
    /\ q.fn = "deq" => ~q.flush /\ q.extra = 0
Total(q, h) == IF q.at \in Starts THEN 0 ELSE Past(q, h) + Len(q.buf)

Sound == ~reset /\ faults = 0

Progress == Sound /\ p.status = "OK" => Stage(p, hw) /\ Wanted(p, hw) /\ Judged(p)

Measured ==
    Sound /\ p.status = "OK" /\ Counts(p) =>
        /\ Rest(Stream, Total(p, hw))
        /\ Total(p, hw) + Len(Stream) = MessageWords(req) + 1

\* The message the SP has begun and the SBE has not.
Announced ==
    ~reset /\ ~Serves(p) /\ sp.busy /\ Whole(Stream) =>
        Len(Stream) = MessageWords(Stream[1][2]) + 2

\* What the header that was sent says.
Finished(q, h) ==
    /\ req.extra = 0 /\ Accomplished(h)
    /\ req.op = "putmem" /\ isPassThrough => h.bell \/ q.at = "mem.bell"

Vouched ==
    Sound => /\ Answering(p) => Headed(Sent, <<>>, Finished(p, hw))
             /\ At("response.done") /\ Response # <<>> =>
                   Headed(Response, <<<<"eot">>>>, Finished(p, hw))

\* Words the granules of a request of memory have.
GranuleWords(r) ==
    LET lines == IF r.len < 8 THEN 1 ELSE r.len \div 8
    IN  IF "pba" \in r.flags THEN (lines \div PbaLines) * (2 * PbaLines)
        ELSE lines * (IF r.len < 8 THEN 1 ELSE 2)

\* What is assumed of the requests whose message is too short or too long: sbeFifoQuiesce
\* does not look at the dequeue's return code, and a put to memory that is not of whole
\* granules is judged by its granules.
LengthsJudged ==
    \A r \in Requests : r.extra # 0 =>
        /\ MessageWords(r) >= 0 /\ r.op # "quiesce"
        /\ r.op = "putmem" => GranuleWords(r) = Payload(r)

WorkInv == Progress /\ Measured /\ Announced /\ Vouched

----------------------------------------------------------------------------
(* A step of a chip-op *)

\* What one starts from.
Runs ==
    /\ Ready /\ Given(p, hw) /\ Kept(p, hw)
    /\ p.status = "OK" => Stage(p, hw) /\ Judged(p)

\* The chip-op goes on, the words it has taken counted as before; it sends its
\* header; it gives up.
GoesOn ==
    /\ p'.at \notin Told \cup {"idle"} /\ p'.fn # "eot"
    /\ p'.status = "OK" =>
          /\ p.status = "OK"
          /\ Stage(p', hw') /\ Wanted(p', hw') /\ Judged(p')
          /\ Counts(p') => Counts(p) /\ Total(p', hw') = Total(p, hw)

Tells ==
    /\ p'.fn = "enq" /\ p'.at \in {"return", "mem.bell"}
    /\ Heads(p', Finished(p', hw'))

Works == GoesOn \/ Tells \/ GivesUp(p')

\* Every place is of one chip-op.
LEMMA OneStage ==
    ASSUME NEW q, NEW h
    PROVE  /\ q.at \in ScomLabels /\ ScomStage(q, h) => Stage(q, h)
           /\ q.at \in RegLabels /\ RegStage(q, h) => Stage(q, h)
           /\ q.at \in RingLabels /\ RingStage(q, h) => Stage(q, h)
           /\ q.at \in PutRingLabels /\ PutRingStage(q, h) => Stage(q, h)
           /\ q.at \in TraceLabels /\ TraceStage(q, h) => Stage(q, h)
           /\ q.at \in FastLabels /\ FastStage(q, h) => Stage(q, h)
           /\ q.at \in InstLabels /\ InstStage(q, h) => Stage(q, h)
           /\ q.at \in IstepLabels \cup QuiesceLabels \cup NvdimmLabels \cup SimpleLabels
              /\ OtherStage(q, h) => Stage(q, h)
           /\ q.at \in AccessLabels /\ AccessStage(q, h) => Stage(q, h)
           /\ q.at \in SramLabels /\ SramStage(q, h) => Stage(q, h)
           /\ HeaderStage(q, h) /\ q.at = "header" => Stage(q, h)
<1> DEFINE Others == IstepLabels \cup QuiesceLabels \cup NvdimmLabels \cup SimpleLabels
<1> USE DEF ScomLabels, ScomOps, RegLabels, RingLabels, PutRingLabels, TraceLabels, FastLabels,
            InstLabels, CoreLabels, IstepLabels, QuiesceLabels, NvdimmLabels, SimpleLabels,
            AccessLabels, MemLabels, SramLabels
<1>1. /\ q.at \notin ScomLabels => ScomStage(q, h)
      /\ q.at \notin RegLabels => RegStage(q, h)
      /\ q.at \notin RingLabels => RingStage(q, h)
      /\ q.at \notin PutRingLabels => PutRingStage(q, h)
      /\ q.at \notin TraceLabels => TraceStage(q, h)
      /\ q.at \notin FastLabels => FastStage(q, h)
      /\ q.at \notin InstLabels => InstStage(q, h)
      /\ q.at \notin Others => OtherStage(q, h)
      /\ q.at \notin AccessLabels => AccessStage(q, h)
      /\ q.at \notin SramLabels => SramStage(q, h)
      /\ q.at # "header" => HeaderStage(q, h)
  BY DEF ScomStage, RegStage, RingStage, PutRingStage, TraceStage, FastStage, InstStage, OtherStage,
         AccessStage, SramStage, HeaderStage
<1> QED BY <1>1 DEF Stage

LEMMA BadGoesOn ==
    ASSUME p'.at \notin Told \cup {"idle"}, p'.fn # "eot", p'.status # "OK" PROVE Works
  BY DEF Works, GoesOn

LEMMA ClosedOpen == ASSUME NEW l \in Closeds PROVE ~AtOpen(l, req)
  BY DEF Closeds, AtOpen

\* From one place behind the message to another.
LEMMA ClosedGoesOn ==
    ASSUME Runs, p.fn = "none", p.at \notin Told \cup {"idle"}, ~AtOpen(p.at, req),
           p'.fn \in {"none", "enq"}, p'.at \notin Told \cup {"idle"}, ~AtOpen(p'.at, req),
           p'.status = "OK" => p.status = "OK" /\ Stage(p', hw')
    PROVE  Works
<1>1. p.status = "OK" => req.extra = 0
  BY DEF Runs, Judged
<1>2. ~Counts(p')
  BY DEF Counts, IsOpen
<1> QED BY <1>1, <1>2 DEF Works, GoesOn, Judged, Wanted

LEMMA JumpFields ==
    ASSUME Ready, p.fn = "none"
    PROVE  /\ \A l : /\ To(l).at = l /\ To(l).fn = "none" /\ To(l).status = p.status
                     /\ To(l).count = p.count /\ To(l).rc = p.rc
                     /\ Failed(l).at = l /\ Failed(l).fn = "none" /\ Failed(l).status # "OK"
           /\ \A l, s : Refuses(l, s).at = l /\ Refuses(l, s).fn = "none" /\ Refuses(l, s).status = s
  BY DEF Ready, Frames, To, Failed, Refuses

LEMMA SendFields ==
    ASSUME NEW q \in Frames
    PROVE  \A l, b, w : /\ Enq(q, l, b, w).at = l /\ Enq(q, l, b, w).fn = "enq"
                        /\ Enq(q, l, b, w).status = q.status /\ Enq(q, l, b, w).count = q.count
  BY DEF Frames, Enq

LEMMA GoesDeq ==
    ASSUME NEW q \in Frames, NEW l, NEW b, NEW n, NEW eot, NEW flush,
           Goes(Deq(q, l, b, n, eot, flush))
    PROVE  /\ p'.fn = "deq" /\ p'.at = l /\ p'.want = n /\ p'.eot = eot /\ p'.flush = flush
           /\ p'.buf = <<>> /\ p'.extra = 0 /\ p'.count = q.count /\ p'.status = q.status
           /\ hw' = hw
  BY DEF Goes, Does, Deq, Frames

\* The words in the buffer, and with the hardware.
LEMMA LengthsTyped ==
    ASSUME Ready
    PROVE  /\ Len(p.buf) \in Nat /\ Len(hw.wrote) \in Nat /\ ReqWords \in Nat \ {0}
           /\ Len(<<>>) = 0 /\ hw.done \in Nat
<1>1. p.buf \in Buffers /\ hw.wrote \in Buffers /\ ReqWords \in Nat \ {0} /\ hw.done \in Nat
  BY MemAssumption DEF Ready, Frames, Hardwares
<1> QED BY <1>1 DEF Buffers

\* The first dequeue of a chip-op.
LEMMA FirstGoesOn ==
    ASSUME Runs, p.fn = "none", p.at \in Starts, NEW q \in Frames, q.status = p.status,
           NEW l \in Firsts, l \notin Told \cup {"idle"}, NEW b, NEW n, NEW eot,
           Goes(Deq(q, l, b, n, eot, FALSE)), p.status = "OK" => Stage(p', hw'),
           eot /\ p.status = "OK" => n = ArgWords(req) + Payload(req), n \in Nat
    PROVE  Works
<1>1. /\ p'.fn = "deq" /\ p'.at = l /\ p'.want = n /\ p'.eot = eot /\ ~p'.flush
      /\ p'.buf = <<>> /\ p'.extra = 0 /\ p'.status = p.status /\ hw' = hw
  BY DEF Goes, Does, Deq, Frames
<1>2. Past(p', hw') = 0
  BY <1>1 DEF Past
<1>3. l \notin Starts
  BY DEF Firsts, Structs, Starts, ScomOps
<1>4. Total(p', hw') = 0 /\ Total(p, hw) = 0
  BY <1>1, <1>2, <1>3 DEF Total
<1>5. Counts(p)
  BY DEF Counts, IsOpen, AtOpen, Starts, ScomOps
<1>6. l # "mem.reply"
  BY DEF Firsts, Structs
<1>7. p'.status = "OK" => Wanted(p', hw')
  BY <1>1, <1>2, <1>6 DEF Wanted
<1>8. Judged(p')
  BY <1>1 DEF Judged
<1> QED BY <1>1, <1>4, <1>5, <1>7, <1>8 DEF Works, GoesOn

\* A procedure: done, or failed.
OneMore ==
    hw'.done = hw.done + 1 /\ hw'.failed = hw.failed /\ hw'.wrote = hw.wrote
Fails(l) == p'.at = l /\ p'.fn = "none" /\ p'.status # "OK"

LEMMA DoneField ==
    ASSUME Ready, NEW q, Does(q, [hw EXCEPT !.done = @ + 1]) PROVE p' = q /\ OneMore
  BY DEF Ready, Hardwares, Does, OneMore

LEMMA HwpOutcome ==
    ASSUME Ready, p.fn = "none", NEW q, NEW l, Hwp(q, hw, l)
    PROVE  (p' = q /\ OneMore) \/ Fails(l)
<1>1. CASE Does(q, [hw EXCEPT !.done = @ + 1])
  BY <1>1, DoneField
<1>2. CASE Does(Failed(l), [hw EXCEPT !.failed = TRUE])
  BY <1>2, JumpFields DEF Does, Fails
<1> QED BY <1>1, <1>2 DEF Hwp

LEMMA FailsGoesOn == ASSUME NEW l, l \notin Told \cup {"idle"}, Fails(l) PROVE Works
  BY BadGoesOn DEF Fails

\* What is not the end of a chip-op.
Underway == Labels \ (Told \cup {"idle"})

LEMMA UnderwayLabels ==
    /\ ScomLabels \cup RegLabels \cup RingLabels \cup PutRingLabels \cup TraceLabels \cup FastLabels
       \cup InstLabels \cup IstepLabels \cup NvdimmLabels \cup SimpleLabels \cup QuiesceLabels
       \cup AccessLabels \cup SramLabels \cup {"header"} \subseteq Underway
    /\ \A l \in Underway : l \notin Told \cup {"idle"}
  BY DEF Underway, Labels, Starts, ScomOps, Told, ScomLabels, RegLabels, RingLabels, PutRingLabels,
         TraceLabels, FastLabels, InstLabels, CoreLabels, IstepLabels, NvdimmLabels, SimpleLabels,
         QuiesceLabels, AccessLabels, MemLabels, SramLabels

\* A chip-op sends its header, its work done.
LEMMA HeaderTells ==
    ASSUME Runs, p.fn = "none", p.at \notin Told \cup {"idle"}, ~AtOpen(p.at, req),
           NEW first \in DownWords, NoMagic(first), NEW l \in {"return", "mem.bell"},
           p.status = "OK" => Accomplished(hw) /\ (l = "return" => req.op # "putmem"),
           Goes(sbeDsSendRespHdr(p, first, l, p.status, p.fapi))
    PROVE  Works
<1>1. Answers(sbeDsSendRespHdr(p, first, l, p.status, p.fapi))
  BY HeaderAnswers DEF Runs
<1>2. p' = sbeDsSendRespHdr(p, first, l, p.status, p.fapi) /\ hw' = hw
  BY DEF Goes, Does
<1>3. p'.at = l
  BY <1>2, CallsAt DEF sbeDsSendRespHdr, Runs, Ready
<1>4. p.status = "OK" => Finished(p', hw')
  BY <1>2, <1>3 DEF Finished, Runs, Judged
<1>5. Heads(p', Finished(p', hw'))
  BY <1>1, <1>2, <1>4 DEF Answers, Heads
<1> QED BY <1>1, <1>2, <1>3, <1>5 DEF Works, Tells, Answers

\* A procedure behind the message.
LEMMA HwpWorks ==
    ASSUME Runs, p.fn = "none", p.at \in Underway, ~AtOpen(p.at, req),
           NEW q, q.fn \in {"none", "enq"}, q.at \in Underway, ~AtOpen(q.at, req), q.status = p.status,
           NEW l \in Underway, p.status = "OK" /\ p' = q /\ OneMore => Stage(p', hw'), Hwp(q, hw, l)
    PROVE  Works
<1>1. p.at \notin Told \cup {"idle"} /\ q.at \notin Told \cup {"idle"} /\ l \notin Told \cup {"idle"}
  BY DEF Underway
<1>2. CASE p' = q /\ OneMore
  BY <1>1, <1>2, ClosedGoesOn
<1>3. CASE Fails(l)
  BY <1>1, <1>3, FailsGoesOn
<1> QED BY <1>2, <1>3, HwpOutcome DEF Runs

\* A jump behind the message, and one that refuses the request.
LEMMA JumpWorks ==
    ASSUME Runs, p.fn = "none", p.at \in Underway, ~AtOpen(p.at, req),
           NEW q, q.fn \in {"none", "enq"}, q.at \in Underway, ~AtOpen(q.at, req),
           q.status = "OK" => p.status = "OK",
           q.status = "OK" /\ p' = q /\ hw' = hw => Stage(p', hw'), Goes(q)
    PROVE  Works
<1>1. p.at \notin Told \cup {"idle"} /\ q.at \notin Told \cup {"idle"}
  BY DEF Underway
<1>2. p' = q /\ hw' = hw
  BY DEF Goes, Does
<1> QED BY <1>1, <1>2, ClosedGoesOn

LEMMA ClosedUnderway ==
    /\ {"header", "scom.check", "scom.read", "scom.write", "getring.setup", "getring.read",
        "getring.rotate", "getring.verify", "getring.reply", "putring.apply", "trace.target",
        "trace.row", "trace.reply", "fastarray.target", "fastarray.run", "cntlinst.check",
        "cntlinst.wake", "cntlinst.thread", "cntlinst.sleep", "istep.run", "nvdimm.stop",
        "nvdimm.flush", "caps.send", "getffdc.send", "quiesce.suspend", "reg.setup", "reg.access",
        "reg.cleanup", "mem.loop", "mem.reply", "sram.loop", "sram.reply"} \subseteq Underway
    /\ \A l \in {"header", "scom.check", "scom.read", "scom.write", "getring.setup", "getring.read",
        "getring.rotate", "getring.verify", "getring.reply", "putring.apply", "trace.target",
        "trace.row", "trace.reply", "fastarray.target", "fastarray.run", "cntlinst.check",
        "cntlinst.wake", "cntlinst.thread", "cntlinst.sleep", "istep.run", "nvdimm.stop",
        "nvdimm.flush", "caps.send", "getffdc.send", "quiesce.suspend", "reg.setup", "reg.access",
        "reg.cleanup", "mem.loop", "mem.reply", "sram.loop", "sram.reply"} : ~AtOpen(l, req)
  BY DEF Underway, Labels, Starts, ScomOps, Told, AtOpen, PutLabels

----------------------------------------------------------------------------
(* The chip-ops, one after the other *)

LEMMA ScomWorks == ASSUME Runs, sbeScomAccess PROVE Works
<1>a. /\ Ready /\ p \in Frames /\ hw \in Hardwares /\ hw.done \in Nat /\ hw.failed \in BOOLEAN
      /\ p.fn = "none"
      /\ p.status = "OK" => ScomStage(p, hw)
  BY DEF Runs, Ready, Hardwares, Stage, sbeScomAccess, ScomRequest, ScomCheck, ScomRead, ScomWrite, At
<1>1. CASE ScomRequest
  <2>1. p.at \in ScomOps /\ Goes(Deq(p, "scom.check", "return", ReqWords, TRUE, FALSE))
    BY <1>1 DEF ScomRequest
  <2>2. p'.at = "scom.check" /\ hw' = hw
    BY <1>a, <2>1, GoesDeq
  <2>3. p.status = "OK" => ScomStage(p', hw') /\ req.op \in ScomOps
    BY <1>a, <2>1, <2>2 DEF ScomStage, ScomLabels, ScomOps, Did
  <2>4. p.status = "OK" => Stage(p', hw')
    BY <2>2, <2>3, OneStage DEF ScomLabels
  <2>5. "scom.check" \in Firsts /\ "scom.check" \notin Told \cup {"idle"} /\ p.at \in Starts
    BY <2>1 DEF Firsts, Told, Starts
  <2>6. p.status = "OK" => ReqWords = ArgWords(req) + Payload(req)
    BY <2>3, MemAssumption DEF ArgWords, Payload, ScomOps
  <2>7. ReqWords \in Nat
    BY MemAssumption
  <2> QED BY <1>a, <2>1, <2>4, <2>5, <2>6, <2>7, FirstGoesOn
<1>2. CASE ScomCheck
  <2>1. p.at = "scom.check"
    BY <1>2 DEF ScomCheck, At
  <2>2. CASE Goes(Refuses("header", "INVALID_DATA"))
    BY <1>a, <2>1, <2>2, JumpFields, ClosedUnderway, JumpWorks
  <2>3. CASE Goes(To(IF req.op = "putscom" THEN "scom.write" ELSE "scom.read"))
    <3> DEFINE l == IF req.op = "putscom" THEN "scom.write" ELSE "scom.read"
    <3>1. To(l).at = l /\ To(l).fn = "none" /\ To(l).status = p.status
      BY <1>a, JumpFields
    <3>2. ASSUME p.status = "OK", p' = To(l), hw' = hw PROVE Stage(p', hw')
      <4>1. ScomStage(p', hw')
        BY <1>a, <2>1, <3>1, <3>2 DEF ScomStage, ScomLabels, ScomOps, Did
      <4> QED BY <3>1, <3>2, <4>1, OneStage DEF ScomLabels
    <3>3. l \in Underway /\ ~AtOpen(l, req)
      BY ClosedUnderway
    <3> HIDE DEF l
    <3> QED BY <2>1, <1>a, <2>3, <3>1, <3>2, <3>3, ClosedUnderway, JumpWorks DEF l
  <2> QED BY <1>2, <2>2, <2>3 DEF ScomCheck
<1>3. ASSUME p.at \in {"scom.read", "scom.write"}, NEW q, q.fn \in {"none", "enq"},
             q.at \in {"header", "scom.write"}, q.status = p.status,
             p.status = "OK" /\ p' = q /\ OneMore => Stage(p', hw'), checkIndirectAndDoScom(q)
      PROVE  Works
  <2>1. CASE Does(q, [hw EXCEPT !.done = @ + 1])
    <3>1. p' = q /\ OneMore
      BY <1>a, <2>1, DoneField
    <3> QED BY <1>3, <1>a, <3>1, ClosedUnderway, ClosedGoesOn DEF Underway
  <2>2. CASE \E status \in {"USER_ERROR", "ACCESS_DENIED", "EXECUTION_FAILURE"} :
                Does(Refuses("header", status), [hw EXCEPT !.failed = TRUE])
    <3>1. Fails("header")
      BY <1>a, <2>2, JumpFields DEF Does, Fails
    <3> QED BY <3>1, FailsGoesOn DEF Told
  <2>3. CASE Does(Failed("header"), [hw EXCEPT !.failed = TRUE])
    <3>1. Fails("header")
      BY <1>a, <2>3, JumpFields DEF Does, Fails
    <3> QED BY <3>1, FailsGoesOn DEF Told
  <2> QED BY <1>3, <2>1, <2>2, <2>3 DEF checkIndirectAndDoScom
<1>4. ASSUME p.at \in {"scom.read", "scom.write"}, p.status = "OK", OneMore, p'.at = "header",
             p.at = "scom.read" => req.op = "getscom"
      PROVE  Stage(p', hw')
  <2>a. /\ req.op \in ScomOps /\ ~hw'.failed
        /\ hw'.done = IF req.op \in {"getscom", "putscom"} THEN 1 ELSE 2
    BY <1>4, <1>a DEF ScomStage, ScomLabels, ScomOps, Did, OneMore
  <2>b. Work = IF req.op \in {"getscom", "putscom"} THEN 1 ELSE 2
    BY <2>a DEF ScomOps, Work
  <2>1. req.op \in ScomOps /\ Did(hw', Work)
    BY <2>a, <2>b DEF Did
  <2>2. HeaderStage(p', hw')
    BY <2>1 DEF HeaderStage, Accomplished, Puts, MemOps, SramOps, ScomOps
  <2> QED BY <1>4, <2>2, OneStage
<1>5. CASE ScomRead
  <2>1. p.at = "scom.read"
    BY <1>5 DEF ScomRead, At
  <2>2. CASE req.op = "getscom"
    <3> DEFINE q == Enq(p, "header", "return", Data(0, 2))
    <3>1. q.fn = "enq" /\ q.at = "header" /\ q.status = p.status
      BY <1>a, SendFields
    <3>2. checkIndirectAndDoScom(q)
      BY <1>5, <2>2 DEF ScomRead
    <3> HIDE DEF q
    <3> QED BY <1>3, <1>4, <2>1, <2>2, <3>1, <3>2
  <2>3. CASE req.op # "getscom"
    <3> DEFINE q == To("scom.write")
    <3>1. q.fn = "none" /\ q.at = "scom.write" /\ q.status = p.status
      BY <1>a, JumpFields
    <3>2. checkIndirectAndDoScom(q)
      BY <1>5, <2>3 DEF ScomRead
    <3> HIDE DEF q
    <3>3. ASSUME p.status = "OK", p' = q, OneMore PROVE Stage(p', hw')
      <4>1. ScomStage(p', hw')
        BY <1>a, <2>1, <2>3, <3>1, <3>3 DEF ScomStage, ScomLabels, ScomOps, Did, OneMore
      <4> QED BY <3>1, <3>3, <4>1, OneStage DEF ScomLabels
    <3> QED BY <1>3, <2>1, <3>1, <3>2, <3>3
  <2> QED BY <2>2, <2>3
<1>6. CASE ScomWrite
  <2> DEFINE q == To("header")
  <2>1. p.at = "scom.write" /\ checkIndirectAndDoScom(q)
    BY <1>6 DEF ScomWrite, At
  <2>2. q.fn = "none" /\ q.at = "header" /\ q.status = p.status
    BY <1>a, JumpFields
  <2> HIDE DEF q
  <2> QED BY <1>3, <1>4, <2>1, <2>2
<1> QED BY <1>1, <1>2, <1>5, <1>6 DEF sbeScomAccess

\* A chip-op that takes all of its message at once.
LEMMA RequestWorks ==
    ASSUME Runs, p.fn = "none", p.at \in Starts, NEW l \in Firsts, l \notin Told \cup {"idle"}, NEW b,
           NEW n \in Nat, NEW eot, Goes(Deq(p, l, b, n, eot, FALSE)),
           p.status = "OK" /\ p'.at = l /\ p'.count = p.count /\ hw' = hw => Stage(p', hw'),
           eot /\ p.status = "OK" => n = ArgWords(req) + Payload(req)
    PROVE  Works
<1>1. p \in Frames
  BY DEF Runs, Ready
<1>2. p'.at = l /\ p'.count = p.count /\ hw' = hw
  BY <1>1 DEF Goes, Does, Deq, Frames
<1>3. p.status = "OK" => Stage(p', hw')
  BY <1>2
<1> QED BY <1>1, <1>3, FirstGoesOn

LEMMA OtherDoneWorks ==
    ASSUME p.status = "OK" => req.op \in {"istep", "nvdimm", "caps", "getffdc", "quiesce"}
                              /\ Did(hw', Work),
           p.status = "OK", p'.at = "header"
    PROVE  Stage(p', hw')
<1>1. HeaderStage(p', hw')
  BY DEF HeaderStage, Accomplished, Puts, MemOps, SramOps
<1> QED BY <1>1, OneStage

LEMMA SimpleWorks == ASSUME Runs, sbeGetCapabilities \/ sbeGetFfdc PROVE Works
<1>a. /\ Ready /\ p \in Frames /\ hw \in Hardwares /\ p.fn = "none"
      /\ p.status = "OK" => OtherStage(p, hw)
  BY DEF Runs, Ready, Stage, sbeGetCapabilities, Caps, CapsSend, sbeGetFfdc, GetFfdc, GetFfdcSend, At
<1>1. CASE Caps \/ GetFfdc
  <2>1. PICK l \in {"caps.send", "getffdc.send"} :
           p.at \in {"caps", "getffdc"} /\ Goes(Deq(p, l, "return", 0, TRUE, FALSE))
    BY <1>1 DEF Caps, GetFfdc, At
  <2>2. p.status = "OK" => req.op \in {"caps", "getffdc"} /\ Did(hw, 0)
    BY <1>a, <2>1 DEF OtherStage, SimpleLabels
  <2>3. ASSUME p.status = "OK", p'.at = l, hw' = hw PROVE Stage(p', hw')
    <3>1. p'.at \in SimpleLabels
      BY <2>3 DEF SimpleLabels
    <3>2. OtherStage(p', hw')
      BY <2>2, <2>3 DEF OtherStage, IstepLabels, QuiesceLabels, NvdimmLabels
    <3> QED BY <3>1, <3>2, OneStage
  <2>4. l \in Firsts /\ l \notin Told \cup {"idle"} /\ p.at \in Starts
    BY <2>1 DEF Firsts, Told, Starts
  <2>5. p.status = "OK" => 0 = ArgWords(req) + Payload(req)
    BY <2>2 DEF ArgWords, Payload
  <2> QED BY <1>a, <2>1, <2>3, <2>4, <2>5, RequestWorks
<1>2. CASE CapsSend \/ GetFfdcSend
  <2>1. PICK w : p.at \in {"caps.send", "getffdc.send"} /\ Goes(Enq(p, "header", "return", w))
    BY <1>2 DEF CapsSend, GetFfdcSend, At
  <2> DEFINE q == Enq(p, "header", "return", w)
  <2>2. q.fn = "enq" /\ q.at = "header" /\ q.status = p.status
    BY <1>a, SendFields
  <2>3. Goes(q)
    BY <2>1
  <2> HIDE DEF q
  <2>4. p.status = "OK" => req.op \in {"caps", "getffdc"} /\ Did(hw, 0)
    BY <1>a, <2>1 DEF OtherStage, SimpleLabels
  <2>5. p.status = "OK" => Did(hw, Work)
    BY <2>4 DEF Work
  <2>6. ASSUME q.status = "OK", p' = q, hw' = hw PROVE Stage(p', hw')
    BY <2>2, <2>4, <2>5, <2>6, OtherDoneWorks
  <2> QED BY <1>a, <2>1, <2>2, <2>3, <2>6, ClosedUnderway, JumpWorks
<1> QED BY <1>1, <1>2 DEF sbeGetCapabilities, sbeGetFfdc

LEMMA QuiesceWorks == ASSUME Runs, sbeFifoQuiesce PROVE Works
<1>a. /\ Ready /\ p \in Frames /\ hw \in Hardwares /\ hw.done \in Nat /\ p.fn = "none"
      /\ p.status = "OK" => OtherStage(p, hw)
  BY DEF Runs, Ready, Hardwares, Stage, sbeFifoQuiesce, Quiesce, QuiesceSuspend, At
<1>1. CASE Quiesce
  <2>1. p.at = "quiesce" /\ Goes(Deq(p, "quiesce.suspend", "header", 0, TRUE, FALSE))
    BY <1>1 DEF Quiesce, At
  <2>2. p.status = "OK" => req.op = "quiesce" /\ Did(hw, 0)
    BY <1>a, <2>1 DEF OtherStage, QuiesceLabels
  <2>3. ASSUME p.status = "OK", p'.at = "quiesce.suspend", hw' = hw PROVE Stage(p', hw')
    <3>1. p'.at \in QuiesceLabels
      BY <2>3 DEF QuiesceLabels
    <3>2. OtherStage(p', hw')
      BY <2>2, <2>3 DEF OtherStage, IstepLabels, SimpleLabels, NvdimmLabels
    <3> QED BY <3>1, <3>2, OneStage
  <2>4. "quiesce.suspend" \in Firsts /\ "quiesce.suspend" \notin Told \cup {"idle"} /\ p.at \in Starts
    BY <2>1 DEF Firsts, Told, Starts
  <2>5. p.status = "OK" => 0 = ArgWords(req) + Payload(req)
    BY <2>2 DEF ArgWords, Payload
  <2> QED BY <1>a, <2>1, <2>3, <2>4, <2>5, RequestWorks
<1>2. CASE QuiesceSuspend
  <2>1. p.at = "quiesce.suspend"
    BY <1>2 DEF QuiesceSuspend, At
  <2>2. CASE Does(To("header"), [hw EXCEPT !.done = @ + 1])
    <3>1. p' = To("header") /\ OneMore
      BY <1>a, <2>2, DoneField
    <3>2. p'.at = "header" /\ p'.fn = "none" /\ p'.status = p.status
      BY <1>a, <3>1, JumpFields
    <3>3. p.status = "OK" => req.op = "quiesce" /\ Did(hw', 1)
      BY <1>a, <2>1, <3>1 DEF OtherStage, QuiesceLabels, OneMore, Did
    <3>4. p.status = "OK" => Stage(p', hw')
      BY <3>2, <3>3, OtherDoneWorks DEF Work
    <3> QED BY <1>a, <2>1, <3>2, <3>4, ClosedUnderway, ClosedGoesOn DEF Told
  <2>3. CASE Does(Refuses("header", "EXECUTION_FAILURE"), [hw EXCEPT !.failed = TRUE])
    <3>1. Fails("header")
      BY <1>a, <2>3, JumpFields DEF Does, Fails
    <3> QED BY <3>1, FailsGoesOn DEF Told
  <2> QED BY <1>2, <2>2, <2>3 DEF QuiesceSuspend
<1> QED BY <1>1, <1>2 DEF sbeFifoQuiesce

LEMMA IstepWorks == ASSUME Runs, Istep \/ IstepRun PROVE Works
<1>a. /\ Ready /\ p \in Frames /\ hw \in Hardwares /\ hw.done \in Nat /\ p.fn = "none"
      /\ p.status = "OK" => OtherStage(p, hw)
  BY DEF Runs, Ready, Hardwares, Stage, Istep, IstepRun, At
<1>1. CASE Istep
  <2>1. p.at = "istep" /\ Goes(Deq(p, "istep.run", "return", ReqWords, TRUE, FALSE))
    BY <1>1 DEF Istep, At
  <2>2. p.status = "OK" => req.op = "istep" /\ Did(hw, 0)
    BY <1>a, <2>1 DEF OtherStage, IstepLabels
  <2>3. ASSUME p.status = "OK", p'.at = "istep.run", hw' = hw PROVE Stage(p', hw')
    <3>1. p'.at \in IstepLabels
      BY <2>3 DEF IstepLabels
    <3>2. OtherStage(p', hw')
      BY <2>2, <2>3 DEF OtherStage, QuiesceLabels, SimpleLabels, NvdimmLabels
    <3> QED BY <3>1, <3>2, OneStage
  <2>4. "istep.run" \in Firsts /\ "istep.run" \notin Told \cup {"idle"} /\ p.at \in Starts
    BY <2>1 DEF Firsts, Told, Starts
  <2>5. ReqWords \in Nat /\ (p.status = "OK" => ReqWords = ArgWords(req) + Payload(req))
    BY <2>2, MemAssumption DEF ArgWords, Payload
  <2> QED BY <1>a, <2>1, <2>3, <2>4, <2>5, RequestWorks
<1>2. CASE IstepRun
  <2>1. p.at = "istep.run"
    BY <1>2 DEF IstepRun, At
  <2>2. CASE Goes(Refuses("header", "INVALID_DATA"))
    BY <1>a, <2>1, <2>2, JumpFields, ClosedUnderway, JumpWorks
  <2>3. CASE Hwp(To("header"), hw, "header")
    <3> DEFINE q == To("header")
    <3>1. q.at = "header" /\ q.fn = "none" /\ q.status = p.status
      BY <1>a, JumpFields
    <3> HIDE DEF q
    <3>2. ASSUME p.status = "OK", p' = q, OneMore PROVE Stage(p', hw')
      <4>1. req.op = "istep" /\ Did(hw', 1)
        BY <1>a, <2>1, <3>2 DEF OtherStage, IstepLabels, OneMore, Did
      <4> QED BY <3>1, <3>2, <4>1, OtherDoneWorks DEF Work
    <3> QED BY <1>a, <2>1, <2>3, <3>1, <3>2, ClosedUnderway, HwpWorks DEF q
  <2>4. CASE Does(Refuses("header", "EXECUTION_FAILURE"), [hw EXCEPT !.failed = TRUE])
    <3>1. Fails("header")
      BY <1>a, <2>4, JumpFields DEF Does, Fails
    <3> QED BY <3>1, FailsGoesOn DEF Told
  <2> QED BY <1>2, <2>2, <2>3, <2>4 DEF IstepRun
<1> QED BY <1>1, <1>2

LEMMA NvdimmWorks == ASSUME Runs, sbeHandleFlushNVDIMM PROVE Works
<1>a. /\ Ready /\ p \in Frames /\ hw \in Hardwares /\ hw.done \in Nat /\ p.fn = "none"
      /\ p.status = "OK" => OtherStage(p, hw)
  BY DEF Runs, Ready, Hardwares, Stage, sbeHandleFlushNVDIMM, Nvdimm, NvdimmStop, NvdimmFlush, At
<1>0. ASSUME p'.at \in NvdimmLabels, req.op = "nvdimm", Did(hw', IF p'.at = "nvdimm.flush" THEN 1 ELSE 0)
      PROVE  Stage(p', hw')
  <2>1. OtherStage(p', hw')
    BY <1>0 DEF OtherStage, IstepLabels, QuiesceLabels, SimpleLabels, NvdimmLabels
  <2> QED BY <1>0, <2>1, OneStage
<1>1. CASE Nvdimm
  <2>1. p.at = "nvdimm" /\ Goes(Deq(p, "nvdimm.stop", "return", 0, TRUE, FALSE))
    BY <1>1 DEF Nvdimm, At
  <2>2. p.status = "OK" => req.op = "nvdimm" /\ Did(hw, 0)
    BY <1>a, <2>1 DEF OtherStage, NvdimmLabels
  <2>3. ASSUME p.status = "OK", p'.at = "nvdimm.stop", hw' = hw PROVE Stage(p', hw')
    BY <1>0, <2>2, <2>3 DEF NvdimmLabels
  <2>4. "nvdimm.stop" \in Firsts /\ "nvdimm.stop" \notin Told \cup {"idle"} /\ p.at \in Starts
    BY <2>1 DEF Firsts, Told, Starts
  <2>5. p.status = "OK" => 0 = ArgWords(req) + Payload(req)
    BY <2>2 DEF ArgWords, Payload
  <2> QED BY <1>a, <2>1, <2>3, <2>4, <2>5, RequestWorks
<1>2. CASE NvdimmStop
  <2> DEFINE q == To("nvdimm.flush")
  <2>1. p.at = "nvdimm.stop" /\ Hwp(q, hw, "header")
    BY <1>2 DEF NvdimmStop, At
  <2>2. q.at = "nvdimm.flush" /\ q.fn = "none" /\ q.status = p.status
    BY <1>a, JumpFields
  <2> HIDE DEF q
  <2>3. ASSUME p.status = "OK", p' = q, OneMore PROVE Stage(p', hw')
    <3>1. req.op = "nvdimm" /\ Did(hw', 1)
      BY <1>a, <2>1, <2>3 DEF OtherStage, NvdimmLabels, OneMore, Did
    <3> QED BY <1>0, <2>2, <2>3, <3>1 DEF NvdimmLabels
  <2> QED BY <1>a, <2>1, <2>2, <2>3, ClosedUnderway, HwpWorks
<1>3. CASE NvdimmFlush
  <2> DEFINE q == To("header")
  <2>1. p.at = "nvdimm.flush" /\ Hwp(q, hw, "header")
    BY <1>3 DEF NvdimmFlush, At
  <2>2. q.at = "header" /\ q.fn = "none" /\ q.status = p.status
    BY <1>a, JumpFields
  <2> HIDE DEF q
  <2>3. ASSUME p.status = "OK", p' = q, OneMore PROVE Stage(p', hw')
    <3>1. req.op = "nvdimm" /\ Did(hw', 2)
      BY <1>a, <2>1, <2>3 DEF OtherStage, NvdimmLabels, OneMore, Did
    <3> QED BY <2>2, <2>3, <3>1, OtherDoneWorks DEF Work
  <2> QED BY <1>a, <2>1, <2>2, <2>3, ClosedUnderway, HwpWorks
<1> QED BY <1>1, <1>2, <1>3 DEF sbeHandleFlushNVDIMM

LEMMA SendHeaderWorks == ASSUME Runs, SendHeader PROVE Works
<1>1. p.fn = "none" /\ p.at = "header" /\ Goes(sbeDsSendRespHdr(p, <<>>, "return", p.status, p.fapi))
  BY DEF SendHeader, At, Header
<1>2. <<>> \in DownWords /\ NoMagic(<<>>)
  BY EmptyTyped DEF NoMagic
<1>3. p.status = "OK" => Accomplished(hw) /\ req.op # "putmem"
  BY <1>1 DEF Runs, Stage, HeaderStage, MemOps
<1>4. p.at \notin Told \cup {"idle"} /\ ~AtOpen(p.at, req)
  BY <1>1, ClosedUnderway DEF Told
<1> QED BY <1>1, <1>2, <1>3, <1>4, HeaderTells

LEMMA LenTells ==
    ASSUME Runs, p.fn = "none", p.at \notin Told \cup {"idle"}, ~AtOpen(p.at, req), NEW n \in Int,
           NEW l \in {"return", "mem.bell"},
           p.status = "OK" => Accomplished(hw) /\ (l = "return" => req.op # "putmem"),
           Goes(sbeDsSendRespHdr(p, <<<<"len", n>>>>, l, p.status, p.fapi))
    PROVE  Works
<1>1. <<<<"len", n>>>> \in DownWords /\ NoMagic(<<<<"len", n>>>>)
  BY LenTyped DEF NoMagic
<1> QED BY <1>1, HeaderTells

LEMMA GetRingWorks == ASSUME Runs, sbeGetRing PROVE Works
<1>a. /\ Ready /\ p \in Frames /\ p.count \in Nat /\ hw.done \in Nat /\ p.fn = "none"
      /\ p.status = "OK" => RingStage(p, hw)
  BY DEF Runs, Ready, Frames, Hardwares, Stage, sbeGetRing, GetRing, GetRingSetup, GetRingRead,
         GetRingRotate, GetRingVerify, GetRingReply, At
<1>b. RingLoops \in Nat /\ RingGranules = hw.done - 1 /\ RingShift \in Nat
  BY <1>a, RingTyped DEF RingGranules
<1> HIDE DEF RingLoops, RingGranules, RingShift
<1>0. ASSUME p'.at \in {"getring.setup", "getring.read", "getring.rotate", "getring.verify", "getring.reply"},
             RingStage(p', hw')
      PROVE  Stage(p', hw')
  BY <1>0, OneStage DEF RingLabels
<1>1. CASE GetRing
  <2> DEFINE q == [p EXCEPT !.count = GETRING_GRANULE]
  <2>1. p.at = "getring" /\ Goes(Deq(q, "getring.setup", "return", ReqWords, TRUE, FALSE))
    BY <1>1 DEF GetRing, At
  <2>2. q \in Frames /\ q.status = p.status
    BY <1>a DEF Frames, GETRING_GRANULE
  <2> HIDE DEF q
  <2>3. p'.at = "getring.setup" /\ hw' = hw
    BY <2>1, <2>2, GoesDeq
  <2>4. p.status = "OK" => RingStage(p', hw') /\ req.op = "getring"
    BY <1>a, <2>1, <2>3 DEF RingStage, RingLabels
  <2>5. p.status = "OK" => Stage(p', hw')
    BY <1>0, <2>3, <2>4
  <2>6. "getring.setup" \in Firsts /\ "getring.setup" \notin Told \cup {"idle"} /\ p.at \in Starts
    BY <2>1 DEF Firsts, Told, Starts
  <2>7. ReqWords \in Nat /\ (p.status = "OK" => ReqWords = ArgWords(req) + Payload(req))
    BY <2>4, MemAssumption DEF ArgWords, Payload
  <2> QED BY <1>a, <2>1, <2>2, <2>5, <2>6, <2>7, FirstGoesOn
<1>2. CASE GetRingSetup \/ GetRingRotate \/ GetRingVerify
  <2>1. PICK l \in {"getring.read", "getring.rotate", "getring.verify", "getring.reply"} :
           /\ Hwp(To(l), hw, "getring.reply")
           /\ \/ p.at = "getring.setup" /\ l = IF RingLoops > 0 THEN "getring.read" ELSE "getring.rotate"
              \/ p.at = "getring.rotate" /\ l = "getring.verify"
              \/ p.at = "getring.verify" /\ l = "getring.reply"
    BY <1>2 DEF GetRingSetup, GetRingRotate, GetRingVerify, At
  <2> DEFINE q == To(l)
  <2>2. q.at = l /\ q.fn = "none" /\ q.status = p.status
    BY <1>a, JumpFields
  <2>3. Hwp(q, hw, "getring.reply")
    BY <2>1
  <2> HIDE DEF q
  <2>4. ASSUME p.status = "OK", p' = q, OneMore PROVE Stage(p', hw')
    <3>1. RingStage(p', hw')
      BY <1>a, <1>b, <2>1, <2>2, <2>4 DEF RingStage, RingLabels, OneMore
    <3> QED BY <1>0, <2>1, <2>2, <2>4, <3>1
  <2>5. p.at \in Underway /\ ~AtOpen(p.at, req) /\ l \in Underway /\ ~AtOpen(l, req)
    BY <2>1, ClosedUnderway
  <2> QED BY <1>a, <2>2, <2>3, <2>4, <2>5, ClosedUnderway, HwpWorks
<1>3. CASE GetRingRead
  <2> DEFINE c == [p EXCEPT !.count = p.count + RingShift]
             l == IF RingGranules + 1 < RingLoops THEN "getring.read" ELSE "getring.rotate"
             q == Enq(c, l, "return", Data(RingGranules, 2))
  <2>1. p.at = "getring.read" /\ Hwp(q, hw, "getring.reply")
    BY <1>3, <1>a DEF GetRingRead, At, Frames
  <2>2. c \in Frames /\ c.status = p.status
    BY <1>a, <1>b DEF Frames
  <2>3. l \in {"getring.read", "getring.rotate"} /\ (l = "getring.read" <=> RingGranules + 1 < RingLoops)
    OBVIOUS
  <2> HIDE DEF c, l
  <2>4. q.at = l /\ q.fn = "enq" /\ q.status = p.status
    BY <2>2, SendFields
  <2> HIDE DEF q
  <2>5. ASSUME p.status = "OK", p' = q, OneMore PROVE Stage(p', hw')
    <3>1. RingStage(p', hw')
      BY <1>a, <1>b, <2>1, <2>3, <2>4, <2>5 DEF RingStage, RingLabels, OneMore
    <3> QED BY <1>0, <2>3, <2>4, <2>5, <3>1
  <2>6. l \in Underway /\ ~AtOpen(l, req)
    BY <2>3, ClosedUnderway
  <2> QED BY <1>a, <2>1, <2>4, <2>5, <2>6, ClosedUnderway, HwpWorks
<1>4. CASE GetRingReply
  <2>1. /\ p.at = "getring.reply"
        /\ Goes(sbeDsSendRespHdr(p, <<<<"len", p.count>>>>, "return", p.status, p.fapi))
    BY <1>4 DEF GetRingReply, At, Header
  <2>2. p.status = "OK" => req.op = "getring" /\ Did(hw, RingLoops + 3)
    BY <1>a, <2>1 DEF RingStage, RingLabels, Did
  <2>3. req.op = "getring" => Work = RingLoops + 3
    BY DEF Work
  <2>4. p.status = "OK" => Accomplished(hw) /\ req.op # "putmem"
    BY <2>2, <2>3 DEF Accomplished, Puts
  <2>5. p.at \notin Told \cup {"idle"} /\ ~AtOpen(p.at, req)
    BY <2>1, ClosedUnderway DEF Told
  <2> QED BY <1>a, <2>1, <2>4, <2>5, LenTells
<1> QED BY <1>1, <1>2, <1>3, <1>4 DEF sbeGetRing

LEMMA TraceWorks == ASSUME Runs, sbeControlTraceArray PROVE Works
<1>a. /\ Ready /\ p \in Frames /\ p.count \in Nat /\ hw.done \in Nat /\ p.fn = "none"
      /\ p.status = "OK" => TraceStage(p, hw)
  BY DEF Runs, Ready, Frames, Hardwares, Stage, sbeControlTraceArray, TraceArray, TraceTarget,
         TraceRow, TraceReply, At
<1>b. TraceRows \in Nat /\ TraceRows > 0
  BY RequestAssumption
<1>0. ASSUME p'.at \in {"trace.target", "trace.row", "trace.reply"}, TraceStage(p', hw')
      PROVE  Stage(p', hw')
  BY <1>0, OneStage DEF TraceLabels
<1>1. CASE TraceArray
  <2>1. p.at = "trace" /\ Goes(Deq(p, "trace.target", "return", ReqWords, TRUE, FALSE))
    BY <1>1 DEF TraceArray, At
  <2>2. p.status = "OK" => req.op = "trace" /\ Did(hw, 0) /\ p.count = 0
    BY <1>a, <2>1 DEF TraceStage, TraceLabels, Did
  <2>3. ASSUME p.status = "OK", p'.at = "trace.target", p'.count = p.count, hw' = hw PROVE Stage(p', hw')
    <3>1. TraceStage(p', hw')
      BY <2>2, <2>3 DEF TraceStage, Did
    <3> QED BY <1>0, <2>3, <3>1
  <2>4. "trace.target" \in Firsts /\ "trace.target" \notin Told \cup {"idle"} /\ p.at \in Starts
    BY <2>1 DEF Firsts, Told, Starts
  <2>5. ReqWords \in Nat /\ (p.status = "OK" => ReqWords = ArgWords(req) + Payload(req))
    BY <2>2, MemAssumption DEF ArgWords, Payload
  <2> QED BY <1>a, <2>1, <2>3, <2>4, <2>5, RequestWorks
<1>2. CASE TraceTarget
  <2>1. p.at = "trace.target"
    BY <1>2 DEF TraceTarget, At
  <2>2. CASE Goes(Refuses("trace.reply", "INVALID_DATA"))
    BY <1>a, <2>1, <2>2, JumpFields, ClosedUnderway, JumpWorks
  <2>3. CASE Goes(To("trace.row"))
    <3> DEFINE q == To("trace.row")
    <3>1. q.at = "trace.row" /\ q.fn = "none" /\ q.status = p.status /\ q.count = p.count
      BY <1>a, JumpFields
    <3> HIDE DEF q
    <3>2. ASSUME q.status = "OK", p' = q, hw' = hw PROVE Stage(p', hw')
      <4>1. TraceStage(p', hw')
        BY <1>a, <1>b, <2>1, <3>1, <3>2 DEF TraceStage, TraceLabels
      <4> QED BY <1>0, <3>1, <3>2, <4>1
    <3> QED BY <1>a, <2>1, <2>3, <3>1, <3>2, ClosedUnderway, JumpWorks DEF q
  <2> QED BY <1>2, <2>2, <2>3 DEF TraceTarget, Target
<1>3. CASE TraceRow
  <2> DEFINE n == p.count + 2
             l == IF n < TraceRows * 2 THEN "trace.row" ELSE "trace.reply"
             c == [p EXCEPT !.count = n]
             w == Data(p.count \div 2, 2)
             q == Enq(c, l, "return", w)
  <2>1. p.at = "trace.row" /\ Hwp(IF "dump" \in req.flags THEN q ELSE To("trace.reply"), hw, "trace.reply")
    BY <1>3 DEF TraceRow, At, TraceWords
  <2>2. n \in Nat /\ l \in {"trace.row", "trace.reply"} /\ (l = "trace.row" <=> n < TraceRows * 2)
    BY <1>a, <1>b
  <2>3. c \in Frames /\ c.status = p.status /\ c.count = n
    BY <1>a, <2>2 DEF Frames
  <2> HIDE DEF c, l, w
  <2>4. q.at = l /\ q.fn = "enq" /\ q.status = p.status /\ q.count = n
    BY <2>3, SendFields
  <2> HIDE DEF q
  <2>5. CASE "dump" \in req.flags
    <3>1. ASSUME p.status = "OK", p' = q, OneMore PROVE Stage(p', hw')
      <4>1. /\ req.op = "trace" /\ ~hw'.failed /\ p'.count = 2 * hw'.done
            /\ hw'.done <= TraceRows /\ (p'.at = "trace.row" <=> hw'.done < TraceRows)
        BY <1>a, <1>b, <2>1, <2>2, <2>4, <2>5, <3>1 DEF TraceStage, TraceLabels, OneMore
      <4>2. TraceStage(p', hw')
        BY <1>a, <1>b, <2>2, <2>4, <2>5, <3>1, <4>1 DEF TraceStage, OneMore
      <4> QED BY <1>0, <2>2, <2>4, <3>1, <4>2
    <3>2. l \in Underway /\ ~AtOpen(l, req)
      BY <2>2, ClosedUnderway
    <3> QED BY <1>a, <2>1, <2>4, <2>5, <3>1, <3>2, ClosedUnderway, HwpWorks
  <2>6. CASE "dump" \notin req.flags
    <3> DEFINE r == To("trace.reply")
    <3>1. r.at = "trace.reply" /\ r.fn = "none" /\ r.status = p.status
      BY <1>a, JumpFields
    <3>2. Hwp(r, hw, "trace.reply")
      BY <2>1, <2>6
    <3> HIDE DEF r
    <3>3. ASSUME p.status = "OK", p' = r, OneMore PROVE Stage(p', hw')
      <4>1. TraceStage(p', hw')
        BY <1>a, <2>1, <2>6, <3>1, <3>3 DEF TraceStage, TraceLabels, OneMore
      <4> QED BY <1>0, <3>1, <3>3, <4>1
    <3> QED BY <1>a, <2>1, <3>1, <3>2, <3>3, ClosedUnderway, HwpWorks
  <2> QED BY <2>5, <2>6
<1>4. CASE TraceReply
  <2>1. /\ p.at = "trace.reply"
        /\ Goes(sbeDsSendRespHdr(p, <<<<"len", p.count>>>>, "return", p.status, p.fapi))
    BY <1>4 DEF TraceReply, At, Header
  <2>2. p.status = "OK" => req.op = "trace" /\ Did(hw, IF "dump" \in req.flags THEN TraceRows ELSE 1)
    BY <1>a, <2>1 DEF TraceStage, TraceLabels, Did
  <2>3. req.op = "trace" => Work = IF "dump" \in req.flags THEN TraceRows ELSE 1
    BY DEF Work
  <2>4. p.status = "OK" => Accomplished(hw) /\ req.op # "putmem"
    BY <2>2, <2>3 DEF Accomplished, Puts
  <2>5. p.at \notin Told \cup {"idle"} /\ ~AtOpen(p.at, req)
    BY <2>1, ClosedUnderway DEF Told
  <2> QED BY <1>a, <2>1, <2>4, <2>5, LenTells
<1> QED BY <1>1, <1>2, <1>3, <1>4 DEF sbeControlTraceArray

LEMMA FastArrayWorks == ASSUME Runs, sbeControlFastArray PROVE Works
<1>a. /\ Ready /\ p \in Frames /\ p.fn = "none"
      /\ p.status = "OK" => FastStage(p, hw)
  BY DEF Runs, Ready, Stage, sbeControlFastArray, FastArray, FastArrayTarget, FastArrayRun, At
<1>1. CASE FastArray
  <2>1. p.at = "fastarray" /\ Goes(Deq(p, "fastarray.target", "return", ReqWords, TRUE, FALSE))
    BY <1>1 DEF FastArray, At
  <2>2. p.status = "OK" => req.op = "fastarray"
    BY <1>a, <2>1 DEF FastStage, FastLabels
  <2>3. ASSUME p.status = "OK", p'.at = "fastarray.target" PROVE Stage(p', hw')
    BY <2>2, <2>3, OneStage DEF FastStage, FastLabels
  <2>4. "fastarray.target" \in Firsts /\ "fastarray.target" \notin Told \cup {"idle"} /\ p.at \in Starts
    BY <2>1 DEF Firsts, Told, Starts
  <2>5. ReqWords \in Nat /\ (p.status = "OK" => ReqWords = ArgWords(req) + Payload(req))
    BY <2>2, MemAssumption DEF ArgWords, Payload
  <2> QED BY <1>a, <2>1, <2>3, <2>4, <2>5, RequestWorks
<1>2. CASE FastArrayTarget
  <2>1. p.at = "fastarray.target"
    BY <1>2 DEF FastArrayTarget, At
  <2>2. CASE Goes(Refuses("header", "INVALID_DATA"))
    BY <1>a, <2>1, <2>2, JumpFields, ClosedUnderway, JumpWorks
  <2>3. CASE Goes(To("fastarray.run"))
    <3> DEFINE q == To("fastarray.run")
    <3>1. q.at = "fastarray.run" /\ q.fn = "none" /\ q.status = p.status
      BY <1>a, JumpFields
    <3> HIDE DEF q
    <3>2. ASSUME q.status = "OK", p' = q PROVE Stage(p', hw')
      <4>1. FastStage(p', hw')
        BY <1>a, <2>1, <3>1, <3>2 DEF FastStage, FastLabels
      <4> QED BY <3>1, <3>2, <4>1, OneStage DEF FastLabels
    <3> QED BY <1>a, <2>1, <2>3, <3>1, <3>2, ClosedUnderway, JumpWorks DEF q
  <2> QED BY <1>2, <2>2, <2>3 DEF FastArrayTarget, Target
<1>3. CASE FastArrayRun
  <2>1. p.at = "fastarray.run"
    BY <1>3 DEF FastArrayRun, At
  <2>2. PICK q \in {To("header"), [To("header") EXCEPT !.fapi = TRUE]} : p' = q
    BY <1>3 DEF FastArrayRun, Does
  <2>3. q.at = "header" /\ q.fn = "none" /\ q.status = p.status
    BY <1>a DEF To, Frames
  <2>4. p.status = "OK" => req.op = "fastarray"
    BY <1>a, <2>1 DEF FastStage, FastLabels
  <2>5. p.status = "OK" => HeaderStage(p', hw')
    BY <2>4 DEF HeaderStage, Accomplished, Excused, Puts, MemOps, SramOps
  <2>6. p.status = "OK" => Stage(p', hw')
    BY <2>2, <2>3, <2>5, OneStage
  <2> QED BY <1>a, <2>1, <2>2, <2>3, <2>6, ClosedUnderway, ClosedGoesOn DEF Told
<1> QED BY <1>1, <1>2, <1>3 DEF sbeControlFastArray

\* The loops over the cores say how many procedures have been done before them.
Scored(r, k) ==
    /\ r.at \in CoreLabels \cup {"header"}
    /\ k = IF r.at = "header" THEN (IF "wakeup" \in req.flags THEN 3 ELSE 2) * Len(Targets)
           ELSE CoresBefore(r.at) + r.count
    /\ r.at = "cntlinst.wake" => "wakeup" \in req.flags

LEMMA CoreLoopGoes ==
    ASSUME NEW q \in Frames, NEW n \in Nat, NEW l, NEW done
    PROVE  LET r == CoreLoop(q, n, l, done)
           IN  IF n < Len(Targets) THEN r.at = l /\ r.count = n ELSE r.at = done /\ r.count = 0
  BY DEF CoreLoop, Frames

LEMMA SleepScored ==
    ASSUME Ready, NEW q \in Frames, NEW n \in Nat, n <= Len(Targets)
    PROVE  Scored(SleepLoop(q, n), CoresBefore("cntlinst.sleep") + n)
<1> DEFINE r == SleepLoop(q, n)
<1>1. IF n < Len(Targets) THEN r.at = "cntlinst.sleep" /\ r.count = n ELSE r.at = "header"
  BY CoreLoopGoes DEF SleepLoop
<1> HIDE DEF r
<1>2. Len(Targets) \in Nat
  BY TargetsTyped
<1>3. Scored(r, CoresBefore("cntlinst.sleep") + n)
  <2> DEFINE N == Len(Targets)
  <2>1. N \in Nat /\ n <= N /\ IF n < N THEN r.at = "cntlinst.sleep" /\ r.count = n ELSE r.at = "header"
    BY <1>1, <1>2
  <2>2. CoresBefore("cntlinst.sleep") = (IF "wakeup" \in req.flags THEN N ELSE 0) + N
    BY DEF CoresBefore
  <2> HIDE DEF N
  <2>3. CASE n < N
    BY <2>1, <2>3 DEF Scored, CoreLabels
  <2>4. CASE ~(n < N)
    <3>1. n = N
      BY <2>1, <2>4
    <3>2. CoresBefore("cntlinst.sleep") + n = (IF "wakeup" \in req.flags THEN 3 ELSE 2) * N
      BY <2>1, <2>2, <3>1
    <3> QED BY <2>1, <2>4, <3>2 DEF Scored, N
  <2> QED BY <2>3, <2>4
<1> QED BY <1>3 DEF r

LEMMA ThreadScored ==
    ASSUME Ready, NEW q \in Frames, NEW n \in Nat, n <= Len(Targets)
    PROVE  Scored(ThreadLoop(q, n), CoresBefore("cntlinst.thread") + n)
<1> DEFINE r == CoreLoop(q, n, "cntlinst.thread", "cntlinst.threads")
           s == ThreadLoop(q, n)
<1>1. "cntlinst.thread" \in Labels /\ "cntlinst.threads" \in Labels
  BY DEF Labels
<1>2. s = IF r.at = "cntlinst.threads" THEN SleepLoop(r, 0) ELSE r
  BY DEF ThreadLoop
<1>3. r \in Frames
  BY <1>1, CoreLoopTyped DEF LoopsTo
<1>4. IF n < Len(Targets) THEN r.at = "cntlinst.thread" /\ r.count = n ELSE r.at = "cntlinst.threads"
  BY CoreLoopGoes
<1>5. Len(Targets) \in Nat
  BY TargetsTyped
<1> HIDE DEF r, s
<1>6. CASE n < Len(Targets)
  BY <1>2, <1>4, <1>6 DEF Scored, CoreLabels, s
<1>7. CASE ~(n < Len(Targets))
  <2>1. n = Len(Targets) /\ 0 <= Len(Targets) /\ s = SleepLoop(r, 0)
    BY <1>2, <1>4, <1>5, <1>7
  <2>2. Scored(s, CoresBefore("cntlinst.sleep") + 0)
    BY <1>3, <2>1, SleepScored
  <2>3. CoresBefore("cntlinst.sleep") + 0 = CoresBefore("cntlinst.thread") + n
    <3> DEFINE N == Len(Targets)
    <3>1. /\ CoresBefore("cntlinst.sleep") = (IF "wakeup" \in req.flags THEN N ELSE 0) + N
          /\ CoresBefore("cntlinst.thread") = (IF "wakeup" \in req.flags THEN N ELSE 0) + 0
          /\ n = N /\ N \in Nat
      BY <1>5, <2>1 DEF CoresBefore
    <3> HIDE DEF N
    <3> QED BY <3>1
  <2> QED BY <2>2, <2>3 DEF s
<1> QED BY <1>6, <1>7

LEMMA WakeScored ==
    ASSUME Ready, NEW q \in Frames, NEW n \in Nat, n <= Len(Targets), "wakeup" \in req.flags
    PROVE  Scored(WakeLoop(q, n), CoresBefore("cntlinst.wake") + n)
<1> DEFINE r == CoreLoop(q, n, "cntlinst.wake", "cntlinst.woken")
           s == WakeLoop(q, n)
<1>1. "cntlinst.wake" \in Labels /\ "cntlinst.woken" \in Labels
  BY DEF Labels
<1>2. s = IF r.at = "cntlinst.woken" THEN ThreadLoop(r, 0) ELSE r
  BY DEF WakeLoop
<1>3. r \in Frames
  BY <1>1, CoreLoopTyped DEF LoopsTo
<1>4. IF n < Len(Targets) THEN r.at = "cntlinst.wake" /\ r.count = n ELSE r.at = "cntlinst.woken"
  BY CoreLoopGoes
<1>5. Len(Targets) \in Nat
  BY TargetsTyped
<1> HIDE DEF r, s
<1>6. CASE n < Len(Targets)
  BY <1>2, <1>4, <1>6 DEF Scored, CoreLabels, s
<1>7. CASE ~(n < Len(Targets))
  <2>1. n = Len(Targets) /\ 0 <= Len(Targets) /\ s = ThreadLoop(r, 0)
    BY <1>2, <1>4, <1>5, <1>7
  <2>2. Scored(s, CoresBefore("cntlinst.thread") + 0)
    BY <1>3, <2>1, ThreadScored
  <2>3. CoresBefore("cntlinst.thread") + 0 = CoresBefore("cntlinst.wake") + n
    <3> DEFINE N == Len(Targets)
    <3>1. /\ CoresBefore("cntlinst.thread") = N + 0
          /\ CoresBefore("cntlinst.wake") = 0 + 0
          /\ n = N /\ N \in Nat
      BY <1>5, <2>1 DEF CoresBefore
    <3> HIDE DEF N
    <3> QED BY <3>1
  <2> QED BY <2>2, <2>3 DEF s
<1> QED BY <1>6, <1>7

LEMMA CoreWorks ==
    ASSUME Runs, p.fn = "none", p.at \in {"cntlinst.check"} \cup CoreLabels, NEW q, NEW k,
           Scored(q, k), q.fn = "none", p' = q,
           q.status = "OK" => p.status = "OK" /\ req.op = "cntlinst" /\ (Ignores \/ Did(hw', k))
    PROVE  Works
<1>1. q.at \in Underway /\ ~AtOpen(q.at, req) /\ p.at \in Underway /\ ~AtOpen(p.at, req)
  BY ClosedUnderway DEF Scored, CoreLabels
<1>2. ASSUME q.status = "OK" PROVE Stage(q, hw')
  <2>1. CASE q.at = "header"
    <3>1. Ignores \/ Did(hw', Work)
      BY <1>2, <2>1 DEF Scored, Work
    <3>2. HeaderStage(q, hw')
      BY <1>2, <3>1 DEF HeaderStage, Accomplished, Excused, Puts, MemOps, SramOps
    <3> QED BY <2>1, <3>2, OneStage
  <2>2. CASE q.at \in CoreLabels
    <3>1. q.at # "header" /\ q.at \in InstLabels /\ q.at \notin {"cntlinst", "cntlinst.check"}
      BY <2>2 DEF CoreLabels, InstLabels
    <3>2. InstStage(q, hw')
      BY <1>2, <2>2, <3>1 DEF InstStage, Scored
    <3> QED BY <3>1, <3>2, OneStage
  <2> QED BY <2>1, <2>2 DEF Scored
<1> QED BY <1>1, <1>2, ClosedGoesOn DEF Underway

LEMMA BadCoreWorks ==
    ASSUME NEW q, p' = q, q.at \in CoreLabels \cup {"header"}, q.fn = "none", q.status # "OK"
    PROVE  Works
  BY BadGoesOn DEF CoreLabels, Told

LEMMA CntlInstWorks == ASSUME Runs, sbeCntlInst PROVE Works
<1>a. /\ Ready /\ p \in Frames /\ hw \in Hardwares /\ p.count \in Nat /\ hw.done \in Nat
      /\ p.count + 1 \in Nat /\ p.fn = "none"
      /\ p.status = "OK" => InstStage(p, hw)
  <2>1. p.fn = "none"
    BY DEF sbeCntlInst, CntlInst, CntlInstCheck, specialWakeUpCoreAssert, ControlThreads,
           specialWakeUpCoreDeAssert, At
  <2> QED BY <2>1 DEF Runs, Ready, Frames, Hardwares, Stage
<1>b. Len(Targets) \in Nat /\ (p.at \in CoreLabels => p.count + 1 <= Len(Targets))
  BY <1>a, TargetsTyped DEF Ready, Control, Counted
<1>c. ASSUME p.at \in CoreLabels, p.status = "OK", OneMore
      PROVE  req.op = "cntlinst" /\ (Ignores \/ Did(hw', CoresBefore(p.at) + (p.count + 1)))
  <2>1. CoresBefore(p.at) \in Nat
    <3> DEFINE N == Len(Targets)
    <3>1. N \in Nat
      BY <1>b
    <3>2. CoresBefore(p.at) = (IF "wakeup" \in req.flags /\ p.at # "cntlinst.wake" THEN N ELSE 0)
                             + (IF p.at = "cntlinst.sleep" THEN N ELSE 0)
      BY DEF CoresBefore
    <3> HIDE DEF N
    <3> QED BY <3>1, <3>2
  <2> HIDE DEF CoresBefore
  <2>2. req.op = "cntlinst" /\ (Ignores \/ Did(hw, CoresBefore(p.at) + p.count))
    BY <1>a, <1>c DEF InstStage, InstLabels
  <2> QED BY <1>a, <1>c, <2>1, <2>2 DEF Did, OneMore
<1>1. CASE CntlInst
  <2>1. p.at = "cntlinst" /\ Goes(Deq(p, "cntlinst.check", "return", ReqWords, TRUE, FALSE))
    BY <1>1 DEF CntlInst, At
  <2>2. p.status = "OK" => req.op = "cntlinst" /\ (Ignores \/ Did(hw, 0))
    BY <1>a, <2>1 DEF InstStage, InstLabels
  <2>3. ASSUME p.status = "OK", p'.at = "cntlinst.check", hw' = hw PROVE Stage(p', hw')
    <3>1. InstStage(p', hw')
      BY <2>2, <2>3 DEF InstStage, CoreLabels
    <3> QED BY <2>3, <3>1, OneStage DEF InstLabels
  <2>4. "cntlinst.check" \in Firsts /\ "cntlinst.check" \notin Told \cup {"idle"} /\ p.at \in Starts
    BY <2>1 DEF Firsts, Told, Starts
  <2>5. ReqWords \in Nat /\ (p.status = "OK" => ReqWords = ArgWords(req) + Payload(req))
    BY <2>2, MemAssumption DEF ArgWords, Payload
  <2> QED BY <1>a, <2>1, <2>3, <2>4, <2>5, RequestWorks
<1>2. CASE CntlInstCheck
  <2>1. p.at = "cntlinst.check"
    BY <1>2 DEF CntlInstCheck, At
  <2>2. CASE Goes(Refuses("header", "INVALID_DATA"))
    BY <1>a, <2>1, <2>2, JumpFields, ClosedUnderway, JumpWorks
  <2>3. p.status = "OK" => req.op = "cntlinst" /\ (Ignores \/ Did(hw, 0))
    BY <1>a, <2>1 DEF InstStage, InstLabels
  <2>4. ASSUME NEW q, Goes(q), Scored(q, 0), AtCore(q, p) PROVE Works
    <3>1. p' = q /\ hw' = hw /\ q.fn = "none" /\ q.status = p.status
      BY <1>a, <2>4 DEF Goes, Does, AtCore
    <3> QED BY <1>a, <2>1, <2>3, <2>4, <3>1, CoreWorks
  <2>5. CASE "wakeup" \in req.flags /\ Goes(WakeLoop(p, 0))
    <3>1. CoresBefore("cntlinst.wake") + 0 = 0
      BY DEF CoresBefore
    <3>2. Scored(WakeLoop(p, 0), CoresBefore("cntlinst.wake") + 0) /\ AtCore(WakeLoop(p, 0), p)
      BY <1>a, <1>b, <2>5, WakeScored, WakeLoopTyped
    <3> QED BY <2>4, <2>5, <3>1, <3>2
  <2>6. CASE "wakeup" \notin req.flags /\ Goes(ThreadLoop(p, 0))
    <3>1. CoresBefore("cntlinst.thread") + 0 = 0
      BY <2>6 DEF CoresBefore
    <3>2. Scored(ThreadLoop(p, 0), CoresBefore("cntlinst.thread") + 0) /\ AtCore(ThreadLoop(p, 0), p)
      BY <1>a, <1>b, <2>6, ThreadScored, ThreadLoopTyped
    <3> QED BY <2>4, <2>6, <3>1, <3>2
  <2> QED BY <1>2, <2>2, <2>5, <2>6 DEF CntlInstCheck
<1>3. CASE specialWakeUpCoreAssert
  <2> DEFINE awake == [hw EXCEPT !.awake = @ \cup {Core}]
             bad == [p EXCEPT !.status = "EXECUTION_FAILURE"]
             q1 == [bad EXCEPT !.fapi = TRUE]
             q2 == [bad EXCEPT !.fapi = FALSE]
             r1 == [q1 EXCEPT !.at = "header"]
  <2>1. bad \in Frames /\ bad.status # "OK" /\ bad.fn = "none"
    <3>1. bad \in Frames
      BY <1>a DEF Frames, Status
    <3> QED BY <1>a, <3>1 DEF Frames
  <2>2. q1 \in Frames /\ q2 \in Frames /\ q1.status # "OK" /\ q2.status # "OK"
        /\ q1.fn = "none" /\ q2.fn = "none"
    <3> HIDE DEF bad
    <3>1. q1 \in Frames
      BY <2>1 DEF Frames
    <3>2. q2 \in Frames
      BY <2>1 DEF Frames
    <3>3. q1.status # "OK" /\ q2.status # "OK" /\ q1.fn = "none" /\ q2.fn = "none"
      BY <2>1 DEF Frames
    <3> QED BY <3>1, <3>2, <3>3
  <2>3. r1.at = "header" /\ r1.fn = "none" /\ r1.status # "OK"
    <3> HIDE DEF q1
    <3> QED BY <2>2 DEF Frames
  <2>4. /\ AtCore(WakeLoop(p, p.count + 1), p) /\ AtCore(WakeLoop(q1, p.count + 1), q1)
        /\ AtCore(WakeLoop(q2, p.count + 1), q2) /\ AtCore(ThreadLoop(q2, 0), q2)
    BY <1>a, <2>2, WakeLoopTyped, ThreadLoopTyped
  <2>5. p.at = "cntlinst.wake" /\ p.at \in CoreLabels
    BY <1>3 DEF specialWakeUpCoreAssert, At, CoreLabels
  <2>6. \/ Does(WakeLoop(p, p.count + 1), [awake EXCEPT !.done = @ + 1])
        \/ \E q \in {WakeLoop(q1, p.count + 1), WakeLoop(q2, p.count + 1), ThreadLoop(q2, 0), r1} : p' = q
    BY <1>3 DEF specialWakeUpCoreAssert, Does
  <2>7. CASE Does(WakeLoop(p, p.count + 1), [awake EXCEPT !.done = @ + 1])
    <3>1. p' = WakeLoop(p, p.count + 1) /\ OneMore
      BY <1>a, <2>7 DEF Does, OneMore, Hardwares
    <3>2. CASE p.status = "OK"
      <4>1. "wakeup" \in req.flags
        BY <1>a, <2>5, <3>2 DEF InstStage, InstLabels
      <4>2. Scored(WakeLoop(p, p.count + 1), CoresBefore("cntlinst.wake") + (p.count + 1))
        BY <1>a, <1>b, <2>5, <4>1, WakeScored
      <4> QED BY <1>a, <1>c, <2>4, <2>5, <3>1, <3>2, <4>2, CoreWorks DEF AtCore
    <3>3. CASE p.status # "OK"
      BY <1>a, <2>4, <3>1, <3>3, BadCoreWorks DEF AtCore
    <3> QED BY <3>2, <3>3
  <2>8. CASE \E q \in {WakeLoop(q1, p.count + 1), WakeLoop(q2, p.count + 1), ThreadLoop(q2, 0), r1} : p' = q
    <3> HIDE DEF q1, q2, r1
    <3> QED BY <2>2, <2>3, <2>4, <2>8, BadCoreWorks DEF AtCore
  <2> QED BY <2>6, <2>7, <2>8
<1>4. CASE ControlThreads
  <2> DEFINE q == ThreadLoop(p, p.count + 1)
             k == CoresBefore("cntlinst.thread") + (p.count + 1)
  <2>1. p.at = "cntlinst.thread" /\ p.at \in CoreLabels
    BY <1>4 DEF ControlThreads, At, CoreLabels
  <2>2. AtCore(q, p) /\ Scored(q, k)
    BY <1>a, <1>b, <2>1, ThreadLoopTyped, ThreadScored
  <2>3. q.fn = "none" /\ q.status = p.status
    BY <1>a, <2>2 DEF AtCore
  <2>4. \/ Does(q, [hw EXCEPT !.done = @ + 1])
        \/ Ignores /\ p' = q
        \/ Does(Failed("header"), [hw EXCEPT !.failed = TRUE])
    BY <1>4 DEF ControlThreads, Does
  <2> HIDE DEF q
  <2>5. CASE Does(q, [hw EXCEPT !.done = @ + 1])
    <3>1. p' = q /\ OneMore
      BY <1>a, <2>5, DoneField
    <3>2. p.status = "OK" => req.op = "cntlinst" /\ (Ignores \/ Did(hw', k))
      BY <1>c, <2>1, <3>1
    <3> HIDE DEF k
    <3> QED BY <1>a, <2>1, <2>2, <2>3, <3>1, <3>2, CoreWorks
  <2>6. CASE Ignores /\ p' = q
    <3>1. p.status = "OK" => req.op = "cntlinst"
      BY <1>a, <2>1 DEF InstStage, InstLabels
    <3> HIDE DEF k
    <3> QED BY <1>a, <2>1, <2>2, <2>3, <2>6, <3>1, CoreWorks
  <2>7. CASE Does(Failed("header"), [hw EXCEPT !.failed = TRUE])
    <3>1. Fails("header")
      BY <1>a, <2>7, JumpFields DEF Does, Fails
    <3> QED BY <3>1, FailsGoesOn DEF Told
  <2> QED BY <2>4, <2>5, <2>6, <2>7
<1>5. CASE specialWakeUpCoreDeAssert
  <2> DEFINE asleep == [hw EXCEPT !.awake = @ \ {Core}]
             bad == [p EXCEPT !.status = "EXECUTION_FAILURE", !.fapi = TRUE]
             r1 == [bad EXCEPT !.at = "header"]
             q == SleepLoop(p, p.count + 1)
             k == CoresBefore("cntlinst.sleep") + (p.count + 1)
  <2>1. bad \in Frames /\ bad.status # "OK" /\ bad.fn = "none"
    <3>1. bad \in Frames
      BY <1>a DEF Frames, Status
    <3> QED BY <1>a, <3>1 DEF Frames
  <2>2. r1.at = "header" /\ r1.fn = "none" /\ r1.status # "OK"
    <3> HIDE DEF bad
    <3> QED BY <2>1 DEF Frames
  <2>3. AtCore(q, p) /\ AtCore(SleepLoop(bad, p.count + 1), bad)
    BY <1>a, <2>1, SleepLoopTyped
  <2>4. p.at = "cntlinst.sleep" /\ p.at \in CoreLabels
    BY <1>5 DEF specialWakeUpCoreDeAssert, At, CoreLabels
  <2>5. Scored(q, k)
    BY <1>a, <1>b, <2>4, SleepScored
  <2>6. \/ Does(q, [asleep EXCEPT !.done = @ + 1])
        \/ \E r \in {SleepLoop(bad, p.count + 1), r1} : p' = r
    BY <1>5 DEF specialWakeUpCoreDeAssert, Does
  <2>7. CASE Does(q, [asleep EXCEPT !.done = @ + 1])
    <3>1. p' = q /\ OneMore
      BY <1>a, <2>7 DEF Does, OneMore, Hardwares
    <3>2. p.status = "OK" => req.op = "cntlinst" /\ (Ignores \/ Did(hw', k))
      BY <1>c, <2>4, <3>1
    <3>3. q.fn = "none" /\ q.status = p.status
      BY <1>a, <2>3 DEF AtCore
    <3> HIDE DEF k, q
    <3> QED BY <1>a, <2>4, <2>5, <3>1, <3>2, <3>3, CoreWorks
  <2>8. CASE \E r \in {SleepLoop(bad, p.count + 1), r1} : p' = r
    <3> HIDE DEF bad, r1
    <3> QED BY <2>1, <2>2, <2>3, <2>8, BadCoreWorks DEF AtCore
  <2> QED BY <2>6, <2>7, <2>8
<1> QED BY <1>1, <1>2, <1>3, <1>4, <1>5 DEF sbeCntlInst

\* A payload that is taken at once, behind the request structure.
LEMMA PayloadWorks ==
    ASSUME Runs, p.fn = "none", p.at \in {"reg.check", "putring.payload"}, NEW l \in Takes, NEW b, NEW n \in Nat,
           n = Payload(req), ArgWords(req) = ReqWords, Goes(Deq(p, l, b, n, TRUE, FALSE)),
           p.status = "OK" /\ p'.at = l /\ p'.fn = "deq" /\ p'.want = n /\ hw' = hw => Stage(p', hw')
    PROVE  Works
<1>1. /\ p'.fn = "deq" /\ p'.at = l /\ p'.want = n /\ p'.buf = <<>> /\ p'.status = p.status /\ hw' = hw
      /\ ~p'.flush
  BY DEF Runs, Ready, Goes, Does, Deq, Frames
<1>2. l \notin Firsts /\ l \notin Starts /\ l \notin Told \cup {"idle"} /\ l # "mem.reply" /\ l # "quiesce.suspend"
  BY DEF Takes, Firsts, Structs, Starts, ScomOps, Told
<1>3. p.at \in Firsts /\ p.at \notin Starts /\ p.at \in Structs /\ AtOpen(p.at, req)
  BY DEF Firsts, Structs, Starts, ScomOps, AtOpen
<1>4. Len(p.buf) = ReqWords /\ hw.wrote = <<>> /\ ReqWords \in Nat
  BY <1>3, MemAssumption DEF Runs, Given
<1>5. Past(p', hw') = ReqWords
  <2>1. Len(hw.wrote) = 0
    BY <1>4
  <2>2. Lost(p') = 0
    BY <1>1 DEF Lost, Takes
  <2> QED BY <1>1, <1>2, <1>4, <2>1, <2>2 DEF Past
<1>6. Total(p', hw') = ReqWords
  <2>1. Len(p'.buf) = 0
    BY <1>1
  <2> QED BY <1>1, <1>2, <1>4, <1>5, <2>1 DEF Total
<1>7. Total(p, hw) = ReqWords
  BY <1>3, <1>4 DEF Total, Past
<1>8. Counts(p)
  BY <1>3 DEF Counts, IsOpen
<1>9. Wanted(p', hw') /\ Judged(p')
  BY <1>1, <1>2, <1>5 DEF Wanted, Judged
<1> QED BY <1>1, <1>2, <1>6, <1>7, <1>8, <1>9 DEF Works, GoesOn

LEMMA PayloadTyped == ASSUME Ready PROVE Payload(req) \in Nat /\ ArgWords(req) \in Nat
<1>1. req.len \in Nat /\ ReqWords \in Nat
  BY RequestTyped, MemAssumption
<1> QED BY <1>1 DEF Payload, ArgWords, NumRegs, align4ByteWordLength

\* What a procedure that takes words leaves of the hardware.
Gives(s) == hw'.done = hw.done + 1 /\ hw'.failed = hw.failed /\ hw'.wrote = s

LEMMA GivesField ==
    ASSUME Ready, NEW s, NEW q, Does(q, [[hw EXCEPT !.wrote = s] EXCEPT !.done = @ + 1])
    PROVE  p' = q /\ Gives(s)
  BY DEF Ready, Hardwares, Does, Gives

LEMMA PutRingWorks == ASSUME Runs, sbePutRing PROVE Works
<1>a. /\ Ready /\ p \in Frames /\ hw \in Hardwares /\ hw.done \in Nat /\ p.fn = "none"
      /\ p.status = "OK" => PutRingStage(p, hw)
  BY DEF Runs, Ready, Hardwares, Stage, sbePutRing, PutRing, PutRingPayload, PutRingApply, At
<1>1. CASE PutRing
  <2>1. p.at = "putring"
    BY <1>1 DEF PutRing, At
  <2>2. CASE req.len > RingMaxWords
    <3> DEFINE q == [p EXCEPT !.status = "INVALID_DATA"]
    <3>1. q \in Frames /\ q.status # "OK"
      <4>1. q \in Frames
        BY <1>a DEF Frames, Status
      <4> QED BY <1>a, <4>1 DEF Frames
    <3>2. Goes(Deq(q, "header", "return", ReqWords + req.len, TRUE, TRUE))
      BY <1>1, <2>2 DEF PutRing
    <3> HIDE DEF q
    <3>3. p'.at = "header" /\ p'.fn = "deq" /\ p'.status # "OK"
      BY <3>1, <3>2, GoesDeq
    <3> QED BY <3>3, BadGoesOn DEF Told
  <2>3. CASE ~(req.len > RingMaxWords)
    <3>1. Goes(Deq(p, "putring.payload", "return", ReqWords, FALSE, FALSE))
      BY <1>1, <2>3 DEF PutRing
    <3>2. ASSUME p.status = "OK", p'.at = "putring.payload", hw' = hw PROVE Stage(p', hw')
      <4>1. PutRingStage(p', hw')
        BY <1>a, <2>1, <3>2 DEF PutRingStage, PutRingLabels
      <4> QED BY <3>2, <4>1, OneStage DEF PutRingLabels
    <3>3. "putring.payload" \in Firsts /\ "putring.payload" \notin Told \cup {"idle"} /\ p.at \in Starts
      BY <2>1 DEF Firsts, Structs, Told, Starts
    <3>4. ReqWords \in Nat
      BY MemAssumption
    <3>5. \E eot \in {FALSE} : ~eot /\ Goes(Deq(p, "putring.payload", "return", ReqWords, eot, FALSE))
      BY <3>1
    <3> QED BY <1>a, <3>2, <3>3, <3>4, <3>5, RequestWorks
  <2> QED BY <2>2, <2>3
<1>2. CASE PutRingPayload
  <2>1. /\ p.at = "putring.payload" /\ "putring.apply" \in Takes
        /\ Goes(Deq(p, "putring.apply", "return", req.len, TRUE, FALSE))
    BY <1>2 DEF PutRingPayload, At, Takes
  <2>2. req.len \in Nat
    BY <1>a, RequestTyped
  <2>3. CASE p.status = "OK"
    <3>1. req.op = "putring" /\ Did(hw, 0)
      BY <1>a, <2>1, <2>3 DEF PutRingStage, PutRingLabels
    <3>2. Payload(req) = req.len /\ ArgWords(req) = ReqWords
      BY <3>1 DEF Payload, ArgWords
    <3>3. ASSUME p'.at = "putring.apply", p'.fn = "deq", p'.want = req.len, hw' = hw PROVE Stage(p', hw')
      <4>1. PutRingStage(p', hw')
        BY <3>1, <3>3 DEF PutRingStage
      <4> QED BY <3>3, <4>1, OneStage DEF PutRingLabels
    <3> QED BY <1>a, <2>1, <2>2, <3>2, <3>3, PayloadWorks
  <2>4. CASE p.status # "OK"
    <3>1. p'.at = "putring.apply" /\ p'.fn = "deq" /\ p'.status = p.status
      BY <1>a, <2>1, GoesDeq
    <3> QED BY <2>4, <3>1, BadGoesOn DEF Told
  <2> QED BY <2>3, <2>4
<1>3. CASE PutRingApply
  <2> DEFINE w == hw.wrote \o p.buf
             h == [[hw EXCEPT !.wrote = w] EXCEPT !.done = @ + 1]
  <2>1. p.at = "putring.apply" /\ Hwp(To("header"), [hw EXCEPT !.wrote = w], "header")
    BY <1>3, <1>a DEF PutRingApply, At, Hardwares
  <2>2. Does(To("header"), h) \/ Does(Failed("header"), [hw EXCEPT !.failed = TRUE])
    BY <2>1 DEF Hwp
  <2>3. CASE Does(To("header"), h)
    <3>1. p' = To("header") /\ Gives(w)
      BY <1>a, <2>3, GivesField
    <3>2. p'.at = "header" /\ p'.fn = "none" /\ p'.status = p.status
      BY <1>a, <3>1, JumpFields
    <3>3. hw.wrote = <<>> /\ p.buf \in Buffers
      BY <1>a, <2>1 DEF Runs, Given, Takes, Frames
    <3>4. Len(w) = Len(p.buf)
      BY <3>3, ConcatProperties DEF Buffers
    <3> HIDE DEF w
    <3>5. ASSUME p.status = "OK" PROVE Stage(p', hw')
      <4>1. req.op = "putring" /\ Did(hw', 1) /\ Len(hw'.wrote) = req.len
        BY <1>a, <2>1, <3>1, <3>4, <3>5 DEF PutRingStage, PutRingLabels, Did, Gives
      <4>2. Work = 1 /\ Payload(req) = req.len
        BY <4>1 DEF Work, Payload
      <4>3. HeaderStage(p', hw')
        BY <4>1, <4>2 DEF HeaderStage, Accomplished, MemOps, SramOps
      <4> QED BY <3>2, <4>3, OneStage
    <3> QED BY <1>a, <2>1, <3>2, <3>5, ClosedUnderway, ClosedGoesOn DEF Told
  <2>4. CASE Does(Failed("header"), [hw EXCEPT !.failed = TRUE])
    <3>1. Fails("header")
      BY <1>a, <2>4, JumpFields DEF Does, Fails
    <3> QED BY <3>1, FailsGoesOn DEF Told
  <2> QED BY <2>2, <2>3, <2>4
<1> QED BY <1>1, <1>2, <1>3 DEF sbePutRing

LEMMA RegRequestWorks == ASSUME Runs, RegRequest \/ RegCheck PROVE Works
<1>a. /\ Ready /\ p \in Frames /\ p.fn = "none" /\ p.at \in {"reg", "reg.check"}
      /\ p.status = "OK" => RegStage(p, hw)
  BY DEF Runs, Ready, Stage, RegRequest, RegCheck, At
<1>b. req.op \in RegOps
  BY <1>a DEF Ready, Control, Owned, Common, RegLabels
<1>1. CASE RegRequest
  <2>1. p.at = "reg" /\ Goes(Deq(p, "reg.check", "return", ReqWords, FALSE, FALSE))
    BY <1>1 DEF RegRequest, At
  <2>2. ASSUME p.status = "OK", p'.at = "reg.check", hw' = hw PROVE Stage(p', hw')
    <3>1. RegStage(p', hw')
      BY <1>a, <2>1, <2>2 DEF RegStage, RegLabels
    <3> QED BY <2>2, <3>1, OneStage DEF RegLabels
  <2>3. "reg.check" \in Firsts /\ "reg.check" \notin Told \cup {"idle"} /\ p.at \in Starts
    BY <2>1 DEF Firsts, Structs, Told, Starts
  <2>4. ReqWords \in Nat
    BY MemAssumption
  <2>5. \E eot \in {FALSE} : ~eot /\ Goes(Deq(p, "reg.check", "return", ReqWords, eot, FALSE))
    BY <2>1
  <2> QED BY <1>a, <2>2, <2>3, <2>4, <2>5, RequestWorks
<1>2. CASE RegCheck
  <2>1. p.at = "reg.check"
    BY <1>2 DEF RegCheck, At
  <2>2. CASE Goes(Refuses("header", "INVALID_DATA"))
    <3>1. p'.at = "header" /\ p'.fn = "none" /\ p'.status # "OK"
      BY <1>a, <2>2, JumpFields DEF Goes, Does
    <3> QED BY <3>1, BadGoesOn DEF Told
  <2>3. CASE Goes(Deq(p, "reg.setup", "return", Payload(req), TRUE, FALSE))
    <3>1. Payload(req) \in Nat /\ "reg.setup" \in Takes
      BY <1>a, PayloadTyped DEF Takes
    <3>2. ArgWords(req) = ReqWords
      BY <1>b DEF ArgWords, RegOps
    <3>3. ASSUME p.status = "OK", p'.at = "reg.setup", hw' = hw PROVE Stage(p', hw')
      <4>1. RegStage(p', hw')
        BY <1>a, <2>1, <3>3 DEF RegStage, RegLabels
      <4> QED BY <3>3, <4>1, OneStage DEF RegLabels
    <3> QED BY <1>a, <2>1, <2>3, <3>1, <3>2, <3>3, PayloadWorks
  <2> QED BY <1>2, <2>2, <2>3 DEF RegCheck
<1> QED BY <1>1, <1>2

\* To a register, or behind the last.
RegDone ==
    /\ p'.at = "reg.access" => Did(hw', 1 + p'.count)
    /\ p'.at = "reg.cleanup" => /\ Did(hw', 1 + req.len)
                                /\ req.op = "putreg" => Len(hw'.wrote) = 3 * req.len

LEMMA RegGoesOn ==
    ASSUME Runs, p.fn = "none", p.at \in {"reg.setup", "reg.access"},
           p'.at \in {"reg.access", "reg.cleanup"}, p'.fn \in {"none", "enq"}, p'.status = p.status,
           p.status = "OK" => RegDone
    PROVE  Works
<1>1. ASSUME p.status = "OK" PROVE Stage(p', hw')
  <2>1. RegStage(p', hw')
    BY <1>1 DEF RegStage, RegDone
  <2>2. p'.at \in RegLabels
    BY DEF RegLabels
  <2> QED BY <2>1, <2>2, OneStage
<1>2. /\ ~AtOpen(p.at, req) /\ ~AtOpen(p'.at, req)
      /\ p.at \notin Told \cup {"idle"} /\ p'.at \notin Told \cup {"idle"}
  BY ClosedUnderway, UnderwayLabels
<1> QED BY <1>1, <1>2, ClosedGoesOn

LEMMA RegAccessWorks == ASSUME Runs, RegAccess PROVE Works
<1> DEFINE next == RegLoop(p.count + 1)
           k == p.count + 1
           q == [p EXCEPT !.count = k, !.at = next]
           e == Enq(q, next, "reg.cleanup", Data(p.count, 2))
           w == hw.wrote \o Package(p.count)
           h == [[hw EXCEPT !.wrote = w] EXCEPT !.done = @ + 1]
           g == [hw EXCEPT !.done = @ + 1]
<1>a. /\ Ready /\ p \in Frames /\ hw \in Hardwares /\ hw.done \in Nat /\ p.count \in Nat
      /\ p.fn = "none" /\ p.at = "reg.access" /\ Given(p, hw)
      /\ p.status = "OK" => RegStage(p, hw)
  BY DEF Runs, Ready, Frames, Hardwares, Stage, RegAccess, At
<1>b. req.op \in RegOps /\ req.len \in Nat /\ p.count < req.len
  BY <1>a, RequestTyped DEF Ready, Control, Owned, Common, RegLabels, Counted
<1>1. \/ req.op = "getreg" /\ Does(e, g)
      \/ req.op # "getreg" /\ Does(q, h)
      \/ Does(Failed("header"), [hw EXCEPT !.failed = TRUE])
  BY <1>a DEF RegAccess, Hwp, Frames, Hardwares
<1>2. next = (IF k < req.len THEN "reg.access" ELSE "reg.cleanup") /\ next \in Labels /\ k \in Nat
  BY <1>a, RegLoopTyped DEF RegLoop, NumRegs
<1>c. next \in {"reg.access", "reg.cleanup"} /\ (next = "reg.cleanup" => k = req.len)
  BY <1>2, <1>a, <1>b
<1> HIDE DEF next
<1>3. q \in Frames /\ q.at = next /\ q.count = k /\ q.fn = "none" /\ q.status = p.status
  <2> HIDE DEF k
  <2>1. q \in Frames
    BY <1>2, <1>a DEF Frames
  <2> QED BY <1>2, <1>a, <2>1 DEF Frames
<1> HIDE DEF q
<1>d. ASSUME p.status = "OK" PROVE Did(hw, k)
  BY <1>a, <1>d DEF RegStage, RegLabels, Did
<1>4. CASE req.op = "getreg" /\ Does(e, g)
  <2>1. e.at = next /\ e.fn = "enq" /\ e.count = k /\ e.status = p.status
    BY <1>3, SendFields
  <2>2. p' = e /\ OneMore
    BY <1>a, <1>4, DoneField
  <2>3. p.status = "OK" => Did(hw', 1 + k)
    BY <1>2, <1>a, <1>d, <2>2 DEF Did, OneMore
  <2> HIDE DEF e, k
  <2>4. p.status = "OK" => RegDone
    BY <1>4, <1>c, <2>1, <2>2, <2>3 DEF RegDone
  <2> QED BY <1>a, <1>c, <2>1, <2>2, <2>4, RegGoesOn
<1>5. CASE req.op # "getreg" /\ Does(q, h)
  <2>1. req.op = "putreg"
    BY <1>5, <1>b DEF RegOps
  <2>2. Len(w) = 3 * k
    BY <1>a, <2>1, PackageOrder
  <2> HIDE DEF w
  <2>3. p' = q /\ Gives(w)
    BY <1>a, <1>5, GivesField
  <2>4. p.status = "OK" => Did(hw', 1 + k)
    BY <1>2, <1>a, <1>d, <2>3 DEF Did, Gives
  <2>5. Len(hw'.wrote) = 3 * k
    BY <2>2, <2>3 DEF Gives
  <2> HIDE DEF k
  <2>6. p.status = "OK" => RegDone
    BY <1>c, <1>3, <2>3, <2>4, <2>5 DEF RegDone
  <2> QED BY <1>a, <1>c, <1>3, <2>3, <2>6, RegGoesOn
<1>6. CASE Does(Failed("header"), [hw EXCEPT !.failed = TRUE])
  <2>1. Fails("header")
    BY <1>a, <1>6, JumpFields DEF Does, Fails
  <2> QED BY <2>1, FailsGoesOn DEF Told
<1> QED BY <1>1, <1>4, <1>5, <1>6

LEMMA RegSetupWorks == ASSUME Runs, RegSetup PROVE Works
<1> DEFINE l == RegLoop(0)
           h == [[hw EXCEPT !.open = TRUE] EXCEPT !.done = @ + 1]
<1>a. /\ Ready /\ hw \in Hardwares /\ hw.done \in Nat /\ p.fn = "none" /\ p.at = "reg.setup"
      /\ p.count = 0 /\ hw.wrote = <<>> /\ req.len \in Nat
      /\ p.status = "OK" => RegStage(p, hw)
  BY RequestTyped DEF Runs, Ready, Control, Counted, Hardwares, Stage, Given, Takes, RegSetup, At
<1>1. Does(To(l), h) \/ Does(Failed("header"), [hw EXCEPT !.failed = TRUE])
  BY DEF RegSetup, To, Hwp
<1>2. l = (IF 0 < req.len THEN "reg.access" ELSE "reg.cleanup")
  BY DEF RegLoop, NumRegs
<1>3. l \in {"reg.access", "reg.cleanup"} /\ (l = "reg.cleanup" => req.len = 0)
  BY <1>2, <1>a
<1> HIDE DEF l
<1>4. CASE Does(To(l), h)
  <2>1. /\ p' = To(l) /\ hw'.done = hw.done + 1 /\ hw'.failed = hw.failed /\ hw'.wrote = hw.wrote
    BY <1>a, <1>4 DEF Does, Hardwares
  <2>2. p'.at = l /\ p'.fn = "none" /\ p'.status = p.status /\ p'.count = 0
    BY <1>a, <2>1, JumpFields
  <2>3. p.status = "OK" => Did(hw', 1)
    BY <1>a, <2>1 DEF RegStage, RegLabels, Did
  <2>4. Len(hw'.wrote) = 0
    BY <1>a, <2>1
  <2>5. p.status = "OK" => RegDone
    BY <1>3, <1>a, <2>2, <2>3, <2>4 DEF RegDone
  <2> QED BY <1>3, <1>a, <2>2, <2>5, RegGoesOn
<1>5. CASE Does(Failed("header"), [hw EXCEPT !.failed = TRUE])
  <2>1. Fails("header")
    BY <1>a, <1>5, JumpFields DEF Does, Fails
  <2> QED BY <2>1, FailsGoesOn DEF Told
<1> QED BY <1>1, <1>4, <1>5

LEMMA RegCleanupWorks == ASSUME Runs, RegCleanup PROVE Works
<1> DEFINE next == IF p.rc = "OK" THEN "header" ELSE "return"
           h == [[hw EXCEPT !.open = FALSE] EXCEPT !.done = @ + 1]
<1>a. /\ Ready /\ p \in Frames /\ hw \in Hardwares /\ hw.done \in Nat /\ p.fn = "none" /\ p.at = "reg.cleanup"
      /\ p.status = "OK" => RegStage(p, hw)
  BY DEF Runs, Ready, Hardwares, Stage, RegCleanup, At
<1>b. req.op \in RegOps /\ req.len \in Nat
  BY <1>a, RequestTyped DEF Ready, Control, Owned, Common, RegLabels
<1>1. Does(To(next), h) \/ Does(Failed(next), [hw EXCEPT !.failed = TRUE])
  BY DEF RegCleanup, Hwp
<1>2. CASE p.rc # "OK"
  <2>1. p' = To("return") \/ p' = Failed("return")
    BY <1>1, <1>2 DEF Does
  <2>2. p'.fn = "none" /\ p'.at = "return" /\ p'.rc = p.rc
    BY <1>a, <2>1 DEF To, Failed, Frames
  <2> QED BY <1>2, <2>2 DEF Works, GivesUp
<1>3. CASE p.rc = "OK" /\ Does(To("header"), h)
  <2>1. /\ p' = To("header") /\ hw'.done = hw.done + 1 /\ hw'.failed = hw.failed /\ hw'.wrote = hw.wrote
    BY <1>a, <1>3 DEF Does, Hardwares
  <2>2. p'.at = "header" /\ p'.fn = "none" /\ p'.status = p.status
    BY <1>a, <2>1, JumpFields
  <2>3. ASSUME p.status = "OK" PROVE Stage(p', hw')
    <3>1. /\ Did(hw', 2 + req.len)
          /\ req.op = "putreg" => Len(hw'.wrote) = 3 * req.len
      BY <1>3, <1>a, <1>b, <2>1, <2>3 DEF RegStage, RegLabels, Did
    <3>2. Work = 2 + req.len /\ (req.op = "putreg" => Payload(req) = 3 * req.len)
      BY <1>b DEF Work, Payload, NumRegs, RegOps
    <3>3. HeaderStage(p', hw')
      BY <1>b, <3>1, <3>2 DEF HeaderStage, Accomplished, Puts, RegOps, MemOps, SramOps
    <3> QED BY <2>2, <3>3, OneStage
  <2> QED BY <1>a, <2>2, <2>3, ClosedUnderway, ClosedGoesOn DEF Told
<1>4. CASE p.rc = "OK" /\ Does(Failed("header"), [hw EXCEPT !.failed = TRUE])
  <2>1. Fails("header")
    BY <1>a, <1>4, JumpFields DEF Does, Fails
  <2> QED BY <2>1, FailsGoesOn DEF Told
<1> QED BY <1>1, <1>2, <1>3, <1>4

LEMMA RegWorks == ASSUME Runs, sbeRegAccess PROVE Works
  BY RegRequestWorks, RegSetupWorks, RegAccessWorks, RegCleanupWorks DEF sbeRegAccess

\* The loop over the granules of memory and SRAM.
LEMMA LoopFields ==
    ASSUME NEW q \in Frames, q.fn = "none", NEW more, NEW access, NEW words, NEW tail,
           p' = Loop(q, more, access, words, tail)
    PROVE  /\ p'.status = q.status /\ p'.count = q.count /\ p'.buf = <<>>
           /\ ~more => p'.at = tail /\ p'.fn = "none"
           /\ more => p'.at = access
           /\ more /\ isRead => p'.fn = "none"
           /\ more /\ ~isRead => /\ p'.fn = "deq" /\ p'.want = words /\ ~p'.eot /\ ~p'.flush
                                 /\ p'.extra = 0
<1>1. CASE ~more
  <2>1. p' = [q EXCEPT !.at = tail, !.buf = <<>>]
    BY <1>1 DEF Loop
  <2> QED BY <1>1, <2>1 DEF Frames
<1>2. CASE more /\ isRead
  <2>1. p' = [q EXCEPT !.at = access, !.buf = <<>>]
    BY <1>2 DEF Loop
  <2> QED BY <1>2, <2>1 DEF Frames
<1>3. CASE more /\ ~isRead
  <2>1. p' = Deq(q, access, "return", words, FALSE, FALSE)
    BY <1>3 DEF Loop
  <2> QED BY <1>3, <2>1 DEF Frames, Deq
<1> QED BY <1>1, <1>2, <1>3

LEMMA LostTyped == ASSUME Ready, NEW q PROVE Lost(q) \in Nat
<1>1. req.len \in Nat
  BY RequestTyped
<1>2. HalfBlock(req.len) \in Nat
  BY <1>1, HalfTyped
<1> QED BY <1>2 DEF Lost

LEMMA LoopWorks ==
    ASSUME Runs, p.fn = "none", p.at \in Granules \cup Loops \cup {"mem.check", "sram.check"},
           NEW q \in Frames, q.fn = "none", q.status = p.status,
           NEW more, NEW access \in Granules, NEW words, NEW tail \in {"mem.tail", "sram.tail"},
           p' = Loop(q, more, access, words, tail),
           p.status = "OK" => Stage(p', hw'),
           p.status = "OK" /\ ~isRead => Total(p, hw) = ReqWords + Len(hw'.wrote) + Lost(p'),
           Len(hw'.wrote) \in Nat
    PROVE  Works
<1>1. /\ p'.status = p.status /\ p'.buf = <<>> /\ p'.at \in {access, tail}
      /\ p'.fn \in {"none", "deq"} /\ (p'.fn = "deq" => ~isRead /\ ~p'.eot /\ ~p'.flush)
  BY LoopFields
<1>2. /\ p'.at \notin Told \cup {"idle"} /\ p'.at \notin Firsts /\ p'.at \notin Starts /\ p'.at \in PutLabels
      /\ p.at \notin Told \cup {"idle"} /\ p'.at # "quiesce.suspend"
  BY <1>1 DEF Granules, Loops, Told, Firsts, Structs, Starts, ScomOps, PutLabels
<1>3. /\ isRead => ~AtOpen(p.at, req) /\ ~AtOpen(p'.at, req)
      /\ ~isRead => AtOpen(p.at, req) /\ AtOpen(p'.at, req)
  BY <1>2 DEF Runs, Ready, Control, AtOpen, isRead, ReadOps, Granules, Loops, PutLabels, Starts, ScomOps
<1>4. Wanted(p', hw')
  BY <1>1, <1>2 DEF Wanted
<1>5. p.status = "OK" => Judged(p')
  BY <1>2, <1>3 DEF Judged, Runs
<1>6. ASSUME Counts(p') PROVE Counts(p) /\ ~isRead
  BY <1>1, <1>2, <1>3, <1>6 DEF Counts, IsOpen, Told
<1>7. Total(p', hw') = ReqWords + Len(hw'.wrote) + Lost(p')
  <2>1. Len(p'.buf) = 0 /\ ReqWords \in Nat /\ Lost(p') \in Nat
    BY <1>1, MemAssumption, LostTyped DEF Runs
  <2> QED BY <1>2, <2>1 DEF Total, Past
<1> QED BY <1>1, <1>2, <1>4, <1>5, <1>6, <1>7 DEF Works, GoesOn

\* What was taken where a request is checked, and at a granule.
LEMMA CheckTotal ==
    ASSUME Runs, p.fn = "none", p.at \in {"mem.check", "sram.check"}, ~isRead, hw'.wrote = hw.wrote
    PROVE  Total(p, hw) = ReqWords + Len(hw'.wrote) /\ hw'.wrote = <<>>
<1>1. p.at \in Structs /\ p.at \in Firsts /\ p.at \notin Starts /\ AtOpen(p.at, req)
  BY DEF Structs, Firsts, Starts, ScomOps, AtOpen, PutLabels, isRead, ReadOps
<1>2. Len(p.buf) = ReqWords /\ hw.wrote = <<>> /\ ReqWords \in Nat
  BY <1>1, MemAssumption DEF Runs, Given
<1>3. Len(hw'.wrote) = 0
  BY <1>2
<1> QED BY <1>1, <1>2, <1>3 DEF Total, Past

LEMMA AtGranule ==
    ASSUME Runs, p.at \in Granules
    PROVE  /\ Total(p, hw) = (ReqWords + Len(hw.wrote)) + Len(p.buf)
           /\ ReqWords \in Nat /\ Len(hw.wrote) \in Nat /\ Len(p.buf) \in Nat
<1>1. p.at \notin Firsts /\ p.at \notin Starts /\ Lost(p) = 0
  BY DEF Granules, Firsts, Structs, Starts, ScomOps, Lost
<1>2. ReqWords \in Nat /\ Len(hw.wrote) \in Nat /\ Len(p.buf) \in Nat
  BY LengthsTyped DEF Runs
<1>3. ReqWords + Len(hw.wrote) + 0 = ReqWords + Len(hw.wrote)
  BY <1>2
<1> QED BY <1>1, <1>2, <1>3 DEF Total, Past

LEMMA GranuleTotal ==
    ASSUME Runs, p.at \in Granules, hw'.wrote = hw.wrote \o p.buf
    PROVE  /\ Total(p, hw) = ReqWords + Len(hw'.wrote) /\ Len(hw'.wrote) = Len(hw.wrote) + Len(p.buf)
           /\ Len(hw'.wrote) \in Nat /\ Len(hw.wrote) \in Nat /\ Len(p.buf) \in Nat
<1>2. p.buf \in Buffers /\ hw.wrote \in Buffers /\ ReqWords \in Nat
  BY MemAssumption DEF Runs, Ready, Frames, Hardwares
<1>3. /\ Len(hw.wrote) \in Nat /\ Len(p.buf) \in Nat /\ Len(hw'.wrote) = Len(hw.wrote) + Len(p.buf)
  BY <1>2, ConcatProperties DEF Buffers
<1>4. Total(p, hw) = (ReqWords + Len(hw.wrote)) + Len(p.buf)
  BY AtGranule
<1> DEFINE a == Len(hw.wrote)
           b == Len(p.buf)
           w == Len(hw'.wrote)
           t == Total(p, hw)
<1>5. a \in Nat /\ b \in Nat /\ w = a + b /\ t = (ReqWords + a) + b
  BY <1>3, <1>4
<1> HIDE DEF a, b, w, t
<1>6. t = ReqWords + w /\ w = a + b /\ w \in Nat
  BY <1>2, <1>5
<1> QED BY <1>5, <1>6 DEF a, b, w, t

----------------------------------------------------------------------------
(* Memory *)

\* Granules that have been passed.
MemPassed(n) ==
    /\ req.op \in MemOps /\ Did(hw', n) /\ n <= getDataLenCacheAlign
    /\ req.op = "putmem" => Len(hw'.wrote) = n * sizeMultiplier

LEMMA MemLoopWorks ==
    ASSUME Runs, p.fn = "none", p.at \in {"mem.check", "mem.access", "mem.loop"},
           NEW q \in Frames, q.fn = "none", q.status = p.status, p' = MemLoop(q),
           p.status = "OK" => MemPassed(q.count),
           p.status = "OK" /\ ~isRead => Total(p, hw) = ReqWords + Len(hw'.wrote),
           Len(hw'.wrote) \in Nat
    PROVE  Works
<1> DEFINE more == q.count < getDataLenCacheAlign
<1>1. p' = Loop(q, more, "mem.access", sizeMultiplier, "mem.tail")
  BY DEF MemLoop
<1>2. getDataLenCacheAlign \in Nat /\ q.count \in Nat
  BY DataLenTyped DEF Runs, Frames
<1>3. /\ p'.count = q.count /\ p'.buf = <<>> /\ p'.at \in {"mem.access", "mem.tail"}
      /\ p'.at = "mem.tail" => ~more /\ p'.fn = "none"
      /\ p'.at = "mem.access" /\ ~isRead => p'.fn = "deq" /\ p'.want = sizeMultiplier
  <2> HIDE DEF more
  <2> QED BY <1>1, LoopFields
<1>4. ASSUME p.status = "OK" PROVE Stage(p', hw')
  <2>1. req.op = "putmem" => ~isRead
    BY DEF isRead
  <2>2. AccessStage(p', hw')
    BY <1>2, <1>3, <1>4, <2>1 DEF AccessStage, MemPassed
  <2> QED BY <1>3, <2>2, OneStage DEF AccessLabels, MemLabels
<1> HIDE DEF more
<1>5. /\ "mem.access" \in Granules /\ "mem.tail" \in {"mem.tail", "sram.tail"}
      /\ p.at \in Granules \cup Loops \cup {"mem.check", "sram.check"}
  BY DEF Granules, Loops
<1>6. Lost(p') = 0 /\ ReqWords \in Nat
  BY <1>3, MemAssumption DEF Lost
<1>7. ReqWords + Len(hw'.wrote) + Lost(p') = ReqWords + Len(hw'.wrote)
  BY <1>6
<1> QED BY <1>1, <1>4, <1>5, <1>7, LoopWorks

LEMMA MemWrapWorks == ASSUME Runs, sbeMemAccess_Wrap PROVE Works
<1>a. /\ Ready /\ p.fn = "none" /\ p.at = "mem" /\ (p.status = "OK" => AccessStage(p, hw))
      /\ Goes(Deq(p, "mem.check", "return", ReqWords, isRead, FALSE))
  BY DEF Runs, Stage, sbeMemAccess_Wrap, At
<1>b. p.status = "OK" => /\ req.op \in MemOps /\ Did(hw, 0) /\ p.count = 0 /\ 0 <= getDataLenCacheAlign
                         /\ req.op = "putmem" => Len(hw.wrote) = 0 * sizeMultiplier
  BY <1>a DEF AccessStage, AccessLabels, MemLabels
<1>1. ASSUME p.status = "OK", p'.at = "mem.check", p'.count = p.count, hw' = hw PROVE Stage(p', hw')
  <2>1. AccessStage(p', hw')
    BY <1>b, <1>1 DEF AccessStage
  <2> QED BY <1>1, <2>1, OneStage DEF AccessLabels, MemLabels
<1>2. isRead /\ p.status = "OK" => ReqWords = ArgWords(req) + Payload(req)
  BY <1>b, MemAssumption DEF isRead, MemOps, ArgWords, Payload
<1>3. "mem.check" \in Firsts /\ "mem.check" \notin Told \cup {"idle"} /\ p.at \in Starts /\ ReqWords \in Nat
  BY <1>a, MemAssumption DEF Firsts, Structs, Told, Starts
<1> QED BY <1>a, <1>1, <1>2, <1>3, RequestWorks

LEMMA MemCheckWorks == ASSUME Runs, MemCheck PROVE Works
<1> DEFINE refusal == IF isPba THEN PbaRefusal ELSE AduRefusal
<1>a. /\ Ready /\ p \in Frames /\ p.fn = "none" /\ p.at = "mem.check" /\ (p.status = "OK" => AccessStage(p, hw))
      /\ Goes(IF refusal = "OK" THEN MemLoop(p) ELSE Refuses("mem.tail", refusal))
  BY DEF Runs, Ready, Stage, MemCheck, At
<1> HIDE DEF refusal
<1>1. CASE refusal = "OK"
  <2>1. p' = MemLoop(p) /\ hw' = hw
    BY <1>a, <1>1 DEF Goes, Does
  <2>2. p.status = "OK" => MemPassed(p.count)
    BY <1>a, <2>1 DEF AccessStage, AccessLabels, MemLabels, MemPassed
  <2>3. ~isRead => Total(p, hw) = ReqWords + Len(hw'.wrote)
    BY <1>a, <2>1, CheckTotal
  <2>4. Len(hw'.wrote) \in Nat
    BY <1>a, <2>1, LengthsTyped
  <2> QED BY <1>a, <2>1, <2>2, <2>3, <2>4, MemLoopWorks
<1>2. CASE refusal # "OK"
  <2>1. p'.at = "mem.tail" /\ p'.fn = "none" /\ p'.status # "OK"
    BY <1>a, <1>2, JumpFields DEF Goes, Does
  <2> QED BY <2>1, BadGoesOn DEF Told
<1> QED BY <1>1, <1>2

LEMMA MemSetupWorks == ASSUME Runs, MemSetup PROVE Works
<1>a. /\ Ready /\ p \in Frames /\ hw \in Hardwares /\ p.fn = "none" /\ p.at = "mem.access"
      /\ p.status = "OK" => AccessStage(p, hw) /\ Judged(p)
      /\ setup("mem.access", "mem.tail")
  BY DEF Runs, Ready, Stage, MemSetup, At
<1>1. CASE \E n \in 1..MaxGranules :
              Does(To("mem.access"),
                   [hw EXCEPT !.misused = @ \/ hw.open, !.open = TRUE, !.granted = n,
                              !.used = 0, !.max = n, !.curr = 0, !.cleaned = FALSE])
  <2>1. /\ p' = To("mem.access")
        /\ hw'.done = hw.done /\ hw'.failed = hw.failed /\ hw'.wrote = hw.wrote
    BY <1>a, <1>1 DEF Does, Hardwares
  <2>2. /\ p'.at = p.at /\ p'.fn = p.fn /\ p'.status = p.status /\ p'.count = p.count /\ p'.buf = p.buf
    BY <1>a, <2>1 DEF To, Frames
  <2>3. ASSUME p.status = "OK" PROVE Stage(p', hw')
    <3>1. AccessStage(p', hw')
      BY <1>a, <2>1, <2>2, <2>3 DEF AccessStage, Did
    <3> QED BY <1>a, <2>2, <3>1, OneStage DEF AccessLabels, MemLabels
  <2>4. Wanted(p', hw') /\ (Judged(p) => Judged(p')) /\ (Counts(p') => Counts(p))
    BY <1>a, <2>2 DEF Wanted, Judged, Counts, IsOpen
  <2>5. Total(p', hw') = Total(p, hw)
    BY <2>1, <2>2 DEF Total, Past, Lost
  <2> QED BY <1>a, <2>2, <2>3, <2>4, <2>5 DEF Works, GoesOn, Told
<1>2. CASE p' = Failed("mem.tail")
  <2>1. Fails("mem.tail")
    BY <1>a, <1>2, JumpFields DEF Fails
  <2> QED BY <2>1, FailsGoesOn DEF Told
<1> QED BY <1>a, <1>1, <1>2 DEF setup, Does

LEMMA AccessTakes ==
    ASSUME Ready, NEW last \in BOOLEAN, NEW q, NEW l, accessGranule(last, q, l)
    PROVE  (p' = q /\ Gives(hw.wrote \o p.buf)) \/ p' = Failed(l)
<1>1. hw \in Hardwares
  BY DEF Ready
<1> QED BY <1>1 DEF accessGranule, Does, Gives, Hardwares

LEMMA MemAccessWorks == ASSUME Runs, MemAccess PROVE Works
<1> DEFINE last == p.count = getDataLenCacheAlign - 1
           words == IF isPba THEN sizeMultiplier ELSE AduWords(p.count)
           q == [p EXCEPT !.count = @ + 1]
           e == Enq(q, "mem.loop", "return", Data(p.count, words))
           r == IF isRead /\ words > 0 THEN e ELSE MemLoop(q)
<1>a. /\ Ready /\ p \in Frames /\ hw.done \in Nat /\ p.count \in Nat /\ p.fn = "none" /\ p.at = "mem.access"
      /\ p.status = "OK" => AccessStage(p, hw)
  BY LengthsTyped DEF Runs, Ready, Frames, Stage, MemAccess, At
<1>b. p.count < getDataLenCacheAlign /\ getDataLenCacheAlign \in Nat /\ p.at \in Granules
  BY <1>a, DataLenTyped DEF Runs, Kept, Interface, Granules
<1>c. sizeMultiplier \in Nat
  <2>1. PbaLines \in Nat
    BY MemAssumption
  <2> QED BY <2>1 DEF sizeMultiplier
<1>1. last \in BOOLEAN /\ accessGranule(last, r, "mem.tail")
  BY DEF MemAccess
<1>2. q \in Frames /\ q.fn = "none" /\ q.count = p.count + 1 /\ q.status = p.status
  <2>1. q \in Frames
    BY <1>a DEF Frames
  <2> QED BY <1>a, <2>1 DEF Frames
<1> HIDE DEF last, q, words
<1>3. CASE p' = r /\ Gives(hw.wrote \o p.buf)
  <2>1. /\ Total(p, hw) = ReqWords + Len(hw'.wrote) /\ Len(hw'.wrote) = Len(hw.wrote) + Len(p.buf)
        /\ Len(hw'.wrote) \in Nat
    BY <1>3, <1>b, GranuleTotal DEF Gives
  <2>2. ASSUME p.status = "OK" PROVE MemPassed(q.count)
    <3>1. req.op \in MemOps /\ Did(hw', q.count) /\ q.count <= getDataLenCacheAlign
      BY <1>a, <1>b, <1>2, <1>3, <2>2 DEF AccessStage, AccessLabels, MemLabels, Did, Gives
    <3>2. ASSUME req.op = "putmem" PROVE Len(hw'.wrote) = q.count * sizeMultiplier
      <4>1. Len(hw.wrote) = p.count * sizeMultiplier /\ Len(p.buf) = sizeMultiplier
        BY <1>a, <2>2, <3>2 DEF AccessStage, AccessLabels, MemLabels
      <4>2. (p.count + 1) * sizeMultiplier = p.count * sizeMultiplier + sizeMultiplier
        BY <1>a, <1>c
      <4> QED BY <1>2, <2>1, <4>1, <4>2
    <3> QED BY <3>1, <3>2 DEF MemPassed
  <2>3. CASE isRead /\ words > 0
    <3>1. p' = e
      BY <1>3, <2>3
    <3>2. p'.at = "mem.loop" /\ p'.fn = "enq" /\ p'.status = p.status /\ p'.count = q.count
      BY <1>2, <3>1, SendFields
    <3>3. ASSUME p.status = "OK" PROVE Stage(p', hw')
      <4>1. req.op # "putmem"
        BY <2>3 DEF isRead
      <4>2. AccessStage(p', hw')
        BY <2>2, <3>2, <3>3, <4>1 DEF AccessStage, MemPassed
      <4> QED BY <3>2, <4>2, OneStage DEF AccessLabels, MemLabels
    <3>4. ~AtOpen(p.at, req) /\ ~AtOpen(p'.at, req)
      BY <1>a, <2>3, <3>2 DEF AtOpen, PutLabels, Starts, ScomOps, isRead, ReadOps
    <3> QED BY <1>a, <3>2, <3>3, <3>4, ClosedGoesOn DEF Told
  <2>4. CASE ~(isRead /\ words > 0)
    <3>1. p' = MemLoop(q)
      BY <1>3, <2>4
    <3> QED BY <1>a, <1>2, <2>1, <2>2, <3>1, MemLoopWorks
  <2> QED BY <2>3, <2>4
<1>4. CASE p' = Failed("mem.tail")
  <2>1. Fails("mem.tail")
    BY <1>a, <1>4, JumpFields DEF Fails
  <2> QED BY <2>1, FailsGoesOn DEF Told
<1> HIDE DEF r
<1> QED BY <1>1, <1>3, <1>4, <1>a, AccessTakes

LEMMA MemSentWorks == ASSUME Runs, MemSent PROVE Works
<1>a. /\ Ready /\ p \in Frames /\ p.fn = "none" /\ p.at = "mem.loop" /\ p' = MemLoop(p) /\ hw' = hw
      /\ p.status = "OK" => AccessStage(p, hw)
  BY DEF Runs, Ready, Stage, MemSent, At, Goes, Does
<1>1. isRead
  BY <1>a DEF Ready, Control, Loops, ReadOps, isRead
<1>2. p.status = "OK" => MemPassed(p.count)
  BY <1>a DEF AccessStage, AccessLabels, MemLabels, MemPassed
<1>3. Len(hw'.wrote) \in Nat
  BY <1>a, LengthsTyped
<1> QED BY <1>a, <1>1, <1>2, <1>3, MemLoopWorks

LEMMA MemTailWorks == ASSUME Runs, MemTail PROVE Works
<1>a. /\ Ready /\ p \in Frames /\ p.fn = "none" /\ p.at = "mem.tail"
      /\ Goes(IF isRead THEN To("mem.reply") ELSE flushUpstreamFifo("mem.reply"))
      /\ p.status = "OK" => AccessStage(p, hw)
  BY DEF Runs, Ready, Stage, MemTail, At
<1>1. CASE isRead
  <2>1. p' = To("mem.reply") /\ hw' = hw
    BY <1>a, <1>1 DEF Goes, Does
  <2>2. p'.at = "mem.reply" /\ p'.fn = "none" /\ p'.status = p.status /\ p'.count = p.count
    BY <1>a, <2>1, JumpFields
  <2>3. ASSUME p.status = "OK" PROVE Stage(p', hw')
    <3>1. req.op # "putmem"
      BY <1>1 DEF isRead
    <3>2. AccessStage(p', hw')
      BY <1>a, <2>1, <2>2, <2>3, <3>1 DEF AccessStage, AccessLabels
    <3> QED BY <2>2, <3>2, OneStage DEF AccessLabels
  <2>4. ~AtOpen(p.at, req) /\ ~AtOpen(p'.at, req)
    BY <1>a, <1>1, <2>2 DEF AtOpen, PutLabels, Starts, ScomOps, isRead, ReadOps
  <2> QED BY <1>a, <2>2, <2>3, <2>4, ClosedGoesOn DEF Told
<1>2. CASE ~isRead
  <2>1. PICK eot, flush : /\ Goes(Deq(p, "mem.reply", "return", 0, eot, flush))
                          /\ flush => p.status # "OK"
    <3> DEFINE bad == p.status # "OK"
    <3>1. Goes(Deq(p, "mem.reply", "return", 0, TRUE, bad)) /\ (bad => p.status # "OK")
      BY <1>a, <1>2 DEF flushUpstreamFifo
    <3> HIDE DEF bad
    <3> QED BY <3>1
  <2>2. /\ p'.fn = "deq" /\ p'.at = "mem.reply" /\ p'.want = 0 /\ p'.buf = <<>> /\ p'.count = p.count
        /\ p'.status = p.status /\ hw' = hw /\ (p'.flush => p.status # "OK")
    BY <1>a, <2>1, GoesDeq
  <2>3. CASE p.status # "OK"
    BY <2>2, <2>3, BadGoesOn DEF Told
  <2>4. CASE p.status = "OK"
    <3>1. req.op = "putmem" /\ p.buf = <<>>
      BY <1>a, <1>2, <2>4 DEF AccessStage, AccessLabels, MemOps, isRead
    <3>2. AccessStage(p', hw')
      BY <1>a, <2>2, <2>4, <3>1 DEF AccessStage, AccessLabels
    <3>3. Stage(p', hw')
      BY <2>2, <3>2, OneStage DEF AccessLabels
    <3>4. Wanted(p', hw') /\ Judged(p')
      BY <2>2, <2>4 DEF Wanted, Judged
    <3>5. Counts(p)
      BY <1>a, <1>2 DEF Counts, IsOpen, AtOpen, PutLabels, isRead, ReadOps
    <3>6. Total(p', hw') = Total(p, hw)
      BY <1>a, <2>2, <3>1 DEF Total, Past, Lost, Starts, ScomOps, Firsts, Structs
    <3> QED BY <2>2, <2>4, <3>3, <3>4, <3>5, <3>6 DEF Works, GoesOn, Told
  <2> QED BY <2>3, <2>4
<1> QED BY <1>1, <1>2

LEMMA MemReplyWorks == ASSUME Runs, MemReply PROVE Works
<1> DEFINE n == IF isPba THEN p.count * granuleSize ELSE sbeAduLenInUpStreamFifo(p.count)
<1>a. /\ Ready /\ p.count \in Nat /\ p.fn = "none" /\ p.at = "mem.reply"
      /\ Goes(sbeDsSendRespHdr(p, <<<<"len", n>>>>, "mem.bell", p.status, p.fapi))
      /\ p.status = "OK" => AccessStage(p, hw)
  BY DEF Runs, Ready, Frames, Stage, MemReply, MemLen, At
<1>1. n \in Int
  <2>1. PbaLines \in Nat /\ req.len \in Nat
    BY <1>a, MemAssumption, RequestTyped
  <2>2. granuleSize \in Nat
    BY <2>1 DEF granuleSize
  <2>3. p.count * granuleSize \in Nat
    BY <1>a, <2>2
  <2> QED BY <1>a, <2>3 DEF sbeAduLenInUpStreamFifo
<1> HIDE DEF n
<1>2. ASSUME p.status = "OK" PROVE Accomplished(hw)
  <2>1. /\ req.op \in MemOps /\ Did(hw, getDataLenCacheAlign)
        /\ req.op = "putmem" => Len(hw.wrote) = Payload(req)
    BY <1>a, <1>2 DEF AccessStage, AccessLabels
  <2>2. Work = getDataLenCacheAlign
    BY <2>1 DEF Work, MemOps
  <2> QED BY <2>1, <2>2 DEF Accomplished, Puts, MemOps
<1>3. p.at \notin Told \cup {"idle"} /\ ~AtOpen(p.at, req)
  BY <1>a DEF Told, AtOpen, PutLabels, Starts, ScomOps
<1> QED BY <1>a, <1>1, <1>2, <1>3, LenTells

----------------------------------------------------------------------------
(* SRAM *)

LEMMA QuotientIs ==
    ASSUME NEW a \in Int, NEW b \in Nat \ {0}, NEW k \in Int, k * b <= a, a < k * b + b
    PROVE  a \div b = k
  OBVIOUS

LEMMA SramTyped ==
    ASSUME Ready, p.at \in SramLabels
    PROVE  /\ req.op \in SramOps /\ req.len \in Nat /\ req.len % 4 = 0 /\ SramGranule \in Nat \ {0}
           /\ p.count \in Nat /\ hw.done \in Nat
<1>1. req.op \in SramOps
  BY DEF Ready, Control, Owned, Common, SramLabels
<1>2. SramGranule \in Nat \ {0} /\ p.count \in Nat /\ hw.done \in Nat
  BY MemAssumption DEF Ready, Frames, Hardwares
<1> QED BY <1>1, <1>2, RequestTyped DEF SramOps

LEMMA PassedFirst == ASSUME Ready PROVE Passed(0, 0)
<1>1. SramGranule \in Nat \ {0} /\ 0 % 8 = 0
  BY MemAssumption
<1> QED BY <1>1 DEF Passed

\* Before all bytes have been passed, all of them have been handed over.
LEMMA NothingUnwritten == ASSUME Ready PROVE Unwritten(0) = 0
<1>1. HalfBlock(0) = 0 /\ req.len \in Nat
  BY HalfTyped, RequestTyped
<1>2. ~(0 < req.len) => req.len = 0
  BY <1>1
<1> QED BY <1>1, <1>2 DEF Unwritten

LEMMA PassedMore ==
    ASSUME Ready, p.at = "sram.access", NEW k \in Nat, Passed(k, p.count)
    PROVE  /\ Passed(k + 1, p.count + SramPass(p.count)) /\ p.count + SramPass(p.count) <= req.len
           /\ SramPass(p.count) \in Nat
           /\ Unwritten(p.count + SramPass(p.count)) = HalfBlock(SramPass(p.count))
<1> DEFINE n == p.count
           s == SramPass(n)
           g == k * SramGranule
           G == SramGranule
           L == req.len
<1>1. L \in Nat /\ G \in Nat \ {0} /\ n \in Nat /\ n < L
  BY SramTyped DEF Ready, Control, Counted, SramLabels
<1>2. s = IF L - n <= G THEN L - n ELSE G
  BY DEF SramPass
<1>3. n <= g /\ g < n + G /\ (n < L => n = g) /\ n % 8 = 0
  BY <1>1 DEF Passed
<1>8. G % 8 = 0
  BY RequestAssumption
<1>4. (k + 1) * SramGranule = g + G
  BY <1>1
<1> HIDE DEF n, s, g, G, L
<1>5. n + s <= g + G /\ g + G < n + s + G /\ (n + s < L => n + s = g + G) /\ n + s <= L /\ s \in Nat
  BY <1>1, <1>2, <1>3
<1>6. k + 1 \in Nat
  OBVIOUS
<1>9. n + s < L => (n + s) % 8 = 0 /\ s % 8 = 0
  BY <1>1, <1>2, <1>3, <1>8
<1>10. ~(n + s < L) => n + s = L /\ L % 8 = s % 8
  BY <1>1, <1>2, <1>3
<1>7. Passed(k + 1, n + s)
  BY <1>4, <1>5, <1>6, <1>9 DEF Passed, G, L
<1>11. Unwritten(n + s) = HalfBlock(s)
  <2>1. CASE n + s < L
    <3>1. HalfBlock(s) = 0
      BY <1>5, <1>9, <2>1, HalfTyped
    <3> QED BY <2>1, <3>1 DEF Unwritten, L
  <2>2. CASE ~(n + s < L)
    BY <1>10, <2>2 DEF Unwritten, HalfBlock, L
  <2> QED BY <2>1, <2>2
<1> QED BY <1>5, <1>7, <1>11 DEF n, s, L

\* Bytes that have been passed.
SramPassed(n) ==
    /\ ~hw'.failed /\ Passed(hw'.done - SramSetup, n) /\ n <= req.len
    /\ req.op = "putsram" => 4 * (Len(hw'.wrote) + Unwritten(n)) = n

LEMMA SramLoopWorks ==
    ASSUME Runs, p.fn = "none", p.at \in {"sram.check", "sram.access", "sram.loop"},
           NEW q \in Frames, q.fn = "none", q.status = p.status, p' = SramLoop(q), q.count % 4 = 0,
           p.status = "OK" => SramPassed(q.count),
           p.status = "OK" /\ ~isRead => Total(p, hw) = ReqWords + Len(hw'.wrote) + Unwritten(q.count),
           Len(hw'.wrote) \in Nat
    PROVE  Works
<1> DEFINE more == q.count < req.len
           words == SramPass(q.count) \div 4
<1>1. p' = Loop(q, more, "sram.access", words, "sram.tail")
  BY DEF SramLoop
<1>2. q.count \in Nat /\ p.at \in SramLabels /\ p.at \notin Common /\ Ready
  BY DEF Runs, Frames, SramLabels, Common
<1>3. req.op \in SramOps /\ req.len \in Nat
  BY <1>2, SramTyped
<1>4. more => 4 * words = SramPass(q.count)
  <2>1. ASSUME more PROVE SramPass(q.count) \in Nat /\ SramPass(q.count) % 4 = 0
    BY <1>2, <2>1, SramPassTyped
  <2> QED BY <2>1
<1>5. /\ p'.count = q.count /\ p'.buf = <<>> /\ p'.at \in {"sram.access", "sram.tail"}
      /\ p'.at = "sram.tail" => ~more /\ p'.fn = "none"
      /\ p'.at = "sram.access" => more
      /\ p'.at = "sram.access" /\ ~isRead => p'.fn = "deq" /\ p'.want = words
  <2> HIDE DEF more, words
  <2> QED BY <1>1, LoopFields
<1>6. ASSUME p.status = "OK" PROVE Stage(p', hw')
  <2>1. req.op = "putsram" => ~isRead
    BY DEF isRead
  <2> HIDE DEF words
  <2>2. SramStage(p', hw')
    BY <1>2, <1>3, <1>4, <1>5, <1>6, <2>1 DEF SramStage, SramPassed
  <2> QED BY <1>5, <2>2, OneStage DEF SramLabels
<1>8. Lost(p') = Unwritten(q.count)
  BY <1>5 DEF Lost, Unwritten
<1> HIDE DEF more, words
<1>7. /\ "sram.access" \in Granules /\ "sram.tail" \in {"mem.tail", "sram.tail"}
      /\ p.at \in Granules \cup Loops \cup {"mem.check", "sram.check"}
  BY DEF Granules, Loops
<1> QED BY <1>1, <1>6, <1>7, <1>8, LoopWorks

LEMMA SramWrapWorks == ASSUME Runs, sbeOccSramAccess_Wrap PROVE Works
<1>a. /\ Ready /\ p.fn = "none" /\ p.at = "sram" /\ (p.status = "OK" => SramStage(p, hw))
      /\ Goes(Deq(p, "sram.check", "return", ReqWords, isRead, FALSE))
  BY DEF Runs, Stage, sbeOccSramAccess_Wrap, At
<1>b. req.op \in SramOps
  BY <1>a, SramTyped DEF SramLabels
<1>1. ASSUME p.status = "OK", p'.at = "sram.check", p'.count = p.count, hw' = hw PROVE Stage(p', hw')
  <2>1. SramStage(p', hw')
    BY <1>a, <1>1 DEF SramStage, SramLabels
  <2> QED BY <1>1, <2>1, OneStage DEF SramLabels
<1>2. isRead /\ p.status = "OK" => ReqWords = ArgWords(req) + Payload(req)
  BY <1>b, MemAssumption DEF isRead, SramOps, ArgWords, Payload
<1>3. "sram.check" \in Firsts /\ "sram.check" \notin Told \cup {"idle"} /\ p.at \in Starts /\ ReqWords \in Nat
  BY <1>a, MemAssumption DEF Firsts, Structs, Told, Starts
<1> QED BY <1>a, <1>1, <1>2, <1>3, RequestWorks

LEMMA SramCheckWorks == ASSUME Runs, SramCheck PROVE Works
<1>a. /\ Ready /\ p \in Frames /\ p.fn = "none" /\ p.at = "sram.check" /\ p.at \in SramLabels
      /\ p.status = "OK" => SramStage(p, hw)
  BY DEF Runs, Ready, Stage, SramCheck, At, SramLabels
<1>b. p.count % 4 = 0 /\ hw.done \in Nat
  BY <1>a, SramTyped DEF Ready, Control, Counted
<1>1. \/ Goes([p EXCEPT !.at = "return", !.rc = "GENERIC_FAILURE"])
      \/ "circular" \notin req.flags /\ Hwp(SramLoop(p), hw, "sram.tail")
      \/ Goes(Refuses("sram.tail", "ACCESS_DENIED"))
      \/ "circular" \in req.flags /\ Goes(SramLoop(p))
  BY DEF SramCheck
<1>2. CASE Goes([p EXCEPT !.at = "return", !.rc = "GENERIC_FAILURE"])
  <2>1. p'.at = "return" /\ p'.fn = "none" /\ p'.rc # "OK"
    BY <1>a, <1>2 DEF Goes, Does, Frames
  <2> QED BY <2>1 DEF Works, GivesUp
<1>3. CASE Goes(Refuses("sram.tail", "ACCESS_DENIED"))
  <2>1. p'.at = "sram.tail" /\ p'.fn = "none" /\ p'.status # "OK"
    BY <1>a, <1>3, JumpFields DEF Goes, Does
  <2> QED BY <2>1, BadGoesOn DEF Told
<1>4. CASE Fails("sram.tail")
  BY <1>4, FailsGoesOn DEF Told
<1>5. CASE p' = SramLoop(p) /\ hw'.wrote = hw.wrote /\ hw'.failed = hw.failed /\ hw'.done = hw.done + SramSetup
  <2>1. ASSUME p.status = "OK" PROVE SramPassed(p.count)
    <3>1. /\ ~hw.failed /\ hw.done = 0 /\ p.count = 0 /\ p.count <= req.len
          /\ req.op = "putsram" => 4 * (Len(hw.wrote) + Unwritten(p.count)) = p.count
      BY <1>a, <2>1 DEF SramStage
    <3>2. SramSetup \in Nat
      BY DEF SramSetup
    <3>3. hw'.done - SramSetup = 0
      BY <1>5, <3>1, <3>2
    <3>4. Passed(hw'.done - SramSetup, p.count)
      BY <1>a, <3>1, <3>3, PassedFirst
    <3> QED BY <1>5, <3>1, <3>4 DEF SramPassed
  <2>2. ASSUME p.status = "OK", ~isRead
        PROVE  Total(p, hw) = ReqWords + Len(hw'.wrote) + Unwritten(p.count)
    <3>1. Total(p, hw) = ReqWords + Len(hw'.wrote)
      BY <1>a, <1>5, <2>2, CheckTotal
    <3>2. p.count = 0
      BY <1>a, <2>2 DEF SramStage
    <3>3. Unwritten(p.count) = 0
      BY <1>a, <3>2, NothingUnwritten
    <3>4. Len(hw'.wrote) \in Nat /\ ReqWords \in Nat
      BY <1>a, <1>5, LengthsTyped
    <3> QED BY <3>1, <3>3, <3>4
  <2>3. Len(hw'.wrote) \in Nat
    BY <1>a, <1>5, LengthsTyped
  <2> QED BY <1>a, <1>b, <1>5, <2>1, <2>2, <2>3, SramLoopWorks
<1>6. CASE "circular" \notin req.flags /\ Hwp(SramLoop(p), hw, "sram.tail")
  <2>1. (p' = SramLoop(p) /\ OneMore) \/ Fails("sram.tail")
    BY <1>a, <1>6, HwpOutcome
  <2>2. SramSetup = 1
    BY <1>6 DEF SramSetup
  <2> QED BY <1>4, <1>5, <2>1, <2>2 DEF OneMore
<1>7. CASE "circular" \in req.flags /\ Goes(SramLoop(p))
  <2>1. p' = SramLoop(p) /\ hw' = hw /\ SramSetup = 0
    BY <1>7 DEF Goes, Does, SramSetup
  <2> QED BY <1>b, <1>5, <2>1
<1> QED BY <1>1, <1>2, <1>3, <1>6, <1>7

LEMMA BlocksLength ==
    ASSUME Ready, NEW pass \in Nat, 4 * Len(p.buf) = pass
    PROVE  Len(hw.wrote \o SramBlocks(pass)) = Len(hw.wrote) + Len(p.buf) - HalfBlock(pass)
<1> DEFINE b == p.buf
           n == Len(b)
           z == HalfBlock(pass)
           w == hw.wrote
           c == SramBlocks(pass)
<1>1. b \in Buffers /\ n \in Nat /\ w \in Buffers /\ c \in Buffers /\ c = SubSeq(b, 1, n - z)
      /\ Len(w) \in Nat
  BY LengthsTyped, BlocksTyped DEF Ready, Frames, Hardwares, SramBlocks
<1>2. z \in Nat /\ 4 * n = pass
  BY HalfTyped
<1> HIDE DEF n
<1>3. z <= n
  BY <1>1, <1>2 DEF HalfBlock
<1> HIDE DEF b, z, w, c
<1>4. n - z \in Nat /\ n - z <= Len(b)
  BY <1>1, <1>2, <1>3 DEF n
<1>5. Len(c) = n - z
  BY <1>1, <1>4, SubSeqProperties DEF Buffers
<1>6. Len(w \o c) = Len(w) + Len(c)
  BY <1>1, ConcatProperties DEF Buffers
<1>7. Len(w \o c) = Len(w) + n - z
  BY <1>1, <1>2, <1>5, <1>6
<1> QED BY <1>7 DEF b, n, z, w, c

LEMMA SramAccessWorks == ASSUME Runs, SramAccess PROVE Works
<1> DEFINE s == SramPass(p.count)
           q == [p EXCEPT !.count = @ + s]
           e == Enq(q, "sram.loop", "return", SramData(p.count, s))
           r == IF isRead THEN e ELSE SramLoop(q)
           w == hw.wrote \o SramBlocks(s)
           h == [[hw EXCEPT !.wrote = w] EXCEPT !.done = @ + 1]
<1>a. /\ Ready /\ p \in Frames /\ p.count \in Nat /\ p.fn = "none" /\ p.at = "sram.access"
      /\ p.at \in SramLabels /\ p.at \in Granules /\ p.at \notin Common
      /\ p.status = "OK" => SramStage(p, hw)
  BY DEF Runs, Ready, Frames, Stage, SramAccess, At, SramLabels, Granules, Common
<1>b. p.count % 4 = 0 /\ p.count < req.len /\ req.op \in SramOps /\ hw.done \in Nat
  BY <1>a, SramTyped DEF Ready, Control, Counted
<1>c. s \in Nat /\ (p.count + s) % 4 = 0
  BY <1>a, <1>b, SramPassTyped
<1>1. Hwp(r, [hw EXCEPT !.wrote = w], "sram.tail")
  BY <1>a DEF SramAccess, Ready, Hardwares
<1>2. q \in Frames /\ q.fn = "none" /\ q.count = p.count + s /\ q.status = p.status
  <2> HIDE DEF s
  <2>1. q \in Frames
    BY <1>a, <1>c DEF Frames
  <2> QED BY <1>a, <1>c, <2>1 DEF Frames
<1>3. Does(r, h) \/ Does(Failed("sram.tail"), [hw EXCEPT !.failed = TRUE])
  BY <1>1 DEF Hwp
<1>4. CASE Does(r, h)
  <2>1. p' = r /\ Gives(w)
    <3> HIDE DEF r, w
    <3> QED BY <1>a, <1>4, GivesField
  <2>2. Len(hw'.wrote) \in Nat
    <3> HIDE DEF s
    <3>1. SramBlocks(s) \in Buffers /\ hw.wrote \in Buffers
      BY <1>a, <1>c, BlocksTyped DEF Ready, Hardwares
    <3> QED BY <2>1, <3>1, ConcatProperties DEF Gives, Buffers
  <2>3. ASSUME p.status = "OK"
        PROVE  /\ SramPassed(q.count)
               /\ ~isRead => Total(p, hw) = ReqWords + Len(hw'.wrote) + Unwritten(q.count)
    <3> DEFINE k == hw.done - SramSetup
    <3>1. ~hw.failed /\ Passed(k, p.count)
      BY <1>a, <2>3 DEF SramStage
    <3>2. k \in Nat /\ hw'.done - SramSetup = k + 1 /\ hw'.failed = hw.failed
      BY <1>b, <2>1, <3>1 DEF Passed, Gives, SramSetup
    <3> HIDE DEF k
    <3>3. Passed(k + 1, q.count) /\ q.count <= req.len /\ Unwritten(q.count) = HalfBlock(s)
      BY <1>a, <1>2, <3>1, <3>2, PassedMore
    <3>4. ASSUME req.op = "putsram"
          PROVE  /\ 4 * (Len(hw'.wrote) + Unwritten(q.count)) = q.count
                 /\ Total(p, hw) = ReqWords + Len(hw'.wrote) + Unwritten(q.count)
      <4>1. 4 * (Len(hw.wrote) + Unwritten(p.count)) = p.count /\ 4 * Len(p.buf) = s
        BY <1>a, <2>3, <3>4 DEF SramStage
      <4>2. Unwritten(p.count) = 0
        BY <1>b DEF Unwritten
      <4>3. Len(w) = Len(hw.wrote) + Len(p.buf) - HalfBlock(s)
        <5> HIDE DEF s
        <5> QED BY <1>a, <1>c, <4>1, BlocksLength
      <4>4. Total(p, hw) = (ReqWords + Len(hw.wrote)) + Len(p.buf)
            /\ ReqWords \in Nat /\ Len(hw.wrote) \in Nat /\ Len(p.buf) \in Nat
        BY <1>a, AtGranule
      <4> DEFINE b == Len(p.buf)
                 m == Len(hw.wrote)
                 m2 == Len(hw'.wrote)
                 u == Unwritten(q.count)
                 t == Total(p, hw)
                 z == HalfBlock(s)
      <4>5. /\ b \in Nat /\ m \in Nat /\ m2 = m + b - z /\ 4 * (m + 0) = p.count /\ 4 * b = s
            /\ u = z /\ t = (ReqWords + m) + b /\ ReqWords \in Nat
        BY <2>1, <3>3, <4>1, <4>2, <4>3, <4>4 DEF Gives
      <4>6. z \in Nat
        BY <1>c, HalfTyped
      <4> HIDE DEF s, b, m, m2, u, t, z
      <4>7. 4 * (m2 + u) = p.count + s /\ t = ReqWords + m2 + u
        BY <1>a, <1>c, <4>5, <4>6
      <4> QED BY <1>2, <4>7 DEF m2, u, t
    <3>5. ~isRead => req.op = "putsram"
      BY <1>b DEF SramOps, isRead
    <3> QED BY <3>1, <3>2, <3>3, <3>4, <3>5 DEF SramPassed
  <2>4. CASE isRead
    <3>1. p' = e
      BY <2>1, <2>4
    <3> HIDE DEF q
    <3>2. p'.at = "sram.loop" /\ p'.fn = "enq" /\ p'.status = p.status /\ p'.count = q.count
      BY <1>2, <3>1, SendFields
    <3>3. ASSUME p.status = "OK" PROVE Stage(p', hw')
      <4>1. req.op # "putsram"
        BY <2>4 DEF isRead
      <4>2. SramStage(p', hw')
        BY <2>3, <3>2, <3>3, <4>1 DEF SramStage, SramPassed
      <4> QED BY <3>2, <4>2, OneStage DEF SramLabels
    <3>4. ~AtOpen(p.at, req) /\ ~AtOpen(p'.at, req)
      BY <1>a, <2>4, <3>2 DEF AtOpen, PutLabels, Starts, ScomOps, isRead, ReadOps
    <3> QED BY <1>a, <3>2, <3>3, <3>4, ClosedGoesOn DEF Told
  <2>5. CASE ~isRead
    <3>1. p' = SramLoop(q)
      BY <2>1, <2>5
    <3>2. q.count % 4 = 0
      BY <1>c, <1>2
    <3> HIDE DEF q
    <3> QED BY <1>a, <1>2, <2>2, <2>3, <3>1, <3>2, SramLoopWorks
  <2> QED BY <2>4, <2>5
<1>5. CASE Does(Failed("sram.tail"), [hw EXCEPT !.failed = TRUE])
  <2>1. Fails("sram.tail")
    BY <1>a, <1>5, JumpFields DEF Does, Fails
  <2> QED BY <2>1, FailsGoesOn DEF Told
<1> QED BY <1>3, <1>4, <1>5

LEMMA SramSentWorks == ASSUME Runs, SramSent PROVE Works
<1>a. /\ Ready /\ p \in Frames /\ p.fn = "none" /\ p.at = "sram.loop" /\ p' = SramLoop(p) /\ hw' = hw
      /\ p.status = "OK" => SramStage(p, hw)
  BY DEF Runs, Ready, Stage, SramSent, At, Goes, Does
<1>1. isRead /\ p.count % 4 = 0
  BY <1>a DEF Ready, Control, Counted, Loops, ReadOps, isRead
<1>2. p.status = "OK" => SramPassed(p.count)
  BY <1>a DEF SramStage, SramLabels, SramPassed
<1>3. Len(hw'.wrote) \in Nat
  BY <1>a, LengthsTyped
<1> QED BY <1>a, <1>1, <1>2, <1>3, SramLoopWorks

\* The words of a put that has passed all of its bytes.
LEMMA SramWords ==
    ASSUME Ready, req.op = "putsram", 4 * (Len(hw.wrote) + Unwritten(req.len)) = req.len
    PROVE  /\ Len(hw.wrote) + HalfBlock(req.len) = Payload(req) /\ Len(hw.wrote) \in Nat
           /\ Len(hw.wrote) = 2 * (req.len \div 8)
<1>1. Len(hw.wrote) \in Nat /\ req.len \in Nat
  BY LengthsTyped, RequestTyped
<1>2. Payload(req) = req.len \div 4
  BY DEF Payload
<1>3. Unwritten(req.len) = HalfBlock(req.len)
  BY <1>1 DEF Unwritten
<1> DEFINE m == Len(hw.wrote)
           n == req.len
           y == Payload(req)
<1>4. m \in Nat /\ n \in Nat /\ y = n \div 4 /\ 4 * (m + ((n % 8) \div 4)) = n
  BY <1>1, <1>2, <1>3 DEF HalfBlock
<1> HIDE DEF m, n, y
<1>5. m + ((n % 8) \div 4) = y /\ m = 2 * (n \div 8)
  BY <1>4
<1> QED BY <1>1, <1>5 DEF m, n, y, HalfBlock

LEMMA SramTailWorks == ASSUME Runs, SramTail PROVE Works
<1>a. /\ Ready /\ p \in Frames /\ p.fn = "none" /\ p.at = "sram.tail" /\ p.at \in SramLabels
      /\ Goes(IF isRead THEN To("sram.reply") ELSE flushUpstreamFifo("sram.reply"))
      /\ p.status = "OK" => SramStage(p, hw)
  BY DEF Runs, Ready, Stage, SramTail, At, SramLabels
<1>1. CASE isRead
  <2>1. p' = To("sram.reply") /\ hw' = hw
    BY <1>a, <1>1 DEF Goes, Does
  <2>2. p'.at = "sram.reply" /\ p'.fn = "none" /\ p'.status = p.status /\ p'.count = p.count
    BY <1>a, <2>1, JumpFields
  <2>3. ASSUME p.status = "OK" PROVE Stage(p', hw')
    <3>1. SramStage(p', hw')
      BY <1>a, <2>1, <2>2, <2>3 DEF SramStage
    <3> QED BY <2>2, <3>1, OneStage DEF SramLabels
  <2>4. ~AtOpen(p.at, req) /\ ~AtOpen(p'.at, req)
    BY <1>a, <1>1, <2>2 DEF AtOpen, PutLabels, Starts, ScomOps, isRead, ReadOps
  <2> QED BY <1>a, <2>2, <2>3, <2>4, ClosedGoesOn DEF Told
<1>2. CASE ~isRead
  <2>1. PICK eot, flush : /\ Goes(Deq(p, "sram.reply", "return", 0, eot, flush))
                          /\ flush => p.status # "OK"
    <3> DEFINE bad == p.status # "OK"
    <3>1. Goes(Deq(p, "sram.reply", "return", 0, TRUE, bad)) /\ (bad => p.status # "OK")
      BY <1>a, <1>2 DEF flushUpstreamFifo
    <3> HIDE DEF bad
    <3> QED BY <3>1
  <2>2. /\ p'.fn = "deq" /\ p'.at = "sram.reply" /\ p'.want = 0 /\ p'.buf = <<>> /\ p'.count = p.count
        /\ p'.status = p.status /\ hw' = hw /\ (p'.flush => p.status # "OK")
    BY <1>a, <2>1, GoesDeq
  <2>3. CASE p.status # "OK"
    BY <2>2, <2>3, BadGoesOn DEF Told
  <2>4. CASE p.status = "OK"
    <3>1. req.op = "putsram"
      BY <1>a, <1>2, SramTyped DEF SramOps, isRead
    <3>2. p.buf = <<>> /\ 4 * (Len(hw.wrote) + Unwritten(req.len)) = req.len
      BY <1>a, <2>4, <3>1 DEF SramStage
    <3>3. Stage(p', hw')
      <4>1. SramStage(p', hw')
        BY <1>a, <2>2, <2>4 DEF SramStage
      <4> QED BY <2>2, <4>1, OneStage DEF SramLabels
    <3>4. Wanted(p', hw')
      <4>1. Len(hw.wrote) + HalfBlock(req.len) = Payload(req) /\ Len(hw.wrote) \in Nat
        BY <1>a, <3>1, <3>2, SramWords
      <4>2. ArgWords(req) = ReqWords /\ ReqWords \in Nat
        BY <3>1, MemAssumption DEF ArgWords
      <4>3. Past(p', hw') = ReqWords + Len(hw.wrote) + HalfBlock(req.len)
        BY <2>2 DEF Past, Lost, Firsts, Structs
      <4>a. HalfBlock(req.len) \in Nat
        <5>1. req.len \in Nat
          BY <1>a, RequestTyped
        <5> QED BY <5>1, HalfTyped
      <4>4. Past(p', hw') + p'.want = ArgWords(req) + Payload(req)
        BY <2>2, <4>1, <4>2, <4>3, <4>a
      <4> QED BY <2>2, <2>4, <4>4 DEF Wanted
    <3>5. Judged(p') /\ Counts(p)
      BY <1>a, <1>2, <2>2 DEF Judged, Counts, IsOpen, AtOpen, PutLabels, isRead, ReadOps
    <3>6. Total(p', hw') = Total(p, hw)
      BY <1>a, <2>2, <3>2 DEF Total, Past, Lost, Starts, ScomOps, Firsts, Structs
    <3> QED BY <2>2, <2>4, <3>3, <3>4, <3>5, <3>6 DEF Works, GoesOn, Told
  <2> QED BY <2>3, <2>4
<1> QED BY <1>1, <1>2

LEMMA SramReplyWorks == ASSUME Runs, SramReply PROVE Works
<1>a. /\ Ready /\ p.fn = "none" /\ p.at = "sram.reply" /\ p.at \in SramLabels
      /\ Goes(sbeDsSendRespHdr(p, <<<<"len", p.count>>>>, "return", p.status, p.fapi))
      /\ p.status = "OK" => SramStage(p, hw)
  BY DEF Runs, Stage, SramReply, At, SramLabels
<1>b. req.op \in SramOps /\ req.len \in Nat /\ SramGranule \in Nat \ {0} /\ p.count \in Nat /\ hw.done \in Nat
  BY <1>a, SramTyped
<1>1. ASSUME p.status = "OK" PROVE Accomplished(hw)
  <2> DEFINE k == hw.done - SramSetup
             a == req.len + SramGranule - 1
  <2>1. ~hw.failed /\ Passed(k, req.len) /\ (req.op = "putsram" => 4 * (Len(hw.wrote) + Unwritten(req.len)) = req.len)
    BY <1>a, <1>1 DEF SramStage
  <2>2. Work = (a \div SramGranule) + SramSetup
    BY <1>b DEF Work, SramSetup, SramOps
  <2>3. a \div SramGranule = k
    <3>1. k \in Nat /\ a \in Int
      BY <1>b, <2>1 DEF Passed
    <3>2. k * SramGranule \in Nat
      BY <1>b, <3>1
    <3>3. k * SramGranule <= a /\ a < k * SramGranule + SramGranule
      BY <1>b, <2>1, <3>2 DEF Passed
    <3> HIDE DEF k, a
    <3> QED BY <1>b, <3>1, <3>3, QuotientIs
  <2>4. hw.done = Work
    BY <1>b, <2>2, <2>3 DEF SramSetup
  <2>5. req.op = "putsram" => Len(hw.wrote) = 2 * (req.len \div 8)
    BY <1>a, <2>1, SramWords
  <2> QED BY <1>b, <2>1, <2>4, <2>5 DEF Accomplished, Did, Puts, SramOps
<1>2. p.at \notin Told \cup {"idle"} /\ ~AtOpen(p.at, req) /\ req.op # "putmem"
  BY <1>a, <1>b DEF Told, AtOpen, PutLabels, Starts, ScomOps, SramOps
<1> QED BY <1>a, <1>b, <1>1, <1>2, LenTells

----------------------------------------------------------------------------
(* Behind the header *)

Concludes ==
    /\ p'.at \in Told /\ ~(p'.fn = "none" /\ p'.at = "response.done")
    /\ p'.fn = "deq" => p'.flush /\ p'.eot
    /\ Answering(p') => \/ p'.fn = "enq" /\ Heads(p', FALSE)
                        \/ p'.fn # "enq" /\ Answering(p) /\ (Finished(p, hw) => Finished(p', hw'))

LEMMA MemBellConcludes == ASSUME Ready, Kept(p, hw), MemBell PROVE Concludes
<1>1. p.fn = "none" /\ p.at = "mem.bell" /\ p \in Frames /\ hw \in Hardwares
  BY DEF MemBell, At, Ready
<1>2. p.rc = "OK" /\ Answering(p)
  BY <1>1 DEF Kept, Answering
<1>3. CASE /\ p' = To("return") /\ hw'.done = hw.done /\ hw'.failed = hw.failed /\ hw'.wrote = hw.wrote
           /\ req.op = "putmem" /\ isPassThrough => hw'.bell
  <2>1. p'.at = "return" /\ p'.fn = "none" /\ p'.rc = "OK"
    BY <1>1, <1>2, <1>3 DEF To, Frames
  <2>2. Finished(p, hw) => Finished(p', hw')
    BY <1>3 DEF Finished, Accomplished, Did
  <2> QED BY <1>2, <2>1, <2>2 DEF Concludes, Told
<1>4. CASE isPassThrough /\ ~isRead /\ Does(To("return"), [hw EXCEPT !.bell = TRUE])
  <2>1. /\ p' = To("return") /\ hw'.done = hw.done /\ hw'.failed = hw.failed /\ hw'.wrote = hw.wrote
        /\ hw'.bell
    BY <1>1, <1>4 DEF Does, Hardwares
  <2> QED BY <1>3, <2>1
<1>5. CASE ~(isPassThrough /\ ~isRead) /\ Goes(To("return"))
  <2>1. p' = To("return") /\ hw' = hw
    BY <1>5 DEF Goes, Does
  <2>2. ~(req.op = "putmem" /\ isPassThrough)
    BY <1>5 DEF isRead
  <2> QED BY <1>3, <2>1, <2>2
<1>6. CASE p' = [p EXCEPT !.at = "return", !.rc = "GENERIC_FAILURE"]
  <2>1. p'.at = "return" /\ p'.fn = "none" /\ p'.rc # "OK"
    BY <1>1, <1>6 DEF Frames
  <2> QED BY <2>1 DEF Concludes, Told, Answering
<1> QED BY <1>4, <1>5, <1>6 DEF MemBell

LEMMA RespondConcludes == ASSUME Ready, sbeHandleFifoResponse PROVE Concludes \/ Ends
<1>a. p \in Frames /\ p.fn = "none"
  BY DEF Ready, sbeHandleFifoResponse, Respond, RespondFlushed, RespondHeader, RespondEot, RespondDone, At
<1>1. CASE Goes(To("response.header"))
  <2>1. p'.fn = "none" /\ p'.at = "response.header"
    BY <1>a, <1>1 DEF Goes, Does, To, Frames
  <2> QED BY <2>1 DEF Concludes, Told, Answering
<1>2. CASE p.at \in {"return", "response.eot"} /\ Answering(p) /\ Goes(Eot(p, "response.done", "response.done"))
  <2>1. p'.fn = "eot" /\ p'.at = "response.done" /\ hw' = hw
    BY <1>a, <1>2 DEF Goes, Does, Eot, Frames
  <2>2. Finished(p, hw) => Finished(p', hw')
    BY <1>2, <2>1 DEF Finished
  <2> QED BY <1>2, <2>1, <2>2 DEF Concludes, Told
<1>3. CASE Respond
  <2>1. p.at = "return"
    BY <1>3 DEF Respond, At
  <2>2. CASE p.rc = "NOT_SUPPORTED"
    <3>1. Goes(Deq(p, "response.header", "response.flushed", 1, TRUE, TRUE))
      BY <1>3, <2>2 DEF Respond
    <3>2. p'.fn = "deq" /\ p'.at = "response.header" /\ p'.eot /\ p'.flush
      BY <1>a, <3>1 DEF Goes, Does, Deq, Frames
    <3> QED BY <3>2 DEF Concludes, Told, Answering
  <2>3. CASE p.rc = "OK"
    BY <1>2, <1>3, <1>a, <2>1, <2>3 DEF Respond, Answering
  <2> QED BY <1>1, <1>3, <2>2, <2>3 DEF Respond
<1>4. CASE RespondFlushed
  BY <1>1, <1>4 DEF RespondFlushed
<1>5. CASE RespondHeader
  <2> DEFINE status == IF req.op = "unknown" THEN "NOT_SUPPORTED" ELSE "INVALID_DATA"
             w == RespHdr(status, FALSE)
  <2>1. p' = Enq(p, "response.eot", "response.done", w)
    BY <1>5 DEF RespondHeader, Goes, Does
  <2>2. status \in Status /\ status # "OK"
    BY DEF Status
  <2> HIDE DEF status
  <2>3. p'.fn = "enq" /\ p'.at = "response.eot" /\ p'.out = w
    BY <1>a, <2>1 DEF Enq, Frames
  <2>4. Heads(p', FALSE)
    BY <2>2, <2>3, HeaderHeads
  <2> QED BY <2>3, <2>4 DEF Concludes, Told
<1>6. CASE RespondEot
  BY <1>2, <1>6 DEF RespondEot, At, Answering
<1> QED BY <1>3, <1>4, <1>5, <1>6 DEF sbeHandleFifoResponse, RespondDone

LEMMA ChipOpWorks == ASSUME Runs, ChipOp PROVE Works \/ Concludes \/ Ends
<1>1. Ready /\ Kept(p, hw)
  BY DEF Runs
<1>2. CASE MemoryOps
  BY <1>1, <1>2, MemWrapWorks, MemCheckWorks, MemSetupWorks, MemAccessWorks, MemSentWorks, MemTailWorks,
     MemReplyWorks, MemBellConcludes, SramWrapWorks, SramCheckWorks, SramAccessWorks, SramSentWorks,
     SramTailWorks, SramReplyWorks DEF MemoryOps
<1> QED BY <1>1, <1>2, ScomWorks, RegWorks, GetRingWorks, PutRingWorks, TraceWorks, FastArrayWorks,
           CntlInstWorks, IstepWorks, NvdimmWorks, SimpleWorks, QuiesceWorks, SendHeaderWorks,
           RespondConcludes DEF ChipOp

----------------------------------------------------------------------------
(* The state a step leads to *)

LEMMA LengthsNext ==
    ASSUME req' = req
    PROVE  /\ getDataLenCacheAlign' = getDataLenCacheAlign /\ sizeMultiplier' = sizeMultiplier
           /\ RingLoops' = RingLoops /\ Targets' = Targets /\ Work' = Work
           /\ (isPassThrough)' = isPassThrough /\ SramSetup' = SramSetup
<1>1. /\ getDataLenCacheAlign' = getDataLenCacheAlign /\ sizeMultiplier' = sizeMultiplier
      /\ RingLoops' = RingLoops /\ Targets' = Targets
      /\ (isPassThrough)' = isPassThrough /\ SramSetup' = SramSetup
  BY DEF getDataLenCacheAlign, sizeMultiplier, isPba, RingLoops, Targets, isPassThrough, SramSetup
<1>2. Work' = Work
  BY <1>1 DEF Work, NumRegs
<1> QED BY <1>1, <1>2

LEMMA AccomplishedNext ==
    ASSUME req' = req PROVE Accomplished(hw)' <=> Accomplished(hw')
<1>1. Work' = Work /\ Payload(req)' = Payload(req) /\ (Excused' <=> Excused)
  BY LengthsNext DEF Payload, Excused, Ignores, NumRegs, align4ByteWordLength
<1> QED BY <1>1 DEF Accomplished, Did, Puts

LEMMA StageNext == ASSUME Stage(p', hw'), req' = req PROVE Stage(p, hw)'
<1>0. Payload(req)' = Payload(req)
  BY DEF Payload
<1>1. ScomStage(p, hw)' /\ FastStage(p, hw)'
  BY DEF Stage, ScomStage, FastStage, Did
<1>2. RegStage(p, hw)'
  BY DEF Stage, RegStage, Did
<1>3. RingStage(p, hw)'
  BY LengthsNext DEF Stage, RingStage
<1>4. PutRingStage(p, hw)'
  BY DEF Stage, PutRingStage, Did
<1>5. TraceStage(p, hw)'
  BY DEF Stage, TraceStage
<1>6. InstStage(p, hw)'
  BY LengthsNext DEF Stage, InstStage, Did, CoresBefore, Ignores
<1>7. OtherStage(p, hw)'
  BY DEF Stage, OtherStage, Did
<1>8. AccessStage(p, hw)'
  BY <1>0, LengthsNext DEF Stage, AccessStage, Did
<1>9. SramStage(p, hw)'
  BY LengthsNext DEF Stage, SramStage, Passed, SramPass, Unwritten, HalfBlock
<1>10. HeaderStage(p, hw)'
  BY AccomplishedNext DEF Stage, HeaderStage
<1> QED BY <1>1, <1>2, <1>3, <1>4, <1>5, <1>6, <1>7, <1>8, <1>9, <1>10 DEF Stage

LEMMA PlaceNext ==
    ASSUME req' = req
    PROVE  /\ Wanted(p', hw') => Wanted(p, hw)'
           /\ Judged(p') => Judged(p)'
           /\ Counts(p)' => Counts(p')
           /\ Total(p, hw)' = Total(p', hw')
           /\ MessageWords(req)' = MessageWords(req)
           /\ Finished(p, hw)' <=> Finished(p', hw')
<1>1. Payload(req)' = Payload(req) /\ ArgWords(req)' = ArgWords(req)
  BY DEF Payload, ArgWords
<1>2. Past(p, hw)' = Past(p', hw')
  BY DEF Past, Lost, HalfBlock
<1>3. Wanted(p', hw') => Wanted(p, hw)'
  BY <1>1, <1>2 DEF Wanted
<1>4. /\ Judged(p') => Judged(p)'
      /\ Counts(p)' => Counts(p')
  BY DEF Judged, Counts, IsOpen, AtOpen
<1>5. Total(p, hw)' = Total(p', hw')
  BY <1>2 DEF Total
<1>6. MessageWords(req)' = MessageWords(req)
  BY DEF MessageWords
<1>7. Finished(p, hw)' <=> Finished(p', hw')
  BY AccomplishedNext, LengthsNext DEF Finished
<1> QED BY <1>3, <1>4, <1>5, <1>6, <1>7

----------------------------------------------------------------------------
(* The steps of a chip-op *)

LEMMA AnnouncedServes == ASSUME Serves(p') PROVE Announced'
  BY DEF Announced, Serves

\* What the SBE takes as its own message is not announced again.
LEMMA AnnouncedServing ==
    ASSUME Inv, Serves(p), reset' = reset, Stream' = Stream PROVE Announced'
<1> DEFINE s == Stream
<1>1. reset \/ NoCommand(s)
  BY DEF Inv, Boundary, Serving
<1>2. s \in UpWords
  BY StreamTyped DEF Inv
<1>3. s' = s
  OBVIOUS
<1>4. Whole(s)' => Len(s) >= 2 /\ s[1][1] = "cmd"
  BY <1>3 DEF Whole
<1> HIDE DEF s
<1>5. Len(s) >= 2 => 1 \in 1..Len(s)
  BY <1>2 DEF UpWords
<1>6. NoCommand(s) => ~Whole(s)'
  BY <1>4, <1>5 DEF NoCommand
<1> QED BY <1>1, <1>6 DEF Announced, s

LEMMA AnnouncedSame ==
    ASSUME Inv, Announced, reset' = reset, Stream' = Stream, sp' = sp PROVE Announced'
<1>1. CASE Serves(p)
  BY <1>1, AnnouncedServing
<1>2. CASE ~Serves(p)
  <2>1. (Whole(Stream))' <=> Whole(Stream)
    BY DEF Whole, Rest
  <2>2. (MessageWords(Stream[1][2]))' = MessageWords(Stream[1][2])
    BY DEF MessageWords, ArgWords, Payload, NumRegs, align4ByteWordLength
  <2> QED BY <1>2, <2>1, <2>2 DEF Announced
<1> QED BY <1>1, <1>2

LEMMA UnsoundWork == ASSUME reset' \/ faults' # 0, Announced' PROVE WorkInv'
  BY DEF WorkInv, Progress, Measured, Vouched, Sound

\* Between two messages, and behind the header, there is nothing to say of the work.
LEMMA ToldStage ==
    ASSUME NEW q, q.at \in Told \cup {"idle"}, NEW h PROVE Stage(q, h) /\ Judged(q) /\ ~AtOpen(q.at, req)
<1>1. /\ ScomStage(q, h) /\ RegStage(q, h) /\ RingStage(q, h) /\ PutRingStage(q, h)
      /\ TraceStage(q, h) /\ FastStage(q, h) /\ InstStage(q, h) /\ OtherStage(q, h)
      /\ AccessStage(q, h) /\ SramStage(q, h) /\ HeaderStage(q, h)
  BY DEF Told, ScomStage, RegStage, RingStage, PutRingStage, TraceStage, FastStage, InstStage, OtherStage,
         AccessStage, SramStage, HeaderStage, ScomLabels, ScomOps, RegLabels, RingLabels, PutRingLabels,
         TraceLabels, FastLabels, InstLabels, CoreLabels, IstepLabels, QuiesceLabels, NvdimmLabels,
         SimpleLabels, AccessLabels, MemLabels, SramLabels
<1>2. ~AtOpen(q.at, req)
  BY DEF Told, AtOpen, Starts, ScomOps, PutLabels
<1> QED BY <1>1, <1>2 DEF Stage, Judged

LEMMA ToldState ==
    p.at \in Told \cup {"idle"} /\ (p.fn = "deq" => p.flush /\ p.at \in Told) => Progress /\ Measured
<1> SUFFICES ASSUME p.at \in Told \cup {"idle"}, p.fn = "deq" => p.flush /\ p.at \in Told
             PROVE  Progress /\ Measured
  OBVIOUS
<1>1. Stage(p, hw) /\ Judged(p) /\ ~AtOpen(p.at, req)
  BY ToldStage
<1>2. Wanted(p, hw)
  BY DEF Wanted, Told
<1>3. ~Counts(p)
  BY <1>1 DEF Counts, IsOpen
<1> QED BY <1>1, <1>2, <1>3 DEF Progress, Measured

LEMMA ToldNext ==
    ASSUME p'.at \in Told \cup {"idle"}, p'.fn = "deq" => p'.flush /\ p'.at \in Told
    PROVE  Progress' /\ Measured'
<1>1. (p.at \in Told \cup {"idle"} /\ (p.fn = "deq" => p.flush /\ p.at \in Told))'
  BY DEF Told
<1> QED BY <1>1, ToldState, PTL

LEMMA IdleWork == ASSUME p'.fn = "none", p'.at = "idle", Announced' PROVE WorkInv'
<1>1. Progress' /\ Measured'
  BY ToldNext
<1>2. Vouched'
  BY DEF Vouched, Answering, At
<1> QED BY <1>1, <1>2 DEF WorkInv

LEMMA EndsWork == ASSUME Inv, Announced, Ends, UNCHANGED sp PROVE WorkInv'
<1>1. p' = Frame /\ Stream' = Stream /\ reset' = reset /\ sp' = sp
  BY DEF Ends, Stream
<1>2. p'.fn = "none" /\ p'.at = "idle"
  BY <1>1 DEF Frame
<1> QED BY <1>1, <1>2, AnnouncedSame, IdleWork

\* The words of a response that have been sent vouch for the work.
LEMMA VouchedNext ==
    ASSUME req' = req, ~At("response.done")',
           Answering(p') => Headed(Sent', <<>>, Finished(p', hw'))
    PROVE  Vouched'
<1>1. Finished(p, hw)' <=> Finished(p', hw')
  BY PlaceNext
<1>2. Answering(p)' <=> Answering(p')
  BY DEF Answering
<1>3. Headed(Sent', <<>>, Finished(p', hw')) => Headed(Sent, <<>>, Finished(p, hw))'
  BY <1>1 DEF Headed
<1> QED BY <1>2, <1>3 DEF Vouched

LEMMA WorkMoves ==
    ASSUME Inv, KeptInv, Measured, Vouched, Sound, Moves, Effect, UNCHANGED sp, faults' = 0,
           Works \/ Concludes
    PROVE  WorkInv'
<1>a. /\ p.fn = "none" /\ Serves(p) /\ Serves(p') /\ req' = req /\ Stream' = Stream /\ ~reset /\ faults = 0
  BY DEF Moves, Move, Stream, Sound
<1>b. Announced'
  BY <1>a, AnnouncedServes
<1>c. ~Answering(p) => NoMagic(Response)
  BY <1>a, SentResponse DEF KeptInv, Reply
<1>d. ASSUME p'.fn = "enq", Answering(p'), Heads(p', Finished(p', hw'))
      PROVE  Headed(Sent', <<>>, Finished(p', hw'))
  <2>1. ~Answering(p)
    BY <1>d DEF Effect
  <2> QED BY <1>a, <1>c, <1>d, <2>1, HeadsSent
<1>1. CASE GoesOn
  <2>1. ~Answering(p') /\ ~At("response.done")'
    BY <1>1 DEF GoesOn, Answering, At, Told
  <2>2. Vouched'
    BY <1>a, <2>1, VouchedNext
  <2>3. Progress'
    BY <1>1, <1>a, StageNext, PlaceNext DEF GoesOn, Progress
  <2>4. Measured'
    <3>1. Counts(p)' => Counts(p')
      BY <1>a, PlaceNext
    <3>2. Total(p, hw)' = Total(p', hw') /\ MessageWords(req)' = MessageWords(req)
      BY <1>a, PlaceNext
    <3>3. ASSUME p'.status = "OK", Counts(p')
          PROVE  /\ Rest(Stream, Total(p', hw'))
                 /\ Total(p', hw') + Len(Stream) = MessageWords(req) + 1
      BY <1>1, <3>3 DEF GoesOn, Measured
    <3>4. ASSUME p'.status = "OK", Counts(p')
          PROVE  /\ Rest(Stream, Total(p, hw))'
                 /\ Total(p, hw)' + Len(Stream') = MessageWords(req)' + 1
      BY <1>a, <3>2, <3>3, <3>4 DEF Rest
    <3> QED BY <3>1, <3>4 DEF Measured
  <2> QED BY <1>b, <2>2, <2>3, <2>4 DEF WorkInv
<1>2. CASE Tells
  <2>1. p'.at \in Told /\ p'.fn = "enq" /\ Answering(p') /\ ~At("response.done")'
        /\ Heads(p', Finished(p', hw'))
    BY <1>2 DEF Tells, Told, Answering, At
  <2>2. Progress' /\ Measured'
    BY <2>1, ToldNext
  <2>3. Vouched'
    BY <1>a, <1>d, <2>1, VouchedNext
  <2> QED BY <1>b, <2>2, <2>3 DEF WorkInv
<1>3. CASE GivesUp(p')
  <2>1. p'.at \in Told /\ p'.fn = "none" /\ ~Answering(p') /\ ~At("response.done")'
    BY <1>3 DEF GivesUp, Told, Answering, At
  <2>2. Progress' /\ Measured'
    BY <2>1, ToldNext
  <2>3. Vouched'
    BY <1>a, <2>1, VouchedNext
  <2> QED BY <1>b, <2>2, <2>3 DEF WorkInv
<1>4. CASE Concludes
  <2>1. p'.at \in Told /\ (p'.fn = "deq" => p'.flush) /\ ~At("response.done")'
    BY <1>4 DEF Concludes, At
  <2>2. Progress' /\ Measured'
    BY <2>1, ToldNext
  <2>3. CASE ~Answering(p')
    <3>1. Vouched'
      BY <1>a, <2>1, <2>3, VouchedNext
    <3> QED BY <1>b, <2>2, <3>1 DEF WorkInv
  <2>4. CASE Answering(p') /\ p'.fn = "enq"
    <3>1. Heads(p', FALSE)
      BY <1>4, <2>4 DEF Concludes
    <3>2. Heads(p', Finished(p', hw'))
      BY <3>1 DEF Heads
    <3>3. Vouched'
      BY <1>a, <1>d, <2>1, <2>4, <3>2, VouchedNext
    <3> QED BY <1>b, <2>2, <3>3 DEF WorkInv
  <2>5. CASE Answering(p') /\ p'.fn # "enq"
    <3>1. Answering(p) /\ (Finished(p, hw) => Finished(p', hw'))
      BY <1>4, <2>5 DEF Concludes
    <3>2. Sent' = Sent
      BY <1>a, <2>5, SentStays
    <3>3. Headed(Sent, <<>>, Finished(p, hw))
      BY <3>1 DEF Vouched
    <3>4. Headed(Sent', <<>>, Finished(p', hw'))
      BY <3>1, <3>2, <3>3 DEF Headed
    <3>5. Vouched'
      BY <1>a, <2>1, <3>4, VouchedNext
    <3> QED BY <1>b, <2>2, <3>5 DEF WorkInv
  <2> QED BY <2>3, <2>4, <2>5
<1> QED BY <1>1, <1>2, <1>3, <1>4 DEF Works

LEMMA ChipOpWork ==
    ASSUME Inv, KeptInv, DataInv, WorkInv, ChipOp, UNCHANGED sp PROVE WorkInv'
<1>1. Ready /\ Wires /\ Given(p, hw) /\ Kept(p, hw)
  BY DEF Inv, KeptInv, DataInv
<1>2. CASE Ends
  BY <1>2, EndsWork DEF WorkInv
<1>3. CASE ~Ends
  <2>1. Moves
    BY <1>1, <1>3, ChipOpMoves DEF Drops
  <2>2. Effect
    BY <1>1, <1>3, ChipOpEffect
  <2>3. CASE Sound /\ faults' = 0
    <3>1. Runs
      BY <1>1, <2>3 DEF Runs, WorkInv, Progress
    <3>2. Works \/ Concludes
      BY <1>3, <3>1, ChipOpWorks
    <3> QED BY <2>1, <2>2, <2>3, <3>2, WorkMoves DEF WorkInv
  <2>4. CASE ~(Sound /\ faults' = 0)
    <3>1. faults \in Nat
      BY <1>1 DEF Wires
    <3>2. reset' \/ faults' # 0
      BY <2>1, <2>4, <3>1 DEF Moves, Sound
    <3>3. Announced'
      BY <2>1, AnnouncedServes DEF Moves, Move
    <3> QED BY <3>2, <3>3, UnsoundWork
  <2> QED BY <2>3, <2>4
<1> QED BY <1>2, <1>3

----------------------------------------------------------------------------
(* The FIFO layer *)

\* Where a dequeue does not look for the end it has room for a word.
LEMMA OpenDeq ==
    ASSUME Ready, Given(p, hw), Stage(p, hw), p.fn = "deq", ~p.eot
    PROVE  p.extra = 0 /\ Len(p.buf) < p.want /\ ~p.flush /\ p.at \in Structs \cup Granules
<1>1. AtOpen(p.at, req) /\ ~p.flush /\ Owned(p.at, req)
  BY DEF Ready, Control
<1>2. p.at \notin Starts
  BY DEF Given
<1>3. p.at # "mem.tail"
  <2> SUFFICES ASSUME p.at = "mem.tail" PROVE FALSE
    OBVIOUS
  <2>1. req.op \notin ReadOps
    BY <1>1 DEF AtOpen, Starts, ScomOps
  <2>2. AccessStage(p, hw) /\ p.at \in AccessLabels
    BY DEF Stage, AccessLabels
  <2> QED BY <2>1, <2>2 DEF AccessStage, MemOps, ReadOps
<1>4. p.at # "sram.tail"
  <2> SUFFICES ASSUME p.at = "sram.tail" PROVE FALSE
    OBVIOUS
  <2>1. req.op = "putsram" /\ p.at \in SramLabels
    BY <1>1 DEF AtOpen, Starts, ScomOps, Owned, Common, SramLabels, SramOps, ReadOps
  <2> QED BY <2>1 DEF Stage, SramStage
<1>5. p.at \in Structs \cup Granules
  BY <1>1, <1>2, <1>3, <1>4 DEF AtOpen, PutLabels, Structs, Granules
<1> QED BY <1>1, <1>5 DEF Given

\* A word is kept, and with the last one wanted the routine may come back; or
\* there is no room for it, and it is counted.
Keeps(d) ==
    /\ ~p.flush /\ p.extra = 0 /\ Len(p.buf) < p.want /\ Len(d.buf) = Len(p.buf) + 1
    /\ \/ d.fn = "deq" /\ d.extra = 0
       \/ d.fn = "none" /\ ~p.eot /\ Len(d.buf) = p.want
Skips(d) == d.fn = "deq" /\ d.extra = 1

LEMMA WordFields ==
    ASSUME Ready, p.fn = "deq", NEW w \in Nat \cup Requests, NEW d, d = DeqWord(w)
    PROVE  /\ d.at = p.at /\ d.count = p.count /\ d.status = p.status
           /\ d.fn = "deq" => d.want = p.want /\ d.eot = p.eot /\ d.flush = p.flush
           /\ Keeps(d) \/ Skips(d) \/ (~p.eot /\ ~(~p.flush /\ Taken < p.want))
<1> DEFINE q == IF ~p.flush /\ Taken < p.want
                THEN [p EXCEPT !.buf = Append(@, w)] ELSE [p EXCEPT !.extra = 1]
           more == p.flush \/ p.eot \/ Taken + 1 < p.want
<1>1. p \in Frames /\ p.buf \in Buffers /\ Len(p.buf) \in Nat /\ p.extra \in {0, 1} /\ p.want \in Nat
  BY DEF Ready, Frames, Buffers
<1>2. q \in Frames /\ q.fn = "deq" /\ q.at = p.at /\ q.eot = p.eot /\ q.flush = p.flush
  BY WordTaken
<1>3. d = IF more THEN q ELSE Return(q, "OK")
  BY DEF DeqWord
<1>4. q.count = p.count /\ q.status = p.status /\ q.want = p.want
  <2>1. CASE q = [p EXCEPT !.extra = 1]
    BY <1>1, <2>1 DEF Frames
  <2>2. CASE q = [p EXCEPT !.buf = Append(@, w)]
    <3> DEFINE b == Append(p.buf, w)
    <3>1. q = [p EXCEPT !.buf = b]
      BY <1>1, <2>2 DEF Frames
    <3> HIDE DEF b, q
    <3> QED BY <1>1, <3>1 DEF Frames
  <2> QED BY <2>1, <2>2
<1>5. ~(~p.flush /\ Taken < p.want) => q.extra = 1
  BY <1>1 DEF Frames
<1> HIDE DEF q
<1>6. /\ d.at = p.at /\ d.count = p.count /\ d.status = p.status
      /\ d.fn = "deq" => d.want = p.want /\ d.eot = p.eot /\ d.flush = p.flush
  <2>1. "OK" \in Rc
    BY DEF Rc
  <2> QED BY <1>2, <1>3, <1>4, <2>1, ReturnTyped
<1>7. CASE ~p.flush /\ Taken < p.want
  <2>1. p.extra = 0 /\ Len(p.buf) < p.want
    BY <1>1, <1>7 DEF Ready, Calls, Taken
  <2>2. Keeps(d)
    BY <1>7, <2>1, WordKept DEF Keeps
  <2> QED BY <1>6, <2>2
<1>8. CASE ~(~p.flush /\ Taken < p.want) /\ p.eot
  <2>1. Skips(d)
    BY <1>2, <1>3, <1>5, <1>8 DEF Skips
  <2> QED BY <1>6, <2>1
<1> QED BY <1>6, <1>7, <1>8

\* What has been done is the same where a routine goes on, and comes back.
LEMMA StageDeq ==
    ASSUME p.fn = "deq", Stage(p, hw), NEW q, q.at = p.at, q.count = p.count,
           \/ q.fn = "deq" /\ q.want = p.want
           \/ q.fn = "none" /\ Len(q.buf) = p.want /\ (p.at = "mem.reply" => Len(hw.wrote) = Payload(req))
    PROVE  Stage(q, hw)
<1>1. ScomStage(q, hw) /\ FastStage(q, hw) /\ RingStage(q, hw) /\ TraceStage(q, hw) /\ InstStage(q, hw)
      /\ OtherStage(q, hw) /\ HeaderStage(q, hw)
  BY DEF Stage, ScomStage, FastStage, RingStage, TraceStage, InstStage, OtherStage, HeaderStage
<1>2. RegStage(q, hw)
  BY DEF Stage, RegStage
<1>3. PutRingStage(q, hw)
  BY DEF Stage, PutRingStage
<1>4. AccessStage(q, hw)
  BY DEF Stage, AccessStage
<1>5. SramStage(q, hw)
  BY DEF Stage, SramStage
<1> QED BY <1>1, <1>2, <1>3, <1>4, <1>5 DEF Stage

LEMMA StageEnq ==
    ASSUME p.fn = "enq", Stage(p, hw), NEW q, q.at = p.at, q.count = p.count, q.buf = p.buf,
           q.fn \in {"enq", "none"}
    PROVE  Stage(q, hw)
<1>1. ScomStage(q, hw) /\ FastStage(q, hw) /\ RingStage(q, hw) /\ TraceStage(q, hw) /\ InstStage(q, hw)
      /\ OtherStage(q, hw) /\ HeaderStage(q, hw)
  BY DEF Stage, ScomStage, FastStage, RingStage, TraceStage, InstStage, OtherStage, HeaderStage
<1>2. RegStage(q, hw)
  BY DEF Stage, RegStage
<1>3. PutRingStage(q, hw)
  BY DEF Stage, PutRingStage
<1>4. AccessStage(q, hw)
  BY DEF Stage, AccessStage
<1>5. SramStage(q, hw)
  BY DEF Stage, SramStage
<1> QED BY <1>1, <1>2, <1>3, <1>4, <1>5 DEF Stage

LEMMA MessageTyped ==
    ASSUME NEW r \in Servable
    PROVE  /\ Payload(r) \in Nat /\ ArgWords(r) \in Nat /\ r.extra \in Int
           /\ MessageWords(r) = ArgWords(r) + Payload(r) + r.extra
           /\ LengthsJudged /\ r.extra # 0 => r \in Requests
<1>1. r.extra \in Int /\ r.len \in Nat /\ ReqWords \in Nat /\ (r \notin Requests => r.extra = 0)
  BY RequestAssumption, MemAssumption DEF Servable, NoRequest
<1>2. align4ByteWordLength(r.len) \in Nat /\ r.len \div 4 \in Nat
  BY <1>1 DEF align4ByteWordLength
<1>3. Payload(r) \in Nat
  BY <1>1, <1>2 DEF Payload, NumRegs
<1>4. ArgWords(r) \in Nat
  BY <1>1 DEF ArgWords
<1> QED BY <1>1, <1>3, <1>4 DEF MessageWords

\* The message of a quiesce that is served has no words.
LEMMA QuiesceMessage ==
    ASSUME LengthsJudged, Inv, WorkInv, Sound, p.status = "OK", p.fn = "deq", p.at = "quiesce.suspend"
    PROVE  /\ p.eot /\ ~p.flush /\ p.extra = 0 /\ p.want = 0 /\ Len(p.buf) = 0
           /\ Rest(Stream, 0) /\ Len(Stream) = 1
<1>1. Ready /\ Stage(p, hw) /\ Wanted(p, hw) /\ Measured
  BY DEF Inv, WorkInv, Progress
<1>2. ~AtOpen(p.at, req) /\ p.at \notin Told /\ p.at \in Firsts /\ p.at \notin Starts
  BY DEF AtOpen, Starts, ScomOps, PutLabels, Told, Firsts
<1>3. p.eot /\ ~p.flush /\ p.extra = 0
  BY <1>1, <1>2 DEF Wanted, Ready, Control
<1>4. req.op = "quiesce"
  BY <1>1 DEF Stage, OtherStage, QuiesceLabels
<1>5. Payload(req) = 0 /\ ArgWords(req) = 0
  BY <1>4 DEF Payload, ArgWords
<1>6. req \in Servable /\ p.want \in Nat /\ p.buf \in Buffers /\ Len(p.buf) <= p.want
  BY <1>1 DEF Ready, Frames, Calls
<1>7. Past(p, hw) = 0
  BY <1>2 DEF Past
<1>8. 0 + p.want = 0 + 0
  BY <1>1, <1>3, <1>5, <1>7 DEF Wanted
<1>9. p.want = 0 /\ Len(p.buf) = 0
  BY <1>6, <1>8 DEF Buffers
<1>10. Total(p, hw) = 0
  BY <1>2, <1>7, <1>9 DEF Total
<1>11. req.extra = 0
  BY <1>4, <1>6, MessageTyped DEF LengthsJudged
<1>12. MessageWords(req) = 0
  BY <1>5, <1>11 DEF MessageWords
<1>13. Counts(p)
  BY <1>3 DEF Counts, IsOpen
<1>14. Rest(Stream, 0) /\ 0 + Len(Stream) = 0 + 1
  BY <1>1, <1>10, <1>12, <1>13 DEF Measured
<1>15. Len(Stream) = 1
  <2> DEFINE s == Stream
  <2>1. s \in UpWords /\ 0 + Len(s) = 0 + 1
    BY <1>14, StreamTyped DEF Inv
  <2> HIDE DEF s
  <2>2. Len(s) = 1
    BY <2>1 DEF UpWords
  <2> QED BY <2>2 DEF s
<1> QED BY <1>3, <1>9, <1>14, <1>15

\* The entry that is taken is the first of the stream.
LEMMA EntryTaken ==
    ASSUME Wires, up # <<>>, up' = Tail(up), UNCHANGED sp
    PROVE  /\ Stream' = Tail(Stream) /\ Stream # <<>> /\ Stream[1] = Head(up) /\ Head(up) \in UpWord
           /\ Stream \in UpWords /\ Len(Stream) \in Nat /\ Len(Stream') = Len(Stream) - 1
<1>1. sp.left \in UpWords /\ up \in UpWords /\ Stream \in UpWords
  BY StreamTyped
<1>2. /\ Tail(up) \o sp.left = Tail(up \o sp.left) /\ up \o sp.left # <<>>
      /\ (up \o sp.left)[1] = Head(up) /\ Head(up) \in UpWord
  BY <1>1, TakeHead
<1>3. Stream' = Tail(Stream) /\ Stream # <<>> /\ Stream[1] = Head(up)
  BY <1>2 DEF Stream
<1>4. Len(Stream) \in Nat /\ Len(Tail(Stream)) = Len(Stream) - 1
  BY <1>1, <1>3, TailOf DEF UpWords
<1> QED BY <1>1, <1>2, <1>3, <1>4

LEMMA TotalTyped == ASSUME Ready PROVE Total(p, hw) \in Nat /\ Past(p, hw) \in Nat
<1> DEFINE a == Len(hw.wrote)
           b == Len(p.buf)
           c == Lost(p)
<1>1. a \in Nat /\ b \in Nat /\ ReqWords \in Nat /\ c \in Nat
  BY LengthsTyped, LostTyped
<1> HIDE DEF a, b, c
<1>2. ReqWords + a + c \in Nat /\ ReqWords + a + c + b \in Nat /\ 0 + b \in Nat /\ 0 \in Nat
  BY <1>1
<1>3. Past(p, hw) = (IF p.at \in Firsts THEN 0 ELSE ReqWords + a + c)
  BY DEF Past, a, c
<1>4. Past(p, hw) \in Nat /\ Past(p, hw) + b \in Nat
  BY <1>1, <1>2, <1>3
<1> QED BY <1>2, <1>4 DEF Total, b

\* A word that has no room, or is kept.
LEMMA WordWork ==
    ASSUME LengthsJudged, Inv, DataInv, WorkInv, Sound, p.status = "OK", p.fn = "deq", up # <<>>,
           Head(up)[1] # "eot", up' = Tail(up), p' = DeqWord(Head(up)[2]), UNCHANGED <<req, hw, sp>>
    PROVE  Progress' /\ Measured'
<1> DEFINE w == Head(up)[2]
<1>1. Ready /\ Wires /\ Given(p, hw) /\ Stage(p, hw) /\ Wanted(p, hw) /\ Measured
  BY DEF Inv, DataInv, WorkInv, Progress
<1>2. /\ Stream' = Tail(Stream) /\ Stream # <<>> /\ Stream[1] = Head(up) /\ Head(up) \in UpWord
      /\ Stream \in UpWords /\ Len(Stream) \in Nat /\ Len(Stream') = Len(Stream) - 1
  BY <1>1, EntryTaken
<1>3. w \in Nat \cup Requests /\ Stream[1] # <<"eot">>
  BY <1>2, UpWordKinds
<1> HIDE DEF w
<1>4. /\ p'.at = p.at /\ p'.count = p.count /\ p'.status = p.status
      /\ p'.fn = "deq" => p'.want = p.want /\ p'.eot = p.eot /\ p'.flush = p.flush
      /\ Keeps(p') \/ Skips(p') \/ (~p.eot /\ ~(~p.flush /\ Taken < p.want))
  BY <1>1, <1>3, WordFields DEF w
<1>5. Keeps(p') \/ Skips(p')
  <2> SUFFICES ASSUME ~p.eot PROVE ~p.flush /\ Taken < p.want
    BY <1>4
  <2>1. p.extra = 0 /\ Len(p.buf) < p.want /\ ~p.flush
    BY <1>1, OpenDeq
  <2>2. Len(p.buf) \in Nat /\ p.want \in Nat
    BY <1>1, LengthsTyped DEF Ready, Frames
  <2> QED BY <2>1, <2>2 DEF Taken
<1>6. p.at # "quiesce.suspend"
  <2> SUFFICES ASSUME p.at = "quiesce.suspend" PROVE FALSE
    OBVIOUS
  <2>1. Rest(Stream, 0) /\ Len(Stream) = 1
    BY QuiesceMessage
  <2> QED BY <1>3, <2>1 DEF Rest
<1>7. p'.fn = "none" => ~p.eot /\ Len(p'.buf) = p.want /\ AtOpen(p.at, req) /\ p.at # "mem.reply"
  <2>1. p'.fn = "none" => ~p.eot /\ Len(p'.buf) = p.want
    BY <1>5 DEF Keeps, Skips
  <2>2. ~p.eot => AtOpen(p.at, req)
    BY <1>1 DEF Ready, Control
  <2>3. ~AtOpen("mem.reply", req)
    BY DEF AtOpen, Starts, ScomOps, PutLabels
  <2> QED BY <2>1, <2>2, <2>3
<1>8. p'.fn \in {"deq", "none"}
  BY <1>5 DEF Keeps, Skips
<1>9. Stage(p', hw')
  BY <1>1, <1>4, <1>7, <1>8, StageDeq
<1>10. Past(p', hw') = Past(p, hw)
  BY <1>4 DEF Past, Lost
<1>11. Wanted(p', hw')
  BY <1>1, <1>4, <1>6, <1>10 DEF Wanted
<1>12. Judged(p')
  BY <1>4, <1>7, <1>8 DEF Judged
<1>13. Progress'
  BY <1>9, <1>11, <1>12, StageNext, PlaceNext DEF Progress
<1>14. ASSUME Counts(p')
       PROVE  /\ Rest(Stream', Total(p', hw'))
              /\ Total(p', hw') + Len(Stream') = MessageWords(req) + 1
  <2>1. Keeps(p')
    BY <1>5, <1>14 DEF Counts, Skips
  <2>2. Counts(p)
    BY <2>1 DEF Counts, IsOpen, Keeps
  <2> DEFINE t == Total(p, hw)
             m == MessageWords(req)
             k == Len(Stream)
  <2>3. Rest(Stream, t) /\ t + k = m + 1
    BY <1>1, <2>2 DEF Measured
  <2>4. t \in Nat /\ Past(p, hw) \in Nat /\ k \in Nat /\ Len(p.buf) \in Nat
    BY <1>1, <1>2, TotalTyped, LengthsTyped
  <2>5. p.at \notin Starts
    BY <1>1 DEF Given
  <2>6. t = Past(p, hw) + Len(p.buf) /\ Total(p', hw') = Past(p, hw) + Len(p'.buf)
    BY <1>4, <1>10, <2>5 DEF Total
  <2>7. Len(p'.buf) = Len(p.buf) + 1
    BY <2>1 DEF Keeps
  <2>8. m \in Int
    <3>1. req \in Servable
      BY <1>1 DEF Ready
    <3>2. Payload(req) \in Nat /\ ArgWords(req) \in Nat /\ req.extra \in Int
          /\ m = ArgWords(req) + Payload(req) + req.extra
      BY <3>1, MessageTyped
    <3> HIDE DEF m
    <3> QED BY <3>2
  <2> HIDE DEF t, m, k
  <2>9. Total(p', hw') = t + 1
    <3> DEFINE a == Past(p, hw)
               b == Len(p.buf)
               c == Len(p'.buf)
    <3>1. a \in Nat /\ b \in Nat /\ c = b + 1 /\ t = a + b /\ Total(p', hw') = a + c
      BY <2>4, <2>6, <2>7
    <3> HIDE DEF a, b, c
    <3> QED BY <3>1
  <2>10. Rest(Tail(Stream), t + 1)
    BY <1>2, <1>3, <2>3, <2>4, TailRest
  <2>11. Len(Stream') = k - 1
    BY <1>2 DEF k
  <2>12. t + 1 + (k - 1) = m + 1
    BY <2>3, <2>4, <2>8
  <2> QED BY <1>2, <2>9, <2>10, <2>11, <2>12 DEF m
<1>15. Measured'
  <2>1. Counts(p)' => Counts(p')
    BY PlaceNext
  <2>2. Total(p, hw)' = Total(p', hw') /\ MessageWords(req)' = MessageWords(req)
    BY PlaceNext
  <2>3. ASSUME Counts(p')
        PROVE  /\ Rest(Stream, Total(p, hw))'
               /\ Total(p, hw)' + Len(Stream') = MessageWords(req)' + 1
    BY <1>14, <2>2, <2>3 DEF Rest
  <2> QED BY <2>1, <2>3 DEF Measured
<1> QED BY <1>13, <1>15

LEMMA GranulesHold ==
    ASSUME Ready, req.op \in MemOps PROVE GranuleWords(req) = getDataLenCacheAlign * sizeMultiplier
  BY DEF GranuleWords, getDataLenCacheAlign, sizeMultiplier, isPba

\* The end of the message is met where it should be.
LEMMA EndMet ==
    ASSUME LengthsJudged, Inv, DataInv, WorkInv, Sound, p.status = "OK", p.fn = "deq", ~p.flush,
           Stream # <<>>, Stream[1] = <<"eot">>, EotRc(Taken) = "OK"
    PROVE  /\ req.extra = 0 /\ Len(p.buf) = p.want
           /\ p.at = "mem.reply" => Len(hw.wrote) = Payload(req)
<1>1. Ready /\ Wires /\ Given(p, hw) /\ Stage(p, hw) /\ Wanted(p, hw) /\ Measured
  BY DEF Inv, DataInv, WorkInv, Progress
<1>2. p.eot /\ Taken = p.want
  BY DEF EotRc
<1>3. p.extra = 0 /\ Len(p.buf) = p.want /\ p.want \in Nat
  <2>1. Len(p.buf) \in Nat /\ p.want \in Nat /\ p.extra \in {0, 1}
    BY <1>1, LengthsTyped DEF Ready, Frames
  <2>2. p.extra = 1 => Len(p.buf) = p.want
    BY <1>1 DEF Ready, Calls
  <2> QED BY <1>2, <2>1, <2>2 DEF Taken
<1>4. Counts(p)
  BY <1>3 DEF Counts, IsOpen
<1> DEFINE t == Total(p, hw)
           m == MessageWords(req)
           h == Past(p, hw)
           a == ArgWords(req)
           y == Payload(req)
           e == req.extra
           g == Len(hw.wrote)
<1>5. Rest(Stream, t) /\ t + Len(Stream) = m + 1
  BY <1>1, <1>4 DEF Measured
<1>6. t \in Nat /\ h \in Nat /\ g \in Nat /\ ReqWords \in Nat
  BY <1>1, TotalTyped, LengthsTyped
<1>7. a \in Nat /\ y \in Nat /\ e \in Int /\ m = a + y + e
  BY <1>1, MessageTyped DEF Ready
<1>8. Len(Stream) = 1
  <2> DEFINE s == Stream
  <2>1. s \in UpWords /\ s # <<>> /\ s[1] = <<"eot">> /\ Rest(s, t)
    BY <1>1, <1>5, StreamTyped
  <2> HIDE DEF s, t
  <2>2. Tail(s) = <<>>
    BY <1>6, <2>1, TailRest
  <2>3. Len(Tail(s)) = Len(s) - 1 /\ Len(s) \in Nat
    BY <2>1, TailOf DEF UpWords
  <2>a. Len(<<>>) = 0
    OBVIOUS
  <2>4. Len(Tail(s)) = 0
    BY <2>2, <2>a, Zenon
  <2> DEFINE k == Len(s)
             l == Len(Tail(s))
  <2>5. l = k - 1 /\ k \in Nat /\ l = 0
    BY <2>3, <2>4
  <2> HIDE DEF k, l
  <2>6. k = 1
    BY <2>5
  <2> QED BY <2>6 DEF k, s
<1>9. p.at \notin Starts
  BY <1>1 DEF Given
<1>10. t = h + p.want
  BY <1>3, <1>9 DEF Total
<1>11. CASE p.at # "mem.reply"
  <2>1. h + p.want = a + y
    BY <1>1, <1>2, <1>11 DEF Wanted
  <2> HIDE DEF t, m, h, a, y, e, g
  <2>2. e = 0
    BY <1>3, <1>5, <1>6, <1>7, <1>8, <1>10, <2>1
  <2> QED BY <1>3, <1>11, <2>2 DEF e
<1>12. CASE p.at = "mem.reply"
  <2>1. p.want = 0
    BY <1>1, <1>2, <1>12 DEF Wanted
  <2>2. AccessStage(p, hw) /\ p.at \in AccessLabels
    BY <1>1, <1>12 DEF Stage, AccessLabels
  <2>3. req.op = "putmem" /\ p.count = getDataLenCacheAlign
    BY <1>12, <2>2 DEF AccessStage
  <2>4. g = getDataLenCacheAlign * sizeMultiplier
    BY <2>2, <2>3 DEF AccessStage
  <2>5. g = GranuleWords(req)
    BY <1>1, <2>3, <2>4, GranulesHold DEF MemOps
  <2>6. h = ReqWords + g /\ a = ReqWords
    BY <1>6, <1>12, <2>3 DEF Past, Lost, Firsts, Structs, ArgWords
  <2>7. e # 0 => g = y
    BY <1>1, <2>3, <2>5, MessageTyped DEF Ready, LengthsJudged
  <2> HIDE DEF t, m, h, a, y, e, g
  <2>8. e = 0 /\ g = y
    BY <1>5, <1>6, <1>7, <1>8, <1>10, <2>1, <2>6, <2>7
  <2> QED BY <1>3, <2>8 DEF e, g, y
<1> QED BY <1>11, <1>12

LEMMA EndWork ==
    ASSUME LengthsJudged, Inv, KeptInv, DataInv, WorkInv, Sound, p.status = "OK", p.fn = "deq",
           Stream # <<>>, Stream[1] = <<"eot">>, p' = Return(p, EotRc(Taken)), UNCHANGED <<req, hw>>
    PROVE  Progress' /\ Measured'
<1>1. Ready /\ Wires /\ Kept(p, hw) /\ Stage(p, hw) /\ Wanted(p, hw) /\ p \in Frames
  BY DEF Inv, KeptInv, WorkInv, Progress, Ready
<1> DEFINE rc == EotRc(Taken)
<1>2. rc \in Rc
  BY DEF EotRc, Rc
<1> HIDE DEF rc
<1>3. /\ p'.fn = "none" /\ p'.rc = rc /\ p'.at = (IF rc = "OK" THEN p.at ELSE p.brk)
      /\ p'.count = p.count /\ p'.buf = p.buf /\ p'.status = p.status
  BY <1>1, <1>2, ReturnTyped DEF rc
<1>4. CASE p'.at \in Told
  BY <1>3, <1>4, ToldNext
<1>5. CASE rc = "OK" /\ p.at \notin Told
  <2>1. ~p.flush
    BY <1>1, <1>5 DEF Wanted
  <2>2. /\ req.extra = 0 /\ Len(p.buf) = p.want
        /\ p.at = "mem.reply" => Len(hw.wrote) = Payload(req)
    BY <1>5, <2>1, EndMet DEF rc
  <2>3. Stage(p', hw')
    BY <1>1, <1>3, <1>5, <2>2, StageDeq
  <2>4. Wanted(p', hw') /\ Judged(p')
    BY <1>3, <2>2 DEF Wanted, Judged
  <2>5. ~IsOpen(p', req)
    BY <1>1, EotFrame
  <2>6. ~Counts(p)'
    BY <2>5, PlaceNext DEF Counts
  <2>7. Progress'
    BY <2>3, <2>4, StageNext, PlaceNext DEF Progress
  <2> QED BY <2>6, <2>7 DEF Measured
<1>6. CASE rc # "OK"
  <2>1. p'.at \in {"return", "header", "response.flushed"}
    BY <1>1, <1>3, <1>6 DEF Ready, Control
  <2>2. p'.at # "header"
    <3> SUFFICES ASSUME p'.at = "header" PROVE FALSE
      OBVIOUS
    <3>1. p.at = "quiesce.suspend"
      BY <1>1, <1>3, <1>6 DEF Kept
    <3>2. p.eot /\ ~p.flush /\ p.extra = 0 /\ p.want = 0 /\ Len(p.buf) = 0
      BY <3>1, QuiesceMessage
    <3>3. Taken = p.want
      BY <3>2 DEF Taken
    <3> QED BY <1>6, <3>2, <3>3 DEF rc, EotRc
  <2> QED BY <1>4, <2>1, <2>2 DEF Told
<1> QED BY <1>3, <1>4, <1>5, <1>6

LEMMA DeqWork ==
    ASSUME LengthsJudged, Inv, KeptInv, DataInv, WorkInv, sbeUpFifoDeq_mult, UNCHANGED <<req, hw, sp>>
    PROVE  WorkInv'
<1>1. Ready /\ Wires /\ p.fn = "deq" /\ Kept(p, hw) /\ UNCHANGED <<down, reset, faults>> /\ p \in Frames
  BY DEF Inv, KeptInv, Ready, sbeUpFifoDeq_mult
<1>2. CASE reset
  <2>1. Announced'
    BY <1>1, <1>2 DEF Announced
  <2> QED BY <1>1, <1>2, <2>1, UnsoundWork
<1>3. CASE ~reset
  <2>1. /\ up # <<>> /\ up' = Tail(up)
        /\ p' = IF Head(up)[1] = "eot" THEN Return(p, EotRc(Taken)) ELSE DeqWord(Head(up)[2])
    BY <1>3 DEF sbeUpFifoDeq_mult
  <2>2. Stream # <<>> /\ Stream[1] = Head(up) /\ Head(up) \in UpWord
    BY <1>1, <2>1, EntryTaken
  <2>3. CASE Head(up)[1] = "eot"
    <3>1. p' = Return(p, EotRc(Taken)) /\ Stream[1] = <<"eot">>
      BY <2>1, <2>2, <2>3, UpWordKinds
    <3>2. EotRc(Taken) \in Rc
      BY DEF EotRc, Rc
    <3>3. Serves(p')
      BY <1>1, <3>1, EotFrame
    <3>4. /\ p'.fn = "none" /\ p'.rc = EotRc(Taken) /\ p'.status = p.status
          /\ p'.at = (IF EotRc(Taken) = "OK" THEN p.at ELSE p.brk)
      BY <1>1, <3>1, <3>2, ReturnTyped
    <3>5. ~Answering(p') /\ ~At("response.done")'
      <4>1. p.at \notin Told \ {"response.header"} /\ p.brk \in {"return", "header", "response.flushed"}
        BY <1>1 DEF Kept, Ready, Control
      <4> QED BY <3>4, <4>1 DEF Answering, At, Told
    <3>6. Announced' /\ Vouched'
      BY <3>3, <3>5, AnnouncedServes, VouchedNext
    <3>7. CASE Sound /\ p.status = "OK"
      BY <1>1, <2>2, <3>1, <3>6, <3>7, EndWork DEF WorkInv
    <3>8. CASE ~(Sound /\ p.status = "OK")
      <4>1. ~(Sound' /\ p'.status = "OK")
        BY <1>1, <3>4, <3>8 DEF Sound
      <4> QED BY <3>6, <4>1 DEF WorkInv, Progress, Measured
    <3> QED BY <3>7, <3>8
  <2>4. CASE Head(up)[1] # "eot"
    <3>1. Head(up)[2] \in Nat \cup Requests /\ p' = DeqWord(Head(up)[2])
      BY <2>1, <2>2, <2>4, UpWordKinds
    <3>2. Serves(p') /\ IsOpen(p', req) /\ p'.at = p.at /\ p'.status = p.status
      BY <1>1, <3>1, WordFrame, WordFields
    <3>3. ~Answering(p') /\ ~At("response.done")'
      <4>1. p.at \notin Told \ {"response.header"}
        BY <1>1 DEF Kept
      <4> QED BY <3>2, <4>1 DEF Answering, At, Told, IsOpen
    <3>4. Announced' /\ Vouched'
      BY <3>2, <3>3, AnnouncedServes, VouchedNext
    <3>5. CASE Sound /\ p.status = "OK"
      BY <1>1, <2>1, <2>4, <3>1, <3>4, <3>5, WordWork DEF WorkInv
    <3>6. CASE ~(Sound /\ p.status = "OK")
      <4>1. ~(Sound' /\ p'.status = "OK")
        BY <1>1, <3>2, <3>6 DEF Sound
      <4> QED BY <3>4, <4>1 DEF WorkInv, Progress, Measured
    <3> QED BY <3>5, <3>6
  <2> QED BY <2>3, <2>4
<1> QED BY <1>2, <1>3

----------------------------------------------------------------------------
(* The words that are sent *)

LEMMA EnqWork ==
    ASSUME Inv, KeptInv, WorkInv, sbeDownFifoEnq_mult, UNCHANGED <<req, hw, sp>> PROVE WorkInv'
<1>1. /\ Ready /\ p.fn = "enq" /\ p \in Frames /\ UNCHANGED <<up, reset, faults>> /\ Serves(p)
      /\ p.at # "response.done" /\ p.at # "idle" /\ ~AtOpen(p.at, req)
  BY DEF Inv, Ready, sbeDownFifoEnq_mult, Control, Serves
<1>2. CASE reset
  <2>1. Announced'
    BY <1>1, <1>2 DEF Announced
  <2> QED BY <1>1, <1>2, <2>1, UnsoundWork
<1>3. CASE ~reset
  <2>1. /\ Sent' = Sent /\ p'.at = p.at /\ p'.count = p.count /\ p'.status = p.status /\ p'.buf = p.buf
        /\ (p'.fn = "enq" /\ p'.rc = p.rc) \/ (p'.fn = "none" /\ p'.rc = "OK")
    BY <1>3, EnqSent
  <2>2. Serves(p') /\ ~At("response.done")' /\ (Answering(p') <=> Answering(p))
    BY <1>1, <2>1 DEF Serves, At, Answering
  <2>3. Finished(p', hw') <=> Finished(p, hw)
    BY <2>1 DEF Finished
  <2>4. Announced'
    BY <2>2, AnnouncedServes
  <2>5. CASE ~(Sound /\ p.status = "OK")
    <3>1. Progress' /\ Measured'
      BY <1>1, <2>1, <2>5 DEF Progress, Measured, Sound
    <3>2. CASE Sound
      <4>1. Answering(p') => Headed(Sent', <<>>, Finished(p', hw'))
        BY <2>1, <2>2, <2>3, <3>2 DEF WorkInv, Vouched, Headed
      <4> QED BY <2>2, <2>4, <3>1, <4>1, VouchedNext DEF WorkInv
    <3>3. CASE ~Sound
      BY <1>1, <2>4, <3>3, UnsoundWork DEF Sound
    <3> QED BY <3>2, <3>3
  <2>6. CASE Sound /\ p.status = "OK"
    <3>1. Stage(p, hw) /\ Judged(p)
      BY <2>6 DEF WorkInv, Progress
    <3>2. Stage(p', hw')
      BY <1>1, <2>1, <3>1, StageEnq
    <3>3. Wanted(p', hw') /\ Judged(p')
      BY <1>1, <2>1, <3>1 DEF Wanted, Judged
    <3>4. Progress'
      BY <3>2, <3>3, StageNext, PlaceNext DEF Progress
    <3>5. ~Counts(p')
      BY <1>1, <2>1 DEF Counts, IsOpen
    <3>6. Measured'
      BY <3>5, PlaceNext DEF Measured
    <3>7. Answering(p') => Headed(Sent', <<>>, Finished(p', hw'))
      BY <2>1, <2>2, <2>3, <2>6 DEF WorkInv, Vouched, Headed
    <3>8. Vouched'
      BY <2>2, <3>7, VouchedNext
    <3> QED BY <2>4, <3>4, <3>6, <3>8 DEF WorkInv
  <2> QED BY <2>5, <2>6
<1> QED BY <1>2, <1>3

LEMMA EotWork ==
    ASSUME Inv, WorkInv, sbeDownFifoSignalEot, UNCHANGED <<req, hw, sp>> PROVE WorkInv'
<1>1. /\ Ready /\ p.fn = "eot" /\ p \in Frames /\ Serves(p) /\ Answering(p)
      /\ p' = Return(p, "OK") /\ p.at = "response.done" /\ UNCHANGED <<up, reset, faults>>
  BY DEF Inv, Ready, sbeDownFifoSignalEot, Serves, Answering, Control
<1>2. "OK" \in Rc
  BY DEF Rc
<1>3. p'.fn = "none" /\ p'.at = "response.done"
  BY <1>1, <1>2, ReturnTyped
<1>4. Progress' /\ Measured'
  BY <1>3, ToldNext DEF Told
<1>5. Announced'
  <2>1. Stream' = Stream
    BY <1>1 DEF Stream
  <2> QED BY <1>1, <2>1, AnnouncedServing
<1>6. Vouched'
  <2>1. ASSUME Sound PROVE Headed(Response', <<<<"eot">>>>, Finished(p, hw))
    BY <1>1, <2>1, EotSent DEF WorkInv, Vouched, Sound
  <2>2. Finished(p, hw)' <=> Finished(p, hw)
    <3>1. Finished(p', hw') <=> Finished(p, hw)
      BY <1>1, <1>3 DEF Finished
    <3> QED BY <3>1, PlaceNext
  <2>3. Sound' <=> Sound
    BY <1>1 DEF Sound
  <2>4. ~Answering(p)'
    BY <1>3 DEF Answering
  <2>5. ASSUME Sound PROVE Headed(Response, <<<<"eot">>>>, Finished(p, hw))'
    BY <2>1, <2>2, <2>5 DEF Headed
  <2> QED BY <2>3, <2>4, <2>5 DEF Vouched
<1> QED BY <1>4, <1>5, <1>6 DEF WorkInv

LEMMA FaultWork == ASSUME Inv, Fault PROVE WorkInv'
<1>1. p.fn # "none" /\ UNCHANGED <<up, reset, sp>> /\ faults' = faults + 1 /\ faults \in Nat
  BY DEF Inv, Fault, FifoAccessFails, Wires
<1>2. Serves(p) /\ Stream' = Stream /\ faults' # 0
  BY <1>1 DEF Serves, Stream
<1> QED BY <1>1, <1>2, AnnouncedServing, UnsoundWork

----------------------------------------------------------------------------
(* The next message *)

LEMMA FreshStage ==
    ASSUME Ready, p.fn = "none", p.at = Entry(req.op), p.count = 0, hw = Hardware
    PROVE  Stage(p, hw)
<1>1. /\ ~hw.failed /\ hw.done = 0 /\ hw.wrote = <<>> /\ Did(hw, 0)
  BY DEF Hardware, Did
<1>2. req.op \in Ops /\ req.len \in Nat
  BY RequestTyped
<1>3. getDataLenCacheAlign \in Nat
  BY DataLenTyped
<1>4. Len(hw.wrote) = 0
  BY <1>1
<1>5. CASE req.op = "unknown"
  BY <1>5, ToldStage DEF Entry, Told
<1>6. CASE req.op # "unknown"
  <2>1. p.at \in Starts
    BY <1>2, <1>6 DEF Entry, Ops, Starts, ScomOps
  <2>2. ScomStage(p, hw)
    BY <1>1, <1>2 DEF Entry, Ops, ScomStage, ScomLabels, ScomOps
  <2>3. RegStage(p, hw)
    BY <1>1, <2>1 DEF RegStage, RegLabels, Starts, ScomOps
  <2>4. RingStage(p, hw) /\ PutRingStage(p, hw)
    BY <1>1, <1>2 DEF Entry, Ops, RingStage, RingLabels, PutRingStage, PutRingLabels
  <2>5. TraceStage(p, hw) /\ FastStage(p, hw)
    BY <1>1, <1>2 DEF Entry, Ops, TraceStage, TraceLabels, FastStage, FastLabels
  <2>6. InstStage(p, hw)
    BY <1>1, <1>2 DEF Entry, Ops, InstStage, InstLabels, CoreLabels
  <2>7. OtherStage(p, hw)
    BY <1>1, <1>2 DEF Entry, Ops, OtherStage, IstepLabels, QuiesceLabels, NvdimmLabels, SimpleLabels
  <2>8. AccessStage(p, hw)
    <3> SUFFICES ASSUME p.at \in AccessLabels PROVE AccessStage(p, hw)
      BY DEF AccessStage
    <3>1. p.at = "mem" /\ req.op \in MemOps
      BY <1>2 DEF Entry, Ops, AccessLabels, MemLabels, MemOps
    <3>2. Len(hw.wrote) = p.count * sizeMultiplier
      <4>1. sizeMultiplier \in Nat
        BY MemAssumption DEF sizeMultiplier
      <4> DEFINE z == sizeMultiplier
      <4> HIDE DEF z
      <4>2. 0 * z = 0
        BY <4>1 DEF z
      <4> QED BY <1>4, <4>2 DEF z
    <3> QED BY <1>1, <1>3, <3>1, <3>2 DEF AccessStage
  <2>9. SramStage(p, hw)
    <3> SUFFICES ASSUME p.at \in SramLabels PROVE SramStage(p, hw)
      BY DEF SramStage
    <3>1. p.at = "sram"
      BY <2>1 DEF SramLabels, Starts, ScomOps
    <3>2. Unwritten(p.count) = 0
      BY <1>1, NothingUnwritten
    <3> QED BY <1>1, <1>2, <1>4, <3>1, <3>2 DEF SramStage
  <2>10. HeaderStage(p, hw)
    BY <2>1 DEF HeaderStage, Starts, ScomOps
  <2> QED BY <2>2, <2>3, <2>4, <2>5, <2>6, <2>7, <2>8, <2>9, <2>10 DEF Stage
<1> QED BY <1>5, <1>6

\* A chip-op starts with its message to take and nothing done.
LEMMA FreshWork ==
    ASSUME Ready, Wires, p.fn = "none", p.at = Entry(req.op), p.count = 0, hw = Hardware,
           Rest(Stream, 0), Len(Stream) = MessageWords(req) + 1
    PROVE  Progress /\ Measured
<1>1. p.at \in Starts \cup {"return"}
  BY RequestTyped DEF Entry, Ops, Starts, ScomOps
<1>2. Judged(p) /\ Wanted(p, hw)
  BY <1>1 DEF Judged, Wanted, AtOpen, Told
<1>3. Progress
  BY <1>2, FreshStage DEF Progress
<1>4. ASSUME Counts(p)
      PROVE  Rest(Stream, Total(p, hw)) /\ Total(p, hw) + Len(Stream) = MessageWords(req) + 1
  <2>1. p.at \in Starts
    BY <1>1, <1>4 DEF Counts
  <2>2. Total(p, hw) = 0
    BY <2>1 DEF Total
  <2> DEFINE k == Len(Stream)
             m == MessageWords(req) + 1
  <2>3. k = m /\ k \in Nat
    <3>1. Stream \in UpWords
      BY StreamTyped
    <3> QED BY <3>1 DEF UpWords
  <2> HIDE DEF k, m
  <2>4. 0 + k = m
    BY <2>3
  <2> QED BY <2>2, <2>4 DEF k, m
<1> QED BY <1>3, <1>4 DEF Measured

LEMMA FreshWorkState ==
    /\ Inv /\ p.fn = "none" /\ p.at = Entry(req.op) /\ p.count = 0 /\ hw = Hardware
    /\ Rest(Stream, 0) /\ Len(Stream) = MessageWords(req) + 1
    => Progress /\ Measured
  BY FreshWork DEF Inv

LEMMA ReceiveWork ==
    ASSUME Inv, KeptInv, WorkInv, Receive, UNCHANGED sp PROVE WorkInv'
<1> DEFINE r == Head(up)[2]
           l == Entry(r.op)
           c == IF r.op = "unknown" THEN "NOT_SUPPORTED" ELSE "OK"
<1>1. /\ Wires /\ p.fn = "none" /\ p.at = "idle" /\ ~Serves(p) /\ ~reset /\ up # <<>>
      /\ Head(up)[1] = "cmd" /\ UNCHANGED <<down, reset, hw>> /\ Kept(p, hw) /\ up' = Tail(up) /\ req' = r
      /\ p' = [Frame EXCEPT !.at = l, !.rc = c]
  BY DEF Inv, Receive, At, Serves, KeptInv
<1>2. /\ Stream' = Tail(Stream) /\ Stream # <<>> /\ Stream[1] = Head(up) /\ Head(up) \in UpWord
      /\ Stream \in UpWords /\ Len(Stream) \in Nat /\ Len(Stream') = Len(Stream) - 1
  BY <1>1, EntryTaken
<1>3. r \in Requests
  BY <1>1, <1>2, UpWordKinds
<1>4. r.op \in Ops
  BY <1>3, RequestAssumption
<1>5. sp.busy /\ Whole(Stream)
  <2>1. Head(up) = up[1] /\ Len(up) >= 1 /\ Len(up) \in Nat
    BY <1>1, TailOf DEF Wires, UpWords
  <2>2. 1 \in 1..Len(Stream)
    BY <1>2, TailOf DEF UpWords
  <2>3. ~NoCommand(Stream) /\ ~NoCommand(up)
    BY <1>1, <1>2, <2>1, <2>2 DEF NoCommand
  <2> QED BY <1>1, <2>3 DEF Inv, Boundary, Asks
<1>6. Len(Stream) = MessageWords(r) + 2
  BY <1>1, <1>2, <1>5 DEF WorkInv, Announced
<1>7. MessageWords(r) \in Int
  <2>1. r \in Servable
    BY <1>3 DEF Servable
  <2> DEFINE a == ArgWords(r)
             y == Payload(r)
             e == r.extra
             m == MessageWords(r)
  <2>2. y \in Nat /\ a \in Nat /\ e \in Int /\ m = a + y + e
    BY <2>1, MessageTyped
  <2> HIDE DEF a, y, e, m, r
  <2>3. m \in Int
    BY <2>2
  <2> QED BY <2>3 DEF m
<1>8. Len(Stream') = MessageWords(r) + 1
  <2> DEFINE k == Len(Stream)
             m == MessageWords(r)
             j == Len(Stream')
  <2>1. k = m + 2 /\ m \in Int /\ j = k - 1
    BY <1>2, <1>6, <1>7
  <2> HIDE DEF k, m, j
  <2>2. j = m + 1
    BY <2>1
  <2> QED BY <2>2 DEF j, m
<1> HIDE DEF r
<1>9. l \in Starts \cup {"return"} /\ (l = "return" => c # "OK")
  BY <1>4 DEF Entry, Ops, Starts, ScomOps
<1> HIDE DEF l, c
<1>10. p'.at = l /\ p'.rc = c /\ p'.fn = "none" /\ p'.count = 0
  BY <1>1 DEF Frame
<1>11. Serves(p') /\ ~Answering(p)' /\ ~At("response.done")'
  BY <1>9, <1>10 DEF Serves, Answering, At, Starts, ScomOps
<1>12. Announced' /\ Vouched'
  BY <1>11, AnnouncedServes DEF Vouched
<1>13. Rest(Stream', 0)
  BY <1>2, <1>5 DEF Whole
<1>14. Inv' /\ hw' = Hardware
  BY <1>1, ReceiveKeeps DEF Kept
<1>15. p'.at = Entry(req'.op)
  BY <1>1, <1>10 DEF l
<1>16. Len(Stream') = MessageWords(req') + 1
  BY <1>1, <1>8
<1>17. (/\ Inv /\ p.fn = "none" /\ p.at = Entry(req.op) /\ p.count = 0 /\ hw = Hardware
        /\ Rest(Stream, 0) /\ Len(Stream) = MessageWords(req) + 1)'
  <2>1. Entry(req.op)' = Entry(req'.op)
    BY DEF Entry
  <2>2. MessageWords(req)' = MessageWords(req')
    BY DEF MessageWords, ArgWords, Payload, NumRegs, align4ByteWordLength
  <2>3. Rest(Stream, 0)'
    BY <1>13 DEF Rest
  <2>4. Hardware' = Hardware
    BY DEF Hardware
  <2> QED BY <1>10, <1>14, <1>15, <1>16, <2>1, <2>2, <2>3, <2>4
<1>18. Progress' /\ Measured'
  BY <1>17, FreshWorkState, PTL
<1> QED BY <1>12, <1>18 DEF WorkInv

LEMMA PerformResetWork ==
    ASSUME Inv, sbeUpFifoPerformReset, UNCHANGED sp PROVE WorkInv'
<1>1. p'.fn = "none" /\ p'.at = "idle" /\ sp' = sp /\ reset
  BY DEF sbeUpFifoPerformReset, At
<1>2. ~sp.busy
  BY <1>1 DEF Inv, SpState
<1>3. Announced'
  BY <1>1, <1>2 DEF Announced
<1> QED BY <1>1, <1>3, IdleWork

----------------------------------------------------------------------------
(* The service processor *)

\* What it writes is its message as it is.
LEMMA SpStream ==
    ASSUME Inv, ServiceProcessor, ~reset'
    PROVE  \/ Stream' = Stream /\ sp'.busy = sp.busy
           \/ ~Serves(p) /\ ~sp'.busy
           \/ ~Serves(p) /\ SpAsk
<1>a. Wires
  BY DEF Inv
<1>1. CASE SpAsk
  <2>1. ~Serves(p)
    BY <1>1 DEF SpAsk, Inv, Boundary, Serving
  <2> QED BY <1>1, <2>1
<1>2. CASE SpWrite
  <2> DEFINE t == Tail(sp.left)
  <2>1. /\ up' \o t = up \o sp.left
        /\ sp' = [sp EXCEPT !.left = t] /\ sp \in [busy : BOOLEAN, left : UpWords, got : DownWords]
    <3>1. up \in UpWords /\ sp.left \in UpWords
      BY <1>a, StreamTyped
    <3> QED BY <1>2, <1>a, <3>1, MoveWord DEF SpWrite, Wires
  <2> HIDE DEF t
  <2>2. sp'.left = t /\ sp'.busy = sp.busy
    BY <2>1
  <2> QED BY <2>1, <2>2 DEF Stream
<1>3. CASE SpRead
  <2>1. /\ down # <<>> /\ ~reset /\ UNCHANGED up
        /\ sp' = IF Head(down)[1] = "eot" THEN Idle ELSE [sp EXCEPT !.got = Append(@, Head(down))]
        /\ sp \in [busy : BOOLEAN, left : UpWords, got : DownWords]
    BY <1>3, <1>a DEF SpRead, Wires
  <2>2. CASE Head(down)[1] = "eot"
    <3>1. Head(down) = down[1] /\ Len(down) >= 1 /\ Len(down) \in Nat
      BY <1>a, <2>1, TailOf DEF Wires
    <3>2. ~Serves(p)
      BY <2>1, <2>2, <3>1 DEF Inv, Boundary, Serving, NoEot
    <3> QED BY <2>1, <2>2, <3>2 DEF Idle
  <2>3. CASE Head(down)[1] # "eot"
    <3> DEFINE g == Append(sp.got, Head(down))
    <3>1. sp' = [sp EXCEPT !.got = g]
      BY <2>1, <2>3
    <3> HIDE DEF g
    <3>2. sp'.left = sp.left /\ sp'.busy = sp.busy
      BY <2>1, <3>1
    <3> QED BY <2>1, <3>2 DEF Stream
  <2> QED BY <2>2, <2>3
<1>4. ~SpReset /\ ~SpDrain
  BY DEF SpReset, SpDrain
<1> QED BY <1>1, <1>2, <1>3, <1>4 DEF ServiceProcessor

\* A message has the words it should have, and behind what a chip-op left in the
\* FIFO it is no message.
LEMMA AskAnnounced == ASSUME LengthsJudged, Inv, SpAsk PROVE Announced'
<1>1. Wires /\ ~sp.busy /\ ~reset /\ up' = up
  BY DEF Inv, SpAsk
<1>2. PICK r \in Requests : sp' = [busy |-> TRUE, left |-> Message(r), got |-> <<>>]
  BY DEF SpAsk
<1>3. /\ Message(r) \in UpWords /\ Message(r)[1] = <<"cmd", r>>
      /\ MessageWords(r) >= 0 => Len(Message(r)) = MessageWords(r) + 2
  BY MessageWhole
<1>4. MessageWords(r) >= 0
  <2>1. r \in Servable
    BY DEF Servable
  <2> DEFINE a == ArgWords(r)
             y == Payload(r)
             e == r.extra
             m == MessageWords(r)
  <2>2. y \in Nat /\ a \in Nat /\ e \in Int /\ m = a + y + e
    BY <2>1, MessageTyped
  <2>3. e # 0 => m >= 0
    BY DEF LengthsJudged
  <2> HIDE DEF a, y, e, m
  <2>4. m >= 0
    BY <2>2, <2>3
  <2> QED BY <2>4 DEF m
<1>5. CASE up = <<>>
  <2>1. Stream' = Message(r)
    <3>1. sp'.left = Message(r)
      BY <1>2
    <3> QED BY <1>1, <1>3, <1>5, <3>1, EmptyJoin DEF Stream
  <2>2. Stream'[1][2] = r
    BY <1>3, <2>1
  <2>3. Len(Stream') = MessageWords(Stream'[1][2]) + 2
    BY <1>3, <1>4, <2>1, <2>2
  <2>4. MessageWords(Stream[1][2])' = MessageWords(Stream'[1][2])
    BY DEF MessageWords, ArgWords, Payload, NumRegs, align4ByteWordLength
  <2> QED BY <2>3, <2>4 DEF Announced
<1>6. CASE up # <<>>
  <2>1. sp'.left \in UpWords /\ up \in UpWords
    BY <1>1, <1>2, <1>3 DEF Wires
  <2> DEFINE s == sp'.left
  <2>2. (up \o s)[1] = Head(up)
    <3> HIDE DEF s
    <3> QED BY <1>6, <2>1, TakeHead DEF s
  <2>3. Stream'[1] = Head(up)
    BY <1>1, <2>2 DEF Stream
  <2>4. NoCommand(up) /\ Head(up) = up[1] /\ Len(up) >= 1 /\ Len(up) \in Nat
    BY <1>1, <1>6, TailOf DEF Inv, Boundary, Serving, Wires, UpWords
  <2>5. Stream'[1][1] # "cmd"
    BY <2>3, <2>4 DEF NoCommand
  <2>6. ~Whole(Stream)'
    BY <2>5 DEF Whole
  <2> QED BY <2>6 DEF Announced
<1> QED BY <1>5, <1>6

\* Only what is on the wires changes.
LEMMA SameWork ==
    ASSUME Inv, WorkInv, UNCHANGED <<p, hw, req, faults, reset>>, Announced',
           Stream' = Stream \/ ~Serves(p), Response' = Response \/ (~Serves(p) /\ Response' = <<>>)
    PROVE  WorkInv'
<1>1. p' = p /\ hw' = hw /\ (Sound' <=> Sound) /\ (Answering(p)' <=> Answering(p))
      /\ (At("response.done")' <=> At("response.done"))
  BY DEF Sound, Answering, At
<1>2. Finished(p, hw)' <=> Finished(p, hw)
  BY <1>1, PlaceNext
<1>3. CASE ~Serves(p)
  <2>1. p.fn = "none" /\ p.at \in {"idle", "response.done"}
    BY <1>3 DEF Serves
  <2>2. Progress' /\ Measured'
    BY <1>1, <2>1, ToldNext DEF Told
  <2>3. ~Answering(p)
    BY <2>1 DEF Answering
  <2>4. Vouched'
    <3>1. CASE Response' = <<>>
      BY <1>1, <2>3, <3>1 DEF Vouched
    <3>2. CASE Response' = Response
      <4>1. Headed(Response, <<<<"eot">>>>, Finished(p, hw))
            => Headed(Response, <<<<"eot">>>>, Finished(p, hw))'
        BY <1>2, <3>2 DEF Headed
      <4> QED BY <1>1, <2>3, <3>2, <4>1 DEF WorkInv, Vouched
    <3> QED BY <3>1, <3>2
  <2> QED BY <2>2, <2>4 DEF WorkInv
<1>4. CASE Serves(p)
  <2>1. Stream' = Stream /\ Response' = Response /\ ~At("response.done")
    BY <1>4 DEF Serves, At
  <2>2. Progress'
    <3>1. Sound /\ p.status = "OK" => Stage(p', hw') /\ Wanted(p', hw') /\ Judged(p')
      BY <1>1 DEF WorkInv, Progress
    <3> QED BY <1>1, <3>1, StageNext, PlaceNext DEF Progress
  <2>3. Measured'
    <3>1. (Counts(p)' => Counts(p)) /\ Total(p, hw)' = Total(p, hw)
          /\ MessageWords(req)' = MessageWords(req)
      BY <1>1, PlaceNext
    <3>2. Rest(Stream, Total(p, hw)) => Rest(Stream, Total(p, hw))'
      BY <2>1, <3>1 DEF Rest
    <3> QED BY <1>1, <2>1, <3>1, <3>2 DEF WorkInv, Measured
  <2>4. Vouched'
    <3>1. Sent' = Sent
      BY <1>1, <2>1 DEF Sent
    <3>2. Headed(Sent, <<>>, Finished(p, hw)) => Headed(Sent, <<>>, Finished(p, hw))'
      BY <1>2, <3>1 DEF Headed
    <3> QED BY <1>1, <2>1, <3>2 DEF WorkInv, Vouched
  <2> QED BY <2>2, <2>3, <2>4 DEF WorkInv
<1> QED BY <1>3, <1>4

LEMMA SpWork == ASSUME LengthsJudged, Inv, WorkInv, ServiceProcessor PROVE WorkInv'
<1>1. UNCHANGED <<p, hw, req, faults>>
  BY DEF ServiceProcessor, SpAsk, SpWrite, SpRead, SpReset, SpDrain, SpUnchanged
<1>2. CASE reset'
  <2>1. Announced'
    BY <1>2 DEF Announced
  <2> QED BY <1>2, <2>1, UnsoundWork
<1>3. CASE ~reset'
  <2>1. reset' = reset /\ (Response' = Response \/ (~Serves(p) /\ Response' = <<>>))
    BY <1>3, SpResponse
  <2>2. \/ Stream' = Stream /\ sp'.busy = sp.busy
        \/ ~Serves(p) /\ ~sp'.busy
        \/ ~Serves(p) /\ SpAsk
    BY <1>3, SpStream
  <2>3. Announced'
    <3>1. CASE Stream' = Stream /\ sp'.busy = sp.busy
      <4>1. (Whole(Stream))' <=> Whole(Stream)
        BY <3>1 DEF Whole, Rest
      <4>2. (MessageWords(Stream[1][2]))' = MessageWords(Stream[1][2])
        BY <3>1 DEF MessageWords, ArgWords, Payload, NumRegs, align4ByteWordLength
      <4>3. Serves(p)' <=> Serves(p)
        BY <1>1 DEF Serves
      <4> QED BY <2>1, <3>1, <4>1, <4>2, <4>3 DEF WorkInv, Announced
    <3>2. CASE ~sp'.busy
      BY <3>2 DEF Announced
    <3>3. CASE SpAsk
      BY <3>3, AskAnnounced
    <3> QED BY <2>2, <3>1, <3>2, <3>3
  <2> QED BY <1>1, <2>1, <2>2, <2>3, SameWork
<1> QED BY <1>2, <1>3

----------------------------------------------------------------------------
(* The theorem *)

LEMMA NextWork ==
    ASSUME LengthsJudged, Inv, KeptInv, DataInv, WorkInv, [Next]_vars PROVE WorkInv'
<1>1. CASE FifoStep /\ UNCHANGED <<req, hw, sp>>
  BY <1>1, DeqWork, EnqWork, EotWork DEF FifoStep
<1>2. CASE ChipOp /\ UNCHANGED sp
  BY <1>2, ChipOpWork
<1>3. CASE Receive /\ UNCHANGED sp
  BY <1>3, ReceiveWork
<1>4. CASE sbeUpFifoPerformReset /\ UNCHANGED sp
  BY <1>4, PerformResetWork
<1>5. CASE ServiceProcessor
  BY <1>5, SpWork
<1>6. CASE Fault
  BY <1>6, FaultWork
<1>7. CASE UNCHANGED <<up, down, reset, faults, p, req, hw, sp>>
  <2>1. Stream' = Stream /\ Response' = Response
    BY <1>7 DEF Stream, Response
  <2>2. Announced'
    BY <1>7, <2>1, AnnouncedSame DEF WorkInv
  <2> QED BY <1>7, <2>1, <2>2, SameWork
<1> QED BY <1>1, <1>2, <1>3, <1>4, <1>5, <1>6, <1>7 DEF Next, Processor, HostUpdatesRegions, vars

LEMMA WorkInvariance ==
    ASSUME LengthsJudged PROVE Spec => [](Inv /\ KeptInv /\ DataInv /\ WorkInv)
<1>1. Init => WorkInv
  <2> SUFFICES ASSUME Init PROVE WorkInv
    OBVIOUS
  <2>1. p.fn = "none" /\ p.at = "idle" /\ ~sp.busy
    BY DEF Init, FifoInit, Frame, Idle
  <2>2. Progress /\ Measured
    BY <2>1, ToldState
  <2>3. Announced /\ Vouched
    BY <2>1 DEF Announced, Vouched, Answering, At
  <2> QED BY <2>2, <2>3 DEF WorkInv
<1>2. Inv /\ KeptInv /\ DataInv /\ WorkInv /\ [Next]_vars => WorkInv'
  BY NextWork
<1> QED BY <1>1, <1>2, KeptInvariance, DataInvariance, PTL DEF Spec

\* The reader's way back to a status that vouches for the work.
LEMMA AnswerVouches ==
    ASSUME KeptInv, Vouched, Complete, Answer = "OK" PROVE Finished(p, hw)
<1>1. Headed(Response, <<<<"eot">>>>, Finished(p, hw))
  BY DEF Vouched, Complete, Sound
<1>2. PICK status \in Status, k \in Nat, a \in Nat, b \in Nat :
          Parts(Response, status, k, a, b) /\ (status = "OK" => Finished(p, hw))
  BY <1>1, HeadedParts
<1> DEFINE s == Response
<1>3. Parts(s, status, k, a, b)
  BY <1>2
<1>4. HeaderAt = Len(s) - s[Len(s) - 1][2] /\ Answer = s[HeaderAt + 1][2]
  BY DEF HeaderAt, Answer
<1> HIDE DEF s
<1>5. Len(s) - 1 = k + 3 + a + b /\ Len(s) = k + 4 + a + b
  BY <1>3 DEF Parts
<1>6. s[Len(s) - 1][2] = 3 + a + b
  BY <1>3, <1>5 DEF Parts
<1>7. HeaderAt + 1 = k + 2
  BY <1>4, <1>5, <1>6
<1>8. s[k + 2] = <<"status", status>>
  BY <1>3 DEF Parts
<1>9. Answer = status
  BY <1>4, <1>7, <1>8
<1> QED BY <1>2, <1>9

\* A response that reports success vouches for the work: the message was as long as
\* it should be, every procedure of the chip-op was done and none failed, all of the
\* payload was handed over, of an SRAM put all of its whole blocks of 8 bytes
\* (sbeOccSramAccess_Wrap counts a last half block and does not write it), and the host
\* was told where it waits.  It holds for any
\* requests, depths of the FIFOs, sizes of granules and list of cores, and through
\* whatever pieces the words come in, because a chip-op reaches the header with
\* SBE_SEC_OPERATION_SUCCESSFUL only from the end of its own loops, and the dequeue
\* that looks for the EOT entry compares the words it took with those it wanted.
\* LengthsJudged is about messages of a wrong length only: sbeFifoQuiesce overwrites
\* the return code of its dequeue, and of a put to memory the words of the granules
\* are compared, not those of its length.
THEOREM SuccessMeansDone == ASSUME LengthsJudged PROVE Spec => []OkMeansDone
<1>1. KeptInv /\ WorkInv => OkMeansDone
  <2> SUFFICES ASSUME KeptInv, WorkInv, Complete, Answer = "OK" PROVE OkMeansDone
    BY DEF OkMeansDone
  <2>1. Finished(p, hw) /\ p.at = "response.done"
    BY AnswerVouches DEF WorkInv, Complete, At
  <2>2. req.extra = 0 /\ (req.op = "putmem" /\ isPassThrough => hw.bell)
    BY <2>1 DEF Finished
  <2>3. /\ req.op # "fastarray" /\ ~(req.op = "cntlinst" /\ Ignores) => ~hw.failed /\ hw.done = Work
        /\ req.op \in {"putreg", "putmem", "putring"} => Len(hw.wrote) = Payload(req)
        /\ req.op = "putsram" => Len(hw.wrote) = 2 * (req.len \div 8)
    BY <2>1 DEF Finished, Accomplished, Excused, Did, Puts
  <2> QED BY <2>2, <2>3 DEF OkMeansDone
<1> QED BY <1>1, WorkInvariance, PTL

=============================================================================
