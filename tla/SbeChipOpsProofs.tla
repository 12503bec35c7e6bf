--------------------------- MODULE SbeChipOpsProofs ---------------------------
(***************************************************************************)
(* Theorems about the chip-ops, for any requests, any depth of the FIFOs   *)
(* and any number of failing accesses.                                     *)
(*                                                                         *)
(* A chip-op is a program over the frame p: Move says once, for all its    *)
(* steps, how the frame, the way a call comes back and the part of the     *)
(* message that is still to come change together; one lemma per action     *)
(* shows that it moves.  What the FIFO layer and the service processor do  *)
(* is then the same for every chip-op.                                     *)
(***************************************************************************)
EXTENDS SbeChipOps, SequenceTheorems, TLAPS

----------------------------------------------------------------------------
(* Types *)

UpWord == ({"cmd"} \X Requests) \cup ({"arg"} \X Nat) \cup {<<"eot">>}

\* What a chip-op sends; the end of a transfer is not among it.
DownWord ==
    {<<"magic">>} \cup ({"status"} \X Status)
    \cup ({"ffdc", "hwpffdc", "sbeffdc", "dist", "data", "stale", "len"} \X Int)

UpWords == Seq(UpWord)
DownWords == Seq(DownWord)
Buffers == Seq(Nat \cup Requests)

\* Where a chip-op starts and has its message to take.
Starts ==
    {"mem", "sram", "reg", "getring", "putring", "trace", "fastarray", "cntlinst", "istep",
     "nvdimm", "caps", "getffdc", "quiesce"} \cup ScomOps

Labels ==
    Starts \cup
    {"idle", "return", "header", "response.header", "response.flushed", "response.eot",
     "response.done", "scom.check", "scom.read", "scom.write", "reg.check", "reg.setup",
     "reg.access", "reg.cleanup", "getring.setup", "getring.read", "getring.rotate",
     "getring.verify", "getring.reply", "putring.payload", "putring.apply", "trace.target",
     "trace.row", "trace.reply", "fastarray.target", "fastarray.run", "cntlinst.check",
     "cntlinst.wake", "cntlinst.woken", "cntlinst.thread", "cntlinst.threads", "cntlinst.sleep",
     "istep.run", "nvdimm.stop", "nvdimm.flush", "caps.send", "getffdc.send", "quiesce.suspend",
     "mem.check", "mem.access", "mem.loop", "mem.tail", "mem.reply", "mem.bell",
     "sram.check", "sram.access", "sram.loop", "sram.tail", "sram.reply"}

Frames ==
    [at : Labels, brk : Labels, fn : {"none", "deq", "enq", "eot"}, want : Nat, eot : BOOLEAN,
     flush : BOOLEAN, buf : Buffers, extra : {0, 1}, out : DownWords, rc : Rc,
     status : Status, fapi : BOOLEAN, count : Nat]

Hardwares ==
    [done : Nat, wrote : Buffers, failed : BOOLEAN, open : BOOLEAN, granted : Nat, used : Nat,
     misused : BOOLEAN, cleaned : BOOLEAN, max : Int, curr : Nat, bell : BOOLEAN,
     awake : SUBSET ToSet(Cores)]

\* A dequeue keeps what it wants and counts one more; an enqueue has words to send.
Calls(q) ==
    /\ q.fn = "deq" => Len(q.buf) <= q.want /\ (q.extra = 1 => q.flush \/ Len(q.buf) = q.want)
    /\ q.fn = "enq" => q.out # <<>>

\* What the SP asks for, and nothing.
Servable == Requests \cup {NoRequest}

----------------------------------------------------------------------------
(* Where a chip-op still has the rest of its message to take *)

\* A memory or SRAM access that reads has taken all of its message with the request.
PutLabels == {"mem.check", "mem.access", "mem.tail", "sram.check", "sram.access", "sram.tail"}
ReadOps == {"getmem", "getsram"}
Loops == {"mem.loop", "sram.loop"}

AtOpen(l, r) ==
    \/ l \in Starts \cup {"reg.check", "putring.payload"}
    \/ l \in PutLabels /\ r.op \notin ReadOps

\* What is common to all chip-ops, and what is the register's and the SRAM's own.
Common ==
    {"idle", "return", "header", "response.header", "response.flushed", "response.eot",
     "response.done"}
RegLabels == {"reg", "reg.check", "reg.setup", "reg.access", "reg.cleanup"}
RegOps == {"getreg", "putreg"}
SramLabels ==
    {"sram", "sram.check", "sram.access", "sram.loop", "sram.tail", "sram.reply"}
SramOps == {"getsram", "putsram"}

Owned(l, r) ==
    \/ l \in Common
    \/ (l \in RegLabels <=> r.op \in RegOps) /\ (l \in SramLabels <=> r.op \in SramOps)

\* The cores of a request, and where a chip-op is at one of them.
TargetsOf(r) ==
    IF r.addr = 0 THEN Cores ELSE IF r.addr \in ToSet(Cores) THEN <<r.addr>> ELSE <<>>
CoreLabels == {"cntlinst.wake", "cntlinst.thread", "cntlinst.sleep"}

\* SRAM is accessed in whole words, as long as there are some left; a core is one
\* of the request's, and so is a register.
Counted(l, n, r) ==
    /\ l \in {"sram", "sram.check", "sram.access", "sram.loop"} => n % 4 = 0
    /\ l = "sram.access" => n < r.len
    /\ l \in CoreLabels => n < Len(TargetsOf(r))
    /\ l \in {"reg", "reg.check", "reg.setup"} => n = 0
    /\ l = "reg.access" => n < r.len

\* Where a chip-op counts what it goes through.
Looped == CoreLabels \cup {"reg.setup", "reg.access"}

\* The registers to be written have all been taken.
Filled(q, r) ==
    q.at \in {"reg.setup", "reg.access"} /\ r.op = "putreg" =>
        /\ q.fn \in {"none", "deq"}
        /\ q.fn = "deq" => q.want = 3 * r.len /\ ~q.flush
        /\ q.fn = "none" => Len(q.buf) = 3 * r.len

\* Where a chip-op may be after a register access that failed.
AfterFault == Common \cup {"reg.cleanup"}

\* The shape of the calls: a dequeue looks for the end of the message exactly when
\* the chip-op wants no more of it; nothing is sent before that end.
Control(q, r) ==
    /\ q.fn = "deq" => /\ q.eot <=> ~AtOpen(q.at, r)
                       /\ q.flush => q.eot
                       /\ q.brk \in {"return", "header", "response.flushed"}
                       /\ q.at \notin {"idle", "return", "response.done"}
    /\ q.fn \in {"enq", "eot"} => /\ ~AtOpen(q.at, r)
                                  /\ q.brk \in {"return", "reg.cleanup", "response.done"}
                                  /\ q.at # "idle"
    /\ q.fn = "eot" => q.at = "response.done"
    /\ q.fn = "enq" => q.at # "response.done"
    /\ q.at \in Loops => r.op \in ReadOps
    /\ Owned(q.at, r) /\ (q.fn # "none" => Owned(q.brk, r))
    /\ Counted(q.at, q.count, r) /\ Filled(q, r)
    /\ q.rc = "NOT_SUPPORTED" => \/ q.fn = "none" /\ q.at = "return"
                                 \/ q.fn = "deq" /\ q.at = "response.header"

\* Some of the message is to come; all of it has been taken.  Neither is known of
\* a chip-op that lost its FIFO and does not answer.
IsOpen(q, r) ==
    \/ q.fn = "deq"
    \/ q.fn = "none" /\ (AtOpen(q.at, r) \/ (q.at = "return" /\ q.rc = "NOT_SUPPORTED"))

IsClosed(q, r) ==
    \/ q.fn \in {"enq", "eot"}
    \/ /\ q.fn = "none" /\ ~IsOpen(q, r) /\ q.at \notin {"idle", "response.done"}
       /\ q.at = "return" => q.rc \in {"OK", "INSUFFICIENT_DATA", "EXCESS_DATA"}

Serves(q) == ~(q.fn = "none" /\ q.at \in {"idle", "response.done"})

\* A chip-op goes on in its own part, and not after a failed access.
Near(l) ==
    \/ l \in Common
    \/ /\ p.at \notin AfterFault
       /\ (l \in RegLabels <=> p.at \in RegLabels) /\ (l \in SramLabels <=> p.at \in SramLabels)

\* The register chip-ops leave the message of a request they refuse in the FIFO:
\* what is shown here of message boundaries is shown without such requests.
RegsAccepted == \A r \in Requests : r.op \in RegOps => "invalid" \notin r.flags

Move(q) ==
    /\ q \in Frames /\ Calls(q) /\ Control(q, req) /\ Serves(q)
    /\ RegsAccepted => /\ IsOpen(q, req) => IsOpen(p, req)
                       /\ IsClosed(q, req) => IsClosed(p, req)
    /\ p.at \in AfterFault => q.at \in AfterFault

Moves ==
    /\ p.fn = "none" /\ Serves(p)
    /\ Move(p') /\ hw' \in Hardwares
    /\ UNCHANGED <<up, down, reset, req, regions, opened>>
    /\ UNCHANGED faults \/ (faults < ScomFaults /\ faults' = faults + 1 /\ p'.at \in AfterFault)

\* What an action of a chip-op starts from.
Ready ==
    /\ p \in Frames /\ Calls(p) /\ Control(p, req) /\ hw \in Hardwares /\ req \in Servable

----------------------------------------------------------------------------
(* The operators' results *)

LEMMA DataTyped ==
    ASSUME NEW n \in Int, NEW words \in Nat
    PROVE  /\ Data(n, words) \in DownWords /\ Len(Data(n, words)) = words
  BY DEF Data, DownWords, DownWord

LEMMA SramDataTyped ==
    ASSUME NEW n \in Int, NEW pass \in Nat
    PROVE  /\ SramData(n, pass) \in DownWords /\ Len(SramData(n, pass)) = pass \div 4
<1> DEFINE k == pass \div 4
           d == [i \in 1..k |-> <<IF i <= k - HalfBlock(pass) THEN "data" ELSE "stale", n>>]
<1>1. k \in Nat /\ d = SramData(n, pass)
  BY DEF SramData
<1> HIDE DEF k
<1>2. \A i \in 1..k : d[i] \in {<<"data", n>>, <<"stale", n>>}
  OBVIOUS
<1>3. {<<"data", n>>, <<"stale", n>>} \subseteq DownWord
  BY DEF DownWord
<1>4. d \in Seq(DownWord) /\ Len(d) = k
  <2>1. \A i \in 1..k : d[i] \in DownWord
    BY <1>2, <1>3
  <2>2. d \in [1..k -> DownWord]
    BY <2>1
  <2> HIDE DEF d
  <2> QED BY <1>1, <2>2
<1> HIDE DEF d
<1> QED BY <1>1, <1>4 DEF DownWords, k

LEMMA EmptyTyped == <<>> \in Buffers /\ <<>> \in DownWords /\ <<>> \in UpWords
  BY DEF Buffers, DownWords, UpWords

LEMMA DeqTyped ==
    ASSUME NEW q \in Frames, NEW l \in Labels, NEW b \in Labels, NEW n \in Nat,
           NEW eot \in BOOLEAN, NEW flush \in BOOLEAN
    PROVE  LET d == Deq(q, l, b, n, eot, flush)
           IN  /\ d \in Frames /\ Calls(d)
               /\ d.fn = "deq" /\ d.at = l /\ d.brk = b /\ d.want = n /\ d.eot = eot
               /\ d.flush = flush /\ d.buf = <<>> /\ d.extra = 0 /\ d.out = q.out
               /\ d.rc = q.rc /\ d.status = q.status /\ d.fapi = q.fapi /\ d.count = q.count
<1>1. Deq(q, l, b, n, eot, flush) \in Frames
  BY EmptyTyped DEF Deq, Frames
<1> QED BY <1>1 DEF Deq, Frames, Calls

LEMMA EnqTyped ==
    ASSUME NEW q \in Frames, NEW l \in Labels, NEW b \in Labels,
           NEW words \in DownWords, words # <<>>
    PROVE  LET d == Enq(q, l, b, words)
           IN  /\ d \in Frames /\ Calls(d)
               /\ d.fn = "enq" /\ d.at = l /\ d.brk = b /\ d.out = words
               /\ d.buf = q.buf /\ d.rc = q.rc /\ d.status = q.status /\ d.fapi = q.fapi
               /\ d.count = q.count
<1>1. Enq(q, l, b, words) \in Frames
  BY DEF Enq, Frames
<1> QED BY <1>1 DEF Enq, Frames, Calls

LEMMA EotTyped ==
    ASSUME NEW q \in Frames, NEW l \in Labels, NEW b \in Labels
    PROVE  LET d == Eot(q, l, b)
           IN  /\ d \in Frames /\ Calls(d)
               /\ d.fn = "eot" /\ d.at = l /\ d.brk = b /\ d.out = q.out
               /\ d.buf = q.buf /\ d.rc = q.rc /\ d.status = q.status /\ d.fapi = q.fapi
               /\ d.count = q.count
  BY DEF Eot, Frames, Calls

(***************************************************************************)
(* How a step of a chip-op is shown to move: by the call it makes, or as a *)
(* jump that calls nothing; with the hardware as it is, or by a procedure. *)
(***************************************************************************)
LEMMA NearOwned ==
    ASSUME Ready, NEW l, Near(l)
    PROVE  Owned(l, req) /\ (p.at \in AfterFault => l \in AfterFault)
  BY DEF Ready, Control, Near, Owned, AfterFault

LEMMA MoveDeq ==
    ASSUME Ready, p.fn = "none",
           NEW q \in Frames, q.rc = p.rc,
           NEW l \in Labels, p.rc = "NOT_SUPPORTED" => l = "response.header", NEW b \in {"return", "header", "response.flushed"},
           NEW n \in Nat, NEW eot \in BOOLEAN, NEW flush \in BOOLEAN,
           eot <=> ~AtOpen(l, req), flush => eot,
           l \notin {"idle", "return", "response.done"} \cup Loops,
           IsOpen(p, req), Near(l), Counted(l, q.count, req),
           l \in {"reg.setup", "reg.access"} /\ req.op = "putreg" => n = 3 * req.len /\ ~flush
    PROVE  Move(Deq(q, l, b, n, eot, flush))
<1> DEFINE d == Deq(q, l, b, n, eot, flush)
<1>1. /\ d \in Frames /\ Calls(d)
      /\ d.fn = "deq" /\ d.at = l /\ d.brk = b /\ d.eot = eot /\ d.flush = flush /\ d.rc = q.rc
      /\ d.count = q.count /\ d.want = n
  <2>1. b \in Labels
    BY DEF Labels
  <2>2. d \in Frames
    BY <2>1, EmptyTyped DEF Deq, Frames
  <2> QED BY <2>2 DEF Deq, Frames, Calls
<1> HIDE DEF d
<1>2. Near(b)
  BY DEF Near, Common
<1>3. Filled(d, req)
  BY <1>1 DEF Filled, d
<1> QED BY <1>1, <1>2, <1>3, NearOwned DEF Move, Control, Serves, IsClosed, IsOpen, d

LEMMA MoveEnq ==
    ASSUME Ready, p.fn = "none",
           NEW q \in Frames, q.rc = p.rc, p.rc # "NOT_SUPPORTED",
           NEW l \in Labels, NEW b \in {"return", "reg.cleanup", "response.done"},
           NEW words \in DownWords, words # <<>>, ~AtOpen(l, req),
           l \notin {"idle", "response.done"}, l \in Loops => req.op \in ReadOps,
           IsClosed(p, req), Near(l), Near(b), Counted(l, q.count, req),
           l \in {"reg.setup", "reg.access"} => req.op # "putreg"
    PROVE  Move(Enq(q, l, b, words))
<1> DEFINE d == Enq(q, l, b, words)
<1>1. /\ d \in Frames /\ Calls(d)
      /\ d.fn = "enq" /\ d.at = l /\ d.brk = b /\ d.rc = q.rc /\ d.count = q.count
  <2>1. b \in Labels
    BY DEF Labels
  <2> QED BY <2>1, EnqTyped
<1> HIDE DEF d
<1> QED BY <1>1, NearOwned DEF Move, Control, Serves, IsClosed, IsOpen, Filled, d

LEMMA MoveEot ==
    ASSUME Ready, p.fn = "none", p.rc # "NOT_SUPPORTED", IsClosed(p, req)
    PROVE  Move(Eot(p, "response.done", "response.done"))
<1> DEFINE d == Eot(p, "response.done", "response.done")
<1>1. /\ d \in Frames /\ Calls(d)
      /\ d.fn = "eot" /\ d.at = "response.done" /\ d.brk = "response.done" /\ d.rc = p.rc
  <2>1. "response.done" \in Labels
    BY DEF Labels
  <2> QED BY <2>1, EotTyped DEF Ready
<1>2. ~AtOpen("response.done", req) /\ "response.done" \notin Loops
  BY DEF Loops, AtOpen, Starts, ScomOps, PutLabels
<1> HIDE DEF d
<1>3. Near("response.done") /\ Counted("response.done", d.count, req)
  BY DEF Near, Common, Counted, CoreLabels, Looped
<1> QED BY <1>1, <1>2, <1>3, NearOwned DEF Move, Control, Serves, IsClosed, IsOpen, Filled, d

\* A jump: from a place where the message is open to another one, or between two
\* where it is not.
LEMMA MoveTo ==
    ASSUME Ready, p.fn = "none",
           NEW q \in Frames, q.fn = "none", q.at \notin {"idle", "response.done"} \cup Loops,
           IsOpen(q, req) <=> IsOpen(p, req),
           IsClosed(p, req) \/ ~IsClosed(q, req),
           q.rc = "NOT_SUPPORTED" => q.at = "return",
           Near(q.at), Counted(q.at, q.count, req),
           q.at \in {"reg.setup", "reg.access"} => Filled(q, req)
    PROVE  Move(q)
<1>1. Filled(q, req)
  BY DEF Filled
<1> QED BY <1>1, NearOwned DEF Move, Control, Serves, Calls

LEMMA DoesMoves ==
    ASSUME Ready, NEW q, NEW h \in Hardwares, Does(q, h), Move(q), p.fn = "none", Serves(p)
    PROVE  Moves
  BY DEF Moves, Does

LEMMA GoesMoves ==
    ASSUME Ready, NEW q, Goes(q), Move(q), p.fn = "none", Serves(p)
    PROVE  Moves
  BY DoesMoves DEF Goes, Ready

LEMMA HardwareTyped ==
    ASSUME Ready
    PROVE  [hw EXCEPT !.done = @ + 1] \in Hardwares /\ [hw EXCEPT !.failed = TRUE] \in Hardwares
<1>1. [hw EXCEPT !.done = @ + 1] \in Hardwares
  BY DEF Ready, Hardwares
<1>2. [hw EXCEPT !.failed = TRUE] \in Hardwares
  BY DEF Ready, Hardwares
<1> QED BY <1>1, <1>2

LEMMA HwpMoves ==
    ASSUME Ready, NEW q, NEW h \in Hardwares, NEW l, Hwp(q, h, l), Move(q), Move(Failed(l)),
           p.fn = "none", Serves(p)
    PROVE  Moves
<1>1. [h EXCEPT !.done = @ + 1] \in Hardwares
  BY DEF Hardwares
<1>2. [hw EXCEPT !.failed = TRUE] \in Hardwares
  BY DEF Hardwares, Ready
<1> QED BY <1>1, <1>2, DoesMoves DEF Hwp

LEMMA FailedTyped ==
    ASSUME Ready, NEW l \in Labels, NEW status \in Status
    PROVE  /\ To(l) \in Frames /\ Refuses(l, status) \in Frames /\ Failed(l) \in Frames
           /\ To(l).at = l /\ To(l).fn = p.fn /\ To(l).rc = p.rc /\ To(l).buf = p.buf
           /\ Refuses(l, status).at = l /\ Refuses(l, status).fn = p.fn
           /\ Refuses(l, status).rc = p.rc /\ Failed(l).at = l /\ Failed(l).fn = p.fn
           /\ Failed(l).rc = p.rc
  BY DEF Ready, To, Refuses, Failed, Frames, Status

----------------------------------------------------------------------------
(* Memory access *)

\* Where a chip-op that moves memory is between two granules.
Moving ==
    p.fn = "none" /\ p.rc # "NOT_SUPPORTED" /\ p.at \in PutLabels \cup Loops

LEMMA MovingPhase ==
    ASSUME Ready, Moving
    PROVE  /\ Serves(p) /\ p.at \notin AfterFault
           /\ isRead => IsClosed(p, req) /\ ~IsOpen(p, req)
           /\ ~isRead => IsOpen(p, req)
  BY DEF Moving, Serves, AfterFault, IsClosed, IsOpen, AtOpen, PutLabels, Starts, ScomOps, isRead,
         ReadOps, Loops, Ready, Control, Common

LEMMA LoopMoves ==
    ASSUME Ready, Moving, NEW q \in Frames, q.fn = "none", q.rc = p.rc,
           NEW more \in BOOLEAN, NEW words,
           NEW access \in {"mem.access", "sram.access"}, NEW tail \in {"mem.tail", "sram.tail"},
           more => words \in Nat /\ Counted(access, q.count, req), Near(access), Near(tail)
    PROVE  Move(Loop(q, more, access, words, tail))
<1> DEFINE r == Loop(q, more, access, words, tail)
<1>1. access \in Labels /\ tail \in Labels
  BY DEF Labels
<1>2. /\ access \in PutLabels /\ access \notin Starts \cup {"idle", "return", "response.done"} \cup Loops
      /\ access \notin {"reg.check", "putring.payload"}
      /\ tail \in PutLabels /\ tail \notin Starts \cup {"idle", "return", "response.done"} \cup Loops
      /\ tail \notin {"reg.check", "putring.payload"}
  BY DEF PutLabels, Starts, ScomOps, Loops
<1>3. CASE more /\ ~isRead
  <2>1. r = Deq(q, access, "return", words, FALSE, FALSE)
    BY <1>3 DEF Loop
  <2>2. AtOpen(access, req)
    BY <1>2, <1>3 DEF AtOpen, isRead, ReadOps
  <2>3. p.rc # "NOT_SUPPORTED" /\ p.fn = "none"
    BY DEF Moving
  <2>4. Move(Deq(q, access, "return", words, FALSE, FALSE))
    BY <1>1, <1>2, <1>3, <2>2, <2>3, MovingPhase, MoveDeq
  <2> QED BY <2>1, <2>4
<1>4. CASE ~(more /\ ~isRead)
  <2> DEFINE l == IF more THEN access ELSE tail
  <2>1. r = [q EXCEPT !.at = l, !.buf = <<>>]
    BY <1>4 DEF Loop
  <2>2. l \in Labels /\ l \in PutLabels /\ l \notin Starts \cup {"idle", "return", "response.done"} \cup Loops
        /\ l \notin {"reg.check", "putring.payload", "reg.setup", "reg.access"} /\ Near(l)
    BY <1>1, <1>2
  <2>a. Counted(l, q.count, req)
    BY DEF Counted, CoreLabels, Looped
  <2> HIDE DEF l
  <2>3. r \in Frames /\ r.at = l /\ r.fn = "none" /\ r.rc = p.rc /\ r.count = q.count
    BY <2>1, <2>2, EmptyTyped DEF Frames
  <2> HIDE DEF r
  <2>4. IsOpen(r, req) <=> ~isRead
    BY <2>2, <2>3 DEF IsOpen, AtOpen, isRead, ReadOps
  <2>5. r.rc # "NOT_SUPPORTED" /\ p.fn = "none"
    BY <2>3 DEF Moving
  <2>6. IsClosed(p, req) \/ ~IsClosed(r, req)
    BY <2>3, <2>4, MovingPhase DEF IsClosed
  <2>7. Move(r)
    BY <2>2, <2>a, <2>3, <2>4, <2>5, <2>6, MovingPhase, MoveTo
  <2> QED BY <2>7 DEF r
<1> QED BY <1>3, <1>4

LEMMA RequestTyped ==
    ASSUME Ready
    PROVE  /\ req.op \in Ops /\ req.len \in Nat /\ req.addr \in Nat /\ req.extra \in Int
           /\ req.op \in {"getsram", "putsram"} => req.len % 4 = 0
<1>1. CASE req \in Requests
  BY <1>1, RequestAssumption
<1>2. CASE req = NoRequest
  BY <1>2 DEF NoRequest, Ops
<1> QED BY <1>1, <1>2 DEF Ready, Servable

LEMMA Join ==
    ASSUME NEW a \in DownWords, NEW b \in DownWords
    PROVE  /\ a \o b \in DownWords /\ Len(a \o b) = Len(a) + Len(b)
           /\ \A i \in 1..Len(a) : (a \o b)[i] = a[i]
           /\ \A i \in 1..Len(b) : (a \o b)[Len(a) + i] = b[i]
<1>1. /\ a \o b \in DownWords /\ Len(a \o b) = Len(a) + Len(b)
      /\ \A i \in 1..(Len(a) + Len(b)) : (a \o b)[i] = IF i <= Len(a) THEN a[i] ELSE b[i - Len(a)]
  BY ConcatProperties DEF DownWords
<1>2. Len(a) \in Nat /\ Len(b) \in Nat
  BY DEF DownWords
<1> QED BY <1>1, <1>2

LEMMA JoinEnds ==
    ASSUME NEW a \in DownWords, NEW b \in DownWords, Len(a) >= 2
    PROVE  /\ a \o b \in DownWords /\ Len(a \o b) = Len(a) + Len(b) /\ Len(a \o b) >= 2
           /\ (a \o b)[1] = a[1] /\ (a \o b)[2] = a[2]
           /\ Len(b) >= 1 => (a \o b)[Len(a \o b)] = b[Len(b)]
<1>1. Len(a) \in Nat /\ Len(b) \in Nat
  BY DEF DownWords
<1>2. 1 \in 1..Len(a) /\ 2 \in 1..Len(a)
  BY <1>1
<1>3. Len(b) >= 1 => Len(b) \in 1..Len(b)
  BY <1>1
<1> HIDE DEF DownWords
<1>4. /\ a \o b \in DownWords /\ Len(a \o b) = Len(a) + Len(b)
      /\ (a \o b)[1] = a[1] /\ (a \o b)[2] = a[2]
      /\ Len(b) >= 1 => (a \o b)[Len(a) + Len(b)] = b[Len(b)]
  BY ONLY <1>2, <1>3, Join, a \in DownWords, b \in DownWords
<1> QED BY <1>1, <1>4

LEMMA HwpFfdcTyped ==
    HwpFfdc \in DownWords /\ Len(HwpFfdc) = 1 + HwpFfdcWords
<1>1. Words("hwpffdc", HwpFfdcWords) \in DownWords /\ Len(Words("hwpffdc", HwpFfdcWords)) = HwpFfdcWords
  BY FifoAssumption DEF Words, DownWords, DownWord
<1>2. <<<<"ffdc", 1 + HwpFfdcWords>>>> \in DownWords /\ Len(<<<<"ffdc", 1 + HwpFfdcWords>>>>) = 1
  BY FifoAssumption DEF DownWords, DownWord
<1> QED BY <1>1, <1>2, Join DEF HwpFfdc

LEMMA SbeFfdcTyped == SbeFfdc \in DownWords /\ Len(SbeFfdc) = 2
  BY DEF SbeFfdc, DownWords, DownWord

\* The header that is sent: it begins with the magic word and the status, and its
\* last word is its own length.
LEMMA RespHdrShape ==
    ASSUME NEW status \in Status, NEW fapi \in BOOLEAN
    PROVE  LET h == RespHdr(status, fapi)
           IN  /\ h \in DownWords /\ Len(h) >= 3
               /\ h[1] = <<"magic">> /\ h[2] = <<"status", status>>
               /\ h[Len(h)] = <<"dist", Len(h)>>
<1> DEFINE start == <<<<"magic">>, <<"status", status>>>>
           hwp == IF fapi THEN HwpFfdc ELSE <<>>
           internal == IF status # "OK" /\ SendInternalFFDC THEN SbeFfdc ELSE <<>>
           distance == 3 + (IF fapi THEN 1 + HwpFfdcWords ELSE 0) + Len(internal)
           end == <<<<"dist", distance>>>>
<1>1. hwp \in DownWords /\ Len(hwp) = IF fapi THEN 1 + HwpFfdcWords ELSE 0
  BY HwpFfdcTyped, EmptyTyped
<1>2. internal \in DownWords /\ Len(internal) \in Nat
  BY SbeFfdcTyped, EmptyTyped
<1> HIDE DEF internal
<1>3. distance = 3 + Len(hwp) + Len(internal) /\ Len(hwp) \in Nat
  BY <1>1, FifoAssumption
<1> HIDE DEF hwp, distance
<1>4. /\ start \in DownWords /\ Len(start) = 2
      /\ start[1] = <<"magic">> /\ start[2] = <<"status", status>> /\ Len(start) >= 2
  BY DEF DownWords, DownWord
<1>5. end \in DownWords /\ Len(end) = 1 /\ end[1] = <<"dist", distance>>
  BY <1>2, <1>3 DEF DownWords, DownWord
<1> HIDE DEF start, end
<1> DEFINE a == start \o hwp
           b == a \o internal
           h == b \o end
<1>6. /\ a \in DownWords /\ Len(a) = Len(start) + Len(hwp) /\ Len(a) >= 2
      /\ a[1] = start[1] /\ a[2] = start[2]
  BY <1>1, <1>4, JoinEnds, Zenon
<1> HIDE DEF a
<1>7. /\ b \in DownWords /\ Len(b) = Len(a) + Len(internal) /\ Len(b) >= 2
      /\ b[1] = a[1] /\ b[2] = a[2]
  BY <1>2, <1>6, JoinEnds, Zenon
<1> HIDE DEF b
<1>8. /\ h \in DownWords /\ Len(h) = Len(b) + Len(end) /\ h[1] = b[1] /\ h[2] = b[2]
      /\ Len(end) >= 1 => h[Len(h)] = end[Len(end)]
  BY <1>5, <1>7, JoinEnds, Zenon
<1>9. h = RespHdr(status, fapi)
  BY DEF RespHdr, h, b, a, start, end, hwp, internal, distance
<1> HIDE DEF h
<1> QED BY <1>2, <1>3, <1>4, <1>5, <1>6, <1>7, <1>8, <1>9

LEMMA HeaderTyped ==
    ASSUME NEW status \in Status, NEW fapi \in BOOLEAN, NEW first \in DownWords
    PROVE  first \o RespHdr(status, fapi) \in DownWords /\ first \o RespHdr(status, fapi) # <<>>
<1>1. Len(first) \in Nat
  BY DEF DownWords
<1>2. first \o RespHdr(status, fapi) \in DownWords /\ Len(first \o RespHdr(status, fapi)) >= 3
  BY <1>1, RespHdrShape, Join
<1> QED BY <1>2

LEMMA MemWrapMoves == ASSUME Ready, sbeMemAccess_Wrap PROVE Moves
<1>1. p.fn = "none" /\ p.at = "mem" /\ Goes(Deq(p, "mem.check", "return", ReqWords, isRead, FALSE))
  BY DEF sbeMemAccess_Wrap, At
<1>2. Serves(p) /\ IsOpen(p, req) /\ p.at \notin AfterFault /\ p.rc # "NOT_SUPPORTED"
  BY <1>1 DEF Serves, IsOpen, AtOpen, Starts, AfterFault, Common, Ready, Control
<1>3. (isRead <=> ~AtOpen("mem.check", req)) /\ Near("mem.check")
  BY <1>1 DEF Near, Common, RegLabels, SramLabels, AfterFault, isRead, AtOpen, Starts, ScomOps, PutLabels, ReadOps
<1>4. Move(Deq(p, "mem.check", "return", ReqWords, isRead, FALSE))
  <2>1. "mem.check" \in Labels /\ isRead \in BOOLEAN
    BY DEF Labels, isRead
  <2>2. Counted("mem.check", p.count, req)
    BY DEF Counted, CoreLabels, Looped
  <2> QED BY <1>1, <1>2, <1>3, <2>1, <2>2, MemAssumption, MoveDeq DEF Ready, Loops
<1> QED BY <1>1, <1>2, <1>4, GoesMoves

LEMMA SramWrapMoves == ASSUME Ready, sbeOccSramAccess_Wrap PROVE Moves
<1>1. p.fn = "none" /\ p.at = "sram" /\ Goes(Deq(p, "sram.check", "return", ReqWords, isRead, FALSE))
  BY DEF sbeOccSramAccess_Wrap, At
<1>2. Serves(p) /\ IsOpen(p, req) /\ p.at \notin AfterFault /\ p.rc # "NOT_SUPPORTED"
  BY <1>1 DEF Serves, IsOpen, AtOpen, Starts, AfterFault, Common, Ready, Control
<1>3. (isRead <=> ~AtOpen("sram.check", req)) /\ Near("sram.check")
  BY <1>1 DEF Near, Common, RegLabels, SramLabels, AfterFault, isRead, AtOpen, Starts, ScomOps, PutLabels, ReadOps
<1>4. Move(Deq(p, "sram.check", "return", ReqWords, isRead, FALSE))
  <2>1. "sram.check" \in Labels /\ isRead \in BOOLEAN
    BY DEF Labels, isRead
  <2>2. Counted("sram.check", p.count, req)
    BY <1>1 DEF Counted, CoreLabels, Looped, Ready, Control
  <2> QED BY <1>1, <1>2, <1>3, <2>1, <2>2, MemAssumption, MoveDeq DEF Ready, Loops
<1> QED BY <1>1, <1>2, <1>4, GoesMoves

\* A jump to the end of the chip-op, from between two granules.
LEMMA TailMoves ==
    ASSUME Ready, Moving, NEW q \in Frames, q.fn = "none", q.rc = p.rc,
           q.at \in {"mem.access", "mem.tail", "sram.tail"}, Near(q.at)
    PROVE  Move(q)
<1>1. /\ q.at \in PutLabels /\ q.at \notin Starts \cup {"idle", "return", "response.done"} \cup Loops
      /\ q.at \notin {"reg.check", "putring.payload"}
  BY DEF PutLabels, Starts, ScomOps, Loops
<1>2. IsOpen(q, req) <=> ~isRead
  BY <1>1 DEF IsOpen, AtOpen, isRead, ReadOps
<1>3. q.rc # "NOT_SUPPORTED" /\ p.fn = "none" /\ Counted(q.at, q.count, req)
  BY DEF Moving, Counted, CoreLabels, Looped
<1>4. IsClosed(p, req) \/ ~IsClosed(q, req)
  BY <1>2, MovingPhase DEF IsClosed
<1> QED BY <1>1, <1>2, <1>3, <1>4, MovingPhase, MoveTo

LEMMA MovingFailed ==
    ASSUME Ready, Moving, NEW l \in {"mem.access", "mem.tail", "sram.tail"}, Near(l),
           NEW status \in Status
    PROVE  Move(To(l)) /\ Move(Failed(l)) /\ Move(Refuses(l, status))
<1>1. l \in Labels
  BY DEF Labels
<1>2. p.fn = "none"
  BY DEF Moving
<1>3. /\ To(l) \in Frames /\ To(l).fn = "none" /\ To(l).rc = p.rc /\ To(l).at = l
      /\ Failed(l) \in Frames /\ Failed(l).fn = "none" /\ Failed(l).rc = p.rc /\ Failed(l).at = l
      /\ Refuses(l, status) \in Frames /\ Refuses(l, status).fn = "none"
      /\ Refuses(l, status).rc = p.rc /\ Refuses(l, status).at = l
  BY <1>1, <1>2, FailedTyped
<1> QED BY <1>3, TailMoves

\* The memory access's own places.
LEMMA MemNear ==
    ASSUME Ready, Moving, p.at \in {"mem.check", "mem.access", "mem.loop", "mem.tail"}
    PROVE  Near("mem.access") /\ Near("mem.tail") /\ Near("mem.loop") /\ Near("mem.reply")
  BY DEF Near, Common, AfterFault, RegLabels, SramLabels

LEMMA SramNear ==
    ASSUME Ready, Moving, p.at \in {"sram.check", "sram.access", "sram.loop", "sram.tail"}
    PROVE  Near("sram.access") /\ Near("sram.tail") /\ Near("sram.loop") /\ Near("sram.reply")
  BY DEF Near, Common, AfterFault, RegLabels, SramLabels

LEMMA MemLoopMoves ==
    ASSUME Ready, Moving, p.at \in {"mem.check", "mem.access", "mem.loop"}, NEW q \in Frames, q.fn = "none", q.rc = p.rc
    PROVE  Move(MemLoop(q))
<1>1. sizeMultiplier \in Nat
  BY MemAssumption, RequestTyped DEF sizeMultiplier
<1>2. (q.count < getDataLenCacheAlign) \in BOOLEAN /\ Counted("mem.access", q.count, req)
  BY DEF Counted, CoreLabels, Looped
<1> QED BY <1>1, <1>2, LoopMoves, MemNear DEF MemLoop

LEMMA MemCheckMoves == ASSUME Ready, MemCheck PROVE Moves
<1> DEFINE refusal == IF isPba THEN PbaRefusal ELSE AduRefusal
<1>1. p.fn = "none" /\ p.at = "mem.check" /\ refusal \in Status
      /\ Goes(IF refusal = "OK" THEN MemLoop(p) ELSE Refuses("mem.tail", refusal))
  BY DEF MemCheck, At, PbaRefusal, AduRefusal, Status
<1>2. Moving
  BY <1>1 DEF Moving, PutLabels, Ready, Control
<1> HIDE DEF refusal
<1>3. Move(MemLoop(p))
  BY <1>1, <1>2, MemLoopMoves DEF Ready
<1>4. Move(Refuses("mem.tail", refusal))
  BY <1>1, <1>2, MovingFailed, MemNear
<1> QED BY <1>1, <1>2, <1>3, <1>4, MovingPhase, GoesMoves

LEMMA MemSetupMoves == ASSUME Ready, MemSetup PROVE Moves
<1>1. p.fn = "none" /\ p.at = "mem.access" /\ setup("mem.access", "mem.tail")
  BY DEF MemSetup, At
<1>2. Moving
  BY <1>1 DEF Moving, PutLabels, Ready, Control
<1>3. "OK" \in Status
  BY DEF Status
<1>4. Move(To("mem.access")) /\ Move(Failed("mem.tail"))
  BY <1>1, <1>2, <1>3, MovingFailed, MemNear
<1>5. ASSUME NEW n \in 1..MaxGranules
      PROVE  [hw EXCEPT !.misused = @ \/ hw.open, !.open = TRUE, !.granted = n,
                        !.used = 0, !.max = n, !.curr = 0, !.cleaned = FALSE] \in Hardwares
  <2>1. n \in Nat /\ n \in Int
    BY MemAssumption
  <2>2. (hw.misused \/ hw.open) \in BOOLEAN
    OBVIOUS
  <2> QED BY <2>1, <2>2 DEF Ready, Hardwares
<1>6. [hw EXCEPT !.failed = TRUE, !.open = FALSE, !.curr = 0, !.cleaned = FALSE] \in Hardwares
  BY DEF Ready, Hardwares
<1> QED BY <1>1, <1>2, <1>4, <1>5, <1>6, MovingPhase, DoesMoves DEF setup

LEMMA WroteTyped ==
    ASSUME Ready PROVE hw.wrote \o p.buf \in Buffers
  BY ConcatProperties DEF Ready, Frames, Hardwares, Buffers

LEMMA AccessTyped ==
    ASSUME Ready, NEW last \in BOOLEAN
    PROVE  LET clean == CleansUp(last)
               first == hw.curr = 0
               bad == ~hw.open \/ first # (hw.used = 0) \/ (hw.used + 1 = hw.granted /\ ~clean)
           IN  /\ [hw EXCEPT !.done = @ + 1, !.wrote = @ \o p.buf,
                             !.misused = @ \/ bad, !.open = ~clean, !.used = @ + 1,
                             !.cleaned = clean, !.max = @ - 1, !.curr = @ + 1] \in Hardwares
               /\ [hw EXCEPT !.failed = TRUE, !.misused = @ \/ bad,
                             !.open = FALSE, !.cleaned = clean] \in Hardwares
<1> DEFINE clean == CleansUp(last)
           bad == ~hw.open \/ (hw.curr = 0) # (hw.used = 0) \/ (hw.used + 1 = hw.granted /\ ~clean)
<1>a. clean \in BOOLEAN
  BY DEF CleansUp
<1> HIDE DEF clean, bad
<1>1. clean \in BOOLEAN /\ (hw.misused \/ bad) \in BOOLEAN /\ (~clean) \in BOOLEAN
  BY <1>a
<1>2. [hw EXCEPT !.done = @ + 1, !.wrote = @ \o p.buf,
                 !.misused = @ \/ bad, !.open = ~clean, !.used = @ + 1,
                 !.cleaned = clean, !.max = @ - 1, !.curr = @ + 1] \in Hardwares
  <2>1. hw.wrote \o p.buf \in Buffers
    BY WroteTyped
  <2> DEFINE wrote == hw.wrote \o p.buf
             m == hw.misused \/ bad
             o == ~clean
             d == hw.done + 1
             u == hw.used + 1
             x == hw.max - 1
             r == hw.curr + 1
  <2>2. /\ wrote \in Buffers /\ m \in BOOLEAN /\ o \in BOOLEAN
        /\ d \in Nat /\ u \in Nat /\ x \in Int /\ r \in Nat
    BY <1>1, <2>1 DEF Ready, Hardwares
  <2> HIDE DEF wrote, m, o, d, u, x, r
  <2>3. [hw EXCEPT !.done = d, !.wrote = wrote, !.misused = m, !.open = o, !.used = u,
                   !.cleaned = clean, !.max = x, !.curr = r] \in Hardwares
    BY <1>1, <2>2 DEF Ready, Hardwares
  <2> QED BY <2>3 DEF Ready, Hardwares, wrote, m, o, d, u, x, r
<1>3. [hw EXCEPT !.failed = TRUE, !.misused = @ \/ bad,
                 !.open = FALSE, !.cleaned = clean] \in Hardwares
  BY <1>1 DEF Ready, Hardwares
<1> QED BY <1>2, <1>3 DEF clean, bad

LEMMA AccessMoves ==
    ASSUME Ready, NEW q, NEW l, NEW last \in BOOLEAN, accessGranule(last, q, l), Move(q), Move(Failed(l)),
           p.fn = "none", Serves(p)
    PROVE  Moves
<1>1. \E h \in Hardwares : Does(q, h) \/ Does(Failed(l), h)
  BY AccessTyped DEF accessGranule
<1> QED BY <1>1, DoesMoves

LEMMA AduWordsTyped == ASSUME Ready, NEW n \in Nat PROVE AduWords(n) \in Nat
<1>1. sizeMultiplier \in Nat
  BY MemAssumption DEF sizeMultiplier
<1>2. n % 4 \in 0..3
  OBVIOUS
<1>3. ASSUME NEW k \in 0..3 PROVE align4ByteWordLength(calInterAduLenForUpFifo(k)) \in Nat
  <2>1. calInterAduLenForUpFifo(k) \in Nat
    BY DEF calInterAduLenForUpFifo
  <2> QED BY <2>1 DEF align4ByteWordLength
<1> QED BY <1>1, <1>2, <1>3 DEF AduWords

\* What was read is sent.
LEMMA ReadMoves ==
    ASSUME Ready, Moving, isRead, NEW q \in Frames, q.rc = p.rc,
           NEW l \in {"mem.loop", "sram.loop"}, Near(l), Counted(l, q.count, req),
           NEW w \in DownWords, w # <<>>
    PROVE  Move(Enq(q, l, "return", w))
<1>1. /\ l \in Labels /\ l \notin {"idle", "response.done"} /\ ~AtOpen(l, req)
      /\ req.op \in ReadOps
  BY DEF Labels, AtOpen, Starts, ScomOps, PutLabels, isRead, ReadOps
<1>2. p.rc # "NOT_SUPPORTED" /\ p.fn = "none" /\ Near("return")
  BY DEF Moving, Near, Common
<1> QED BY <1>1, <1>2, MovingPhase, MoveEnq

LEMMA SentMoves ==
    ASSUME Ready, Moving, isRead, NEW q \in Frames, q.rc = p.rc,
           NEW l \in {"mem.loop", "sram.loop"}, Near(l), Counted(l, q.count, req),
           NEW n \in Nat, NEW words \in Nat, words > 0
    PROVE  Move(Enq(q, l, "return", Data(n, words)))
<1>1. Data(n, words) \in DownWords /\ Data(n, words) # <<>>
  BY DataTyped
<1> QED BY <1>1, ReadMoves

LEMMA CountTyped ==
    ASSUME Ready, NEW n \in Nat
    PROVE  LET q == [p EXCEPT !.count = @ + n]
           IN  q \in Frames /\ q.fn = p.fn /\ q.rc = p.rc /\ q.at = p.at
  BY DEF Ready, Frames

LEMMA MemAccessMoves == ASSUME Ready, MemAccess PROVE Moves
<1> DEFINE last == p.count = getDataLenCacheAlign - 1
           words == IF isPba THEN sizeMultiplier ELSE AduWords(p.count)
           q == [p EXCEPT !.count = @ + 1]
           r == IF isRead /\ words > 0 THEN Enq(q, "mem.loop", "return", Data(p.count, words))
                ELSE MemLoop(q)
<1>1. p.fn = "none" /\ p.at = "mem.access" /\ accessGranule(last, r, "mem.tail")
  BY DEF MemAccess, At
<1>2. Moving
  BY <1>1 DEF Moving, PutLabels, Ready, Control
<1>3. p.count \in Nat /\ words \in Nat
  <2>1. p.count \in Nat
    BY DEF Ready, Frames
  <2> QED BY <2>1, AduWordsTyped, MemAssumption DEF sizeMultiplier
<1>4. q \in Frames /\ q.fn = "none" /\ q.rc = p.rc
  BY <1>1, CountTyped
<1>5. last \in BOOLEAN
  OBVIOUS
<1> HIDE DEF q, words, last
<1>6. Move(r)
  <2>1. Counted("mem.loop", q.count, req)
    BY DEF Counted, CoreLabels, Looped
  <2> QED BY <1>1, <1>2, <1>3, <1>4, <2>1, SentMoves, MemLoopMoves, MemNear
<1>7. Move(Failed("mem.tail"))
  BY <1>1, <1>2, MovingFailed, MemNear DEF Status
<1> QED BY <1>1, <1>2, <1>5, <1>6, <1>7, MovingPhase, AccessMoves

LEMMA MemSentMoves == ASSUME Ready, MemSent PROVE Moves
<1>1. p.fn = "none" /\ p.at = "mem.loop" /\ Goes(MemLoop(p))
  BY DEF MemSent, At
<1>2. Moving
  BY <1>1 DEF Moving, Ready, Control, Loops
<1> QED BY <1>1, <1>2, MemLoopMoves, MovingPhase, GoesMoves DEF Ready

\* A put takes the rest of its message before it answers.
LEMMA FlushMoves ==
    ASSUME Ready, Moving, p.at \in {"mem.tail", "sram.tail"},
           NEW l \in {"mem.reply", "sram.reply"}, Near(l)
    PROVE  Move(IF isRead THEN To(l) ELSE flushUpstreamFifo(l))
<1>1. /\ l \in Labels /\ l \notin {"idle", "return", "response.done"} \cup Loops
      /\ ~AtOpen(l, req) /\ \A n : Counted(l, n, req)
  BY DEF Labels, Loops, AtOpen, Starts, ScomOps, PutLabels, Counted, CoreLabels, Looped
<1>2. p.fn = "none" /\ p.rc # "NOT_SUPPORTED"
  BY DEF Moving
<1>3. CASE isRead
  <2>1. To(l) \in Frames /\ To(l).at = l /\ To(l).fn = "none" /\ To(l).rc = p.rc
    BY <1>1, <1>2, FailedTyped DEF Status
  <2>2. ~IsOpen(To(l), req)
    BY <1>1, <2>1 DEF IsOpen
  <2> QED BY <1>1, <1>2, <1>3, <2>1, <2>2, MovingPhase, MoveTo
<1>4. CASE ~isRead
  <2>1. (p.status # "OK") \in BOOLEAN
    OBVIOUS
  <2>2. Move(Deq(p, l, "return", 0, TRUE, p.status # "OK"))
    BY <1>1, <1>2, <1>4, <2>1, MovingPhase, MoveDeq DEF Ready
  <2> QED BY <1>4, <2>2 DEF flushUpstreamFifo
<1> QED BY <1>3, <1>4

LEMMA MemTailMoves == ASSUME Ready, MemTail PROVE Moves
<1>1. p.fn = "none" /\ p.at = "mem.tail"
      /\ Goes(IF isRead THEN To("mem.reply") ELSE flushUpstreamFifo("mem.reply"))
  BY DEF MemTail, At
<1>2. Moving
  BY <1>1 DEF Moving, PutLabels, Ready, Control
<1> QED BY <1>1, <1>2, FlushMoves, MemNear, MovingPhase, GoesMoves

LEMMA SramTailMoves == ASSUME Ready, SramTail PROVE Moves
<1>1. p.fn = "none" /\ p.at = "sram.tail"
      /\ Goes(IF isRead THEN To("sram.reply") ELSE flushUpstreamFifo("sram.reply"))
  BY DEF SramTail, At
<1>2. Moving
  BY <1>1 DEF Moving, PutLabels, Ready, Control
<1> QED BY <1>1, <1>2, FlushMoves, SramNear, MovingPhase, GoesMoves

(***************************************************************************)
(* The places where all of a message has been taken, and the ways on.      *)
(***************************************************************************)
Closeds ==
    Labels \ (Starts \cup PutLabels \cup Loops
              \cup {"idle", "return", "response.done", "reg.check", "putring.payload"})

LEMMA ClosedPhase ==
    ASSUME Ready, p.fn = "none", p.at \in Closeds
    PROVE  /\ Serves(p) /\ p.rc # "NOT_SUPPORTED" /\ IsClosed(p, req) /\ ~IsOpen(p, req)
  BY DEF Ready, Closeds, Serves, Control, IsClosed, IsOpen, AtOpen

\* A jump to another such place, or to the end.
LEMMA ClosedTo ==
    ASSUME Ready, p.fn = "none", p.at \in Closeds, NEW q \in Frames, q.fn = "none", q.rc = p.rc,
           q.at \in Closeds \cup {"return"}, Near(q.at),
           q.at \in Looped => Counted(q.at, q.count, req) /\ Filled(q, req)
    PROVE  Move(q)
<1>1. /\ ~IsOpen(q, req) /\ q.at \notin {"idle", "response.done"} \cup Loops
      /\ q.rc # "NOT_SUPPORTED" /\ Counted(q.at, q.count, req)
      /\ q.at \in {"reg.setup", "reg.access"} => Filled(q, req)
  BY ClosedPhase DEF Closeds, IsOpen, AtOpen, Starts, ScomOps, PutLabels, Loops, Counted, CoreLabels, Looped
<1> QED BY <1>1, ClosedPhase, MoveTo

LEMMA ClosedJumps ==
    ASSUME Ready, p.fn = "none", p.at \in Closeds, NEW l \in Closeds \cup {"return"},
           l \notin Looped, NEW status \in Status, Near(l)
    PROVE  Move(To(l)) /\ Move(Failed(l)) /\ Move(Refuses(l, status))
<1>1. l \in Labels
  BY DEF Closeds, Labels
<1>2. /\ To(l) \in Frames /\ To(l).fn = "none" /\ To(l).rc = p.rc /\ To(l).at = l
      /\ Failed(l) \in Frames /\ Failed(l).fn = "none" /\ Failed(l).rc = p.rc /\ Failed(l).at = l
      /\ Refuses(l, status) \in Frames /\ Refuses(l, status).fn = "none"
      /\ Refuses(l, status).rc = p.rc /\ Refuses(l, status).at = l
  BY <1>1, FailedTyped
<1> QED BY <1>2, ClosedTo

LEMMA ClosedSends ==
    ASSUME Ready, p.fn = "none", p.at \in Closeds, NEW q \in Frames, q.rc = p.rc,
           NEW l \in Closeds \cup {"return"}, l \notin Looped,
           NEW b \in {"return", "reg.cleanup", "response.done"},
           NEW words \in DownWords, words # <<>>, Near(l), Near(b)
    PROVE  Move(Enq(q, l, b, words))
<1>1. /\ l \in Labels /\ l \notin {"idle", "response.done"} \cup Loops /\ ~AtOpen(l, req)
      /\ Counted(l, q.count, req) /\ l \notin {"reg.setup", "reg.access"}
  BY DEF Closeds, Labels, AtOpen, Starts, ScomOps, PutLabels, Loops, Counted, CoreLabels, Looped
<1> QED BY <1>1, ClosedPhase, MoveEnq

LEMMA ClosedHeader ==
    ASSUME Ready, p.fn = "none", p.at \in Closeds, NEW first \in DownWords,
           NEW l \in {"return", "mem.bell"}, Near(l)
    PROVE  Move(sbeDsSendRespHdr(p, first, l, p.status, p.fapi))
<1>1. p.status \in Status /\ p.fapi \in BOOLEAN /\ p \in Frames
  BY DEF Ready, Frames
<1>2. l \in Closeds \cup {"return"} /\ Near("return") /\ l \notin Looped
  BY DEF CoreLabels, Looped, Closeds, Labels, Starts, ScomOps, PutLabels, Loops, Near, Common
<1> QED BY <1>1, <1>2, HeaderTyped, ClosedSends DEF sbeDsSendRespHdr

LEMMA LenTyped == ASSUME NEW n \in Int PROVE <<<<"len", n>>>> \in DownWords
  BY DEF DownWords, DownWord

\* What SMT has to know of the labels.
LEMMA ClosedLabels ==
    {"header", "response.header", "response.flushed", "response.eot", "scom.check", "scom.read",
     "scom.write", "reg.setup", "reg.access", "reg.cleanup", "getring.setup", "getring.read",
     "getring.rotate", "getring.verify", "getring.reply", "putring.apply", "trace.target",
     "trace.row", "trace.reply", "fastarray.target", "fastarray.run", "cntlinst.check",
     "cntlinst.wake", "cntlinst.woken", "cntlinst.thread", "cntlinst.threads", "cntlinst.sleep",
     "istep.run", "nvdimm.stop", "nvdimm.flush", "caps.send", "getffdc.send", "quiesce.suspend",
     "mem.reply", "mem.bell", "sram.reply"} \subseteq Closeds
  BY DEF Closeds, Labels, Starts, ScomOps, PutLabels, Loops

\* Places beside each other that neither the registers nor the SRAM own.
Plain == Labels \ (AfterFault \cup RegLabels \cup SramLabels)

LEMMA PlainNear ==
    ASSUME p.at \in Plain, NEW l \in Plain
    PROVE  Near(l)
  BY DEF Near, Plain

LEMMA CommonNear == \A l \in Common : Near(l)
  BY DEF Near

LEMMA PlainLabels ==
    /\ ScomOps \subseteq Plain
    /\ {"scom.check", "scom.read", "scom.write", "getring", "putring", "trace", "fastarray",
        "cntlinst", "istep", "nvdimm", "caps", "getffdc", "quiesce", "getring.setup",
        "getring.read", "getring.rotate", "getring.verify", "getring.reply", "putring.payload",
        "putring.apply", "trace.target", "trace.row", "trace.reply", "fastarray.target",
        "fastarray.run", "cntlinst.check", "cntlinst.wake", "cntlinst.woken", "cntlinst.thread",
        "cntlinst.threads", "cntlinst.sleep", "istep.run", "nvdimm.stop", "nvdimm.flush",
        "caps.send", "getffdc.send", "quiesce.suspend", "mem.reply", "mem.bell"} \subseteq Plain
  BY DEF Plain, Labels, Starts, ScomOps, AfterFault, Common, RegLabels, SramLabels

\* A chip-op takes the request structure, or the rest of its message.
LEMMA StartMoves ==
    ASSUME Ready, p.fn = "none", p.at \in Starts \cup {"reg.check", "putring.payload"},
           NEW q \in Frames, q.rc = p.rc,
           NEW l \in Closeds \cup {"reg.check", "putring.payload"},
           l \notin CoreLabels \cup {"reg.access"}, l \in RegLabels => q.count = 0,
           NEW b \in {"return", "header"}, NEW n \in Nat, NEW eot \in BOOLEAN, NEW flush \in BOOLEAN,
           l = "reg.setup" /\ req.op = "putreg" => n = 3 * req.len /\ ~flush,
           eot <=> l \in Closeds, flush => eot, Near(l), Goes(Deq(q, l, b, n, eot, flush))
    PROVE  Moves
<1>1. /\ l \in Labels /\ l \notin {"idle", "return", "response.done"} \cup Loops
      /\ eot <=> ~AtOpen(l, req)
      /\ Counted(l, q.count, req)
  BY DEF Closeds, Labels, Starts, ScomOps, PutLabels, Loops, AtOpen, Counted, RegLabels
<1>2. p.rc # "NOT_SUPPORTED" /\ IsOpen(p, req) /\ Serves(p)
  BY DEF Ready, Control, Starts, ScomOps, IsOpen, AtOpen, Serves
<1>3. b \in {"return", "header", "response.flushed"}
  OBVIOUS
<1>4. Move(Deq(q, l, b, n, eot, flush))
  BY <1>1, <1>2, <1>3, MoveDeq
<1> QED BY <1>2, <1>4, GoesMoves

\* The same of a chip-op that takes all of its message at once.
LEMMA PlainStart ==
    ASSUME Ready, p.fn = "none", p.at \in Starts, p.at \in Plain,
           NEW l \in Closeds, l \in Plain, l \notin Looped, NEW b \in {"return", "header"},
           NEW n \in Nat, Goes(Deq(p, l, b, n, TRUE, FALSE))
    PROVE  Moves
  BY StartMoves, PlainNear DEF Ready, Plain, RegLabels, Looped

LEMMA ClosedHwp ==
    ASSUME Ready, p.fn = "none", p.at \in Closeds, NEW h \in Hardwares,
           NEW l \in Closeds \cup {"return"}, l \notin Looped, Near(l),
           NEW m \in Closeds \cup {"return"}, m \notin Looped, Near(m), Hwp(To(l), h, m)
    PROVE  Moves
<1>1. Move(To(l)) /\ Move(Failed(m))
  BY ClosedJumps DEF Status
<1> QED BY <1>1, ClosedPhase, HwpMoves

----------------------------------------------------------------------------
(* SCOM access *)

LEMMA ScomDone ==
    ASSUME Ready, p.fn = "none", p.at \in Closeds, NEW q, Move(q), checkIndirectAndDoScom(q)
    PROVE  Moves
<1>1. Near("header") /\ "header" \in Closeds /\ "header" \notin Looped
  BY CommonNear, ClosedLabels DEF Common, CoreLabels, Looped
<1>2. \A status \in Status : Move(Refuses("header", status)) /\ Move(Failed("header"))
  BY <1>1, ClosedJumps
<1>3. {"USER_ERROR", "ACCESS_DENIED", "EXECUTION_FAILURE"} \subseteq Status
  BY DEF Status
<1>4. [hw EXCEPT !.done = @ + 1] \in Hardwares /\ [hw EXCEPT !.failed = TRUE] \in Hardwares
  BY HardwareTyped
<1>5. \E h \in Hardwares : \/ Does(q, h) \/ Does(Failed("header"), h)
                            \/ \E status \in Status : Does(Refuses("header", status), h)
  BY <1>3, <1>4 DEF checkIndirectAndDoScom
<1>6. Move(Failed("header")) /\ Serves(p)
  BY <1>2, <1>3, ClosedPhase
<1> QED BY <1>2, <1>5, <1>6, DoesMoves

LEMMA ScomMoves == ASSUME Ready, sbeScomAccess PROVE Moves
<1>1. CASE ScomRequest
  <2>1. p.fn = "none" /\ p.at \in Starts /\ p.at \in Plain
        /\ Goes(Deq(p, "scom.check", "return", ReqWords, TRUE, FALSE))
    BY <1>1, PlainLabels DEF ScomRequest, At, Starts
  <2>2. "scom.check" \in Closeds /\ "scom.check" \in Plain /\ "scom.check" \notin Looped
        /\ ReqWords \in Nat
    BY ClosedLabels, PlainLabels, MemAssumption DEF CoreLabels, Looped
  <2> QED BY <2>1, <2>2, PlainStart
<1>2. CASE ScomCheck
  <2>1. p.fn = "none" /\ p.at \in Closeds /\ p.at \in Plain
    BY <1>2, ClosedLabels, PlainLabels DEF ScomCheck, At
  <2>2. Move(Refuses("header", "INVALID_DATA"))
    BY <2>1, ClosedJumps, ClosedLabels, CommonNear DEF Common, CoreLabels, Looped, Status
  <2>3. Move(To("scom.write")) /\ Move(To("scom.read"))
    BY <2>1, ClosedJumps, ClosedLabels, PlainLabels, PlainNear DEF CoreLabels, Looped, Status
  <2> QED BY <1>2, <2>1, <2>2, <2>3, ClosedPhase, GoesMoves DEF ScomCheck
<1>3. CASE ScomRead
  <2>1. p.fn = "none" /\ p.at \in Closeds /\ p.at \in Plain
    BY <1>3, ClosedLabels, PlainLabels DEF ScomRead, At
  <2>2. Move(To("scom.write"))
    BY <2>1, ClosedJumps, ClosedLabels, PlainLabels, PlainNear DEF CoreLabels, Looped, Status
  <2>3. Move(Enq(p, "header", "return", Data(0, 2)))
    <3>1. Data(0, 2) \in DownWords /\ Data(0, 2) # <<>>
      BY DataTyped
    <3> QED BY <2>1, <3>1, ClosedSends, ClosedLabels, CommonNear DEF Common, CoreLabels, Looped, Ready
  <2> QED BY <1>3, <2>1, <2>2, <2>3, ScomDone DEF ScomRead
<1>4. CASE ScomWrite
  <2>1. p.fn = "none" /\ p.at \in Closeds
    BY <1>4, ClosedLabels DEF ScomWrite, At
  <2>2. Move(To("header"))
    BY <2>1, ClosedJumps, ClosedLabels, CommonNear DEF Common, CoreLabels, Looped, Status
  <2> QED BY <1>4, <2>1, <2>2, ScomDone DEF ScomWrite
<1> QED BY <1>1, <1>2, <1>3, <1>4 DEF sbeScomAccess

----------------------------------------------------------------------------
(* The ends of the memory accesses, and the SRAM *)

LEMMA MemReplyMoves == ASSUME Ready, MemReply PROVE Moves
<1>1. p.fn = "none" /\ p.at = "mem.reply"
      /\ Goes(sbeDsSendRespHdr(p, <<MemLen>>, "mem.bell", p.status, p.fapi))
  BY DEF MemReply, At
<1>2. p.at \in Closeds /\ Near("mem.bell")
  BY <1>1, ClosedLabels, PlainLabels, PlainNear
<1>3. <<MemLen>> \in DownWords
  <2>1. p.count \in Nat /\ req.len \in Nat
    BY RequestTyped DEF Ready, Frames
  <2>2. granuleSize \in Nat
    BY <2>1, MemAssumption DEF granuleSize
  <2>3. p.count * granuleSize \in Int
    BY <2>1, <2>2
  <2>4. sbeAduLenInUpStreamFifo(p.count) \in Int
    BY <2>1, <2>3 DEF sbeAduLenInUpStreamFifo
  <2> QED BY <2>3, <2>4, LenTyped DEF MemLen
<1>4. Move(sbeDsSendRespHdr(p, <<MemLen>>, "mem.bell", p.status, p.fapi))
  BY <1>1, <1>2, <1>3, ClosedHeader
<1> QED BY <1>1, <1>2, <1>4, ClosedPhase, GoesMoves

LEMMA MemBellMoves == ASSUME Ready, MemBell PROVE Moves
<1>1. p.fn = "none" /\ p.at = "mem.bell" /\ p.at \in Closeds /\ Near("return")
  BY ClosedLabels, CommonNear DEF MemBell, At, Common
<1>2. Move(To("return"))
  BY <1>1, ClosedJumps DEF Status, CoreLabels, Looped
<1>3. CASE Goes(To("return"))
  BY <1>1, <1>2, <1>3, ClosedPhase, GoesMoves
<1>4. CASE Does(To("return"), [hw EXCEPT !.bell = TRUE])
  <2>1. [hw EXCEPT !.bell = TRUE] \in Hardwares
    BY DEF Ready, Hardwares
  <2> QED BY <1>1, <1>2, <1>4, <2>1, ClosedPhase, DoesMoves
<1>5. CASE /\ faults < ScomFaults /\ faults' = faults + 1
           /\ p' = [p EXCEPT !.at = "return", !.rc = "GENERIC_FAILURE"]
           /\ UNCHANGED <<up, down, reset, req, hw, regions, opened>>
  <2>a. "return" \in Labels /\ "GENERIC_FAILURE" \in Rc /\ p \in Frames
    BY DEF Labels, Rc, Ready
  <2>1. p' \in Frames /\ p'.at = "return" /\ p'.fn = "none" /\ p'.rc = "GENERIC_FAILURE"
    BY <1>1, <1>5, <2>a DEF Frames
  <2>2. /\ ~IsOpen(p', req) /\ ~IsClosed(p', req) /\ "return" \notin Loops
        /\ Counted("return", p'.count, req)
    BY <2>1 DEF IsOpen, IsClosed, AtOpen, Starts, ScomOps, PutLabels, Loops, Counted, CoreLabels, Looped
  <2>3. Move(p')
    BY <1>1, <2>1, <2>2, ClosedPhase, MoveTo
  <2>4. p'.at \in AfterFault
    BY <2>1 DEF AfterFault, Common
  <2> QED BY <1>1, <1>5, <2>3, <2>4, ClosedPhase DEF Moves, Ready
<1> QED BY <1>3, <1>4, <1>5 DEF MemBell

LEMMA WholeWords ==
    ASSUME NEW a \in Nat, NEW b \in Nat, a % 4 = 0, b % 4 = 0, b < a
    PROVE  (a - b) % 4 = 0 /\ a - b > 0
  OBVIOUS

LEMMA SramPassTyped ==
    ASSUME Ready, p.at \in SramLabels, p.at \notin Common, NEW n \in Nat, n % 4 = 0, n < req.len
    PROVE  /\ SramPass(n) \in Nat /\ SramPass(n) % 4 = 0 /\ SramPass(n) \div 4 > 0
           /\ SramPass(n) \div 4 \in Nat
           /\ (n + SramPass(n)) % 4 = 0
<1>1. req.len \in Nat /\ req.len % 4 = 0
  BY RequestTyped DEF Ready, Control, Owned, SramOps
<1>2. SramGranule \in Nat /\ SramGranule > 0 /\ SramGranule % 4 = 0
  <2>1. SramGranule \in Nat \ {0} /\ SramGranule % 8 = 0
    BY MemAssumption, RequestAssumption
  <2> QED BY <2>1
<1>3. (req.len - n) % 4 = 0 /\ req.len - n > 0
  BY <1>1, WholeWords
<1> QED BY <1>1, <1>2, <1>3 DEF SramPass

LEMMA SramLoopMoves ==
    ASSUME Ready, Moving, p.at \in {"sram.check", "sram.access", "sram.loop"},
           NEW q \in Frames, q.fn = "none", q.rc = p.rc, q.count % 4 = 0
    PROVE  Move(SramLoop(q))
<1>1. q.count \in Nat /\ p.at \in SramLabels /\ p.at \notin Common
  BY DEF Frames, SramLabels, Common
<1>2. q.count < req.len => SramPass(q.count) \div 4 \in Nat /\ Counted("sram.access", q.count, req)
  BY <1>1, SramPassTyped DEF Counted, CoreLabels, Looped
<1>3. (q.count < req.len) \in BOOLEAN
  OBVIOUS
<1> QED BY <1>2, <1>3, LoopMoves, SramNear DEF SramLoop

LEMMA SramCheckMoves == ASSUME Ready, SramCheck PROVE Moves
<1>1. p.fn = "none" /\ p.at = "sram.check"
  BY DEF SramCheck, At
<1>2. Moving
  BY <1>1 DEF Moving, PutLabels, Ready, Control
<1>3. Move(SramLoop(p))
  BY <1>1, <1>2, SramLoopMoves DEF Ready, Control, Counted
<1>4. Move(Refuses("sram.tail", "ACCESS_DENIED")) /\ Move(Failed("sram.tail"))
  BY <1>1, <1>2, MovingFailed, SramNear DEF Status
<1>5. CASE Goes([p EXCEPT !.at = "return", !.rc = "GENERIC_FAILURE"])
  <2> DEFINE q == [p EXCEPT !.at = "return", !.rc = "GENERIC_FAILURE"]
  <2>a. "return" \in Labels /\ "GENERIC_FAILURE" \in Rc
    BY DEF Labels, Rc
  <2>1. q \in Frames /\ q.at = "return" /\ q.fn = "none" /\ q.rc = "GENERIC_FAILURE"
    BY <1>1, <2>a DEF Ready, Frames
  <2> HIDE DEF q
  <2>2. /\ ~IsOpen(q, req) /\ ~IsClosed(q, req) /\ "return" \notin Loops
        /\ ~AtOpen("return", req) /\ Counted("return", q.count, req) /\ Near("return")
    BY <2>1 DEF IsOpen, IsClosed, AtOpen, Starts, ScomOps, PutLabels, Loops, Counted, CoreLabels, Looped,
                Near, Common
  <2>3. Move(q)
    BY <1>1, <2>1, <2>2, NearOwned DEF Move, Control, Serves, Calls, Filled
  <2> QED BY <1>1, <1>2, <1>5, <2>3, MovingPhase, GoesMoves DEF q
<1>6. CASE Hwp(SramLoop(p), hw, "sram.tail")
  BY <1>1, <1>2, <1>3, <1>4, <1>6, MovingPhase, HwpMoves DEF Ready
<1>7. CASE Goes(Refuses("sram.tail", "ACCESS_DENIED")) \/ Goes(SramLoop(p))
  BY <1>1, <1>2, <1>3, <1>4, <1>7, MovingPhase, GoesMoves
<1> QED BY <1>5, <1>6, <1>7 DEF SramCheck

LEMMA HardwareWrote ==
    ASSUME Ready, NEW s \in Buffers PROVE [hw EXCEPT !.wrote = s] \in Hardwares
  BY DEF Ready, Hardwares

\* The buffer without its last words.
LEMMA FrontTyped ==
    ASSUME NEW b \in Buffers, NEW k \in Nat
    PROVE  /\ SubSeq(b, 1, Len(b) - k) \in Buffers
           /\ \A i \in 1..Len(SubSeq(b, 1, Len(b) - k)) : i \in 1..Len(b)
                                                       /\ SubSeq(b, 1, Len(b) - k)[i] = b[i]
<1> DEFINE n == Len(b) - k
           s == SubSeq(b, 1, n)
<1>1. Len(b) \in Nat /\ n \in Int /\ n <= Len(b)
  BY DEF Buffers
<1>2. CASE n >= 1
  <2>1. s \in Buffers /\ Len(s) = n /\ \A i \in 1..n : s[i] = b[i]
    BY <1>1, <1>2 DEF Buffers
  <2> QED BY <1>1, <2>1
<1>3. CASE n < 1
  <2>1. n \in Int
    BY <1>1
  <2> HIDE DEF n
  <2>2. s = <<>>
    BY <1>3, <2>1
  <2> HIDE DEF s
  <2>3. Len(s) = 0 /\ s \in Buffers
    BY <2>2, EmptyTyped
  <2> QED BY <2>3 DEF s, n
<1> QED BY <1>1, <1>2, <1>3

LEMMA HalfTyped ==
    ASSUME NEW pass \in Nat
    PROVE  HalfBlock(pass) \in {0, 1} /\ (pass % 8 = 0 => HalfBlock(pass) = 0)
  BY DEF HalfBlock

\* A pass writes words of the buffer.
LEMMA BlocksTyped ==
    ASSUME Ready, NEW pass \in Nat
    PROVE  /\ SramBlocks(pass) \in Buffers /\ hw.wrote \o SramBlocks(pass) \in Buffers
           /\ \A i \in 1..Len(SramBlocks(pass)) : i \in 1..Len(p.buf) /\ SramBlocks(pass)[i] = p.buf[i]
<1>1. p.buf \in Buffers /\ hw.wrote \in Buffers /\ HalfBlock(pass) \in Nat
  BY HalfTyped DEF Ready, Frames, Hardwares
<1>2. /\ SramBlocks(pass) \in Buffers
      /\ \A i \in 1..Len(SramBlocks(pass)) : i \in 1..Len(p.buf) /\ SramBlocks(pass)[i] = p.buf[i]
  BY <1>1, FrontTyped DEF SramBlocks
<1>3. hw.wrote \o SramBlocks(pass) \in Buffers
  BY <1>1, <1>2, ConcatProperties DEF Buffers
<1> QED BY <1>2, <1>3

LEMMA SramAccessMoves == ASSUME Ready, SramAccess PROVE Moves
<1> DEFINE pass == SramPass(p.count)
           q == [p EXCEPT !.count = @ + pass]
           r == IF isRead THEN Enq(q, "sram.loop", "return", SramData(p.count, pass))
                ELSE SramLoop(q)
<1>1. p.fn = "none" /\ p.at = "sram.access" /\ p.at \in SramLabels /\ p.at \notin Common
      /\ Hwp(r, [hw EXCEPT !.wrote = @ \o SramBlocks(pass)], "sram.tail")
  BY DEF SramAccess, At, SramLabels, Common
<1>2. Moving
  BY <1>1 DEF Moving, PutLabels, Ready, Control
<1>3. p.count \in Nat /\ p.count % 4 = 0 /\ p.count < req.len
  BY <1>1 DEF Ready, Frames, Control, Counted
<1>4. pass \in Nat /\ pass \div 4 > 0 /\ pass \div 4 \in Nat /\ (p.count + pass) % 4 = 0
  BY <1>1, <1>3, SramPassTyped
<1> HIDE DEF pass
<1>5. q \in Frames /\ q.fn = "none" /\ q.rc = p.rc /\ q.count = p.count + pass
  BY <1>1, <1>3, <1>4 DEF Ready, Frames
<1> HIDE DEF q
<1>6. q.count % 4 = 0 /\ Counted("sram.loop", q.count, req)
  BY <1>4, <1>5 DEF Counted, CoreLabels, Looped
<1>7. Move(r)
  <2>1. SramData(p.count, pass) \in DownWords /\ SramData(p.count, pass) # <<>>
    BY <1>3, <1>4, SramDataTyped
  <2>2. isRead => Move(Enq(q, "sram.loop", "return", SramData(p.count, pass)))
    BY <1>1, <1>2, <1>5, <1>6, <2>1, ReadMoves, SramNear
  <2>3. Move(SramLoop(q))
    BY <1>1, <1>2, <1>5, <1>6, SramLoopMoves
  <2> QED BY <2>2, <2>3
<1>8. Move(Failed("sram.tail"))
  BY <1>1, <1>2, MovingFailed, SramNear DEF Status
<1>9. [hw EXCEPT !.wrote = @ \o SramBlocks(pass)] \in Hardwares
  BY <1>4, BlocksTyped, HardwareWrote
<1> HIDE DEF r
<1> QED BY <1>1, <1>2, <1>7, <1>8, <1>9, MovingPhase, HwpMoves

LEMMA SramSentMoves == ASSUME Ready, SramSent PROVE Moves
<1>1. p.fn = "none" /\ p.at = "sram.loop" /\ Goes(SramLoop(p))
  BY DEF SramSent, At
<1>2. Moving
  BY <1>1 DEF Moving, Ready, Control, Loops
<1>3. p.count % 4 = 0
  BY <1>1 DEF Ready, Control, Counted
<1> QED BY <1>1, <1>2, <1>3, SramLoopMoves, MovingPhase, GoesMoves DEF Ready

LEMMA SramReplyMoves == ASSUME Ready, SramReply PROVE Moves
<1>1. p.fn = "none" /\ p.at = "sram.reply"
      /\ Goes(sbeDsSendRespHdr(p, <<<<"len", p.count>>>>, "return", p.status, p.fapi))
  BY DEF SramReply, At
<1>2. p.at \in Closeds /\ Near("return") /\ p.count \in Int
  BY <1>1, ClosedLabels, CommonNear DEF Ready, Frames, Common
<1>3. Move(sbeDsSendRespHdr(p, <<<<"len", p.count>>>>, "return", p.status, p.fapi))
  BY <1>1, <1>2, LenTyped, ClosedHeader
<1> QED BY <1>1, <1>2, <1>3, ClosedPhase, GoesMoves

LEMMA MemoryMoves == ASSUME Ready, MemoryOps PROVE Moves
  BY MemWrapMoves, MemCheckMoves, MemSetupMoves, MemAccessMoves, MemSentMoves, MemTailMoves,
     MemReplyMoves, MemBellMoves, SramWrapMoves, SramCheckMoves, SramAccessMoves, SramSentMoves,
     SramTailMoves, SramReplyMoves DEF MemoryOps

----------------------------------------------------------------------------
(* Registers *)

LEMMA RegNear ==
    ASSUME p.at \in RegLabels \ {"reg.cleanup"}, NEW l \in RegLabels PROVE Near(l)
  BY DEF Near, RegLabels, SramLabels, AfterFault, Common

LEMMA PackageTyped ==
    ASSUME NEW s \in Buffers, NEW a \in Int, NEW b \in Int, a >= 1, b <= Len(s)
    PROVE  SubSeq(s, a, b) \in Buffers
  BY SubSeqProperties DEF Buffers

LEMMA RegLoopTyped ==
    ASSUME NEW n PROVE /\ RegLoop(n) \in {"reg.access", "reg.cleanup"}
                       /\ RegLoop(n) \in Closeds /\ RegLoop(n) \in RegLabels
                       /\ RegLoop(n) \notin CoreLabels /\ RegLoop(n) \in Labels
                       /\ RegLoop(n) = "reg.access" => n < req.len
<1>1. RegLoop(n) \in {"reg.access", "reg.cleanup"} /\ (RegLoop(n) = "reg.access" => n < req.len)
  BY DEF RegLoop, NumRegs
<1> HIDE DEF RegLoop
<1> QED BY <1>1, ClosedLabels DEF RegLabels, CoreLabels, Looped, Labels

LEMMA RegMoves == ASSUME Ready, sbeRegAccess PROVE Moves
<1>a. \A l \in {"return", "header"} : Near(l) /\ l \in Closeds \cup {"return"} /\ l \notin Looped
  BY CommonNear, ClosedLabels DEF Common, CoreLabels, Looped
<1>b. req.len \in Nat /\ ReqWords \in Nat /\ p \in Frames /\ hw \in Hardwares
  BY RequestTyped, MemAssumption DEF Ready
<1>1. CASE RegRequest
  <2>1. p.fn = "none" /\ p.at = "reg" /\ p.at \in Starts /\ Near("reg.check") /\ p.count = 0
    BY <1>1, RegNear DEF RegRequest, At, Starts, RegLabels, Ready, Control, Counted
  <2>2. "reg.check" \notin Closeds /\ "reg.check" \notin CoreLabels
    BY DEF Closeds, CoreLabels, Looped
  <2> QED BY <1>1, <1>b, <2>1, <2>2, StartMoves DEF RegRequest
<1>2. CASE RegCheck
  <2>1. p.fn = "none" /\ p.at = "reg.check" /\ Near("reg.setup") /\ p.count = 0
    BY <1>2, RegNear DEF RegCheck, At, RegLabels, Ready, Control, Counted
  <2>2. req.op \in RegOps
    BY <2>1 DEF Ready, Control, Owned, Common, RegLabels
  <2>3. "invalid" \in req.flags => ~RegsAccepted
    BY <2>2 DEF RegsAccepted, Ready, Servable, NoRequest, RegOps
  <2>4. Payload(req) \in Nat /\ (req.op = "putreg" => Payload(req) = 3 * req.len)
    BY <1>b, <2>2 DEF Payload, NumRegs, RegOps
  <2>5. "reg.setup" \in Closeds /\ "reg.setup" \notin CoreLabels
    BY ClosedLabels DEF CoreLabels, Looped
  <2>6. CASE "invalid" \in req.flags
    <3> DEFINE q == Refuses("header", "INVALID_DATA")
    <3>1. Goes(q)
      BY <1>2, <2>6 DEF RegCheck
    <3>2. "header" \in Labels /\ "INVALID_DATA" \in Status
      BY DEF Labels, Status
    <3>3. q \in Frames /\ q.at = "header" /\ q.fn = "none" /\ q.rc = p.rc
      BY <1>b, <2>1, <3>2 DEF Refuses, Frames
    <3> HIDE DEF q
    <3>4. p.rc # "NOT_SUPPORTED"
      BY <2>1 DEF Ready, Control
    <3>5. Control(q, req)
      BY <3>3, <3>4 DEF Control, Loops, Owned, Common, Counted, CoreLabels, Filled
    <3>6. Move(q)
      BY <2>3, <2>6, <3>3, <3>5 DEF Move, Calls, Serves, AfterFault, Common
    <3> QED BY <1>b, <2>1, <3>1, <3>6 DEF Goes, Does, Moves, Serves
  <2>7. CASE "invalid" \notin req.flags
    BY <1>2, <1>b, <2>1, <2>4, <2>5, <2>7, StartMoves DEF RegCheck
  <2> QED BY <2>6, <2>7
<1>3. CASE RegSetup
  <2> DEFINE l == RegLoop(0)
             h == [hw EXCEPT !.open = TRUE]
  <2>1. p.fn = "none" /\ p.at = "reg.setup" /\ p.at \in Closeds /\ Hwp(To(l), h, "header")
    BY <1>3, ClosedLabels DEF RegSetup, At, To
  <2>2. l \in Closeds /\ l \notin CoreLabels /\ Near(l) /\ l \in Labels
        /\ l \in {"reg.access", "reg.cleanup"} /\ (l = "reg.access" => 0 < req.len)
    BY <2>1, RegLoopTyped, RegNear DEF RegLabels
  <2>3. h \in Hardwares
    BY DEF Ready, Hardwares
  <2> HIDE DEF l, h
  <2>4. To(l) \in Frames /\ To(l).fn = "none" /\ To(l).rc = p.rc /\ To(l).at = l
        /\ To(l).count = p.count /\ To(l).buf = p.buf
    BY <2>1, <2>2 DEF To, Ready, Frames
  <2>5. p.count = 0 /\ (req.op = "putreg" => Len(p.buf) = 3 * req.len)
    BY <2>1 DEF Ready, Control, Counted, Filled
  <2>6. Counted(l, To(l).count, req) /\ Filled(To(l), req)
    BY <2>2, <2>4, <2>5 DEF Counted, Filled
  <2>7. Move(To(l)) /\ Move(Failed("header"))
    BY <1>a, <2>1, <2>2, <2>4, <2>6, ClosedTo, ClosedJumps DEF Status
  <2> QED BY <2>1, <2>3, <2>7, ClosedPhase, HwpMoves
<1>4. CASE RegAccess
  <2> DEFINE next == RegLoop(p.count + 1)
             q == [p EXCEPT !.count = @ + 1, !.at = next]
             words == Data(p.count, 2)
             wrote == hw.wrote \o Package(p.count)
             h == [hw EXCEPT !.wrote = wrote]
  <2>1. p.fn = "none" /\ p.at = "reg.access" /\ p.at \in Closeds
        /\ IF req.op = "getreg" THEN Hwp(Enq(q, next, "reg.cleanup", words), hw, "header")
                                ELSE Hwp(q, h, "header")
    BY <1>4, ClosedLabels DEF RegAccess, At
  <2>a. p.count < req.len /\ (req.op = "putreg" => Len(p.buf) = 3 * req.len) /\ req.op \in RegOps
    BY <2>1 DEF Ready, Control, Counted, Filled, Owned, Common, RegLabels
  <2>2. next \in Closeds /\ next \notin CoreLabels /\ next \in Labels /\ Near(next) /\ Near("reg.cleanup")
        /\ next \in {"reg.access", "reg.cleanup"} /\ (next = "reg.access" => p.count + 1 < req.len)
    BY <2>1, RegLoopTyped, RegNear DEF RegLabels
  <2>3. words \in DownWords /\ words # <<>> /\ p.count \in Nat
    BY DataTyped DEF Ready, Frames
  <2> HIDE DEF next, words
  <2>4. q \in Frames /\ q.fn = "none" /\ q.rc = p.rc /\ q.at = next /\ q.count = p.count + 1
        /\ q.buf = p.buf
    <3> DEFINE k == p.count + 1
    <3>1. k \in Nat /\ next \in Labels
      BY <2>2, <2>3
    <3>2. q = [p EXCEPT !.count = k, !.at = next]
      BY <1>b DEF Frames
    <3> HIDE DEF k, q
    <3>3. /\ q \in Frames /\ q.fn = p.fn /\ q.rc = p.rc /\ q.at = next /\ q.count = k
          /\ q.buf = p.buf
      BY <1>b, <3>1, <3>2 DEF Frames
    <3> QED BY <2>1, <3>3 DEF k
  <2> HIDE DEF q
  <2>b. Counted(next, q.count, req) /\ Filled(q, req)
    <3>1. Counted(next, q.count, req)
      BY <2>2, <2>4, <2>a DEF Counted
    <3>2. Filled(q, req)
      BY <2>4, <2>a DEF Filled
    <3> QED BY <3>1, <3>2
  <2>5. req.op = "putreg" => wrote \in Buffers
    <3>1. ASSUME req.op = "putreg" PROVE Package(p.count) \in Buffers
      <4>1. p.buf \in Buffers
        BY DEF Ready, Frames
      <4>2. 3 * p.count + 1 \in Int /\ 3 * p.count + 3 \in Int /\ 3 * p.count + 1 >= 1
            /\ 3 * p.count + 3 <= 3 * req.len
        BY <1>b, <2>3, <2>a
      <4> QED BY <3>1, <2>a, <4>1, <4>2, PackageTyped DEF Package
    <3> QED BY <3>1, ConcatProperties DEF Ready, Hardwares, Buffers
  <2>6. req.op = "putreg" => h \in Hardwares
    BY <2>5, HardwareWrote
  <2>7. Move(q) /\ (req.op = "getreg" => Move(Enq(q, next, "reg.cleanup", words)))
        /\ Move(Failed("header"))
    <3>1. Move(q)
      BY <2>1, <2>2, <2>4, <2>b, ClosedTo
    <3>2. ASSUME req.op = "getreg" PROVE Move(Enq(q, next, "reg.cleanup", words))
      <4>1. next \notin {"idle", "response.done"} \cup Loops /\ ~AtOpen(next, req)
        BY <2>2 DEF Loops, AtOpen, Starts, ScomOps, PutLabels
      <4> QED BY <2>1, <2>2, <2>3, <2>4, <2>b, <3>2, <4>1, ClosedPhase, MoveEnq
    <3>3. Move(Failed("header"))
      BY <1>a, <2>1, ClosedJumps DEF Status
    <3> QED BY <3>1, <3>2, <3>3
  <2> HIDE DEF h
  <2> QED BY <1>b, <2>1, <2>6, <2>7, <2>a, ClosedPhase, HwpMoves DEF RegOps
<1>5. CASE RegCleanup
  <2> DEFINE next == IF p.rc = "OK" THEN "header" ELSE "return"
             h == [hw EXCEPT !.open = FALSE]
  <2>1. p.fn = "none" /\ p.at \in Closeds /\ Hwp(To(next), h, next) /\ next \in {"return", "header"}
    BY <1>5, ClosedLabels DEF RegCleanup, At
  <2>2. h \in Hardwares
    BY DEF Ready, Hardwares
  <2> HIDE DEF next, h
  <2> QED BY <1>a, <2>1, <2>2, ClosedHwp
<1> QED BY <1>1, <1>2, <1>3, <1>4, <1>5 DEF sbeRegAccess

----------------------------------------------------------------------------
(* Rings, trace and fast arrays *)

LEMMA CountedTyped ==
    ASSUME Ready, NEW n \in Nat, NEW q, q = [p EXCEPT !.count = n]
    PROVE  q \in Frames /\ q.fn = p.fn /\ q.rc = p.rc /\ q.at = p.at /\ q.count = n
  BY DEF Ready, Frames

LEMMA LenHeader ==
    ASSUME Ready, p.fn = "none", p.at \in Closeds, Goes(Header(p, <<<<"len", p.count>>>>))
    PROVE  Moves
<1>1. Near("return") /\ <<<<"len", p.count>>>> \in DownWords
  BY CommonNear, LenTyped DEF Common, Ready, Frames
<1>2. Move(Header(p, <<<<"len", p.count>>>>))
  BY <1>1, ClosedHeader DEF Header
<1> QED BY <1>2, ClosedPhase, GoesMoves

LEMMA RingTyped ==
    ASSUME Ready
    PROVE  RingLoops \in Nat /\ RingGranules \in Int /\ RingShift \in Nat
<1>1. req.len \in Nat /\ hw.done \in Nat
  BY RequestTyped DEF Ready, Hardwares
<1>2. req.len % 64 \in Nat
  BY <1>1
<1> QED BY <1>1, <1>2 DEF RingLoops, RingGranules, RingShift, RingMod, GETRING_GRANULE

LEMMA GetRingMoves == ASSUME Ready, sbeGetRing PROVE Moves
<1>a. \A l \in {"getring.setup", "getring.read", "getring.rotate", "getring.verify", "getring.reply"} :
         l \in Closeds /\ l \in Plain /\ l \notin Looped /\ l \notin CoreLabels
         /\ l # "reg.access" /\ l # "reg.setup" /\ l \notin RegLabels
  BY ClosedLabels, PlainLabels DEF Looped, CoreLabels, RegLabels
<1>b. Near("return") /\ ReqWords \in Nat /\ hw \in Hardwares
  BY CommonNear, MemAssumption DEF Common, Ready
<1>1. CASE GetRing
  <2> DEFINE q == [p EXCEPT !.count = GETRING_GRANULE]
  <2>1. p.fn = "none" /\ p.at \in Starts /\ p.at \in Plain
        /\ Goes(Deq(q, "getring.setup", "return", ReqWords, TRUE, FALSE))
    BY <1>1, PlainLabels DEF GetRing, At, Starts
  <2>2. q \in Frames /\ q.rc = p.rc
    BY CountedTyped DEF GETRING_GRANULE
  <2> HIDE DEF q
  <2> QED BY <1>a, <1>b, <2>1, <2>2, PlainNear, StartMoves
<1>2. CASE GetRingSetup
  <2> DEFINE l == IF RingLoops > 0 THEN "getring.read" ELSE "getring.rotate"
  <2>1. p.fn = "none" /\ p.at \in Closeds /\ p.at \in Plain
        /\ Hwp(To(l), hw, "getring.reply") /\ l \in {"getring.read", "getring.rotate"}
    BY <1>2, <1>a DEF GetRingSetup, At
  <2> HIDE DEF l
  <2> QED BY <1>a, <1>b, <2>1, PlainNear, ClosedHwp
<1>3. CASE GetRingRead
  <2> DEFINE n == p.count + RingShift
             q == [p EXCEPT !.count = n]
             l == IF RingGranules + 1 < RingLoops THEN "getring.read" ELSE "getring.rotate"
             words == Data(RingGranules, 2)
  <2>1. n \in Nat
    BY RingTyped DEF Ready, Frames
  <2>2. p.fn = "none" /\ p.at \in Closeds /\ p.at \in Plain
        /\ Hwp(Enq(q, l, "return", words), hw, "getring.reply")
        /\ l \in {"getring.read", "getring.rotate"}
    BY <1>3, <1>a DEF GetRingRead, At
  <2>3. words \in DownWords /\ words # <<>>
    BY RingTyped, DataTyped
  <2> HIDE DEF n, l, words
  <2>4. q \in Frames /\ q.rc = p.rc
    BY <2>1, CountedTyped
  <2> HIDE DEF q
  <2>5. Move(Enq(q, l, "return", words)) /\ Move(Failed("getring.reply"))
    <3>1. Move(Enq(q, l, "return", words))
      BY <1>a, <1>b, <2>2, <2>3, <2>4, PlainNear, ClosedSends
    <3>2. Move(Failed("getring.reply"))
      BY <1>a, <2>2, PlainNear, ClosedJumps DEF Status
    <3> QED BY <3>1, <3>2
  <2> QED BY <1>b, <2>2, <2>5, ClosedPhase, HwpMoves
<1>4. CASE GetRingRotate \/ GetRingVerify
  <2>1. PICK l \in {"getring.verify", "getring.reply"} :
            p.fn = "none" /\ p.at \in Closeds /\ p.at \in Plain /\ Hwp(To(l), hw, "getring.reply")
    BY <1>4, <1>a DEF GetRingRotate, GetRingVerify, At
  <2> QED BY <1>a, <1>b, <2>1, PlainNear, ClosedHwp
<1>5. CASE GetRingReply
  BY <1>5, <1>a, LenHeader DEF GetRingReply, At
<1> QED BY <1>1, <1>2, <1>3, <1>4, <1>5 DEF sbeGetRing

LEMMA PutRingMoves == ASSUME Ready, sbePutRing PROVE Moves
<1>a. \A l \in {"putring.apply", "header"} : l \in Closeds /\ l \notin Looped /\ l \notin CoreLabels
         /\ l # "reg.access" /\ l # "reg.setup" /\ l \notin RegLabels
  BY ClosedLabels DEF Looped, CoreLabels, RegLabels
<1>b. /\ Near("return") /\ Near("header") /\ ReqWords \in Nat /\ hw \in Hardwares /\ p \in Frames
      /\ req.len \in Nat /\ ReqWords + req.len \in Nat
  BY CommonNear, MemAssumption, RequestTyped DEF Common, Ready
<1>1. CASE PutRing
  <2> DEFINE q == [p EXCEPT !.status = "INVALID_DATA"]
             n == ReqWords + req.len
  <2>1. p.fn = "none" /\ p.at \in Starts /\ Near("putring.payload")
    BY <1>1, PlainLabels, PlainNear DEF PutRing, At, Starts
  <2>2. "putring.payload" \notin Closeds \cup CoreLabels \cup {"reg.access", "reg.setup"} \cup RegLabels
    BY DEF Closeds, CoreLabels, RegLabels
  <2>3. q \in Frames /\ q.rc = p.rc
    BY DEF Ready, Frames, Status
  <2>4. n \in Nat /\ (\/ Goes(Deq(q, "header", "return", n, TRUE, TRUE))
                      \/ Goes(Deq(p, "putring.payload", "return", ReqWords, FALSE, FALSE)))
    BY <1>1, <1>b DEF PutRing
  <2> HIDE DEF q, n
  <2>5. CASE Goes(Deq(q, "header", "return", n, TRUE, TRUE))
    BY <1>a, <1>b, <2>1, <2>3, <2>4, <2>5, StartMoves
  <2>6. CASE Goes(Deq(p, "putring.payload", "return", ReqWords, FALSE, FALSE))
    BY <1>b, <2>1, <2>2, <2>6, StartMoves
  <2> QED BY <2>4, <2>5, <2>6
<1>2. CASE PutRingPayload
  <2>1. p.fn = "none" /\ p.at = "putring.payload" /\ Near("putring.apply")
    BY <1>2, PlainLabels, PlainNear DEF PutRingPayload, At
  <2> QED BY <1>2, <1>a, <1>b, <2>1, StartMoves DEF PutRingPayload
<1>3. CASE PutRingApply
  <2> DEFINE h == [hw EXCEPT !.wrote = @ \o p.buf]
  <2>1. p.fn = "none" /\ p.at \in Closeds /\ Hwp(To("header"), h, "header")
    BY <1>3, <1>a DEF PutRingApply, At
  <2>2. h \in Hardwares
    BY WroteTyped, HardwareWrote
  <2> HIDE DEF h
  <2> QED BY <1>a, <1>b, <2>1, <2>2, ClosedHwp
<1> QED BY <1>1, <1>2, <1>3 DEF sbePutRing

LEMMA ArrayMoves == ASSUME Ready, sbeControlTraceArray \/ sbeControlFastArray PROVE Moves
<1>a. \A l \in {"trace.target", "trace.row", "trace.reply", "fastarray.target", "fastarray.run"} :
         l \in Closeds /\ l \in Plain /\ l \notin Looped
  BY ClosedLabels, PlainLabels DEF Looped, CoreLabels
<1>b. /\ Near("return") /\ Near("header") /\ ReqWords \in Nat /\ hw \in Hardwares /\ p \in Frames
      /\ "header" \in Closeds /\ "header" \notin Looped /\ "INVALID_DATA" \in Status
  BY CommonNear, MemAssumption, ClosedLabels DEF Common, Ready, Looped, CoreLabels, Status
<1>1. CASE TraceArray \/ FastArray
  <2>1. PICK l \in {"trace.target", "fastarray.target"} :
            p.fn = "none" /\ p.at \in Starts /\ p.at \in Plain
            /\ Goes(Deq(p, l, "return", ReqWords, TRUE, FALSE))
    BY <1>1, PlainLabels DEF TraceArray, FastArray, At, Starts
  <2> QED BY <1>a, <1>b, <2>1, PlainStart
<1>2. CASE TraceTarget \/ FastArrayTarget
  <2>1. PICK l \in {"trace.row", "fastarray.run"}, b \in {"trace.reply", "header"} :
            p.fn = "none" /\ p.at \in Closeds /\ p.at \in Plain /\ Goes(Target(l, b))
    BY <1>2, <1>a DEF TraceTarget, FastArrayTarget, At
  <2>2. Near(b) /\ Near(l) /\ b \in Closeds /\ l \in Closeds /\ b \notin Looped /\ l \notin Looped
    BY <1>a, <1>b, <2>1, PlainNear
  <2>3. Move(To(l)) /\ Move(Refuses(b, "INVALID_DATA"))
    BY <1>b, <2>1, <2>2, ClosedJumps
  <2> QED BY <2>1, <2>3, ClosedPhase, GoesMoves DEF Target
<1>3. CASE TraceRow
  <2> DEFINE words == p.count + TraceWords
             next == IF words < TraceRows * TraceWords THEN "trace.row" ELSE "trace.reply"
             q == [p EXCEPT !.count = words]
             row == Data(p.count \div TraceWords, TraceWords)
             r == IF "dump" \in req.flags THEN Enq(q, next, "return", row) ELSE To("trace.reply")
  <2>1. p.fn = "none" /\ p.at \in Closeds /\ p.at \in Plain /\ Hwp(r, hw, "trace.reply")
        /\ next \in {"trace.row", "trace.reply"}
    BY <1>3, <1>a DEF TraceRow, At
  <2>2. words \in Nat /\ p.count \div TraceWords \in Int
    BY DEF Ready, Frames, TraceWords
  <2>3. row \in DownWords /\ row # <<>>
    <3>1. TraceWords \in Nat /\ TraceWords = 2
      BY DEF TraceWords
    <3> QED BY <2>2, <3>1, DataTyped
  <2> HIDE DEF words, next, row
  <2>4. q \in Frames /\ q.rc = p.rc
    BY <2>2, CountedTyped
  <2> HIDE DEF q
  <2>5. Move(Enq(q, next, "return", row))
    BY <1>a, <1>b, <2>1, <2>3, <2>4, PlainNear, ClosedSends
  <2>6. Move(To("trace.reply")) /\ Move(Failed("trace.reply"))
    BY <1>a, <1>b, <2>1, PlainNear, ClosedJumps
  <2>7. Move(r)
    BY <2>5, <2>6
  <2> HIDE DEF r
  <2> QED BY <1>b, <2>1, <2>6, <2>7, ClosedPhase, HwpMoves
<1>4. CASE TraceReply
  BY <1>4, <1>a, LenHeader DEF TraceReply, At
<1>5. CASE FastArrayRun
  <2> DEFINE q == [To("header") EXCEPT !.fapi = TRUE]
  <2>1. p.fn = "none" /\ p.at \in Closeds
        /\ \E h \in Hardwares : Does(To("header"), h) \/ Does(q, h)
    BY <1>5, <1>a, HardwareTyped DEF FastArrayRun, At
  <2>2. Move(To("header"))
    BY <1>b, <2>1, ClosedJumps
  <2>a. "header" \in Labels /\ p \in Frames
    BY DEF Labels, Ready
  <2>3. q \in Frames /\ q.fn = "none" /\ q.rc = p.rc /\ q.at = "header"
    BY <2>1, <2>a DEF To, Frames
  <2> HIDE DEF q
  <2>4. Move(q)
    BY <1>b, <2>1, <2>3, ClosedTo
  <2> QED BY <2>1, <2>2, <2>4, ClosedPhase, DoesMoves
<1> QED BY <1>1, <1>2, <1>3, <1>4, <1>5 DEF sbeControlTraceArray, sbeControlFastArray

----------------------------------------------------------------------------
(* Instruction control *)

LEMMA TargetsTyped ==
    /\ Targets = TargetsOf(req) /\ Len(Targets) \in Nat
    /\ \A i \in 1..Len(Targets) : Targets[i] \in ToSet(Cores)
<1>1. Targets = TargetsOf(req)
  BY DEF Targets, TargetsOf
<1>2. CASE Targets = Cores
  BY <1>1, <1>2, RequestAssumption DEF ToSet
<1>3. CASE Targets = <<req.addr>> /\ req.addr \in ToSet(Cores)
  BY <1>1, <1>3
<1>4. CASE Targets = <<>>
  BY <1>1, <1>4
<1> QED BY <1>2, <1>3, <1>4 DEF Targets

\* The frame a loop goes on with.
LoopsTo(r, q, n, l, done) ==
    /\ r \in Frames /\ r.fn = q.fn /\ r.rc = q.rc /\ r.status = q.status
    /\ \/ r.at = l /\ r.count = n /\ n < Len(Targets)
       \/ r.at = done /\ r.count = 0

LEMMA CoreLoopTyped ==
    ASSUME Ready, NEW q \in Frames, NEW n \in Nat, NEW l \in Labels, NEW done \in Labels
    PROVE  LoopsTo(CoreLoop(q, n, l, done), q, n, l, done)
<1> DEFINE c == IF n < Len(Targets) THEN n ELSE 0
           a == IF n < Len(Targets) THEN l ELSE done
           r == [q EXCEPT !.count = c, !.at = a]
<1>1. c \in Nat /\ a \in Labels /\ CoreLoop(q, n, l, done) = r
  BY DEF CoreLoop
<1>2. (a = l /\ c = n /\ n < Len(Targets)) \/ (a = done /\ c = 0)
  OBVIOUS
<1> HIDE DEF c, a
<1>3. r \in Frames /\ r.fn = q.fn /\ r.rc = q.rc /\ r.status = q.status /\ r.at = a /\ r.count = c
  BY <1>1 DEF Frames
<1> HIDE DEF r
<1> QED BY <1>1, <1>2, <1>3 DEF LoopsTo

\* The cores' places that a loop may come to.
AtCore(r, q) ==
    /\ r \in Frames /\ r.fn = q.fn /\ r.rc = q.rc /\ r.status = q.status
    /\ r.at \in CoreLabels \cup {"header"}
    /\ r.at \in CoreLabels => r.count < Len(TargetsOf(req))

LEMMA SleepLoopTyped ==
    ASSUME Ready, NEW q \in Frames, NEW n \in Nat
    PROVE  AtCore(SleepLoop(q, n), q)
<1> DEFINE r == SleepLoop(q, n)
<1>1. "cntlinst.sleep" \in Labels /\ "header" \in Labels
  BY DEF Labels
<1>2. r = CoreLoop(q, n, "cntlinst.sleep", "header")
  BY DEF SleepLoop
<1> HIDE DEF r
<1>3. LoopsTo(r, q, n, "cntlinst.sleep", "header")
  BY <1>1, <1>2, CoreLoopTyped
<1>4. AtCore(r, q)
  BY <1>3, TargetsTyped DEF AtCore, CoreLabels, LoopsTo
<1> QED BY <1>4 DEF r

LEMMA ThreadLoopTyped ==
    ASSUME Ready, NEW q \in Frames, NEW n \in Nat
    PROVE  AtCore(ThreadLoop(q, n), q)
<1> DEFINE r == CoreLoop(q, n, "cntlinst.thread", "cntlinst.threads")
           s == ThreadLoop(q, n)
<1>1. "cntlinst.thread" \in Labels /\ "cntlinst.threads" \in Labels
  BY DEF Labels
<1>2. s = IF r.at = "cntlinst.threads" THEN SleepLoop(r, 0) ELSE r
  BY DEF ThreadLoop
<1>3. LoopsTo(r, q, n, "cntlinst.thread", "cntlinst.threads")
  BY <1>1, CoreLoopTyped
<1> HIDE DEF r, s
<1>4. ASSUME r.at = "cntlinst.thread" PROVE AtCore(s, q)
  BY <1>2, <1>3, <1>4, TargetsTyped DEF AtCore, CoreLabels, LoopsTo
<1>5. ASSUME r.at = "cntlinst.threads" PROVE AtCore(s, q)
  <2>1. AtCore(SleepLoop(r, 0), r)
    BY <1>3, SleepLoopTyped DEF LoopsTo
  <2> QED BY <1>2, <1>3, <1>5, <2>1 DEF AtCore, LoopsTo
<1>6. AtCore(s, q)
  BY <1>3, <1>4, <1>5 DEF LoopsTo
<1> QED BY <1>6 DEF s

LEMMA WakeLoopTyped ==
    ASSUME Ready, NEW q \in Frames, NEW n \in Nat
    PROVE  AtCore(WakeLoop(q, n), q)
<1> DEFINE r == CoreLoop(q, n, "cntlinst.wake", "cntlinst.woken")
           s == WakeLoop(q, n)
<1>1. "cntlinst.wake" \in Labels /\ "cntlinst.woken" \in Labels
  BY DEF Labels
<1>2. s = IF r.at = "cntlinst.woken" THEN ThreadLoop(r, 0) ELSE r
  BY DEF WakeLoop
<1>3. LoopsTo(r, q, n, "cntlinst.wake", "cntlinst.woken")
  BY <1>1, CoreLoopTyped
<1> HIDE DEF r, s
<1>4. ASSUME r.at = "cntlinst.wake" PROVE AtCore(s, q)
  BY <1>2, <1>3, <1>4, TargetsTyped DEF AtCore, CoreLabels, LoopsTo
<1>5. ASSUME r.at = "cntlinst.woken" PROVE AtCore(s, q)
  <2>1. AtCore(ThreadLoop(r, 0), r)
    BY <1>3, ThreadLoopTyped DEF LoopsTo
  <2> QED BY <1>2, <1>3, <1>5, <2>1 DEF AtCore, LoopsTo
<1>6. AtCore(s, q)
  BY <1>3, <1>4, <1>5 DEF LoopsTo
<1> QED BY <1>6 DEF s

LEMMA CoreMoves ==
    ASSUME Ready, p.fn = "none", p.at \in CoreLabels \cup {"cntlinst.check"},
           NEW q \in Frames, q.fn = "none", q.rc = p.rc, NEW r, AtCore(r, q)
    PROVE  Move(r)
<1>1. p.at \in Closeds /\ p.at \in Plain
  BY ClosedLabels, PlainLabels DEF CoreLabels
<1>2. r \in Frames /\ r.fn = "none" /\ r.rc = p.rc /\ r.at \in Closeds
  BY ClosedLabels DEF AtCore, CoreLabels
<1>3. Near(r.at)
  BY <1>1, PlainLabels, PlainNear, CommonNear DEF AtCore, CoreLabels, Common
<1>4. r.at \in Looped => Counted(r.at, r.count, req) /\ Filled(r, req)
  BY DEF AtCore, Looped, CoreLabels, Counted, Filled
<1> QED BY <1>1, <1>2, <1>3, <1>4, ClosedTo

LEMMA CoreLoopsMove ==
    ASSUME Ready, p.fn = "none", p.at \in CoreLabels \cup {"cntlinst.check"},
           NEW q \in Frames, q.fn = "none", q.rc = p.rc, NEW n \in Nat
    PROVE  Move(WakeLoop(q, n)) /\ Move(ThreadLoop(q, n)) /\ Move(SleepLoop(q, n))
  BY WakeLoopTyped, ThreadLoopTyped, SleepLoopTyped, CoreMoves

LEMMA AwakeTyped ==
    ASSUME Ready, NEW h \in Hardwares, NEW c \in ToSet(Cores)
    PROVE  [h EXCEPT !.awake = @ \cup {c}] \in Hardwares /\ [h EXCEPT !.awake = @ \ {c}] \in Hardwares
<1>1. [h EXCEPT !.awake = @ \cup {c}] \in Hardwares
  BY DEF Hardwares
<1>2. [h EXCEPT !.awake = @ \ {c}] \in Hardwares
  BY DEF Hardwares
<1> QED BY <1>1, <1>2

LEMMA StepTyped ==
    ASSUME NEW h \in Hardwares
    PROVE  [h EXCEPT !.done = @ + 1] \in Hardwares /\ [h EXCEPT !.failed = TRUE] \in Hardwares
<1>1. [h EXCEPT !.done = @ + 1] \in Hardwares
  BY DEF Hardwares
<1>2. [h EXCEPT !.failed = TRUE] \in Hardwares
  BY DEF Hardwares
<1> QED BY <1>1, <1>2

LEMMA CntlInstMoves == ASSUME Ready, sbeCntlInst PROVE Moves
<1>a. /\ Near("return") /\ Near("header") /\ ReqWords \in Nat /\ hw \in Hardwares /\ p \in Frames
      /\ "header" \in Closeds /\ "header" \notin Looped
      /\ {"INVALID_DATA", "EXECUTION_FAILURE"} \subseteq Status
  BY CommonNear, MemAssumption, ClosedLabels DEF Common, Ready, Looped, CoreLabels, Status
<1>b. p.count \in Nat /\ p.count + 1 \in Nat
  BY <1>a DEF Frames
<1>c. ASSUME p.fn = "none", p.at \in CoreLabels \cup {"cntlinst.check"}
      PROVE  /\ Serves(p) /\ p.at \in Closeds /\ Move(Refuses("header", "INVALID_DATA")) /\ Move(Failed("header"))
             /\ p.at \in CoreLabels => Core \in ToSet(Cores)
  <2>1. p.at \in Closeds
    BY <1>c, ClosedLabels DEF CoreLabels
  <2>2. Serves(p)
    BY <1>c, <2>1, ClosedPhase
  <2>3. Move(Refuses("header", "INVALID_DATA")) /\ Move(Failed("header"))
    BY <1>a, <1>c, <2>1, ClosedJumps
  <2>4. ASSUME p.at \in CoreLabels PROVE Core \in ToSet(Cores)
    <3>1. p.count < Len(Targets)
      BY <2>4, TargetsTyped DEF Ready, Control, Counted
    <3> QED BY <1>b, <3>1, TargetsTyped DEF Core
  <2> QED BY <2>1, <2>2, <2>3, <2>4
<1>1. CASE CntlInst
  <2>1. p.fn = "none" /\ p.at \in Starts /\ p.at \in Plain
        /\ Goes(Deq(p, "cntlinst.check", "return", ReqWords, TRUE, FALSE))
    BY <1>1, PlainLabels DEF CntlInst, At, Starts
  <2>2. "cntlinst.check" \in Closeds /\ "cntlinst.check" \in Plain /\ "cntlinst.check" \notin Looped
    BY ClosedLabels, PlainLabels DEF Looped, CoreLabels
  <2> QED BY <1>a, <2>1, <2>2, PlainStart
<1>2. CASE CntlInstCheck
  <2>1. p.fn = "none" /\ p.at \in CoreLabels \cup {"cntlinst.check"}
    BY <1>2 DEF CntlInstCheck, At
  <2>2. Move(WakeLoop(p, 0)) /\ Move(ThreadLoop(p, 0))
    BY <1>a, <2>1, CoreLoopsMove
  <2> QED BY <1>2, <1>c, <2>1, <2>2, GoesMoves DEF CntlInstCheck
<1>3. CASE specialWakeUpCoreAssert
  <2> DEFINE awake == [hw EXCEPT !.awake = @ \cup {Core}]
             bad == [p EXCEPT !.status = "EXECUTION_FAILURE"]
             q1 == [bad EXCEPT !.fapi = TRUE]
             q2 == [bad EXCEPT !.fapi = FALSE]
             r1 == [q1 EXCEPT !.at = "header"]
  <2>1. p.fn = "none" /\ p.at \in CoreLabels
    BY <1>3 DEF specialWakeUpCoreAssert, At, CoreLabels
  <2>2. awake \in Hardwares
    BY <1>a, <1>c, <2>1, AwakeTyped
  <2>3. bad \in Frames /\ bad.fn = "none" /\ bad.rc = p.rc /\ bad.at = p.at
    BY <1>a, <2>1 DEF Frames, Status
  <2>4. /\ q1 \in Frames /\ q1.fn = "none" /\ q1.rc = p.rc
        /\ q2 \in Frames /\ q2.fn = "none" /\ q2.rc = p.rc
    <3> HIDE DEF bad
    <3>1. q1 \in Frames /\ q1.fn = "none" /\ q1.rc = p.rc
      BY <2>3 DEF Frames
    <3>2. q2 \in Frames /\ q2.fn = "none" /\ q2.rc = p.rc
      BY <2>3 DEF Frames
    <3> QED BY <3>1, <3>2
  <2>5. Move(r1)
    <3> HIDE DEF bad, q1
    <3>1. "header" \in Labels
      BY DEF Labels
    <3>2. r1 \in Frames /\ r1.fn = "none" /\ r1.rc = p.rc /\ r1.at = "header"
      BY <2>4, <3>1 DEF Frames
    <3> HIDE DEF r1
    <3> QED BY <1>a, <1>c, <2>1, <3>2, ClosedTo
  <2>6. /\ Move(WakeLoop(p, p.count + 1)) /\ Move(WakeLoop(q1, p.count + 1))
        /\ Move(WakeLoop(q2, p.count + 1)) /\ Move(ThreadLoop(q2, 0))
    BY <1>a, <1>b, <2>1, <2>4, CoreLoopsMove
  <2>7. /\ [awake EXCEPT !.done = @ + 1] \in Hardwares /\ [awake EXCEPT !.failed = TRUE] \in Hardwares
        /\ [hw EXCEPT !.failed = TRUE] \in Hardwares
    BY <1>a, <2>2, StepTyped
  <2>8. \E q \in {WakeLoop(p, p.count + 1), WakeLoop(q1, p.count + 1), WakeLoop(q2, p.count + 1),
                  ThreadLoop(q2, 0), r1},
           h \in {[awake EXCEPT !.done = @ + 1], [awake EXCEPT !.failed = TRUE],
                  [hw EXCEPT !.failed = TRUE]} : Does(q, h)
    BY <1>3 DEF specialWakeUpCoreAssert
  <2> HIDE DEF awake, q1, q2, r1
  <2> QED BY <1>c, <2>1, <2>5, <2>6, <2>7, <2>8, DoesMoves
<1>4. CASE ControlThreads
  <2>1. p.fn = "none" /\ p.at \in CoreLabels
        /\ \E h \in Hardwares : Does(ThreadLoop(p, p.count + 1), h) \/ Does(Failed("header"), h)
    BY <1>4, HardwareTyped DEF ControlThreads, At, CoreLabels
  <2>2. Move(ThreadLoop(p, p.count + 1))
    BY <1>a, <1>b, <2>1, CoreLoopsMove
  <2> QED BY <1>c, <2>1, <2>2, DoesMoves
<1>5. CASE specialWakeUpCoreDeAssert
  <2> DEFINE asleep == [hw EXCEPT !.awake = @ \ {Core}]
             bad == [p EXCEPT !.status = "EXECUTION_FAILURE", !.fapi = TRUE]
             r1 == [bad EXCEPT !.at = "header"]
  <2>1. p.fn = "none" /\ p.at \in CoreLabels
    BY <1>5 DEF specialWakeUpCoreDeAssert, At, CoreLabels
  <2>2. asleep \in Hardwares
    BY <1>a, <1>c, <2>1, AwakeTyped
  <2>3. bad \in Frames /\ bad.fn = "none" /\ bad.rc = p.rc
    BY <1>a, <2>1 DEF Frames, Status
  <2>5. Move(r1)
    <3> HIDE DEF bad
    <3>1. "header" \in Labels
      BY DEF Labels
    <3>2. r1 \in Frames /\ r1.fn = "none" /\ r1.rc = p.rc /\ r1.at = "header"
      BY <2>3, <3>1 DEF Frames
    <3> HIDE DEF r1
    <3> QED BY <1>a, <1>c, <2>1, <3>2, ClosedTo
  <2>6. Move(SleepLoop(p, p.count + 1)) /\ Move(SleepLoop(bad, p.count + 1))
    BY <1>a, <1>b, <2>1, <2>3, CoreLoopsMove
  <2>7. /\ [asleep EXCEPT !.done = @ + 1] \in Hardwares /\ [asleep EXCEPT !.failed = TRUE] \in Hardwares
        /\ [hw EXCEPT !.failed = TRUE] \in Hardwares
    BY <1>a, <2>2, StepTyped
  <2>8. \E q \in {SleepLoop(p, p.count + 1), SleepLoop(bad, p.count + 1), r1},
           h \in {[asleep EXCEPT !.done = @ + 1], [asleep EXCEPT !.failed = TRUE],
                  [hw EXCEPT !.failed = TRUE]} : Does(q, h)
    BY <1>5 DEF specialWakeUpCoreDeAssert
  <2> HIDE DEF asleep, bad, r1
  <2> QED BY <1>c, <2>1, <2>5, <2>6, <2>7, <2>8, DoesMoves
<1> QED BY <1>1, <1>2, <1>3, <1>4, <1>5 DEF sbeCntlInst

----------------------------------------------------------------------------
(* The other chip-ops, and the response *)

LEMMA OtherMoves ==
    ASSUME Ready, \/ Istep \/ IstepRun \/ sbeHandleFlushNVDIMM \/ sbeGetCapabilities
                  \/ sbeGetFfdc \/ sbeFifoQuiesce \/ SendHeader
    PROVE  Moves
<1>a. \A l \in {"istep.run", "nvdimm.stop", "nvdimm.flush", "caps.send", "getffdc.send",
                "quiesce.suspend"} : l \in Closeds /\ l \in Plain /\ l \notin Looped
  BY ClosedLabels, PlainLabels DEF Looped, CoreLabels
<1>b. /\ Near("return") /\ Near("header") /\ ReqWords \in Nat /\ hw \in Hardwares /\ p \in Frames
      /\ "header" \in Closeds /\ "header" \notin Looped
      /\ {"INVALID_DATA", "EXECUTION_FAILURE"} \subseteq Status
  BY CommonNear, MemAssumption, ClosedLabels DEF Common, Ready, Looped, CoreLabels, Status
<1>c. ASSUME p.fn = "none", p.at \in Closeds
      PROVE  /\ Serves(p) /\ Move(To("header")) /\ Move(Failed("header"))
             /\ Move(Refuses("header", "INVALID_DATA")) /\ Move(Refuses("header", "EXECUTION_FAILURE"))
  BY <1>b, <1>c, ClosedPhase, ClosedJumps
<1>1. CASE Istep \/ Nvdimm \/ Caps \/ GetFfdc \/ Quiesce
  <2>1. PICK l \in {"istep.run", "nvdimm.stop", "caps.send", "getffdc.send", "quiesce.suspend"},
             b \in {"return", "header"}, n \in {0, ReqWords} :
            p.fn = "none" /\ p.at \in Starts /\ p.at \in Plain
            /\ Goes(Deq(p, l, b, n, TRUE, FALSE))
    BY <1>1, PlainLabels DEF Istep, Nvdimm, Caps, GetFfdc, Quiesce, At, Starts
  <2> QED BY <1>a, <1>b, <2>1, PlainStart
<1>2. CASE IstepRun \/ QuiesceSuspend
  <2>1. p.fn = "none" /\ p.at \in Closeds
        /\ \/ Goes(Refuses("header", "INVALID_DATA"))
           \/ Hwp(To("header"), hw, "header")
           \/ Does(To("header"), [hw EXCEPT !.done = @ + 1])
           \/ Does(Refuses("header", "EXECUTION_FAILURE"), [hw EXCEPT !.failed = TRUE])
    BY <1>2, <1>a DEF IstepRun, QuiesceSuspend, At
  <2> QED BY <1>b, <1>c, <2>1, HardwareTyped, GoesMoves, HwpMoves, DoesMoves
<1>3. CASE NvdimmStop \/ NvdimmFlush
  <2>1. PICK l \in {"nvdimm.flush", "header"} :
            /\ p.fn = "none" /\ p.at \in Closeds /\ p.at \in Plain /\ Hwp(To(l), hw, "header")
    BY <1>3, <1>a DEF NvdimmStop, NvdimmFlush, At
  <2>2. Near(l) /\ l \in Closeds /\ l \notin Looped
    BY <1>a, <1>b, <2>1, PlainNear
  <2> QED BY <1>b, <2>1, <2>2, ClosedHwp
<1>4. CASE CapsSend \/ GetFfdcSend
  <2>1. PICK words \in {Data(0, 2), HwpFfdc \o SbeFfdc, <<>> \o SbeFfdc} :
            p.fn = "none" /\ p.at \in Closeds /\ Goes(Enq(p, "header", "return", words))
    BY <1>4, <1>a DEF CapsSend, GetFfdcSend, At
  <2>2. words \in DownWords /\ words # <<>>
    <3>1. Data(0, 2) \in DownWords /\ Data(0, 2) # <<>>
      BY DataTyped
    <3>2. /\ HwpFfdc \o SbeFfdc \in DownWords /\ <<>> \o SbeFfdc \in DownWords
          /\ Len(HwpFfdc \o SbeFfdc) = Len(HwpFfdc) + Len(SbeFfdc)
          /\ Len(<<>> \o SbeFfdc) = Len(<<>>) + Len(SbeFfdc)
      BY HwpFfdcTyped, SbeFfdcTyped, EmptyTyped, Join, Zenon
    <3>3. Len(HwpFfdc \o SbeFfdc) > 0 /\ Len(<<>> \o SbeFfdc) > 0
      BY <3>2, HwpFfdcTyped, SbeFfdcTyped, FifoAssumption
    <3>4. ASSUME NEW s \in DownWords, Len(s) > 0 PROVE s # <<>>
      BY <3>4
    <3> QED BY <2>1, <3>1, <3>2, <3>3, <3>4
  <2>3. Move(Enq(p, "header", "return", words))
    BY <1>b, <2>1, <2>2, ClosedSends
  <2> QED BY <1>c, <2>1, <2>3, GoesMoves
<1>5. CASE SendHeader
  <2>1. p.fn = "none" /\ p.at \in Closeds /\ Goes(Header(p, <<>>))
    BY <1>5, <1>b DEF SendHeader, At
  <2>2. Move(Header(p, <<>>))
    BY <1>b, <2>1, EmptyTyped, ClosedHeader DEF Header
  <2> QED BY <1>c, <2>1, <2>2, GoesMoves
<1> QED BY <1>1, <1>2, <1>3, <1>4, <1>5
        DEF sbeHandleFlushNVDIMM, sbeGetCapabilities, sbeGetFfdc, sbeFifoQuiesce

\* The message is dropped: it lost its FIFO, or it has been answered.
Drops ==
    /\ Ends
    /\ p.fn = "none"
    /\ \/ p.at = "return" /\ p.rc \notin {"OK", "INSUFFICIENT_DATA", "EXCESS_DATA", "NOT_SUPPORTED"}
       \/ p.at = "response.flushed" /\ p.rc \in {"RESET", "ACCESS_FAILURE"}
       \/ p.at = "response.done"

LEMMA RespondMoves == ASSUME Ready, sbeHandleFifoResponse PROVE Moves \/ Drops
<1>a. \A l \in {"response.header", "response.flushed", "response.eot"} :
         l \in Closeds /\ l \notin Looped /\ Near(l) /\ l \in Labels
  BY ClosedLabels, CommonNear DEF Looped, CoreLabels, Common, Labels
<1>b. /\ Near("response.done") /\ p \in Frames /\ "OK" \in Status
      /\ {"NOT_SUPPORTED", "INVALID_DATA"} \subseteq Status
  BY CommonNear DEF Common, Ready, Status
<1>1. CASE Respond
  <2>1. p.fn = "none" /\ p.at = "return" /\ Serves(p)
    BY <1>1 DEF Respond, At, Serves
  <2>2. CASE p.rc = "NOT_SUPPORTED"
    <3>1. IsOpen(p, req)
      BY <2>1, <2>2 DEF IsOpen
    <3>2. /\ ~AtOpen("response.header", req) /\ Counted("response.header", p.count, req)
          /\ "response.header" \notin {"idle", "return", "response.done"} \cup Loops
      BY DEF AtOpen, Starts, ScomOps, PutLabels, Counted, CoreLabels, Loops
    <3>3. Move(Deq(p, "response.header", "response.flushed", 1, TRUE, TRUE))
      BY <1>a, <1>b, <2>1, <2>2, <3>1, <3>2, MoveDeq
    <3> QED BY <1>1, <2>1, <2>2, <3>3, GoesMoves DEF Respond
  <2>3. CASE p.rc \in {"INSUFFICIENT_DATA", "EXCESS_DATA"}
    <3> DEFINE q == To("response.header")
    <3>1. q \in Frames /\ q.fn = "none" /\ q.rc = p.rc /\ q.at = "response.header"
      BY <1>a, <1>b, <2>1, FailedTyped
    <3> HIDE DEF q
    <3>2. /\ ~AtOpen("response.header", req) /\ Counted("response.header", q.count, req)
          /\ "response.header" \notin {"idle", "return", "response.done"} \cup Loops
          /\ ~AtOpen("return", req)
      BY DEF AtOpen, Starts, ScomOps, PutLabels, Counted, CoreLabels, Loops
    <3>3. ~IsOpen(q, req) /\ ~IsOpen(p, req) /\ IsClosed(p, req)
      BY <2>1, <2>3, <3>1, <3>2 DEF IsOpen, IsClosed
    <3>4. Move(q)
      BY <1>a, <2>1, <2>3, <3>1, <3>2, <3>3, MoveTo
    <3>5. Goes(q)
      BY <1>1, <2>3 DEF Respond, q
    <3> QED BY <2>1, <3>4, <3>5, GoesMoves
  <2>4. CASE p.rc = "OK"
    <3>1. IsClosed(p, req)
      BY <2>1, <2>4 DEF IsClosed, IsOpen, AtOpen, Starts, ScomOps, PutLabels
    <3>2. Goes(Eot(p, "response.done", "response.done"))
      BY <1>1, <2>4 DEF Respond
    <3> QED BY <2>1, <2>4, <3>1, <3>2, MoveEot, GoesMoves
  <2>5. CASE p.rc \notin {"OK", "INSUFFICIENT_DATA", "EXCESS_DATA", "NOT_SUPPORTED"}
    BY <1>1, <2>1, <2>5 DEF Respond, Drops
  <2> QED BY <2>2, <2>3, <2>4, <2>5
<1>2. CASE RespondFlushed
  <2>1. p.fn = "none" /\ p.at = "response.flushed"
    BY <1>2 DEF RespondFlushed, At
  <2>2. Move(To("response.header"))
    BY <1>a, <1>b, <2>1, ClosedJumps
  <2> QED BY <1>2, <1>a, <2>1, <2>2, ClosedPhase, GoesMoves DEF RespondFlushed, Drops
<1>3. CASE RespondHeader
  <2> DEFINE s == IF req.op = "unknown" THEN "NOT_SUPPORTED" ELSE "INVALID_DATA"
  <2>1. p.fn = "none" /\ p.at = "response.header" /\ s \in Status
        /\ Goes(Enq(p, "response.eot", "response.done", RespHdr(s, FALSE)))
    BY <1>3, <1>b DEF RespondHeader, At
  <2> HIDE DEF s
  <2>2. RespHdr(s, FALSE) \in DownWords /\ RespHdr(s, FALSE) # <<>>
    <3> DEFINE h == RespHdr(s, FALSE)
    <3>1. h \in DownWords /\ Len(h) >= 3
      BY <2>1, RespHdrShape
    <3> HIDE DEF h
    <3>2. h # <<>>
      BY <3>1
    <3> QED BY <3>1, <3>2 DEF h
  <2>3. Move(Enq(p, "response.eot", "response.done", RespHdr(s, FALSE)))
    BY <1>a, <1>b, <2>1, <2>2, ClosedSends
  <2> QED BY <1>a, <2>1, <2>3, ClosedPhase, GoesMoves
<1>4. CASE RespondEot
  <2>1. p.fn = "none" /\ p.at \in Closeds /\ Goes(Eot(p, "response.done", "response.done"))
    BY <1>4, <1>a DEF RespondEot, At
  <2> QED BY <2>1, ClosedPhase, MoveEot, GoesMoves
<1>5. CASE RespondDone
  BY <1>5 DEF RespondDone, At, Drops
<1> QED BY <1>1, <1>2, <1>3, <1>4, <1>5 DEF sbeHandleFifoResponse

LEMMA ChipOpMoves == ASSUME Ready, ChipOp PROVE Moves \/ Drops
  BY MemoryMoves, ScomMoves, RegMoves, GetRingMoves, PutRingMoves, ArrayMoves, CntlInstMoves,
     OtherMoves, RespondMoves DEF ChipOp

(***************************************************************************)
(* The invariant.  Stream is the part of the message that the SBE has not  *)
(* taken: what it is made of follows from where the chip-op is, as long as *)
(* no register access failed and no reset is asked for.                    *)
(***************************************************************************)
Stream == up \o sp.left

NoCommand(s) == \A i \in 1..Len(s) : s[i][1] # "cmd"
NoEot(s) == \A i \in 1..Len(s) : s[i][1] # "eot"
EotLast(s) == \A i \in 1..(Len(s) - 1) : s[i][1] # "eot"

\* The rest of a message of which n words have been taken, and a whole message.
Rest(s, n) ==
    /\ Len(s) >= 1 /\ s[Len(s)] = <<"eot">>
    /\ \A i \in 1..(Len(s) - 1) : s[i] = <<"arg", n + i>>
Whole(s) == Len(s) >= 2 /\ s[1][1] = "cmd" /\ Rest(Tail(s), 0)

Wires ==
    /\ up \in UpWords /\ Len(up) <= UpDepth
    /\ down \in Seq(DownWord \cup {<<"eot">>}) /\ Len(down) <= DownDepth
    /\ reset \in BOOLEAN /\ faults \in 0..ScomFaults
    /\ sp \in [busy : BOOLEAN, left : UpWords, got : DownWords]

FaultInv == faults > 0 => p.at \in AfterFault

SpState == (~sp.busy => sp = Idle) /\ (reset => ~sp.busy)

\* While a message is served; between two messages.
Serving ==
    /\ sp.busy /\ NoCommand(Stream) /\ NoEot(down)
    /\ faults = 0 /\ RegsAccepted => /\ IsOpen(p, req) => \E n \in Nat : Rest(Stream, n)
                                     /\ IsClosed(p, req) => Stream = <<>>

Asks ==
    \/ Whole(Stream) /\ down = <<>> /\ sp.got = <<>>
    \/ /\ NoCommand(Stream) /\ EotLast(down)
       /\ p.at = "response.done" /\ faults = 0 /\ RegsAccepted => Stream = <<>>
    \/ up # <<>> /\ Head(up)[1] # "cmd" /\ down = <<>> /\ sp.got = <<>>

Boundary ==
    ~reset => /\ Serves(p) => Serving
              /\ ~Serves(p) /\ sp.busy => Asks
              /\ ~Serves(p) /\ ~sp.busy => down = <<>> /\ NoCommand(up)

Inv == Wires /\ Ready /\ FaultInv /\ SpState /\ Boundary

----------------------------------------------------------------------------
(* Facts about the streams *)

LEMMA TailOf ==
    ASSUME NEW S, NEW s \in Seq(S), s # <<>>
    PROVE  /\ Tail(s) \in Seq(S) /\ Len(Tail(s)) = Len(s) - 1 /\ Len(s) >= 1 /\ Len(s) \in Nat
           /\ Head(s) = s[1] /\ s[1] \in S
           /\ \A i \in 1..(Len(s) - 1) : Tail(s)[i] = s[i + 1]
  BY HeadTailProperties

LEMMA TailCommand ==
    ASSUME NEW S, NEW s \in Seq(S), s # <<>>, NoCommand(s) PROVE NoCommand(Tail(s))
  BY TailOf DEF NoCommand

LEMMA TailRest ==
    ASSUME NEW s \in UpWords, s # <<>>, NEW n \in Nat, Rest(s, n)
    PROVE  /\ s[1] = <<"eot">> => Tail(s) = <<>>
           /\ s[1] # <<"eot">> => s[1] = <<"arg", n + 1>> /\ Rest(Tail(s), n + 1)
<1>1. /\ Tail(s) \in UpWords /\ Len(Tail(s)) = Len(s) - 1 /\ Len(s) >= 1 /\ Len(s) \in Nat
      /\ \A i \in 1..(Len(s) - 1) : Tail(s)[i] = s[i + 1]
  BY TailOf DEF UpWords
<1>2. CASE Len(s) = 1
  <2>1. s[1] = <<"eot">>
    BY <1>2 DEF Rest
  <2>2. Tail(s) = <<>>
    <3> DEFINE t == Tail(s)
    <3>1. t \in Seq(UpWord) /\ Len(t) = 0
      BY <1>1, <1>2 DEF UpWords
    <3> HIDE DEF t
    <3>2. t = <<>>
      BY <3>1
    <3> QED BY <3>2 DEF t
  <2> QED BY <2>1, <2>2
<1>3. CASE Len(s) > 1
  <2>1. s[1] = <<"arg", n + 1>> /\ s[1] # <<"eot">>
    BY <1>1, <1>3 DEF Rest
  <2>2. Rest(Tail(s), n + 1)
    <3>1. Len(Tail(s)) >= 1 /\ Tail(s)[Len(Tail(s))] = <<"eot">>
      BY <1>1, <1>3 DEF Rest
    <3>2. ASSUME NEW i \in 1..(Len(Tail(s)) - 1) PROVE Tail(s)[i] = <<"arg", n + 1 + i>>
      <4>1. i + 1 \in 1..(Len(s) - 1) /\ i \in 1..(Len(s) - 1) /\ n + (i + 1) = n + 1 + i
        BY <1>1
      <4> QED BY <1>1, <4>1 DEF Rest
    <3> QED BY <3>1, <3>2 DEF Rest
  <2> QED BY <2>1, <2>2
<1> QED BY <1>1, <1>2, <1>3

LEMMA JoinUp ==
    ASSUME NEW a \in UpWords, NEW b \in UpWords
    PROVE  /\ a \o b \in UpWords /\ Len(a \o b) = Len(a) + Len(b)
           /\ \A i \in 1..(Len(a) + Len(b)) : (a \o b)[i] = IF i <= Len(a) THEN a[i] ELSE b[i - Len(a)]
           /\ Len(a) \in Nat /\ Len(b) \in Nat
           /\ a \o b = <<>> => a = <<>> /\ b = <<>>
<1>1. /\ a \o b \in UpWords /\ Len(a \o b) = Len(a) + Len(b)
      /\ \A i \in 1..(Len(a) + Len(b)) : (a \o b)[i] = IF i <= Len(a) THEN a[i] ELSE b[i - Len(a)]
  BY ConcatProperties DEF UpWords
<1>2. Len(a) \in Nat /\ Len(b) \in Nat
  BY DEF UpWords
<1>3. ASSUME a \o b = <<>> PROVE a = <<>> /\ b = <<>>
  <2>1. Len(a \o b) = 0
    BY <1>3
  <2>2. Len(a) = 0 /\ Len(b) = 0
    BY <1>1, <1>2, <2>1
  <2> QED BY <2>2 DEF UpWords
<1> QED BY <1>1, <1>2, <1>3

LEMMA TakeHead ==
    ASSUME NEW a \in UpWords, NEW b \in UpWords, a # <<>>
    PROVE  /\ Tail(a) \o b = Tail(a \o b) /\ a \o b # <<>> /\ (a \o b)[1] = Head(a)
           /\ Tail(a) \in UpWords /\ Head(a) \in UpWord
<1>1. /\ Tail(a) \in UpWords /\ Len(Tail(a)) = Len(a) - 1 /\ Len(a) >= 1 /\ Len(a) \in Nat
      /\ Head(a) = a[1] /\ a[1] \in UpWord
      /\ \A i \in 1..(Len(a) - 1) : Tail(a)[i] = a[i + 1]
  BY TailOf DEF UpWords
<1>2. /\ a \o b \in UpWords /\ Len(a \o b) = Len(a) + Len(b) /\ Len(b) \in Nat
      /\ \A i \in 1..(Len(a) + Len(b)) : (a \o b)[i] = IF i <= Len(a) THEN a[i] ELSE b[i - Len(a)]
  BY JoinUp
<1>3. a \o b # <<>>
  BY JoinUp
<1>4. /\ Tail(a \o b) \in UpWords /\ Len(Tail(a \o b)) = Len(a) + Len(b) - 1
      /\ \A i \in 1..(Len(a) + Len(b) - 1) : Tail(a \o b)[i] = (a \o b)[i + 1]
  BY <1>2, <1>3, TailOf DEF UpWords
<1>5. /\ Tail(a) \o b \in UpWords /\ Len(Tail(a) \o b) = Len(a) - 1 + Len(b)
      /\ \A i \in 1..(Len(a) - 1 + Len(b)) :
            (Tail(a) \o b)[i] = IF i <= Len(a) - 1 THEN Tail(a)[i] ELSE b[i - (Len(a) - 1)]
  BY <1>1, JoinUp
<1>6. \A i \in 1..(Len(a) - 1 + Len(b)) : (Tail(a) \o b)[i] = Tail(a \o b)[i]
  <2> SUFFICES ASSUME NEW i \in 1..(Len(a) - 1 + Len(b))
               PROVE  (Tail(a) \o b)[i] = Tail(a \o b)[i]
    OBVIOUS
  <2>1. Tail(a \o b)[i] = IF i + 1 <= Len(a) THEN a[i + 1] ELSE b[i + 1 - Len(a)]
    BY <1>1, <1>2, <1>4
  <2>2. (Tail(a) \o b)[i] = IF i <= Len(a) - 1 THEN a[i + 1] ELSE b[i - (Len(a) - 1)]
    BY <1>1, <1>2, <1>5
  <2>3. i - (Len(a) - 1) = i + 1 - Len(a)
    BY <1>1
  <2> QED BY <1>1, <2>1, <2>2, <2>3
<1>7. Tail(a) \o b = Tail(a \o b)
  BY <1>1, <1>2, <1>4, <1>5, <1>6, SeqEqual DEF UpWords
<1>8. (a \o b)[1] = a[1]
  BY <1>1, <1>2
<1> QED BY <1>1, <1>3, <1>7, <1>8

LEMMA MoveWord ==
    ASSUME NEW a \in UpWords, NEW b \in UpWords, b # <<>>
    PROVE  /\ Append(a, Head(b)) \o Tail(b) = a \o b
           /\ Append(a, Head(b)) \in UpWords /\ Tail(b) \in UpWords
           /\ Len(Append(a, Head(b))) = Len(a) + 1
           /\ a # <<>> => Head(Append(a, Head(b))) = Head(a)
           /\ Append(a, Head(b)) # <<>>
<1> DEFINE c == Append(a, Head(b))
<1>1. /\ Tail(b) \in UpWords /\ Len(Tail(b)) = Len(b) - 1 /\ Len(b) >= 1 /\ Len(b) \in Nat
      /\ Head(b) = b[1] /\ b[1] \in UpWord
      /\ \A i \in 1..(Len(b) - 1) : Tail(b)[i] = b[i + 1]
  BY TailOf DEF UpWords
<1>2. /\ c \in UpWords /\ Len(c) = Len(a) + 1 /\ Len(a) \in Nat /\ c[Len(a) + 1] = b[1]
      /\ \A i \in 1..Len(a) : c[i] = a[i]
  BY <1>1, AppendProperties DEF UpWords
<1> HIDE DEF c
<1>3. /\ a \o b \in UpWords /\ Len(a \o b) = Len(a) + Len(b)
      /\ \A i \in 1..(Len(a) + Len(b)) : (a \o b)[i] = IF i <= Len(a) THEN a[i] ELSE b[i - Len(a)]
  BY JoinUp
<1>4. /\ c \o Tail(b) \in UpWords /\ Len(c \o Tail(b)) = Len(c) + Len(Tail(b))
      /\ \A i \in 1..(Len(c) + Len(Tail(b))) :
            (c \o Tail(b))[i] = IF i <= Len(c) THEN c[i] ELSE Tail(b)[i - Len(c)]
  BY <1>1, <1>2, JoinUp
<1>5. \A i \in 1..(Len(a) + Len(b)) : (c \o Tail(b))[i] = (a \o b)[i]
  <2> SUFFICES ASSUME NEW i \in 1..(Len(a) + Len(b)) PROVE (c \o Tail(b))[i] = (a \o b)[i]
    OBVIOUS
  <2>1. CASE i <= Len(a)
    BY <1>1, <1>2, <1>3, <1>4, <2>1
  <2>2. CASE i = Len(a) + 1
    BY <1>1, <1>2, <1>3, <1>4, <2>2
  <2>3. CASE i > Len(a) + 1
    <3>1. i - Len(c) \in 1..(Len(b) - 1) /\ (i - Len(c)) + 1 = i - Len(a)
      BY <1>1, <1>2, <2>3
    <3>2. (c \o Tail(b))[i] = Tail(b)[i - Len(c)]
      BY <1>1, <1>2, <1>4, <2>3
    <3>3. Tail(b)[i - Len(c)] = b[i - Len(a)]
      BY <1>1, <3>1
    <3> QED BY <1>2, <1>3, <2>3, <3>2, <3>3
  <2> QED BY <1>2, <2>1, <2>2, <2>3
<1>6. c \o Tail(b) = a \o b
  BY <1>1, <1>2, <1>3, <1>4, <1>5, SeqEqual DEF UpWords
<1>7. c # <<>> /\ (a # <<>> => Head(c) = Head(a))
  <2>1. c # <<>>
    BY <1>2
  <2>2. ASSUME a # <<>> PROVE Head(c) = Head(a)
    <3>1. Head(a) = a[1] /\ Len(a) >= 1
      BY <2>2, TailOf DEF UpWords
    <3>2. Head(c) = c[1]
      BY <1>2, <2>1, TailOf DEF UpWords
    <3> QED BY <1>2, <3>1, <3>2
  <2> QED BY <2>1, <2>2
<1> QED BY <1>1, <1>2, <1>6, <1>7 DEF c

----------------------------------------------------------------------------
(* The FIFO layer keeps the invariant *)

LEMMA ReturnTyped ==
    ASSUME NEW q \in Frames, NEW rc \in Rc
    PROVE  /\ Return(q, rc) \in Frames /\ Return(q, rc).fn = "none" /\ Return(q, rc).rc = rc
           /\ Return(q, rc).at = (IF rc = "OK" THEN q.at ELSE q.brk)
           /\ Return(q, rc).buf = q.buf /\ Return(q, rc).count = q.count
           /\ Return(q, rc).status = q.status
<1> DEFINE a == IF rc = "OK" THEN q.at ELSE q.brk
           r == [q EXCEPT !.fn = "none", !.out = <<>>, !.rc = rc, !.at = a]
<1>1. a \in Labels /\ Return(q, rc) = r
  BY DEF Frames, Return
<1> HIDE DEF a
<1>2. /\ r \in Frames /\ r.fn = "none" /\ r.rc = rc /\ r.at = a /\ r.buf = q.buf
      /\ r.count = q.count /\ r.status = q.status
  BY <1>1, EmptyTyped DEF Frames
<1> HIDE DEF r
<1> QED BY <1>1, <1>2 DEF a

\* A routine comes back: the chip-op goes on as its call said.
LEMMA ReturnControl ==
    ASSUME NEW q \in Frames, NEW r, Control(q, r), q.fn # "none",
           NEW rc \in Rc, rc # "NOT_SUPPORTED",
           rc = "OK" /\ q.at \in {"reg.setup", "reg.access"} /\ r.op = "putreg" =>
               Len(q.buf) = 3 * r.len
    PROVE  /\ Return(q, rc) \in Frames /\ Calls(Return(q, rc)) /\ Control(Return(q, rc), r)
           /\ rc # "OK" => Return(q, rc).at \in AfterFault
<1> DEFINE d == Return(q, rc)
<1>1. /\ d \in Frames /\ d.fn = "none" /\ d.rc = rc
      /\ d.at = (IF rc = "OK" THEN q.at ELSE q.brk) /\ d.buf = q.buf /\ d.count = q.count
  BY ReturnTyped
<1>a. q.fn \in {"deq", "enq", "eot"}
  BY DEF Frames
<1> HIDE DEF d
<1>2. CASE rc = "OK"
  <2>1. Filled(d, r)
    BY <1>1, <1>2 DEF Filled
  <2>2. Control(d, r)
    BY <1>1, <1>2, <2>1 DEF Control
  <2> QED BY <1>1, <1>2, <2>2 DEF Calls, d
<1>3. CASE rc # "OK"
  <2>1. q.brk \in {"return", "header", "response.flushed", "reg.cleanup", "response.done"}
    BY <1>a DEF Control
  <2>2. d.at \in AfterFault /\ d.at \notin Loops /\ d.at \notin {"reg.setup", "reg.access"}
        /\ Counted(d.at, d.count, r)
    BY <1>1, <1>3, <2>1 DEF AfterFault, Common, Loops, Counted, CoreLabels
  <2>3. Filled(d, r) /\ Owned(d.at, r)
    BY <1>1, <1>3, <2>2 DEF Filled, Control
  <2>4. Control(d, r)
    BY <1>1, <2>2, <2>3 DEF Control
  <2> QED BY <1>1, <2>2, <2>4 DEF Calls, d
<1> QED BY <1>2, <1>3

\* A word is taken: it is kept or counted.
LEMMA WordTaken ==
    ASSUME Ready, p.fn = "deq", NEW w \in Nat \cup Requests
    PROVE  LET q == IF ~p.flush /\ Taken < p.want
                    THEN [p EXCEPT !.buf = Append(@, w)] ELSE [p EXCEPT !.extra = 1]
           IN  /\ q \in Frames /\ Calls(q) /\ Control(q, req)
               /\ q.fn = "deq" /\ q.at = p.at /\ q.eot = p.eot /\ q.flush = p.flush
<1>1. p \in Frames /\ p.buf \in Buffers /\ Len(p.buf) \in Nat /\ p.extra \in {0, 1} /\ p.want \in Nat
  BY DEF Ready, Frames, Buffers
<1>2. /\ Len(p.buf) <= p.want /\ (p.extra = 1 => p.flush \/ Len(p.buf) = p.want)
  BY DEF Ready, Calls
<1>3. CASE ~p.flush /\ Taken < p.want
  <2> DEFINE b == Append(p.buf, w)
             q == [p EXCEPT !.buf = b]
  <2>1. b \in Buffers /\ Len(b) = Len(p.buf) + 1
    BY <1>1, AppendProperties DEF Buffers
  <2>2. p.extra = 0 /\ Len(p.buf) < p.want
    BY <1>1, <1>2, <1>3 DEF Taken
  <2> HIDE DEF b
  <2>3. /\ q \in Frames /\ q.fn = "deq" /\ q.at = p.at /\ q.eot = p.eot /\ q.flush = p.flush
        /\ q.brk = p.brk /\ q.rc = p.rc /\ q.count = p.count /\ q.want = p.want /\ q.buf = b
        /\ q.extra = p.extra
    BY <1>1, <2>1 DEF Frames
  <2> HIDE DEF q
  <2>4. Calls(q)
    BY <1>1, <2>1, <2>2, <2>3 DEF Calls
  <2>5. Control(q, req)
    <3>1. Filled(q, req)
      BY <2>3 DEF Ready, Control, Filled
    <3> QED BY <2>3, <3>1 DEF Ready, Control
  <2> QED BY <1>3, <2>3, <2>4, <2>5 DEF q, b
<1>4. CASE ~(~p.flush /\ Taken < p.want)
  <2> DEFINE q == [p EXCEPT !.extra = 1]
  <2>1. /\ q \in Frames /\ q.fn = "deq" /\ q.at = p.at /\ q.eot = p.eot /\ q.flush = p.flush
        /\ q.brk = p.brk /\ q.rc = p.rc /\ q.count = p.count /\ q.want = p.want /\ q.buf = p.buf
    BY <1>1 DEF Frames
  <2>2. p.flush \/ Len(p.buf) = p.want
    BY <1>1, <1>2, <1>4 DEF Taken
  <2> HIDE DEF q
  <2>3. Calls(q)
    BY <1>1, <1>2, <2>1, <2>2 DEF Calls
  <2>4. Control(q, req)
    <3>1. Filled(q, req)
      BY <2>1 DEF Ready, Control, Filled
    <3> QED BY <2>1, <3>1 DEF Ready, Control
  <2> QED BY <1>4, <2>1, <2>3, <2>4 DEF q
<1> QED BY <1>3, <1>4

\* What a step of the dequeue makes of the frame, by the entry it meets.
LEMMA WordFrame ==
    ASSUME Ready, p.fn = "deq", NEW w \in Nat \cup Requests
    PROVE  /\ DeqWord(w) \in Frames /\ Calls(DeqWord(w)) /\ Control(DeqWord(w), req)
           /\ IsOpen(DeqWord(w), req) /\ DeqWord(w).at = p.at /\ Serves(DeqWord(w))
<1> DEFINE q == IF ~p.flush /\ Taken < p.want
                THEN [p EXCEPT !.buf = Append(@, w)] ELSE [p EXCEPT !.extra = 1]
           more == p.flush \/ p.eot \/ Taken + 1 < p.want
           d == DeqWord(w)
<1>1. /\ q \in Frames /\ Calls(q) /\ Control(q, req)
      /\ q.fn = "deq" /\ q.at = p.at /\ q.eot = p.eot /\ q.flush = p.flush
  BY WordTaken
<1>2. d = IF more THEN q ELSE Return(q, "OK")
  BY DEF DeqWord
<1> HIDE DEF q, d
<1>3. CASE more
  BY <1>1, <1>2, <1>3 DEF IsOpen, Serves, d
<1>4. CASE ~more
  <2>1. ~p.eot /\ ~q.eot
    BY <1>1, <1>4
  <2>2. AtOpen(q.at, req)
    BY <1>1, <2>1 DEF Control
  <2>3. q.at \notin {"reg.setup", "reg.access", "idle", "response.done"}
    BY <2>2 DEF AtOpen, Starts, ScomOps, PutLabels
  <2>4. "OK" \in Rc
    BY DEF Rc
  <2>5. d \in Frames /\ Calls(d) /\ Control(d, req)
    BY <1>1, <1>2, <1>4, <2>3, <2>4, ReturnControl
  <2>6. d.fn = "none" /\ d.at = p.at
    BY <1>1, <1>2, <1>4, <2>4, ReturnTyped
  <2> QED BY <1>1, <2>2, <2>3, <2>5, <2>6 DEF IsOpen, Serves, d
<1> QED BY <1>3, <1>4

LEMMA EotFrame ==
    ASSUME Ready, p.fn = "deq", NEW d, d = Return(p, EotRc(Taken))
    PROVE  /\ d \in Frames /\ Calls(d) /\ Control(d, req) /\ ~IsOpen(d, req)
           /\ d.fn = "none" /\ d.at \in AfterFault \cup {p.at} /\ Serves(d)
<1> DEFINE rc == EotRc(Taken)
<1>1. rc \in {"OK", "INSUFFICIENT_DATA", "EXCESS_DATA"}
  BY DEF EotRc
<1>2. p \in Frames /\ p.buf \in Buffers /\ Len(p.buf) \in Nat /\ p.extra \in {0, 1} /\ p.want \in Nat
  BY DEF Ready, Frames, Buffers
<1>3. ASSUME rc = "OK", p.at \in {"reg.setup", "reg.access"}, req.op = "putreg"
      PROVE  Len(p.buf) = 3 * req.len
  <2>1. p.want = 3 * req.len /\ ~p.flush
    BY <1>3 DEF Ready, Control, Filled
  <2>2. Taken = p.want
    BY <1>3, <2>1 DEF EotRc
  <2>3. p.extra = 1 => Len(p.buf) = p.want
    BY <2>1 DEF Ready, Calls
  <2> QED BY <1>2, <2>1, <2>2, <2>3 DEF Taken
<1>4. rc = "OK" => p.eot
  BY DEF EotRc, Ready, Control
<1> HIDE DEF rc
<1>5. rc \in Rc /\ rc # "NOT_SUPPORTED"
  BY <1>1 DEF Rc
<1>6. d \in Frames /\ Calls(d) /\ Control(d, req) /\ (rc # "OK" => d.at \in AfterFault)
  BY <1>2, <1>3, <1>5, ReturnControl DEF Ready, rc
<1>7. d.fn = "none" /\ d.rc = rc /\ d.at = (IF rc = "OK" THEN p.at ELSE p.brk)
  BY <1>2, <1>5, ReturnTyped DEF rc
<1>8. CASE rc = "OK"
  <2>1. ~AtOpen(p.at, req) /\ p.at \notin {"idle", "return", "response.done"}
    BY <1>4, <1>8 DEF Ready, Control
  <2> QED BY <1>6, <1>7, <1>8, <2>1 DEF IsOpen, Serves
<1>9. CASE rc # "OK"
  <2>1. p.brk \in {"return", "header", "response.flushed"}
    BY DEF Ready, Control
  <2>2. ~AtOpen(p.brk, req)
    BY <2>1 DEF AtOpen, Starts, ScomOps, PutLabels
  <2> QED BY <1>5, <1>6, <1>7, <1>9, <2>1, <2>2 DEF IsOpen, Serves
<1> QED BY <1>8, <1>9

LEMMA UpWordKinds ==
    ASSUME NEW w \in UpWord
    PROVE  /\ w[1] \in {"cmd", "arg", "eot"}
           /\ w[1] = "eot" <=> w = <<"eot">>
           /\ w[1] # "eot" => w[2] \in Nat \cup Requests
           /\ w[1] = "cmd" => w[2] \in Requests
  BY DEF UpWord

LEMMA StreamTyped ==
    ASSUME Wires PROVE Stream \in UpWords /\ up \in UpWords /\ sp.left \in UpWords
  BY JoinUp DEF Wires, Stream

LEMMA DeqKeeps ==
    ASSUME Inv, sbeUpFifoDeq_mult, UNCHANGED <<req, hw, sp>>
    PROVE  Inv'
<1>a. Ready /\ Wires /\ p.fn = "deq" /\ p \in Frames /\ Control(p, req) /\ Serves(p)
      /\ UNCHANGED <<down, reset, faults>>
  BY DEF Inv, Ready, sbeUpFifoDeq_mult, Serves
<1>1. CASE reset /\ p' = Return(p, "RESET") /\ UNCHANGED up
  <2>1. "RESET" \in Rc
    BY DEF Rc
  <2>2. p' \in Frames /\ Calls(p') /\ Control(p', req) /\ p'.at \in AfterFault
    BY <1>1, <1>a, <2>1, ReturnControl
  <2>3. Ready' /\ FaultInv'
    BY <1>a, <2>2 DEF Ready, FaultInv
  <2>4. Wires' /\ SpState'
    BY <1>1, <1>a DEF Inv, Wires, SpState, Idle
  <2>5. Boundary'
    BY <1>1, <1>a DEF Boundary
  <2> QED BY <2>3, <2>4, <2>5 DEF Inv
<1>2. CASE /\ ~reset /\ up # <<>> /\ up' = Tail(up)
           /\ p' = IF Head(up)[1] = "eot" THEN Return(p, EotRc(Taken)) ELSE DeqWord(Head(up)[2])
  <2>1. /\ Stream' = Tail(Stream) /\ Stream # <<>> /\ Stream[1] = Head(up) /\ Tail(up) \in UpWords
        /\ Head(up) \in UpWord /\ Len(Tail(up)) = Len(up) - 1 /\ Len(up) \in Nat
    <3>1. sp.left \in UpWords /\ up \in UpWords
      BY <1>a, StreamTyped
    <3>2. /\ Tail(up) \o sp.left = Tail(up \o sp.left) /\ up \o sp.left # <<>>
          /\ (up \o sp.left)[1] = Head(up) /\ Tail(up) \in UpWords /\ Head(up) \in UpWord
      BY <1>2, <3>1, TakeHead
    <3>3. Len(Tail(up)) = Len(up) - 1 /\ Len(up) \in Nat
      BY <1>2, <3>1, TailOf DEF UpWords
    <3> QED BY <1>2, <3>2, <3>3 DEF Stream
  <2>2. Serving /\ Stream \in UpWords
    BY <1>2, <1>a, StreamTyped DEF Inv, Boundary
  <2>3. NoCommand(Stream')
    BY <2>1, <2>2, TailCommand DEF Serving, UpWords
  <2>4. Wires' /\ SpState'
    <3>1. Len(up') <= UpDepth
      BY <1>2, <1>a, <2>1, FifoAssumption DEF Wires
    <3> QED BY <1>2, <1>a, <2>1, <3>1 DEF Inv, Wires, SpState, Idle
  <2>5. /\ Head(up)[1] = "eot" <=> Head(up) = <<"eot">>
        /\ Head(up)[1] # "eot" => Head(up)[2] \in Nat \cup Requests
    BY <2>1, UpWordKinds
  <2>6. ASSUME faults = 0, RegsAccepted PROVE \E n \in Nat : Rest(Stream, n)
    BY <1>a, <2>2, <2>6 DEF Serving, IsOpen
  <2>7. CASE Head(up)[1] = "eot"
    <3>1. p' = Return(p, EotRc(Taken))
      BY <1>2, <2>7
    <3>2. /\ p' \in Frames /\ Calls(p') /\ Control(p', req) /\ ~IsOpen(p', req)
          /\ p'.at \in AfterFault \cup {p.at} /\ Serves(p')
      BY <1>a, <3>1, EotFrame
    <3>3. Ready' /\ FaultInv'
      BY <1>a, <3>2 DEF Inv, Ready, FaultInv
    <3>4. faults = 0 /\ RegsAccepted => Stream' = <<>>
      BY <2>1, <2>2, <2>5, <2>6, <2>7, TailRest
    <3>5. Serving'
      BY <1>a, <2>2, <2>3, <3>2, <3>4 DEF Serving
    <3> QED BY <1>2, <1>a, <2>4, <3>2, <3>3, <3>5 DEF Inv, Boundary
  <2>8. CASE Head(up)[1] # "eot"
    <3>1. /\ p' \in Frames /\ Calls(p') /\ Control(p', req) /\ IsOpen(p', req)
          /\ p'.at = p.at /\ Serves(p')
      BY <1>2, <1>a, <2>5, <2>8, WordFrame
    <3>2. Ready' /\ FaultInv'
      BY <1>a, <3>1 DEF Inv, Ready, FaultInv
    <3>3. ~IsClosed(p', req)
      BY <3>1 DEF IsClosed, IsOpen
    <3>4. faults = 0 /\ RegsAccepted => \E n \in Nat : Rest(Stream', n)
      <4> SUFFICES ASSUME faults = 0, RegsAccepted PROVE \E n \in Nat : Rest(Stream', n)
        OBVIOUS
      <4>1. PICK n \in Nat : Rest(Stream, n)
        BY <2>6
      <4>2. Rest(Stream', n + 1)
        BY <2>1, <2>2, <2>5, <2>8, <4>1, TailRest
      <4> QED BY <4>2
    <3>5. Serving'
      BY <1>a, <2>2, <2>3, <3>3, <3>4 DEF Serving
    <3> QED BY <1>2, <1>a, <2>4, <3>1, <3>2, <3>5 DEF Inv, Boundary
  <2> QED BY <2>7, <2>8
<1> QED BY <1>1, <1>2 DEF sbeUpFifoDeq_mult

\* A routine that sends comes back, or goes on.
LEMMA SendFrame ==
    ASSUME Ready, p.fn = "enq", NEW d, d = IF Len(p.out) > 1 THEN [p EXCEPT !.out = Tail(@)] ELSE Return(p, "OK")
    PROVE  /\ d \in Frames /\ Calls(d) /\ Control(d, req) /\ ~IsOpen(d, req) /\ d.at = p.at /\ Serves(d)
<1>1. p \in Frames /\ p.out \in DownWords /\ p.out # <<>> /\ Control(p, req)
  BY DEF Ready, Frames, Calls
<1>2. ~AtOpen(p.at, req) /\ p.at \notin {"idle", "response.done"}
  BY DEF Ready, Control
<1>3. CASE Len(p.out) > 1
  <2> DEFINE o == Tail(p.out)
  <2>1. o \in DownWords /\ Len(o) = Len(p.out) - 1 /\ Len(p.out) \in Nat
    BY <1>1, TailOf DEF DownWords
  <2> HIDE DEF o
  <2>2. o # <<>>
    BY <1>3, <2>1
  <2>3. d = [p EXCEPT !.out = o]
    BY <1>1, <1>3 DEF o, Frames
  <2>4. /\ d \in Frames /\ d.fn = "enq" /\ d.at = p.at /\ d.brk = p.brk /\ d.rc = p.rc /\ d.out = o
        /\ d.count = p.count
    BY <1>1, <2>1, <2>3 DEF Frames
  <2>5. Control(d, req)
    BY <1>1, <2>4 DEF Control, Filled
  <2> QED BY <2>2, <2>4, <2>5 DEF Calls, IsOpen, Serves
<1>4. CASE ~(Len(p.out) > 1)
  <2>1. "OK" \in Rc
    BY DEF Rc
  <2>2. ~(p.at \in {"reg.setup", "reg.access"} /\ req.op = "putreg")
    BY DEF Ready, Control, Filled
  <2>3. d \in Frames /\ Calls(d) /\ Control(d, req)
    BY <1>1, <1>4, <2>1, <2>2, ReturnControl
  <2>4. d.fn = "none" /\ d.at = p.at /\ d.rc = "OK"
    BY <1>1, <1>4, <2>1, ReturnTyped
  <2> QED BY <1>2, <2>3, <2>4 DEF IsOpen, Serves
<1> QED BY <1>3, <1>4

LEMMA EnqKeeps ==
    ASSUME Inv, sbeDownFifoEnq_mult, UNCHANGED <<req, hw, sp>>
    PROVE  Inv'
<1>a. Ready /\ Wires /\ p.fn = "enq" /\ p \in Frames /\ Control(p, req) /\ Serves(p)
      /\ UNCHANGED <<up, reset, faults>> /\ Stream' = Stream
  BY DEF Inv, Ready, sbeDownFifoEnq_mult, Serves, Stream
<1>1. CASE reset /\ p' = Return(p, "RESET") /\ UNCHANGED down
  <2>1. "RESET" \in Rc
    BY DEF Rc
  <2>2. p' \in Frames /\ Calls(p') /\ Control(p', req) /\ p'.at \in AfterFault
    BY <1>1, <1>a, <2>1, ReturnControl
  <2>3. Ready' /\ FaultInv'
    BY <1>a, <2>2 DEF Ready, FaultInv
  <2>4. Wires' /\ SpState'
    BY <1>1, <1>a DEF Inv, Wires, SpState, Idle
  <2>5. Boundary'
    BY <1>1, <1>a DEF Boundary
  <2> QED BY <2>3, <2>4, <2>5 DEF Inv
<1>2. CASE /\ ~reset /\ Len(down) < DownDepth /\ down' = Append(down, Head(p.out))
           /\ p' = IF Len(p.out) > 1 THEN [p EXCEPT !.out = Tail(@)] ELSE Return(p, "OK")
  <2>1. /\ p' \in Frames /\ Calls(p') /\ Control(p', req) /\ ~IsOpen(p', req) /\ p'.at = p.at
        /\ Serves(p')
    BY <1>2, <1>a, SendFrame
  <2>2. Ready' /\ FaultInv'
    BY <1>a, <2>1 DEF Inv, Ready, FaultInv
  <2>3. Head(p.out) \in DownWord /\ Head(p.out)[1] # "eot"
    <3>1. p.out \in DownWords /\ p.out # <<>>
      BY <1>a DEF Ready, Frames, Calls
    <3>2. Head(p.out) \in DownWord
      BY <3>1, TailOf DEF DownWords
    <3> QED BY <3>2 DEF DownWord
  <2>4. /\ down' \in Seq(DownWord \cup {<<"eot">>}) /\ Len(down') = Len(down) + 1
        /\ down'[Len(down) + 1] = Head(p.out) /\ \A i \in 1..Len(down) : down'[i] = down[i]
        /\ Len(down) \in Nat
    BY <1>2, <1>a, <2>3, AppendProperties DEF Wires
  <2>5. Serving
    BY <1>2, <1>a DEF Inv, Boundary
  <2>6. NoEot(down')
    BY <2>3, <2>4, <2>5 DEF NoEot, Serving
  <2>7. Wires' /\ SpState'
    <3>1. Len(down') <= DownDepth
      BY <1>2, <2>4, FifoAssumption
    <3> QED BY <1>a, <2>4, <3>1 DEF Inv, Wires, SpState, Idle
  <2>8. faults = 0 /\ RegsAccepted => Stream = <<>>
    BY <1>a, <2>5 DEF Serving, IsClosed
  <2>9. Serving'
    BY <1>a, <2>1, <2>5, <2>6, <2>8 DEF Serving
  <2> QED BY <1>2, <1>a, <2>1, <2>2, <2>7, <2>9 DEF Inv, Boundary
<1> QED BY <1>1, <1>2 DEF sbeDownFifoEnq_mult

LEMMA EotKeeps ==
    ASSUME Inv, sbeDownFifoSignalEot, UNCHANGED <<req, hw, sp>>
    PROVE  Inv'
<1>a. /\ Ready /\ Wires /\ p.fn = "eot" /\ p \in Frames /\ Control(p, req) /\ Serves(p)
      /\ Len(down) < DownDepth /\ down' = Append(down, <<"eot">>) /\ p' = Return(p, "OK")
      /\ UNCHANGED <<up, reset, faults>> /\ Stream' = Stream /\ p.at = "response.done"
  BY DEF Inv, Ready, sbeDownFifoSignalEot, Serves, Stream, Control
<1>1. "OK" \in Rc
  BY DEF Rc
<1>2. p' \in Frames /\ Calls(p') /\ Control(p', req)
  BY <1>1, <1>a, ReturnControl
<1>3. p'.fn = "none" /\ p'.at = "response.done" /\ ~Serves(p')
  BY <1>1, <1>a, ReturnTyped DEF Serves
<1>4. Ready' /\ FaultInv'
  BY <1>a, <1>2, <1>3 DEF Ready, FaultInv, AfterFault, Common
<1>5. /\ down' \in Seq(DownWord \cup {<<"eot">>}) /\ Len(down') = Len(down) + 1
      /\ \A i \in 1..Len(down) : down'[i] = down[i]
      /\ Len(down) \in Nat
  BY <1>a, AppendProperties DEF Wires
<1>6. Wires' /\ SpState'
  <2>1. Len(down') <= DownDepth
    BY <1>a, <1>5, FifoAssumption
  <2> QED BY <1>a, <1>5, <2>1 DEF Inv, Wires, SpState, Idle
<1>7. ASSUME ~reset PROVE Asks' /\ sp'.busy
  <2>1. Serving
    BY <1>7, <1>a DEF Inv, Boundary
  <2>2. faults = 0 /\ RegsAccepted => Stream = <<>>
    BY <1>a, <2>1 DEF Serving, IsClosed
  <2>3. EotLast(down')
    BY <1>5, <2>1 DEF Serving, NoEot, EotLast
  <2> QED BY <1>a, <2>1, <2>2, <2>3 DEF Serving, Asks
<1>8. Boundary'
  BY <1>3, <1>7, <1>a DEF Boundary
<1> QED BY <1>4, <1>6, <1>8 DEF Inv

LEMMA FaultKeeps == ASSUME Inv, Fault PROVE Inv'
<1>a. /\ Ready /\ Wires /\ p.fn # "none" /\ p \in Frames /\ Control(p, req) /\ Serves(p)
      /\ UNCHANGED <<up, down, reset, req, hw, sp>> /\ Stream' = Stream
      /\ faults < ScomFaults /\ faults' = faults + 1 /\ faults \in Nat
  BY DEF Inv, Ready, Fault, FifoAccessFails, Serves, Stream, Wires
<1>1. PICK rc \in {"ACCESS_FAILURE", "PARITY_ERROR"} : p' = Return(p, rc)
  BY DEF Fault, FifoAccessFails
<1>2. rc \in Rc /\ rc # "OK" /\ rc # "NOT_SUPPORTED"
  BY DEF Rc
<1>3. p' \in Frames /\ Calls(p') /\ Control(p', req) /\ p'.at \in AfterFault
  BY <1>1, <1>2, <1>a, ReturnControl
<1>4. Ready' /\ FaultInv'
  BY <1>a, <1>3 DEF Ready, FaultInv
<1>5. Wires' /\ SpState'
  <2>1. faults' \in 0..ScomFaults
    BY <1>a, FifoAssumption
  <2> QED BY <1>a, <2>1 DEF Inv, Wires, SpState, Idle
<1>6. Boundary'
  <2> SUFFICES ASSUME ~reset PROVE Serving' /\ Asks' /\ sp'.busy
    BY <1>a DEF Boundary
  <2>1. Serving
    BY <1>a DEF Inv, Boundary
  <2>2. faults' # 0
    BY <1>a
  <2>3. EotLast(down)
    BY <2>1 DEF Serving, NoEot, EotLast
  <2>4. Serving'
    BY <1>a, <2>1, <2>2 DEF Serving
  <2>5. Asks'
    BY <1>a, <2>1, <2>2, <2>3 DEF Serving, Asks
  <2> QED BY <2>4, <2>5 DEF Serving
<1> QED BY <1>4, <1>5, <1>6 DEF Inv

----------------------------------------------------------------------------
(* The chip-ops keep it *)

LEMMA MovesKeeps == ASSUME Inv, Moves, UNCHANGED sp PROVE Inv'
<1>a. /\ Ready /\ Wires /\ Serves(p) /\ Stream' = Stream /\ Move(p') /\ hw' \in Hardwares
      /\ UNCHANGED <<up, down, reset, req, sp>> /\ faults \in Nat
  BY DEF Inv, Moves, Stream, Wires
<1>b. \/ faults' = faults
      \/ faults < ScomFaults /\ faults' = faults + 1 /\ p'.at \in AfterFault
  BY DEF Moves
<1>1. Ready'
  BY <1>a DEF Ready, Move
<1>2. FaultInv'
  BY <1>a, <1>b DEF Inv, FaultInv, Move
<1>3. Wires' /\ SpState'
  <2>1. faults' \in 0..ScomFaults
    BY <1>a, <1>b, FifoAssumption DEF Wires
  <2> QED BY <1>a, <2>1 DEF Inv, Wires, SpState, Idle
<1>4. Boundary'
  <2> SUFFICES ASSUME ~reset PROVE Serving'
    BY <1>a DEF Boundary, Move
  <2>1. Serving
    BY <1>a DEF Inv, Boundary
  <2>2. faults' = 0 => faults = 0
    BY <1>a, <1>b
  <2> QED BY <1>a, <2>1, <2>2 DEF Serving, Move
<1> QED BY <1>1, <1>2, <1>3, <1>4 DEF Inv

LEMMA FrameReady ==
    /\ Frame \in Frames /\ Calls(Frame) /\ Control(Frame, NoRequest) /\ ~Serves(Frame)
    /\ Frame.at = "idle" /\ Hardware \in Hardwares /\ NoRequest \in Servable
<1>1. Frame \in Frames
  <2>1. "idle" \in Labels /\ "OK" \in Rc /\ "OK" \in Status
    BY DEF Labels, Rc, Status
  <2> QED BY <2>1, EmptyTyped DEF Frame, Frames
<1>2. /\ Frame.at = "idle" /\ Frame.fn = "none" /\ Frame.rc = "OK"
  BY DEF Frame
<1>3. Control(Frame, NoRequest)
  BY <1>2 DEF Control, Loops, Owned, Common, Counted, CoreLabels, Filled
<1>4. Hardware \in Hardwares
  BY EmptyTyped DEF Hardware, Hardwares
<1>5. Calls(Frame) /\ ~Serves(Frame)
  BY <1>2 DEF Calls, Serves
<1> QED BY <1>1, <1>2, <1>3, <1>4, <1>5 DEF Servable

LEMMA DropsKeeps == ASSUME Inv, Drops, UNCHANGED sp PROVE Inv'
<1>a. /\ p' = Frame /\ req' = NoRequest /\ hw' = Hardware /\ Stream' = Stream
      /\ UNCHANGED <<up, down, reset, faults, sp>>
  BY DEF Drops, Ends, Stream
<1>1. Ready' /\ FaultInv'
  BY <1>a, FrameReady DEF Ready, FaultInv, AfterFault, Common
<1>2. Wires' /\ SpState'
  BY <1>a DEF Inv, Wires, SpState, Idle
<1>3. Boundary'
  <2> SUFFICES ASSUME ~reset PROVE /\ sp.busy => Asks'
                                   /\ ~sp.busy => down = <<>> /\ NoCommand(up)
    BY <1>a, FrameReady DEF Boundary
  <2>1. CASE Serves(p)
    <3>1. Serving
      BY <2>1 DEF Inv, Boundary
    <3>2. EotLast(down)
      <4>1. Len(down) \in Nat
        BY DEF Inv, Wires
      <4> QED BY <3>1, <4>1 DEF Serving, NoEot, EotLast
    <3> QED BY <1>a, <3>1, <3>2, FrameReady DEF Serving, Asks
  <2>2. CASE ~Serves(p)
    BY <1>a, <2>2, FrameReady DEF Inv, Boundary, Asks
  <2> QED BY <2>1, <2>2
<1> QED BY <1>1, <1>2, <1>3 DEF Inv

LEMMA PerformResetKeeps == ASSUME Inv, sbeUpFifoPerformReset, UNCHANGED sp PROVE Inv'
<1>a. /\ p.fn = "none" /\ p.at = "idle" /\ ~Serves(p) /\ reset /\ up' = <<>> /\ down' = <<>> /\ reset' = FALSE
      /\ faults' = 0 /\ UNCHANGED <<p, req, hw, sp>>
  BY DEF sbeUpFifoPerformReset, At, Serves
<1>1. Ready' /\ FaultInv' /\ ~sp.busy
  BY <1>a DEF Inv, Ready, FaultInv, SpState
<1>2. Wires'
  <2>1. faults' \in 0..ScomFaults
    BY <1>a, FifoAssumption
  <2>2. up' \in UpWords /\ Len(up') <= UpDepth
    BY <1>a, EmptyTyped, FifoAssumption
  <2>3. down' \in Seq(DownWord \cup {<<"eot">>}) /\ Len(down') <= DownDepth
    BY <1>a, FifoAssumption
  <2> QED BY <1>a, <2>1, <2>2, <2>3 DEF Inv, Wires
<1>3. SpState' /\ Boundary'
  BY <1>a, <1>1 DEF Inv, SpState, Boundary, NoCommand, Idle
<1> QED BY <1>1, <1>2, <1>3 DEF Inv

\* The chip-op of a message starts with the message behind its header to come.
LEMMA EntryReady ==
    ASSUME NEW r \in Requests, NEW q,
           q = [Frame EXCEPT !.at = Entry(r.op),
                             !.rc = IF r.op = "unknown" THEN "NOT_SUPPORTED" ELSE "OK"]
    PROVE  q \in Frames /\ Calls(q) /\ Control(q, r) /\ IsOpen(q, r) /\ Serves(q)
<1> DEFINE l == Entry(r.op)
           c == IF r.op = "unknown" THEN "NOT_SUPPORTED" ELSE "OK"
<1>1. r.op \in Ops /\ r \in Servable
  BY RequestAssumption DEF Servable
<1>2. /\ l \in Starts \cup {"return"} /\ (l = "return" <=> r.op = "unknown")
      /\ l \in RegLabels <=> r.op \in RegOps
      /\ l \in SramLabels <=> r.op \in SramOps
  BY <1>1 DEF Entry, Ops, Starts, ScomOps, RegLabels, RegOps, SramLabels, SramOps
<1>3. c \in Rc /\ (c = "NOT_SUPPORTED" <=> l = "return")
  BY <1>2 DEF Rc
<1>4. l \in Labels
  BY <1>2 DEF Labels
<1>5. q = [Frame EXCEPT !.at = l, !.rc = c]
  OBVIOUS
<1> HIDE DEF l, c
<1>6. /\ q \in Frames /\ q.at = l /\ q.rc = c /\ q.fn = "none" /\ q.count = 0
  <2> DEFINE f == Frame
  <2>1. f \in Frames /\ f.fn = "none" /\ f.count = 0
    BY FrameReady DEF Frame
  <2> HIDE DEF f
  <2>2. q = [f EXCEPT !.at = l, !.rc = c]
    BY <1>5 DEF f
  <2> QED BY <1>3, <1>4, <2>1, <2>2 DEF Frames
<1>7. Owned(l, r)
  BY <1>2 DEF Owned
<1>8. l \notin Loops /\ l \notin {"reg.setup", "reg.access", "sram.access", "idle", "response.done"} \cup CoreLabels
  BY <1>2 DEF Starts, ScomOps, Loops, CoreLabels
<1>9. Counted(l, 0, r)
  BY <1>8 DEF Counted
<1>10. Control(q, r)
  BY <1>3, <1>6, <1>7, <1>8, <1>9 DEF Control, Filled
<1>11. IsOpen(q, r)
  BY <1>2, <1>3, <1>6 DEF IsOpen, AtOpen
<1>12. Calls(q) /\ Serves(q)
  BY <1>6, <1>8 DEF Calls, Serves
<1> QED BY <1>6, <1>10, <1>11, <1>12

\* The rest of a message has no command header.
LEMMA RestNoCommand == ASSUME NEW s \in UpWords, NEW n \in Nat, Rest(s, n) PROVE NoCommand(s)
<1> SUFFICES ASSUME NEW i \in 1..Len(s) PROVE s[i][1] # "cmd"
  BY DEF NoCommand
<1>1. Len(s) \in Nat
  BY DEF UpWords
<1>2. CASE i = Len(s)
  BY <1>2 DEF Rest
<1>3. CASE i # Len(s)
  BY <1>1, <1>3 DEF Rest
<1> QED BY <1>2, <1>3

LEMMA ReceiveKeeps == ASSUME Inv, Receive, UNCHANGED sp PROVE Inv'
<1> DEFINE r == Head(up)[2]
<1>a. /\ Ready /\ Wires /\ p.fn = "none" /\ p.at = "idle" /\ ~Serves(p) /\ ~reset /\ up # <<>>
      /\ Head(up)[1] = "cmd" /\ UNCHANGED <<down, reset, hw, sp>>
      /\ req' = r /\ up' = Tail(up) /\ faults' = 0
  BY DEF Inv, Receive, At, Serves
<1>b. p' = [Frame EXCEPT !.at = Entry(r.op),
                         !.rc = IF r.op = "unknown" THEN "NOT_SUPPORTED" ELSE "OK"]
  BY DEF Receive
<1>1. /\ sp.left \in UpWords /\ up \in UpWords /\ Stream \in UpWords
  BY <1>a, StreamTyped
<1>2. /\ Stream' = Tail(Stream) /\ Stream # <<>> /\ Stream[1] = Head(up) /\ Tail(up) \in UpWords
      /\ Head(up) \in UpWord
  <2>1. /\ Tail(up) \o sp.left = Tail(up \o sp.left) /\ up \o sp.left # <<>>
        /\ (up \o sp.left)[1] = Head(up) /\ Tail(up) \in UpWords /\ Head(up) \in UpWord
    BY <1>1, <1>a, TakeHead
  <2> QED BY <1>a, <2>1 DEF Stream
<1>3. Len(Tail(up)) = Len(up) - 1 /\ Len(up) \in Nat /\ Len(up) >= 1 /\ Head(up) = up[1]
  BY <1>a, <1>1, TailOf DEF UpWords
<1>4. r \in Requests
  BY <1>a, <1>2 DEF UpWord
<1> HIDE DEF r
<1>5. p' \in Frames /\ Calls(p') /\ Control(p', r) /\ IsOpen(p', r) /\ Serves(p')
  BY <1>4, <1>b, EntryReady
<1>6. Ready' /\ FaultInv'
  BY <1>a, <1>4, <1>5 DEF Ready, FaultInv, Servable
<1>7. Wires' /\ SpState'
  <2>1. Len(up') <= UpDepth
    BY <1>3, <1>a, FifoAssumption DEF Wires
  <2>2. faults' \in 0..ScomFaults
    BY <1>a, FifoAssumption
  <2> QED BY <1>2, <1>a, <2>1, <2>2 DEF Inv, Wires, SpState, Idle
<1>8. sp.busy /\ Whole(Stream) /\ down = <<>>
  <2>1. Len(Stream) \in Nat /\ 1 \in 1..Len(Stream)
    BY <1>1, <1>2, TailOf DEF UpWords
  <2>2. ~NoCommand(Stream) /\ ~NoCommand(up)
    BY <1>2, <1>3, <1>a, <2>1 DEF NoCommand
  <2> QED BY <1>a, <2>2 DEF Inv, Boundary, Asks
<1>9. Serving'
  <2>1. Rest(Stream', 0)
    BY <1>2, <1>8 DEF Whole
  <2>2. Stream' \in UpWords
    BY <1>1, <1>2, TailOf DEF UpWords
  <2>3. NoCommand(Stream')
    BY <2>1, <2>2, RestNoCommand
  <2>4. NoEot(down')
    BY <1>8, <1>a DEF NoEot
  <2>5. ~IsClosed(p', req')
    BY <1>5, <1>a DEF IsClosed, IsOpen
  <2> QED BY <1>8, <1>a, <2>1, <2>3, <2>4, <2>5 DEF Serving
<1> QED BY <1>5, <1>6, <1>7, <1>9, <1>a DEF Inv, Boundary

----------------------------------------------------------------------------
(* The service processor keeps it *)

LEMMA MessageWhole ==
    ASSUME NEW r \in Requests
    PROVE  /\ Message(r) \in UpWords /\ Whole(Message(r)) /\ Message(r) # <<>>
           /\ Message(r)[1] = <<"cmd", r>>
           /\ MessageWords(r) >= 0 => Len(Message(r)) = MessageWords(r) + 2
<1> DEFINE n == MessageWords(r)
           k == IF n < 0 THEN 0 ELSE n
           a == <<<<"cmd", r>>>>
           b == [i \in 1..n |-> <<"arg", i>>]
           c == <<<<"eot">>>>
           m == Message(r)
<1>1. n \in Int
  <2>1. r.extra \in Int /\ r.len \in Nat /\ ReqWords \in Nat
    BY RequestAssumption, MemAssumption
  <2>2. align4ByteWordLength(r.len) \in Nat /\ r.len \div 4 \in Nat
    BY <2>1 DEF align4ByteWordLength
  <2>3. Payload(r) \in Nat
    BY <2>1, <2>2 DEF Payload, NumRegs
  <2>4. ArgWords(r) \in Nat
    BY <2>1 DEF ArgWords
  <2> QED BY <2>1, <2>3, <2>4 DEF MessageWords
<1> HIDE DEF n
<1>2. k \in Nat /\ 1..n = 1..k /\ (n >= 0 => k = n)
  BY <1>1
<1> HIDE DEF k
<1>3. b \in UpWords /\ Len(b) = k /\ \A i \in 1..k : b[i] = <<"arg", i>>
  <2>1. \A i \in 1..k : <<"arg", i>> \in UpWord
    BY <1>2 DEF UpWord
  <2>2. b \in [1..k -> UpWord]
    BY <1>2, <2>1
  <2>3. \A i \in 1..k : b[i] = <<"arg", i>>
    BY <1>2
  <2> HIDE DEF b
  <2>4. b \in Seq(UpWord) /\ Len(b) = k
    BY <1>2, <2>2
  <2> QED BY <2>3, <2>4 DEF UpWords
<1>4. a \in UpWords /\ Len(a) = 1 /\ a[1] = <<"cmd", r>>
  BY DEF UpWords, UpWord
<1>5. c \in UpWords /\ Len(c) = 1 /\ c[1] = <<"eot">>
  BY DEF UpWords, UpWord
<1>6. m = (a \o b) \o c
  BY DEF Message, n
<1> HIDE DEF a, b, c, m
<1>7. /\ a \o b \in UpWords /\ Len(a \o b) = 1 + k
      /\ \A i \in 1..(1 + k) : (a \o b)[i] = IF i <= 1 THEN a[i] ELSE b[i - 1]
  <2>1. /\ a \o b \in UpWords /\ Len(a \o b) = Len(a) + Len(b)
        /\ \A i \in 1..(Len(a) + Len(b)) : (a \o b)[i] = IF i <= Len(a) THEN a[i] ELSE b[i - Len(a)]
    BY <1>3, <1>4, JoinUp, Zenon
  <2> QED BY <1>3, <1>4, <2>1
<1>8. /\ m \in UpWords /\ Len(m) = k + 2
      /\ \A i \in 1..(k + 2) : m[i] = IF i <= 1 + k THEN (a \o b)[i] ELSE c[i - (1 + k)]
  <2> DEFINE d == a \o b
  <2> HIDE DEF d
  <2>1. /\ d \in UpWords /\ Len(d) = 1 + k /\ m = d \o c
    BY <1>6, <1>7 DEF d
  <2>2. /\ m \in UpWords /\ Len(m) = 1 + k + 1
        /\ \A i \in 1..(1 + k + 1) : m[i] = IF i <= 1 + k THEN d[i] ELSE c[i - (1 + k)]
    <3>1. /\ d \o c \in UpWords /\ Len(d \o c) = Len(d) + Len(c)
          /\ \A i \in 1..(Len(d) + Len(c)) : (d \o c)[i] = IF i <= Len(d) THEN d[i] ELSE c[i - Len(d)]
      BY <1>5, <2>1, JoinUp, Zenon
    <3> QED BY <1>5, <2>1, <3>1
  <2>3. 1 + k + 1 = k + 2
    BY <1>2
  <2> QED BY <2>2, <2>3 DEF d
<1>9. m[1] = <<"cmd", r>> /\ m[k + 2] = <<"eot">>
  BY <1>2, <1>4, <1>5, <1>7, <1>8
<1>10. \A i \in 1..k : m[i + 1] = <<"arg", i>>
  <2> SUFFICES ASSUME NEW i \in 1..k PROVE m[i + 1] = <<"arg", i>>
    OBVIOUS
  <2>1. m[i + 1] = (a \o b)[i + 1] /\ (a \o b)[i + 1] = b[i + 1 - 1] /\ i + 1 - 1 = i
    BY <1>2, <1>7, <1>8
  <2> QED BY <1>3, <2>1
<1>11. m # <<>>
  BY <1>2, <1>8
<1>12. /\ Tail(m) \in UpWords /\ Len(Tail(m)) = k + 1
       /\ \A i \in 1..(k + 1) : Tail(m)[i] = m[i + 1]
  BY <1>2, <1>8, <1>11, TailOf DEF UpWords
<1>13. Rest(Tail(m), 0)
  <2>1. Tail(m)[k + 1] = <<"eot">>
    BY <1>2, <1>9, <1>12
  <2>2. \A i \in 1..k : Tail(m)[i] = <<"arg", 0 + i>>
    BY <1>2, <1>10, <1>12
  <2>3. k + 1 >= 1 /\ k + 1 - 1 = k
    BY <1>2
  <2> DEFINE t == Tail(m)
  <2>4. Len(t) = k + 1 /\ t[k + 1] = <<"eot">> /\ \A i \in 1..k : t[i] = <<"arg", 0 + i>>
    BY <1>12, <2>1, <2>2
  <2> HIDE DEF t
  <2>5. Rest(t, 0)
    <3>1. Len(t) >= 1 /\ t[Len(t)] = <<"eot">>
      <4>1. Len(t) = k + 1 /\ t[k + 1] = <<"eot">>
        BY <2>4
      <4>2. k + 1 >= 1
        BY <2>3
      <4> QED BY <4>1, <4>2, Zenon
    <3>2. 1..(Len(t) - 1) = 1..k
      <4>1. Len(t) = k + 1
        BY <2>4
      <4>2. Len(t) - 1 = k
        BY <1>2, <4>1
      <4> QED BY <4>2
    <3>3. \A i \in 1..(Len(t) - 1) : t[i] = <<"arg", 0 + i>>
      BY <2>4, <3>2
    <3> QED BY <3>1, <3>3, Zenon DEF Rest
  <2> QED BY <2>5 DEF t
<1>14. Whole(m)
  BY <1>2, <1>8, <1>9, <1>13 DEF Whole
<1>15. n >= 0 => Len(m) = n + 2
  BY <1>2, <1>8
<1> QED BY <1>8, <1>9, <1>11, <1>14, <1>15 DEF m, n

LEMMA EmptyJoin == ASSUME NEW s \in UpWords PROVE <<>> \o s = s
  BY DEF UpWords

\* What is left of the invariant where only the wires and the SP move.
LEMMA SpFrame ==
    ASSUME Inv, SpUnchanged, Wires', SpState', Boundary' PROVE Inv'
  BY DEF Inv, SpUnchanged, Ready, FaultInv

LEMMA SpAskKeeps == ASSUME Inv, SpAsk PROVE Inv'
<1>a. /\ Wires /\ ~sp.busy /\ ~reset /\ UNCHANGED <<up, down, reset, p, faults>> /\ SpUnchanged
  BY DEF Inv, SpAsk, SpUnchanged
<1>1. PICK r \in Requests : sp' = [busy |-> TRUE, left |-> Message(r), got |-> <<>>]
  BY DEF SpAsk
<1>2. Message(r) \in UpWords /\ Whole(Message(r))
  BY MessageWhole
<1>3. /\ sp' \in [busy : BOOLEAN, left : UpWords, got : DownWords]
      /\ sp'.busy = TRUE /\ sp'.left = Message(r) /\ sp'.got = <<>>
  BY <1>1, <1>2, EmptyTyped
<1>4. Wires' /\ SpState'
  BY <1>3, <1>a DEF Wires, SpState
<1>5. Boundary'
  <2>1. ~Serves(p) /\ down = <<>> /\ NoCommand(up)
    BY <1>a DEF Inv, Boundary, Serving
  <2>2. CASE up = <<>>
    <3>1. Stream' = Message(r)
      BY <1>2, <1>3, <1>a, <2>2, EmptyJoin DEF Stream
    <3> QED BY <1>2, <1>3, <1>a, <2>1, <3>1 DEF Boundary, Asks
  <2>3. CASE up # <<>>
    <3>1. Head(up) = up[1] /\ Len(up) >= 1 /\ Len(up) \in Nat
      BY <1>a, <2>3, TailOf DEF Wires, UpWords
    <3>2. Head(up)[1] # "cmd"
      BY <2>1, <3>1 DEF NoCommand
    <3> QED BY <1>3, <1>a, <2>1, <2>3, <3>2 DEF Boundary, Asks
  <2> QED BY <2>2, <2>3
<1> QED BY <1>4, <1>5, <1>a, SpFrame

LEMMA SpWriteKeeps == ASSUME Inv, SpWrite PROVE Inv'
<1>a. /\ Wires /\ sp.left # <<>> /\ ~reset /\ Len(up) < UpDepth /\ up' = Append(up, Head(sp.left))
      /\ sp' = [sp EXCEPT !.left = Tail(@)]
      /\ UNCHANGED <<down, reset, faults, p, req>> /\ SpUnchanged
  BY DEF Inv, SpWrite, SpUnchanged
<1> DEFINE t == Tail(sp.left)
<1>1. /\ up' \o t = up \o sp.left /\ up' \in UpWords /\ t \in UpWords
      /\ Len(up') = Len(up) + 1 /\ (up # <<>> => Head(up') = Head(up)) /\ up' # <<>>
  <2>1. up \in UpWords /\ sp.left \in UpWords
    BY <1>a, StreamTyped
  <2> QED BY <1>a, <2>1, MoveWord
<1>2. sp' = [sp EXCEPT !.left = t] /\ sp \in [busy : BOOLEAN, left : UpWords, got : DownWords]
  BY <1>a DEF Wires
<1> HIDE DEF t
<1>3. /\ sp' \in [busy : BOOLEAN, left : UpWords, got : DownWords]
      /\ sp'.busy = sp.busy /\ sp'.left = t /\ sp'.got = sp.got
  BY <1>1, <1>2
<1>4. sp.busy
  BY <1>a DEF Inv, SpState, Idle
<1>5. Stream' = Stream
  BY <1>1, <1>3 DEF Stream
<1>6. Wires' /\ SpState'
  <2>1. Len(up') <= UpDepth
    BY <1>1, <1>a, FifoAssumption DEF Wires, UpWords
  <2> QED BY <1>1, <1>3, <1>4, <1>a, <2>1 DEF Inv, Wires, SpState
<1>7. Boundary'
  <2>1. CASE Serves(p)
    <3>1. Serving
      BY <1>a, <2>1 DEF Inv, Boundary
    <3> QED BY <1>3, <1>5, <1>a, <2>1, <3>1 DEF Boundary, Serving
  <2>2. CASE ~Serves(p)
    <3>1. Asks
      BY <1>a, <1>4, <2>2 DEF Inv, Boundary
    <3>2. Asks'
      BY <1>1, <1>3, <1>5, <1>a, <3>1 DEF Asks
    <3> QED BY <1>3, <1>4, <1>a, <2>2, <3>2 DEF Boundary
  <2> QED BY <2>1, <2>2
<1> QED BY <1>6, <1>7, <1>a, SpFrame

\* The response that is read to its end is the only one there is.
LEMMA SpReadKeeps == ASSUME Inv, SpRead PROVE Inv'
<1>a. /\ Wires /\ down # <<>> /\ ~reset /\ down' = Tail(down)
      /\ sp' = IF Head(down)[1] = "eot" THEN Idle ELSE [sp EXCEPT !.got = Append(@, Head(down))]
      /\ UNCHANGED <<up, reset, faults, p, req>> /\ SpUnchanged
  BY DEF Inv, SpRead, SpUnchanged
<1>1. /\ Tail(down) \in Seq(DownWord \cup {<<"eot">>}) /\ Len(Tail(down)) = Len(down) - 1
      /\ Len(down) >= 1 /\ Len(down) \in Nat /\ Head(down) = down[1]
      /\ down[1] \in DownWord \cup {<<"eot">>}
      /\ \A i \in 1..(Len(down) - 1) : Tail(down)[i] = down[i + 1]
  BY <1>a, TailOf DEF Wires
<1>2. Len(down') <= DownDepth
  BY <1>1, <1>a, FifoAssumption DEF Wires
<1>3. sp.busy /\ (Serves(p) => Serving) /\ (~Serves(p) => NoCommand(Stream) /\ EotLast(down))
  BY <1>a DEF Inv, Boundary, Serving, Asks
<1>4. CASE Head(down)[1] = "eot"
  <2>1. ~Serves(p)
    BY <1>1, <1>3, <1>4 DEF Serving, NoEot
  <2>2. Len(down) = 1
    BY <1>1, <1>3, <1>4, <2>1 DEF EotLast
  <2>3. down' = <<>>
    <3> DEFINE t == Tail(down)
    <3>1. t \in Seq(DownWord \cup {<<"eot">>}) /\ Len(t) = 0
      BY <1>1, <2>2
    <3> HIDE DEF t
    <3>2. t = <<>>
      BY <3>1
    <3> QED BY <1>a, <3>2 DEF t
  <2>4. sp' = Idle /\ sp'.busy = FALSE
    BY <1>4, <1>a DEF Idle
  <2>5. sp' \in [busy : BOOLEAN, left : UpWords, got : DownWords]
    BY <2>4, EmptyTyped DEF Idle
  <2>6. NoCommand(up)
    <3>1. up \in UpWords /\ sp.left \in UpWords
      BY <1>a, StreamTyped
    <3>2. /\ Len(up \o sp.left) = Len(up) + Len(sp.left) /\ Len(up) \in Nat /\ Len(sp.left) \in Nat
          /\ \A i \in 1..(Len(up) + Len(sp.left)) :
                (up \o sp.left)[i] = IF i <= Len(up) THEN up[i] ELSE sp.left[i - Len(up)]
      BY <3>1, JoinUp
    <3> SUFFICES ASSUME NEW i \in 1..Len(up) PROVE up[i][1] # "cmd"
      BY DEF NoCommand
    <3>3. i \in 1..(Len(up) + Len(sp.left)) /\ (up \o sp.left)[i] = up[i]
      BY <3>2
    <3> QED BY <1>3, <2>1, <3>2, <3>3 DEF NoCommand, Stream
  <2>7. Wires' /\ SpState'
    BY <1>1, <1>2, <1>a, <2>4, <2>5 DEF Wires, SpState
  <2>8. Boundary'
    BY <1>a, <2>1, <2>3, <2>4, <2>6 DEF Boundary
  <2> QED BY <1>a, <2>7, <2>8, SpFrame
<1>5. CASE Head(down)[1] # "eot"
  <2> DEFINE g == Append(sp.got, Head(down))
  <2>1. sp \in [busy : BOOLEAN, left : UpWords, got : DownWords]
    BY <1>a DEF Wires
  <2>2. g \in DownWords
    <3>1. Head(down) \in DownWord /\ sp.got \in DownWords
      BY <1>1, <1>5, <2>1
    <3> QED BY <3>1, AppendProperties DEF DownWords
  <2>3. sp' = [sp EXCEPT !.got = g]
    BY <1>5, <1>a, <2>1
  <2> HIDE DEF g
  <2>4. /\ sp' \in [busy : BOOLEAN, left : UpWords, got : DownWords]
        /\ sp'.busy = sp.busy /\ sp'.left = sp.left
    BY <2>1, <2>2, <2>3
  <2>5. Wires' /\ SpState'
    BY <1>1, <1>2, <1>3, <1>a, <2>4 DEF Wires, SpState
  <2>6. Stream' = Stream
    BY <1>a, <2>4 DEF Stream
  <2>7. CASE Serves(p)
    <3>1. NoEot(down')
      BY <1>1, <1>3, <1>a, <2>7 DEF Serving, NoEot
    <3>2. Serving'
      BY <1>3, <1>a, <2>4, <2>6, <2>7, <3>1 DEF Serving
    <3>3. Boundary'
      BY <1>a, <2>7, <3>2 DEF Boundary
    <3> QED BY <1>a, <2>5, <3>3, SpFrame
  <2>8. CASE ~Serves(p)
    <3>1. EotLast(down')
      BY <1>1, <1>3, <1>a, <2>8 DEF EotLast
    <3>2. p.at = "response.done" /\ faults = 0 /\ RegsAccepted => Stream = <<>>
      BY <1>3, <1>a, <2>8 DEF Inv, Boundary, Asks
    <3>3. Asks'
      BY <1>3, <1>a, <2>6, <2>8, <3>1, <3>2 DEF Asks
    <3>4. Boundary'
      BY <1>3, <1>a, <2>4, <2>8, <3>3 DEF Boundary
    <3> QED BY <1>a, <2>5, <3>4, SpFrame
  <2> QED BY <2>7, <2>8
<1> QED BY <1>4, <1>5

LEMMA SpResetKeeps == ASSUME Inv, SpReset \/ SpDrain PROVE Inv'
<1>1. CASE SpReset
  <2>1. /\ Wires /\ reset' = TRUE /\ sp' = Idle /\ UNCHANGED <<up, down, faults>> /\ SpUnchanged
    BY <1>1 DEF Inv, SpReset, SpUnchanged
  <2>2. sp' \in [busy : BOOLEAN, left : UpWords, got : DownWords] /\ sp'.busy = FALSE
    BY <2>1, EmptyTyped DEF Idle
  <2>3. Wires' /\ SpState' /\ Boundary'
    BY <2>1, <2>2 DEF Wires, SpState, Boundary
  <2> QED BY <2>1, <2>3, SpFrame
<1>2. CASE SpDrain
  <2>1. /\ Wires /\ down # <<>> /\ reset /\ down' = Tail(down)
        /\ UNCHANGED <<up, reset, sp, faults>> /\ SpUnchanged
    BY <1>2 DEF Inv, SpDrain, SpUnchanged
  <2>2. /\ Tail(down) \in Seq(DownWord \cup {<<"eot">>}) /\ Len(Tail(down)) = Len(down) - 1
        /\ Len(down) \in Nat
    BY <2>1, TailOf DEF Wires
  <2>3. Len(down') <= DownDepth
    BY <2>1, <2>2, FifoAssumption DEF Wires
  <2>4. Wires' /\ SpState' /\ Boundary'
    BY <2>1, <2>2, <2>3 DEF Inv, Wires, SpState, Idle, Boundary
  <2> QED BY <2>1, <2>4, SpFrame
<1> QED BY <1>1, <1>2

----------------------------------------------------------------------------
(* The theorem *)

LEMMA InitInv == ASSUME Init PROVE Inv
<1>1. /\ up = <<>> /\ down = <<>> /\ reset = FALSE /\ faults = 0 /\ p = Frame
      /\ req = NoRequest /\ hw = Hardware /\ sp = Idle
  BY DEF Init, FifoInit
<1>2. sp \in [busy : BOOLEAN, left : UpWords, got : DownWords] /\ sp.busy = FALSE
  BY <1>1, EmptyTyped DEF Idle
<1>3. up \in UpWords /\ Len(up) <= UpDepth
  BY <1>1, EmptyTyped, FifoAssumption
<1>4. down \in Seq(DownWord \cup {<<"eot">>}) /\ Len(down) <= DownDepth /\ faults \in 0..ScomFaults
  BY <1>1, FifoAssumption
<1>5. Wires /\ SpState
  BY <1>1, <1>2, <1>3, <1>4 DEF Wires, SpState
<1>6. Ready /\ FaultInv
  BY <1>1, FrameReady DEF Ready, FaultInv
<1>7. Boundary
  BY <1>1, <1>2, FrameReady DEF Boundary, NoCommand
<1> QED BY <1>5, <1>6, <1>7 DEF Inv

LEMMA StutterKeeps ==
    ASSUME Inv, UNCHANGED <<up, down, reset, faults, p, req, hw, sp>> PROVE Inv'
<1>1. Stream' = Stream
  BY DEF Stream
<1>2. Wires' /\ SpState'
  BY DEF Inv, Wires, SpState, Idle
<1>3. Boundary'
  BY <1>1 DEF Inv, Boundary, Serving, Asks
<1> QED BY <1>2, <1>3 DEF Inv, Ready, FaultInv

LEMMA NextKeeps == ASSUME Inv, [Next]_vars PROVE Inv'
<1>1. CASE FifoStep /\ UNCHANGED <<req, hw, sp>>
  BY <1>1, DeqKeeps, EnqKeeps, EotKeeps DEF FifoStep
<1>2. CASE ChipOp /\ UNCHANGED sp
  BY <1>2, ChipOpMoves, MovesKeeps, DropsKeeps DEF Inv
<1>3. CASE Receive /\ UNCHANGED sp
  BY <1>3, ReceiveKeeps
<1>4. CASE sbeUpFifoPerformReset /\ UNCHANGED sp
  BY <1>4, PerformResetKeeps
<1>5. CASE ServiceProcessor
  BY <1>5, SpAskKeeps, SpWriteKeeps, SpReadKeeps, SpResetKeeps DEF ServiceProcessor
<1>6. CASE Fault
  BY <1>6, FaultKeeps
<1>7. CASE HostUpdatesRegions
  BY <1>7, StutterKeeps DEF HostUpdatesRegions
<1>8. CASE UNCHANGED vars
  BY <1>8, StutterKeeps DEF vars
<1> QED BY <1>1, <1>2, <1>3, <1>4, <1>5, <1>6, <1>7, <1>8 DEF Next, Processor

LEMMA Invariance == Spec => []Inv
<1>1. Init => Inv
  BY InitInv
<1>2. Inv /\ [Next]_vars => Inv'
  BY NextKeeps
<1> QED BY <1>1, <1>2, PTL DEF Spec

LEMMA OneHasWords ==
    ASSUME NEW S, NEW a \in Seq(S), NEW b \in Seq(S), a \o b # <<>>
    PROVE  a # <<>> \/ b # <<>>
  OBVIOUS

\* MessageBoundary for every set of requests and every depth of the FIFOs: when
\* the end of the response has been written, without a reset or a failed access,
\* the message has been taken to its end, whatever path the chip-op took
\* (flushUpstreamFifo, sbeUpFifoDeq_mult's search for the EOT entry,
\* sbeHandleFifoResponse).  The register chip-ops' refusal of a request, which
\* sbeGetReg and sbePutReg answer without the rest of their message, is excepted.
THEOREM MessagesTaken == ASSUME RegsAccepted PROVE Spec => []MessageBoundary
<1>1. Inv => MessageBoundary
  <2> SUFFICES ASSUME Inv, Complete PROVE up = <<>> /\ sp.left = <<>>
    BY DEF MessageBoundary
  <2>1. /\ p.fn = "none" /\ p.at = "response.done" /\ ~reset /\ faults = 0 /\ ~Serves(p)
        /\ Response # <<>>
    BY DEF Complete, At, Serves
  <2>2. sp.got # <<>> \/ down # <<>>
    <3>1. sp.got \in Seq(DownWord \cup {<<"eot">>}) /\ down \in Seq(DownWord \cup {<<"eot">>})
      BY DEF Inv, Wires, DownWords
    <3> QED BY <2>1, <3>1, OneHasWords DEF Response
  <2>3. sp.busy
    BY <2>1, <2>2 DEF Inv, Boundary, SpState, Idle
  <2>4. Stream = <<>>
    BY <2>1, <2>2, <2>3 DEF Inv, Boundary, Asks
  <2>5. up \in UpWords /\ sp.left \in UpWords
    BY StreamTyped DEF Inv
  <2> QED BY <2>4, <2>5, JoinUp DEF Stream
<1> QED BY <1>1, Invariance, PTL

=============================================================================
