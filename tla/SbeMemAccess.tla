----------------------------- MODULE SbeMemAccess -----------------------------
(***************************************************************************)
(* The chip-ops that move memory between the FIFOs and the PBA, the ADU    *)
(* (sbecmdmemaccess.C over sbeMemAccessInterface.C) and the OCC SRAM       *)
(* (sbecmdsram.C), granule by granule.                                     *)
(*                                                                         *)
(* A chip-op is a program over the frame p: At(l) is where it is, and the  *)
(* next frame says where it goes.  Hardware procedures succeed or fail.    *)
(***************************************************************************)
EXTENDS SbeFifoMsg, SbeSecureMem

CONSTANTS
    ReqWords,          \* words of a request structure
    PbaLines,          \* 8-byte lines in a PBA granule
    SramGranule,       \* SBE_OCC_SRAM_GRANULE, in bytes
    MaxGranules,       \* bound: granules a setup procedure grants
    PassThroughSize    \* hostPassThroughCmdAddr.size

ASSUME MemAssumption ==
    /\ {ReqWords, PbaLines, SramGranule, MaxGranules} \subseteq Nat \ {0}
    /\ PassThroughSize \in Nat

VARIABLES
    req,       \* the request the processor serves
    hw         \* what the request has done to the hardware

(***************************************************************************)
(* hw: procedures that succeeded and payload words they were given, did    *)
(* one fail; a PBA or ADU interface, or a core's RAM mode, between setup   *)
(* and cleanup, the granules granted and used, and a use of it the         *)
(* procedures forbid; the object's iv_intfCleanedUp, iv_maxGranule and     *)
(* iv_currGranule; the host's doorbell; cores held awake.                  *)
(***************************************************************************)
Hardware == [done |-> 0, wrote |-> <<>>, failed |-> FALSE,
             open |-> FALSE, granted |-> 0, used |-> 0, misused |-> FALSE,
             cleaned |-> TRUE, max |-> 0, curr |-> 0, bell |-> FALSE, awake |-> {}]

Does(q, h) == p' = q /\ hw' = h /\ UNCHANGED <<up, down, reset, faults, req, regions, opened>>
Goes(q) == Does(q, hw)

To(l) == [p EXCEPT !.at = l]
Refuses(l, status) == [p EXCEPT !.at = l, !.status = status]
Failed(l) == [p EXCEPT !.at = l, !.status = "EXECUTION_FAILURE", !.fapi = TRUE]

\* SBE_EXEC_HWP: on success the chip-op goes on with frame q and hardware h.
Hwp(q, h, l) ==
    \/ Does(q, [h EXCEPT !.done = @ + 1])
    \/ Does(Failed(l), [hw EXCEPT !.failed = TRUE])

isRead == req.op \in {"getmem", "getsram"}
isPba == "pba" \in req.flags
isPassThrough == isPba /\ "passthrough" \in req.flags
isEccMode == ~isPba /\ "ecc" \in req.flags
isItagMode == ~isPba /\ "itag" \in req.flags

\* What the interface says of one request.
getDataLenCacheAlign ==
    LET lines == IF req.len < 8 THEN 1 ELSE req.len \div 8
    IN  IF isPba THEN lines \div PbaLines ELSE lines

granuleSize == IF isPba THEN 8 * PbaLines ELSE IF req.len < 8 THEN req.len ELSE 8
sizeMultiplier == IF isPba THEN 2 * PbaLines ELSE IF req.len < 8 THEN 1 ELSE 2

Accessed == [start |-> req.addr, size |-> req.len, mode |-> IF isRead THEN {"R"} ELSE {"W"}]

align4ByteWordLength(len) == (len + 3) \div 4

calInterAduLenForUpFifo(mod) ==
    9 * (1 + mod) + IF isItagMode /\ isEccMode THEN 1 + mod ELSE 0

\* Words sent after the granule that follows n others.
AduWords(n) ==
    IF ~isEccMode /\ ~isItagMode THEN sizeMultiplier
    ELSE IF n % 4 = 3 \/ n + 1 = getDataLenCacheAlign
         THEN align4ByteWordLength(calInterAduLenForUpFifo(n % 4))
         ELSE 0

sbeAduLenInUpStreamFifo(granules) ==
    granules * granuleSize + (IF isItagMode THEN granules ELSE 0)
                           + (IF isEccMode THEN granules ELSE 0)

Data(n, words) == [i \in 1..words |-> <<"data", n>>]

----------------------------------------------------------------------------
(* sbeMemAccessInterface *)

\* setup: the procedure grants a number of granules.
setup(l_ok, l_fail) ==
    \/ \E n \in 1..MaxGranules :
          Does(To(l_ok), [hw EXCEPT !.misused = @ \/ hw.open, !.open = TRUE, !.granted = n,
                                    !.used = 0, !.max = n, !.curr = 0, !.cleaned = FALSE])
    \/ Does(Failed(l_fail), [hw EXCEPT !.failed = TRUE, !.open = FALSE, !.curr = 0,
                                       !.cleaned = FALSE])

CleansUp_Never(last) == last
\* The flag given to the access procedure with its granule.
CleansUp(last) == last \/ hw.max = 1

\* accessGranule, past the setup.  The procedure cleans up when told to and on
\* its own failures; it is to be told that a granule is the first after a setup,
\* and to clean up with the last one granted.
accessGranule(last, q, l) ==
    LET clean == CleansUp(last)
        first == hw.curr = 0
        bad == ~hw.open \/ first # (hw.used = 0) \/ (hw.used + 1 = hw.granted /\ ~clean)
    IN  \/ Does(q, [hw EXCEPT !.done = @ + 1, !.wrote = @ \o p.buf,
                              !.misused = @ \/ bad, !.open = ~clean, !.used = @ + 1,
                              !.cleaned = clean, !.max = @ - 1, !.curr = @ + 1])
        \/ Does(Failed(l), [hw EXCEPT !.failed = TRUE, !.misused = @ \/ bad,
                                      !.open = FALSE, !.cleaned = clean])

----------------------------------------------------------------------------
(* Memory access *)

sbeMemAccess_Wrap ==
    /\ At("mem")
    /\ Goes(Deq(p, "mem.check", "return", ReqWords, isRead, FALSE))

\* The granule loop, from its condition, of a chip-op with accesses at `access'.
Loop(q, more, access, words, tail) ==
    IF ~more THEN [q EXCEPT !.at = tail, !.buf = <<>>]
    ELSE IF isRead THEN [q EXCEPT !.at = access, !.buf = <<>>]
    ELSE Deq(q, access, "return", words, FALSE, FALSE)

MemLoop(q) == Loop(q, q.count < getDataLenCacheAlign, "mem.access", sizeMultiplier, "mem.tail")

\* Where processPbaRequest and processAduRequest turn a request down.
PbaRefusal ==
    IF isPassThrough
    THEN IF req.addr + req.len > PassThroughSize THEN "INVALID_DATA" ELSE "OK"
    ELSE IF isAccessAllowed(regions, Accessed) THEN "OK" ELSE "ACCESS_DENIED"

AduRefusal ==
    IF req.len < 8 /\ req.len \notin {0, 1, 2, 4} THEN "INVALID_DATA"
    ELSE IF "trusted" \in req.flags \/ isAccessAllowed(regions, Accessed) THEN "OK"
    ELSE "ACCESS_DENIED"

MemCheck ==
    LET refusal == IF isPba THEN PbaRefusal ELSE AduRefusal
    IN  /\ At("mem.check")
        /\ Goes(IF refusal = "OK" THEN MemLoop(p) ELSE Refuses("mem.tail", refusal))

MemSetup == /\ At("mem.access") /\ hw.cleaned /\ setup("mem.access", "mem.tail")

\* One granule; what was read goes downstream.
MemAccess ==
    LET last == p.count = getDataLenCacheAlign - 1
        words == IF isPba THEN sizeMultiplier ELSE AduWords(p.count)
        q == [p EXCEPT !.count = @ + 1]
    IN  /\ At("mem.access") /\ ~hw.cleaned
        /\ accessGranule(last,
                         IF isRead /\ words > 0
                         THEN Enq(q, "mem.loop", "return", Data(p.count, words))
                         ELSE MemLoop(q),
                         "mem.tail")

MemSent == At("mem.loop") /\ Goes(MemLoop(p))

flushUpstreamFifo_Skipped(l) ==
    IF p.status = "OK" THEN Deq(p, l, "return", 0, TRUE, FALSE) ELSE To(l)

\* A put takes the rest of its message: all of it after a failure, the EOT entry
\* otherwise.
flushUpstreamFifo(l) == Deq(p, l, "return", 0, TRUE, p.status # "OK")

MemTail ==
    /\ At("mem.tail")
    /\ Goes(IF isRead THEN To("mem.reply") ELSE flushUpstreamFifo("mem.reply"))

\* The length, in bytes, of the granules that were completed, and the header.
MemLen == <<"len", IF isPba THEN p.count * granuleSize ELSE sbeAduLenInUpStreamFifo(p.count)>>

MemReply ==
    /\ At("mem.reply")
    /\ Goes(sbeDsSendRespHdr(p, <<MemLen>>, "mem.bell", p.status, p.fapi))

\* A put in pass-through mode ends with the host's doorbell.
MemBell ==
    /\ At("mem.bell")
    /\ IF isPassThrough /\ ~isRead
       THEN \/ Does(To("return"), [hw EXCEPT !.bell = TRUE])
            \/ /\ faults < ScomFaults /\ faults' = faults + 1
               /\ p' = [p EXCEPT !.at = "return", !.rc = "GENERIC_FAILURE"]
               /\ UNCHANGED <<up, down, reset, req, hw, regions, opened>>
       ELSE Goes(To("return"))

----------------------------------------------------------------------------
(* OCC SRAM access *)

sbeOccSramAccess_Wrap ==
    /\ At("sram")
    /\ Goes(Deq(p, "sram.check", "return", ReqWords, isRead, FALSE))

\* The command buffer, opened by the constructor of the manager.
OccRegions == <<[start |-> 0, size |-> 2 * SramGranule, mode |-> {"R", "W"}]>>

\* p.count is what was passed to the procedure; what is left goes in granules.
SramPass(n) == IF req.len - n <= SramGranule THEN req.len - n ELSE SramGranule
SramLoop(q) ==
    Loop(q, q.count < req.len, "sram.access", SramPass(q.count) \div 4, "sram.tail")

SramCheck ==
    /\ At("sram.check")
    /\ \/ /\ "badmode" \in req.flags
          /\ Goes([p EXCEPT !.at = "return", !.rc = "GENERIC_FAILURE"])
       \/ /\ "badmode" \notin req.flags /\ "circular" \notin req.flags
          /\ IF isRead \/ isAccessAllowed(OccRegions, Accessed)
             THEN Hwp(SramLoop(p), hw, "sram.tail")
             ELSE Goes(Refuses("sram.tail", "ACCESS_DENIED"))
       \/ "circular" \in req.flags /\ Goes(SramLoop(p))

\* The procedure is told to move whole blocks of 8 bytes: words of a pass that
\* make half a block, and are not moved.
HalfBlock(pass) == (pass % 8) \div 4

\* What a pass reads: behind the blocks, a word of the buffer as it was.
SramData(n, pass) ==
    [i \in 1..(pass \div 4) |->
        <<IF i <= (pass \div 4) - HalfBlock(pass) THEN "data" ELSE "stale", n>>]

\* The words of the buffer that a pass writes.
SramBlocks(pass) == SubSeq(p.buf, 1, Len(p.buf) - HalfBlock(pass))

\* All of the pass counts, moved or not.
SramAccess ==
    LET pass == SramPass(p.count)
        q == [p EXCEPT !.count = @ + pass]
    IN  /\ At("sram.access")
        /\ Hwp(IF isRead THEN Enq(q, "sram.loop", "return", SramData(p.count, pass))
               ELSE SramLoop(q),
               [hw EXCEPT !.wrote = @ \o SramBlocks(pass)], "sram.tail")

SramSent == At("sram.loop") /\ Goes(SramLoop(p))

SramTail ==
    /\ At("sram.tail")
    /\ Goes(IF isRead THEN To("sram.reply") ELSE flushUpstreamFifo("sram.reply"))

SramReply ==
    /\ At("sram.reply")
    /\ Goes(sbeDsSendRespHdr(p, <<<<"len", p.count>>>>, "return", p.status, p.fapi))

MemoryOps ==
    \/ sbeMemAccess_Wrap \/ MemCheck \/ MemSetup \/ MemAccess \/ MemSent \/ MemTail
    \/ MemReply \/ MemBell
    \/ sbeOccSramAccess_Wrap \/ SramCheck \/ SramAccess \/ SramSent \/ SramTail \/ SramReply
=============================================================================
