------------------------------ MODULE SbeFifoMsg ------------------------------
(***************************************************************************)
(* The FIFO message layer (sbeFifoMsgUtils.C) as a chip-op sees it.        *)
(*                                                                         *)
(* The two FIFOs hold words and end-of-transfer entries and are bounded.   *)
(* The layer's three routines move one entry per step and poll when they   *)
(* cannot, so that the service processor runs between any two entries.     *)
(* `p' is the frame of the command processor: where the chip-op is, the    *)
(* routine it has called, if any, and the locals the chip-ops share.       *)
(***************************************************************************)
EXTENDS Naturals, Sequences, SequencesExt

CONSTANTS
    UpDepth, DownDepth,      \* entries the upstream and downstream FIFO hold
    HwpFfdcWords,            \* g_FfdcData.ffdcLength, in words; never zero here
    SendInternalFFDC,        \* the mailbox bit: send the SBE's own FFDC too
    ScomFaults               \* bound: register accesses that fail

ASSUME FifoAssumption ==
    /\ UpDepth \in Nat \ {0} /\ DownDepth \in Nat \ {0}
    /\ HwpFfdcWords \in Nat \ {0} /\ ScomFaults \in Nat
    /\ SendInternalFFDC \in BOOLEAN

VARIABLES
    up,        \* the upstream FIFO
    down,      \* the downstream FIFO
    reset,     \* the SP has asked for a FIFO reset
    faults,    \* register accesses that have failed
    p          \* the command processor's frame

Word == {"cmd", "arg", "data", "stale", "len", "magic", "status", "ffdc", "hwpffdc", "sbeffdc",
         "dist", "eot"}
Rc == {"OK", "RESET", "ACCESS_FAILURE", "PARITY_ERROR", "INSUFFICIENT_DATA", "EXCESS_DATA",
       "NOT_SUPPORTED", "GENERIC_FAILURE"}
Status == {"OK", "INVALID_DATA", "EXECUTION_FAILURE", "ACCESS_DENIED", "USER_ERROR",
           "NOT_SUPPORTED"}

FifoTypeOK ==
    /\ \A i \in DOMAIN up : up[i][1] \in Word
    /\ \A i \in DOMAIN down : down[i][1] \in Word
    /\ Len(up) <= UpDepth /\ Len(down) <= DownDepth
    /\ reset \in BOOLEAN /\ faults \in 0..ScomFaults
    /\ p.fn \in {"none", "deq", "enq", "eot"} /\ p.rc \in Rc /\ p.status \in Status
    /\ p.fapi \in BOOLEAN /\ p.count \in Nat
    /\ p.fn = "deq" => Len(p.buf) <= p.want
    /\ p.fn = "enq" => p.out # <<>>

\* Nothing called, nothing to report.
Frame == [at |-> "idle", brk |-> "idle", fn |-> "none", want |-> 0, eot |-> FALSE,
          flush |-> FALSE, buf |-> <<>>, extra |-> 0, out |-> <<>>, rc |-> "OK",
          status |-> "OK", fapi |-> FALSE, count |-> 0]

FifoInit ==
    /\ up = <<>> /\ down = <<>> /\ reset = FALSE /\ faults = 0
    /\ p = Frame

At(l) == p.fn = "none" /\ p.at = l

(***************************************************************************)
(* A call from frame q: on success the chip-op goes on at l, on any other  *)
(* return code at b.                                                       *)
(***************************************************************************)
Deq(q, l, b, n, eot, flush) ==
    [q EXCEPT !.fn = "deq", !.at = l, !.brk = b, !.want = n, !.eot = eot,
              !.flush = flush, !.buf = <<>>, !.extra = 0]

Enq(q, l, b, words) == [q EXCEPT !.fn = "enq", !.at = l, !.brk = b, !.out = words]

Eot(q, l, b) == [q EXCEPT !.fn = "eot", !.at = l, !.brk = b]

Return(q, rc) ==
    [q EXCEPT !.fn = "none", !.out = <<>>, !.rc = rc, !.at = IF rc = "OK" THEN q.at ELSE q.brk]

\* Entries the dequeue in progress has taken (one past the wanted stands for any).
Taken == Len(p.buf) + p.extra

EotRc_AnyLength(n) == IF n < p.want THEN "INSUFFICIENT_DATA" ELSE "OK"

\* The end of a transfer met after n words: as expected, or too early or late.
EotRc(n) ==
    IF p.flush \/ (p.eot /\ n = p.want) THEN "OK"
    ELSE IF n < p.want THEN "INSUFFICIENT_DATA" ELSE "EXCESS_DATA"

\* A data word is kept while there is room for it, and counted.
DeqWord(w) ==
    LET q == IF ~p.flush /\ Taken < p.want
             THEN [p EXCEPT !.buf = Append(@, w)]
             ELSE [p EXCEPT !.extra = 1]
        more == p.flush \/ p.eot \/ Taken + 1 < p.want
    IN  IF more THEN q ELSE Return(q, "OK")

sbeUpFifoDeq_mult_NoReset ==
    /\ p.fn = "deq" /\ up # <<>>
    /\ up' = Tail(up)
    /\ p' = IF Head(up)[1] = "eot" THEN Return(p, EotRc(Taken)) ELSE DeqWord(Head(up)[2])
    /\ UNCHANGED <<down, reset, faults>>

\* sbeUpFifoDeq_mult.  An empty FIFO is read again: no step.
sbeUpFifoDeq_mult ==
    /\ p.fn = "deq"
    /\ \/ reset /\ p' = Return(p, "RESET") /\ UNCHANGED up
       \/ /\ ~reset /\ up # <<>>
          /\ up' = Tail(up)
          /\ p' = IF Head(up)[1] = "eot" THEN Return(p, EotRc(Taken)) ELSE DeqWord(Head(up)[2])
    /\ UNCHANGED <<down, reset, faults>>

sbeDownFifoEnq_mult_NoFull ==
    /\ p.fn = "enq"
    /\ \/ reset /\ p' = Return(p, "RESET") /\ UNCHANGED down
       \/ /\ ~reset
          /\ down' = Append(down, Head(p.out))
          /\ p' = IF Len(p.out) > 1 THEN [p EXCEPT !.out = Tail(@)] ELSE Return(p, "OK")
    /\ UNCHANGED <<up, reset, faults>>

\* sbeDownFifoEnq_mult.  A full FIFO is polled: no step.
sbeDownFifoEnq_mult ==
    /\ p.fn = "enq"
    /\ \/ reset /\ p' = Return(p, "RESET") /\ UNCHANGED down
       \/ /\ ~reset /\ Len(down) < DownDepth
          /\ down' = Append(down, Head(p.out))
          /\ p' = IF Len(p.out) > 1 THEN [p EXCEPT !.out = Tail(@)] ELSE Return(p, "OK")
    /\ UNCHANGED <<up, reset, faults>>

\* sbeDownFifoSignalEot, which does not look at the reset request.
sbeDownFifoSignalEot ==
    /\ p.fn = "eot" /\ Len(down) < DownDepth
    /\ down' = Append(down, <<"eot">>)
    /\ p' = Return(p, "OK")
    /\ UNCHANGED <<up, reset, faults>>

\* Any of the layer's register accesses may fail, a word read have a parity error.
FifoAccessFails ==
    /\ p.fn # "none" /\ faults < ScomFaults
    /\ faults' = faults + 1
    /\ \E rc \in {"ACCESS_FAILURE"} \cup IF p.fn = "deq" THEN {"PARITY_ERROR"} ELSE {} :
          p' = Return(p, rc)
    /\ UNCHANGED <<up, down, reset>>

FifoStep == sbeUpFifoDeq_mult \/ sbeDownFifoEnq_mult \/ sbeDownFifoSignalEot

(***************************************************************************)
(* sbeDsSendRespHdr: the header; the HWP's FFDC if there is a FAPI return  *)
(* code, its own length field counting the HWP's words; the SBE's FFDC if  *)
(* the status says so and the mailbox allows it; the distance back to the  *)
(* header.                                                                 *)
(***************************************************************************)
Words(kind, n) == [i \in 1..n |-> <<kind, i>>]

\* sendOverFIFO: a package whose first word counts it.
SbeFfdc == <<<<"ffdc", 2>>, <<"sbeffdc", 1>>>>

HwpFfdc == <<<<"ffdc", 1 + HwpFfdcWords>>>> \o Words("hwpffdc", HwpFfdcWords)

RespHdr_NoInternal(status, fapi) ==
    LET hwp == IF fapi THEN HwpFfdc ELSE <<>>
        internal == IF status # "OK" /\ SendInternalFFDC THEN SbeFfdc ELSE <<>>
        distance == 3 + IF fapi THEN 1 + HwpFfdcWords ELSE 0
    IN  <<<<"magic">>, <<"status", status>>>> \o hwp \o internal \o <<<<"dist", distance>>>>

RespHdr(status, fapi) ==
    LET hwp == IF fapi THEN HwpFfdc ELSE <<>>
        internal == IF status # "OK" /\ SendInternalFFDC THEN SbeFfdc ELSE <<>>
        distance == 3 + (IF fapi THEN 1 + HwpFfdcWords ELSE 0) + Len(internal)
    IN  <<<<"magic">>, <<"status", status>>>> \o hwp \o internal \o <<<<"dist", distance>>>>

\* The header after the words of `first', which the same routine sends.
sbeDsSendRespHdr(q, first, l, status, fapi) ==
    Enq(q, l, "return", first \o RespHdr(status, fapi))
=============================================================================
