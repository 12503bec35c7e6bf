---------------------------- MODULE MCSbeChipOps ----------------------------
EXTENDS SbeChipOps

R(op, len, addr, extra, flags) ==
    [op |-> op, len |-> len, addr |-> addr, extra |-> extra, flags |-> flags]

\* Messages that are whole, short by a word or long by a word.
Three(op, len, addr, flags) == {R(op, len, addr, e, flags) : e \in {-1, 0, 1}}

MCRegions ==
    {[start |-> 0, size |-> 16, mode |-> {"R", "W"}],
     [start |-> 16, size |-> 16, mode |-> {"R"}]}

ScomRequests ==
    UNION {Three("getscom", 0, 0, {}),
           {R("putscom", 0, 0, 0, {}), R("modscom", 0, 0, 0, {}), R("modscom", 0, 0, 0, {"badmode"}),
            R("putscommask", 0, 0, 0, {})}}

RegRequests == UNION {Three("getreg", 2, 0, {}), Three("putreg", 2, 0, {})}

MemRequests ==
    UNION {Three("putmem", 32, 0, {"pba"}), Three("putmem", 24, 8, {}),
           {R("getmem", 32, 0, 0, {"pba"}), R("getmem", 32, 16, 0, {"pba", "passthrough"}),
            R("putmem", 32, 0, 0, {"pba", "passthrough"}),
            R("putmem", 16, 24, 0, {"pba", "passthrough"}),
            R("getmem", 48, 0, 0, {"ecc", "trusted"}),
            R("getmem", 24, 0, 0, {"ecc", "itag", "trusted"}), R("getmem", 16, 16, 0, {}),
            R("getmem", 12, 0, 0, {}),
            R("putmem", 4, 4, 0, {}), R("putmem", 16, 0, 0, {"ecc", "trusted"}),
            R("putmem", 3, 0, 0, {})}}

SramRequests ==
    UNION {Three("putsram", 16, 0, {}), {R("putsram", 24, 0, 0, {}), R("getsram", 12, 0, 0, {}),
           R("putsram", 20, 0, 0, {"circular"})}}

ScanRequests ==
    UNION {Three("putring", 3, 0, {}), {R("putring", 4, 0, 0, {}),
           R("getring", 100, 0, 0, {}), R("getring", 128, 0, 0, {}),
           R("trace", 0, 0, 0, {"dump"}), R("trace", 0, 0, 0, {}),
           R("fastarray", 0, 0, 0, {}), R("fastarray", 0, 0, 0, {"badtarget"})}}

OtherRequests ==
    UNION {{R("cntlinst", 0, 0, 0, f) : f \in {{"wakeup"}, {"wakeup", "ignore"}}},
           {R("cntlinst", 0, 2, 0, {}), R("cntlinst", 0, 0, 0, {"invalid"}), R("istep", 0, 0, 0, {}),
            R("istep", 0, 0, 0, {"invalid"}), R("nvdimm", 0, 0, 0, {}),
            R("caps", 0, 0, 0, {}), R("caps", 0, 0, 1, {}), R("getffdc", 0, 0, 0, {}),
            R("quiesce", 0, 0, 0, {}), R("unknown", 0, 0, 1, {})}}

MCRequests == UNION {ScomRequests, RegRequests, MemRequests, SramRequests, ScanRequests,
                     OtherRequests}

\* Register requests that are refused: the rest of their message stays in the
\* FIFO, and MessageBoundary is violated.  An SRAM access in an unknown mode is
\* not answered, and Served is violated.
RefusedRequests ==
    {R("getreg", 1, 0, 0, {"invalid"}), R("putreg", 1, 0, 0, {"invalid"}),
     R("getsram", 8, 0, 0, {"badmode"})}

TwoCores == <<1, 2>>
=============================================================================
