----------------------------- MODULE SbeSecureMem -----------------------------
(***************************************************************************)
(* The memory regions the host has opened to the service processor         *)
(* (sbeSecureMemRegionManager.C): a table of at most MaxRegions regions in *)
(* the order of their opening, changed by the host's chip-op and read by   *)
(* the memory chip-ops.  Addresses have AddrMod values, sizes SizeMod.     *)
(***************************************************************************)
EXTENDS Naturals, Sequences, SequencesExt

CONSTANTS
    MaxRegions,        \* iv_maxRegions
    AddrMod, SizeMod,  \* 2^64 and 2^32
    FWSecurityEnabled, \* sbeFWSecurityEnabled
    HostRegions        \* the regions the host asks for

Region == [start : 0..(AddrMod - 1), size : 0..(SizeMod - 1), mode : SUBSET {"R", "W"}]

ASSUME RegionAssumption ==
    /\ FWSecurityEnabled \in BOOLEAN /\ MaxRegions \in Nat
    /\ AddrMod \in Nat \ {0} /\ SizeMod \in Nat \ {0}
    /\ HostRegions \subseteq Region

VARIABLES
    regions,           \* iv_memRegions up to iv_regionsOpenCnt
    opened             \* the regions the host was told are open

NoRegion == [start |-> 0, size |-> 0, mode |-> {}]

\* The ends are computed in 64 bits, the sum of the two sizes in 32.
End(r) == (AddrMod + r.start + r.size - 1) % AddrMod
Overlap(r, s) ==
    LET first == IF r.start < s.start THEN r.start ELSE s.start
        last  == IF End(r) >= End(s) THEN End(r) ELSE End(s)
    IN  (AddrMod + last - first + 1) % AddrMod < (r.size + s.size) % SizeMod

\* r begins in s.
Inside(r, s) == r.start >= s.start /\ r.start < (s.start + s.size) % AddrMod

\* s to the extent of r.
Cut(r, s) ==
    LET rest == (AddrMod + s.start + s.size - r.start) % SizeMod
    IN  [s EXCEPT !.start = r.start, !.size = IF rest > r.size THEN r.size ELSE rest]

getPartialRegionSize_FirstHit(table, r) ==
    LET hits == {i \in DOMAIN table : Overlap(r, table[i])}
    IN  IF hits = {} THEN NoRegion
        ELSE LET s == table[CHOOSE i \in hits : \A j \in hits : i <= j]
             IN  IF Inside(r, s) THEN Cut(r, s) ELSE s

\* The first region that overlaps r from its beginning, cut to r; otherwise the
\* last that overlaps it at all.
getPartialRegionSize(table, r) ==
    LET hits  == {i \in DOMAIN table : Overlap(r, table[i])}
        exact == {i \in hits : Inside(r, table[i])}
    IN  IF exact # {} THEN Cut(r, table[CHOOSE i \in exact : \A j \in exact : i <= j])
        ELSE IF hits # {} THEN table[CHOOSE i \in hits : \A j \in hits : i >= j]
        ELSE NoRegion

\* The loop of isAccessAllowed as a function of the size left to cover.
isAccessAllowed(table, r) ==
    LET rest(size) == [r EXCEPT !.start = (r.start + r.size - size) % AddrMod, !.size = size]
        found(size) == getPartialRegionSize(table, rest(size))
        allowed[size \in 0..r.size] ==
            \/ size = 0
            \/ /\ r.mode \cap found(size).mode # {}
               /\ rest(size).start = found(size).start
               /\ allowed[size - found(size).size]
    IN  FWSecurityEnabled => allowed[r.size]

add(r) ==
    /\ getPartialRegionSize(regions, r).mode = {}
    /\ Len(regions) < MaxRegions
    /\ regions' = Append(regions, r) /\ opened' = opened \cup {r}

\* The slots behind the closed region move up.
remove(start) ==
    \E i \in DOMAIN regions :
        /\ regions[i].start = start
        /\ \A j \in 1..(i - 1) : regions[j].start # start
        /\ regions' = RemoveAt(regions, i)
        /\ opened' = {r \in opened : r.start # start}

\* The chip-op of the host; a refused request leaves the table alone.
sbeUpdateMemAccessRegion == \E r \in HostRegions : add(r) \/ remove(r.start)

----------------------------------------------------------------------------
\* Every byte of r lies in a region of the host's that is open for the mode.
Covered(r) ==
    \A a \in r.start..(r.start + r.size - 1) :
        \E s \in opened : a \in s.start..(s.start + s.size - 1) /\ r.mode \cap s.mode # {}

\* The bytes at and beside the ends of the regions the host knows.
Edges ==
    UNION {{r.start, r.start + 1, r.start + r.size - 1, r.start + r.size} : r \in HostRegions}

\* An access is allowed exactly when the host has opened all of it, whatever
\* regions it spans and in whatever order they were opened and closed
\* (isAccessAllowed, getPartialRegionSize, add and remove).  Sums that wrap and
\* regions without a mode, which add accepts, are outside HostRegions.
RegionsDecide ==
    \A first, last \in Edges, m \in {"R", "W"} :
        LET r == [start |-> first, size |-> last + 1 - first, mode |-> {m}]
        IN  first <= last => (isAccessAllowed(regions, r) <=> Covered(r))
=============================================================================
