------------------------------ MODULE DiskProfiles ------------------------------
(***************************************************************************)
(* What a disk can do (ASTDiskProfile.cpp, DiskPerf in ASTPerformance.cpp).*)
(* A profile has, for random and for sequential access and for some shares *)
(* of reading, among them 0 and 100, the throughput and the IOs measured   *)
(* at some sizes of IO; what lies between is interpolated.                 *)
(***************************************************************************)
EXTENDS Integers, Sequences, FiniteSetsExt

CONSTANTS
    Word,           \* 2^32: throughput, IOs and their products are unsigned
    Period,         \* seconds of a cycle
    Default         \* [bw, io] of a disk without a profile, the same in all tiers

--------------------------------------------------------------------------------
(* The file of profiles *)

\* DiskProfileEntry, SubDiskProfile: what was measured at a share of reading.  The
\* code keeps a list, sorted by size; it has every size once.
Entry(row) == [size |-> row.size, bw |-> row.bw, io |-> row.io]
Entries(rows, ratio) == {Entry(rows[i]) : i \in {j \in DOMAIN rows : rows[j].ratio = ratio}}

Smallest(entries) == CHOOSE e \in entries : \A f \in entries : e.size <= f.size
Largest(entries)  == CHOOSE e \in entries : \A f \in entries : f.size <= e.size

\* ParseDevice: its rows have the ratios 0 and 100, and those of a ratio follow one
\* another (asserted by SetRndPerf and at the end).
Ratios(rows) == {rows[i].ratio : i \in DOMAIN rows}
IsDevice(device) ==
    LET rows == device.rows
    IN /\ device.prop.cap \in Nat
       /\ rows \in Seq([ratio : Nat, size : Nat, bw : Nat, io : Nat])
       /\ {0, 100} \subseteq Ratios(rows)
       /\ \A i, j, k \in DOMAIN rows :
             i < j /\ j < k /\ rows[i].ratio = rows[k].ratio => rows[j].ratio = rows[i].ratio

\* DiskPerfProfile.  Rows say nothing of sequential access.
ParseDevice(device) ==
    [rnd |-> [r \in Ratios(device.rows) |-> Entries(device.rows, r)], seq |-> <<>>]

\* BuildDiskPerfProfile stops at the first device that is there already.
Read(devices) ==
    {i \in DOMAIN devices :
        \A j, k \in 1 .. i : j # k => devices[j].prop # devices[k].prop}
Build(devices) ==
    [prop \in {devices[i].prop : i \in Read(devices)} |->
        ParseDevice(devices[CHOOSE i \in Read(devices) : devices[i].prop = prop])]

\* GetDiskPerfProfile: of the model, or of one that differs in capacity only.
ProfileOf(table, prop) ==
    LET alike == {q \in DOMAIN table : q.kind = prop.kind}
    IN IF prop \in DOMAIN table THEN table[prop]
       ELSE IF alike = {} THEN <<>>
       ELSE table[CHOOSE q \in alike : \A r \in alike : q.cap <= r.cap]

--------------------------------------------------------------------------------
(* Interpolation *)

\* RWRATIO_DIFF
RatioDiff == 5

\* Mutant of Linear: values that fall are taken for values that rise.
FaultyLinear(ax, ay, bx, by, x) ==
    LET lo == IF ax < bx THEN [x |-> ax, y |-> ay] ELSE [x |-> bx, y |-> by]
        hi == IF ax < bx THEN [x |-> bx, y |-> by] ELSE [x |-> ax, y |-> ay]
        part(y) == ((y * (x - lo.x)) % Word) \div (hi.x - lo.x)
    IN IF ~(lo.x < x /\ x < hi.x) THEN 0
       ELSE lo.y + part(IF lo.y < hi.y THEN hi.y - lo.y ELSE lo.y - hi.y)

\* LinearInterpolation between (ax, ay) and (bx, by); rounded towards the value at
\* the smaller x.  Zero where x is not strictly between.
Linear(ax, ay, bx, by, x) ==
    LET lo == IF ax < bx THEN [x |-> ax, y |-> ay] ELSE [x |-> bx, y |-> by]
        hi == IF ax < bx THEN [x |-> bx, y |-> by] ELSE [x |-> ax, y |-> ay]
        part(y) == ((y * (x - lo.x)) % Word) \div (hi.x - lo.x)
    IN IF ~(lo.x < x /\ x < hi.x) THEN 0
       ELSE IF lo.y < hi.y THEN lo.y + part(hi.y - lo.y)
       ELSE lo.y - part(lo.y - hi.y)

\* WeightedInterpolation of a share (of 100) of one value with the rest of another:
\* their weighted harmonic mean, in whole hundreds.
Weighted(share, v1, v2) ==
    IF share = 0 \/ v1 = 0 THEN v2
    ELSE IF share = 100 \/ v2 = 0 THEN v1
    ELSE LET sum == (share * v2 + (100 - share) * v1) % Word
         IN IF sum = 0 THEN 0 ELSE (((((v1 * v2) % Word) \div sum) * 100) % Word)

\* IsRWRatioFuzzyMatch
Matches(a, b) == b * 100 \in a * (100 - RatioDiff) .. a * (100 + RatioDiff)

\* CalculateDiskPerf at a share of reading that the profile has: beyond the sizes
\* that were measured the values at the last one are taken.
AtSize(entries, size) ==
    LET larger == {e \in entries : e.size > size}
        others == entries \ larger
        a == Smallest(larger)
        b == Largest(others)
        exact(e) == [bw |-> e.bw, io |-> e.io]
    IN IF others = {} THEN exact(a)
       ELSE IF larger = {} \/ b.size = size THEN exact(b)
       ELSE [bw |-> Linear(a.size, a.bw, b.size, b.bw, size),
             io |-> Linear(a.size, a.io, b.size, b.io, size)]

\* The same for any share of reading.
AtRatio(perf, ratio, size) ==
    IF Matches(0, ratio) THEN AtSize(perf[0], size)
    ELSE IF Matches(100, ratio) THEN AtSize(perf[100], size)
    ELSE IF ratio \in DOMAIN perf THEN AtSize(perf[ratio], size)
    ELSE LET below == Max({r \in DOMAIN perf : r < ratio})
             above == Min({r \in DOMAIN perf : r > ratio})
             p == AtSize(perf[below], size)
             q == AtSize(perf[above], size)
         IN [bw |-> Linear(below, p.bw, above, q.bw, ratio),
             io |-> Linear(below, p.io, above, q.io, ratio)]

\* CalculateDiskPerf for a mix of random and sequential IO; a profile without
\* sequential measurements takes the random ones.
Mixed(profile, w) ==
    LET rnd == profile.rnd
        seq == IF DOMAIN profile.seq = {} THEN profile.rnd ELSE profile.seq
        none == [bw |-> 0, io |-> 0]
        p == IF w.share = 0 \/ DOMAIN rnd = {} THEN none
             ELSE AtRatio(rnd, w.rndReads, w.rndSize)
        q == IF w.share = 100 \/ DOMAIN seq = {} THEN none
             ELSE AtRatio(seq, w.seqReads, w.seqSize)
    IN [bw |-> Weighted(w.share, p.bw, q.bw), io |-> Weighted(w.share, p.io, q.io)]

\* The IO of a disk, as DiskPerf::CalculateDiskPerf describes it to the profile.
DiskIO == [rndReadIOs : Nat, rndWriteIOs : Nat, seqReadIOs : Nat, seqWriteIOs : Nat,
           rndBW : Nat, seqBW : Nat]
Percent(part, all) == IF all = 0 THEN 0 ELSE (100 * part) \div all
Size(bw, ios) == IF ios = 0 THEN 4 ELSE bw \div ios     \* DEFAULT_IOSIZE
Workload(s) ==
    LET rnd == s.rndReadIOs + s.rndWriteIOs
        seq == s.seqReadIOs + s.seqWriteIOs
    IN [share    |-> Percent(rnd, rnd + seq),
        rndReads |-> Percent(s.rndReadIOs, rnd), rndSize |-> Size(s.rndBW, rnd),
        seqReads |-> Percent(s.seqReadIOs, seq), seqSize |-> Size(s.seqBW, seq)]

\* DiskPerf::CalculateDiskPerf: the most a disk can do in a cycle.  A disk without
\* a profile (<<>>), or a value of zero, takes the default.
Threshold(profile, s) ==
    LET known == IF profile = <<>> THEN Default ELSE Mixed(profile, Workload(s))
        or(v, d) == IF v = 0 THEN d ELSE v
    IN [bw |-> (or(known.bw, Default.bw) * 1024 * Period) % Word,
        io |-> (or(known.io, Default.io) * Period) % Word]

\* What is used of it at the start.
Consumed(s) == [io |-> s.rndReadIOs + s.rndWriteIOs + s.seqReadIOs + s.seqWriteIOs,
                bw |-> s.rndBW + s.seqBW]
================================================================================
