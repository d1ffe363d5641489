------------------------------ MODULE HeatBuckets ------------------------------
(***************************************************************************)
(* A heat bucket (HeatBucket, ASTHeatDistribution.cpp): the OBJs of a tier *)
(* or disk are partitioned into buckets by one statistic, the hottest and  *)
(* the coldest ones are sorted by another one, on each side of a boundary  *)
(* as many as needed, and whoever generates advice walks them from the     *)
(* hottest down or from the coldest up; asking for more sorts further      *)
(* buckets under the walk's feet.                                          *)
(*                                                                         *)
(* Before that, what AST means by the heat of an OBJ (HeatCmp, HeatRange   *)
(* and HeatDistribution): which statistic a partition base or a sort base  *)
(* reads, which one the two comparators registered for a sort base really  *)
(* compare, the range of a tier or disk and the bucket that an OBJ falls   *)
(* into.                                                                   *)
(*                                                                         *)
(* A statistic is a record of the three terms (IOStat: raw value, short-   *)
(* and long-term moving average), each of random and sequential access,    *)
(* each of IOs, bandwidth and response time; reads and writes are added up.*)
(***************************************************************************)
EXTENDS Integers, Sequences, FiniteSets, SequencesExt

CONSTANTS
    BucketNum,   \* BUCKET_NUM
    Boundary     \* DEFAULT_BUCKET_BOUNDARY: the highest bucket that is cold

ASSUME BucketAssumption ==
    /\ BucketNum \in Nat \ {0} /\ Boundary \in 1 .. BucketNum - 1

Terms    == {"long", "short", "raw"}
Accesses == {"rnd", "seq", "accum"}     \* PB_random, PB_sequential, PB_rnd_seq
Metrics  == {"ios", "bw", "rt"}
Bases    == [term : Terms, kind : Accesses, metric : Metrics]
Base(term, kind, metric) == [term |-> term, kind |-> kind, metric |-> metric]

AdviceTypes == {"hot", "cold", "swapUp", "swapDown"}   \* AT_ctr_hot, ...
Sides == {"hot", "cold"}                               \* above, below the boundary
NoBucket == BucketNum     \* the index of an OBJ that is not partitioned

--------------------------------------------------------------------------------
(* The statistic that each group of comparators reads *)

LongTermEMARnd(stat, metric)   == stat.long.rnd[metric]
ShortTermEMARnd(stat, metric)  == stat.short.rnd[metric]
RawRnd(stat, metric)           == stat.raw.rnd[metric]
LongTermEMASeq(stat, metric)   == stat.long.seq[metric]
ShortTermEMASeq(stat, metric)  == stat.short.seq[metric]
RawSeq(stat, metric)           == stat.raw.seq[metric]
LongTermEMAAccum(stat, metric) ==
    LongTermEMARnd(stat, metric) + LongTermEMASeq(stat, metric)
ShortTermEMAAccum(stat, metric) ==
    ShortTermEMARnd(stat, metric) + ShortTermEMASeq(stat, metric)
RawAccum(stat, metric) == RawRnd(stat, metric) + RawSeq(stat, metric)

RndHeat(stat, base) ==
    CASE base.term = "long"  -> LongTermEMARnd(stat, base.metric)
      [] base.term = "short" -> ShortTermEMARnd(stat, base.metric)
      [] base.term = "raw"   -> RawRnd(stat, base.metric)
SeqHeat(stat, base) ==
    CASE base.term = "long"  -> LongTermEMASeq(stat, base.metric)
      [] base.term = "short" -> ShortTermEMASeq(stat, base.metric)
      [] base.term = "raw"   -> RawSeq(stat, base.metric)
AccumHeat(stat, base) ==
    CASE base.term = "long"  -> LongTermEMAAccum(stat, base.metric)
      [] base.term = "short" -> ShortTermEMAAccum(stat, base.metric)
      [] base.term = "raw"   -> RawAccum(stat, base.metric)

Heat(stat, base) ==
    CASE base.kind = "rnd"   -> RndHeat(stat, base)
      [] base.kind = "seq"   -> SeqHeat(stat, base)
      [] base.kind = "accum" -> AccumHeat(stat, base)

--------------------------------------------------------------------------------
(* What the comparator registered for a sort base compares *)

\* GreaterByLongTermEMARndIOs ... GreaterByRawRndRT
RndGreater(base) == base
\* GreaterByLongTermEMASeqIOs ... GreaterByRawSeqRT
SeqGreater(base) == base
\* Of the nine Greater functions of random and sequential access together,
\* only the first compares what it is named for.
AccumGreater(base) ==
    IF base.term = "long" /\ base.metric = "ios" THEN base
    ELSE Base("long", "rnd", "ios")

\* LessByLongTermEMARndIOs ... LessByRawRndRT
RndLess(base) == base
\* LessByShortTermEMASeqRT compares raw IOs, and all three raw sequential bases
\* have LessByRawSeqIOs registered.
SeqLess(base) ==
    IF base.term = "raw" \/ (base.term = "short" /\ base.metric = "rt")
    THEN Base("raw", "seq", "ios") ELSE base
\* LessByLongTermEMAAccumIOs ... LessByRawAccumRT
AccumLess(base) == base

\* GetGreater and GetLess
Greater(base) ==
    CASE base.kind = "rnd"   -> RndGreater(base)
      [] base.kind = "seq"   -> SeqGreater(base)
      [] base.kind = "accum" -> AccumGreater(base)
Less(base) ==
    CASE base.kind = "rnd"   -> RndLess(base)
      [] base.kind = "seq"   -> SeqLess(base)
      [] base.kind = "accum" -> AccumLess(base)

--------------------------------------------------------------------------------
(* Ranges and buckets; S is a set of OBJs, stats their statistics *)

Heats(S, stats, base) == {Heat(stats[o], base) : o \in S}
Total(S, stats, base) == FoldSet(LAMBDA o, sum : Heat(stats[o], base) + sum, 0, S)
Larger(x, y) == IF x > y THEN x ELSE y

\* SetupHeatRangeSummary and HeatRange::Calculate: the least and the greatest
\* heat, the width of a bucket, and the two portion boundaries.
HeatRange(S, stats, base) ==
    LET min == CHOOSE h \in Heats(S, stats, base) :
                  \A g \in Heats(S, stats, base) : h <= g
        max == CHOOSE h \in Heats(S, stats, base) :
                  \A g \in Heats(S, stats, base) : g <= h
        avg == Total(S, stats, base) \div Cardinality(S)
    IN [min |-> min, cap |-> (max - min) \div BucketNum,
        minPortion |-> Larger((min + avg) \div 2, (3 * min) \div 4 + max \div 4),
        maxPortion |-> Larger((max + avg) \div 2, min \div 4 + (3 * max) \div 4)]

\* GetOBJBucketIndex of an OBJ with this heat: the indexes it may get.  rand()
\* draws when the range is narrower than the number of buckets.
Indexes(range, heat, type) ==
    IF range.cap > 0
    THEN LET diff  == IF heat > range.min THEN heat - range.min ELSE 0
             index == diff \div range.cap
         IN {IF index >= BucketNum THEN BucketNum - 1 ELSE index}
    ELSE IF type = "hot" /\ range.maxPortion < heat THEN Boundary .. BucketNum - 1
    ELSE IF type = "cold" /\ range.minPortion > heat THEN 0 .. Boundary - 1
    ELSE 0 .. BucketNum          \* one time in five a bucket, else none

--------------------------------------------------------------------------------
(* Buckets                                                                     *)

VARIABLE stats    \* the statistics of the OBJs, read-only within a window

Indices == 0 .. BucketNum - 1
Top     == BucketNum - 1

--------------------------------------------------------------------------------
(* The state of a HeatBucket hb: its bases, part the buckets themselves, and   *)
(* per side SortedAboveBoundary (...Below) and LastSortedBucketAbove (...Below)*)
(* as sorted and last.  The cursors of its iterators are in Walk below.        *)

\* How many OBJs are in some buckets; in a bucket and those that are hotter, colder.
Count(part, S) == MapThenSumSet(LAMBDA i : Len(part[i]), S)
Hotter(part, from) == Count(part, from .. Top)
Colder(part, upto) == Count(part, 0 .. upto)
OBJsOn(part, side) ==
    IF side = "hot" THEN Hotter(part, Boundary + 1) ELSE Colder(part, Boundary)

\* Mutant of Swept: a bucket is swept when exactly enough are sorted already.
FaultySwept(part, side, b, have, n) ==
    IF side = "hot"
    THEN {i \in Boundary + 1 .. b : have + Hotter(part, i + 1) - Hotter(part, b + 1) <= n}
    ELSE {i \in b .. Boundary : have + Colder(part, i - 1) - Colder(part, b - 1) <= n}

\* The buckets that a sort of n OBJs goes through, starting at bucket b: the
\* loop stops as soon as enough are sorted or the boundary is reached.
Swept(part, side, b, have, n) ==
    IF side = "hot"
    THEN {i \in Boundary + 1 .. b : have + Hotter(part, i + 1) - Hotter(part, b + 1) < n}
    ELSE {i \in b .. Boundary : have + Colder(part, i - 1) - Colder(part, b - 1) < n}

\* LastSortedBucket... after a sweep that found nothing to do keeps its value.
LastOf(side, swept, before) ==
    IF swept = {} THEN before
    ELSE IF side = "hot" THEN CHOOSE i \in swept : \A j \in swept : i <= j
    ELSE CHOOSE i \in swept : \A j \in swept : j <= i

\* Where the next sweep of a side begins.
StartOf(hb, side) ==
    IF side = "hot" THEN hb.last[side] - 1
    ELSE IF hb.last[side] = NoBucket THEN 0 ELSE hb.last[side] + 1

Before(hb, side, a, b) ==
    IF side = "hot"
    THEN Heat(stats[a], Greater(hb.key.sort)) > Heat(stats[b], Greater(hb.key.sort))
    ELSE Heat(stats[a], Less(hb.key.sort)) < Heat(stats[b], Less(hb.key.sort))

\* What sorting a bucket may yield: std::sort may leave equal OBJs in any order.
Sortings(hb, side, i) ==
    {s \in [DOMAIN hb.part[i] -> ToSet(hb.part[i])] :
        /\ IsInjective(s)
        /\ \A j, k \in DOMAIN s : j < k => ~Before(hb, side, s[k], s[j])}

\* The buckets after sorting those of a set.
SortedParts(hb, side, swept) ==
    {[i \in Indices |-> IF i \in swept THEN new[i] ELSE hb.part[i]] :
        new \in {f \in [swept -> UNION {Sortings(hb, side, i) : i \in swept}] :
                    \A i \in swept : f[i] \in Sortings(hb, side, i)}}

\* OBJs in the order in which the tier or disk yields them.
Lined(S, order) ==
    LET place(o) == CHOOSE i \in DOMAIN order : order[i] = o IN
    [n \in 1 .. Cardinality(S) |->
        CHOOSE o \in S : Cardinality({p \in S : place(p) < place(o)}) = n - 1]

\* Partition the OBJs, in the order in which the tier or disk yields them: those
\* that are monitored long enough get into buckets.
Partitions(order, key, type) ==
    LET objs  == ToSet(order)
        range == HeatRange(objs, stats, key.part)
        index == {f \in [objs -> 0 .. BucketNum] : \A o \in objs :
                     IF stats[o].young THEN f[o] = NoBucket
                     ELSE f[o] \in Indexes(range, Heat(stats[o], key.part), type)}
    IN {[i \in Indices |-> Lined({o \in objs : f[o] = i}, order)] : f \in index}

NewBucket(key, part) ==
    [key |-> key, part |-> part, sorted |-> [hot |-> 0, cold |-> 0],
     last |-> [hot |-> NoBucket, cold |-> NoBucket]]

\* SortAbove, SortBelow and, of a bucket sorted before, ExtendSort...: the bucket
\* with n OBJs sorted on a side.
SortSide(hb, side, n) ==
    LET want  == IF n > OBJsOn(hb.part, side) THEN OBJsOn(hb.part, side) ELSE n
        swept == Swept(hb.part, side, StartOf(hb, side), hb.sorted[side], want)
    IN IF n <= hb.sorted[side] THEN {hb}
       ELSE {[key    |-> hb.key,
              part   |-> part,
              sorted |-> [hb.sorted EXCEPT ![side] = @ + Count(hb.part, swept)],
              last   |-> [hb.last EXCEPT ![side] = LastOf(side, swept, @)]] :
             part \in SortedParts(hb, side, swept)}

SortBoth(hb, above, below) ==
    UNION {SortSide(half, "cold", below) : half \in SortSide(hb, "hot", above)}

--------------------------------------------------------------------------------
(* The iterators: at is the bucket of a cursor, next the position in it.  got   *)
(* (ghost) is what a walk has handed out, begun the sides where GetFirst...OBJ  *)
(* was called, may those where the caller's loop goes on.                       *)

NewWalk ==
    [at |-> [side \in Sides |-> IF side = "hot" THEN Top ELSE 0],
     next |-> [side \in Sides |-> 1],
     got |-> [side \in Sides |-> <<>>], may |-> {}, begun |-> {}]

\* The sorted, not empty buckets from b on.
Filled(hb, side, b) ==
    {i \in (IF side = "hot" THEN hb.last[side] .. b
            ELSE IF hb.last[side] = NoBucket THEN {} ELSE b .. hb.last[side]) :
        hb.part[i] # <<>>}

\* Where a cursor rests that found nothing: before the buckets to sort next.
Resting(hb, side) == StartOf(hb, side)

HandOut(hb, w, side, i, k) ==
    [at    |-> [w.at EXCEPT ![side] = i],
     next  |-> [w.next EXCEPT ![side] = k + 1],
     got   |-> [w.got EXCEPT ![side] = Append(@, hb.part[i][k])],
     may   |-> w.may \cup {side},
     begun |-> w.begun]

\* ENOENT: the caller's loop ends.
NoEntry(w, side) == [w EXCEPT !.may = @ \ {side}]

\* GetFirst...OBJFromBucketIndexOn
FirstFrom(hb, w, side, b) ==
    LET filled == Filled(hb, side, b)
    IN IF filled # {}
       THEN HandOut(hb, w, side, CHOOSE i \in filled : \A j \in filled :
                           IF side = "hot" THEN j <= i ELSE i <= j, 1)
       ELSE [at    |-> [w.at EXCEPT ![side] = Resting(hb, side)],
             next  |-> [w.next EXCEPT ![side] = 1],
             got   |-> w.got,
             may   |-> w.may \ {side},
             begun |-> w.begun]

FirstOf(hb, w, side) ==
    FirstFrom(hb, [at |-> w.at, next |-> w.next, got |-> [w.got EXCEPT ![side] = <<>>],
                   may |-> w.may, begun |-> w.begun \cup {side}],
              side, IF side = "hot" THEN Top ELSE 0)

\* Mutant of Past: the last sorted bucket counts as past.
FaultyPast(hb, w, side) ==
    IF side = "hot" THEN w.at[side] <= hb.last[side] ELSE w.at[side] >= hb.last[side]

\* The cursor is past the sorted buckets.
Past(hb, w, side) ==
    IF side = "hot" THEN w.at[side] < hb.last[side] ELSE w.at[side] > hb.last[side]

NextOf(hb, w, side) ==
    LET i == w.at[side]  k == w.next[side]
    IN IF Past(hb, w, side) THEN NoEntry(w, side)
       ELSE IF k <= Len(hb.part[i]) THEN HandOut(hb, w, side, i, k)
       ELSE FirstFrom(hb, w, side, IF side = "hot" THEN i - 1 ELSE i + 1)

\* GetAllSatisfyingOBJs of a filter rule: the sorted buckets of the side that
\* its selector names.
AllSatisfying(hb, side) ==
    UNION {ToSet(hb.part[i]) : i \in Filled(hb, side, IF side = "hot" THEN Top ELSE 0)}
================================================================================
