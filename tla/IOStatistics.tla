------------------------------ MODULE IOStatistics ------------------------------
(***************************************************************************)
(* What AST remembers of the IO of OBJs and disks (ASTIO.cpp): each round  *)
(* of learning takes the values reported for an OBJ, moves its short- and  *)
(* long-term averages and counts the cycle, while the timer's thread may   *)
(* start the next cycle between any two OBJs; before advice is given the   *)
(* values of the OBJs are summed up for their disks.                       *)
(***************************************************************************)
EXTENDS DecisionWindows, Sequences, FiniteSetsExt, Functions

CONSTANTS
    OBJs, Disks,
    DiskOf,      \* the disk of an OBJ
    Samples,     \* what the HUB may report for an OBJ
    Word,        \* one more than the greatest ywb_uint32_t
    MaxTicks,    \* bound on the cycles between two enablings
    MaxFailures  \* bound on the rounds that fail

\* The values of a ChunkIOStat.
Accesses == {"rnd", "seq"}
Counts   == {"readIOs", "writeIOs"}
Volumes  == {"readBW", "writeBW"}
Times    == {"totalRT"}
Fields   == Accesses \X (Counts \cup Volumes \cup Times)

Terms == {"raw", "short", "long"}     \* IOStat::Type

Stats == [Fields -> 0 .. Word - 1]    \* ChunkIOStat

ASSUME StatisticsAssumption ==
    /\ DiskOf \in [OBJs -> Disks] /\ IsFiniteSet(OBJs)
    /\ Word \in Nat \ {0} /\ MaxTicks \in Nat /\ MaxFailures \in Nat
    /\ Samples \subseteq Stats

VARIABLES
    io,          \* per OBJ: its OBJIO, or NoIO
    deleted,     \* OBJs that the next consolidation removes
    diskIO,      \* per disk: sums and ranges as of the last summary
    rounds,      \* the rounds asked for, TRUE where advice follows
    phase,       \* the generator: "idle", "resolving" or "advising"
    todo,        \* what the answer holds for OBJs that are not resolved yet
    suspicious,  \* OBJs that the round has not confirmed
    failures,    \* rounds that failed
    history      \* history variable: the reports on an OBJ since it is known,
                 \* and the cycles of this window in which they were taken

ioVars  == <<io, deleted, suspicious, history>>
allVars == <<timeVars, ioVars, diskIO, rounds, phase, todo, failures>>

NoIO   == [cycles |-> 0]
Known  == {o \in OBJs : io[o] # NoIO}
Unseen == [stats |-> {}, cycles |-> {}]

-----------------------------------------------------------------------------
(* Averages.                                                               *)

\* Mutant of EMA: an average of zero counts like any other.
FaultyEMA(prev, cur, cycles) ==
    LET n == cycles + 1 IN ((prev * (n * n - 2 * n) + cur * 2 * n) % Word) \div (n * n)

\* EMA::Calculate with the multipliers of a window of so many cycles: the first
\* value stands for itself; products and sums are unsigned.
EMA(prev, cur, cycles) ==
    LET n == cycles + 1 IN
    IF prev = 0 THEN cur
    ELSE ((prev * (n * n - 2 * n) + cur * 2 * n) % Word) \div (n * n)

\* CalculateEMAIO
CalculateEMAIO(name, ema, raw) ==
    [f \in Fields |-> EMA(ema[f], raw[f], windows[name].cycles)]

Zero == [f \in Fields |-> 0]

\* What OBJIO holds.
OBJIOs == [raw : Stats, short : Stats, long : Stats, cycles : Nat]

\* IsMonitoredLongEnough: in 60 percent of the cycles of a short-term window.
IsMonitoredLongEnough(o) == 100 * io[o].cycles >= 60 * windows["short"].cycles

-----------------------------------------------------------------------------
(* Summaries of disks.                                                     *)

SumOf(stat, group) == MapThenSumSet(LAMBDA f : stat[f], group) % Word

\* What is summed up and what is given a range: single values, one kind of access,
\* and reads or writes of both kinds or everything.
Singles(metric)   == {{f} : f \in Accesses \X metric}
PerAccess(metric) == {{a} \X metric : a \in Accesses}
CountSums  == Singles(Counts) \cup PerAccess(Counts) \cup {Accesses \X {k} : k \in Counts}
VolumeSums == Singles(Volumes) \cup PerAccess(Volumes)
              \cup {Accesses \X {k} : k \in Volumes}
TimeSums   == PerAccess(Times)
SumGroups  == CountSums \cup VolumeSums \cup TimeSums

CountRanges  == Singles(Counts) \cup PerAccess(Counts) \cup {Accesses \X Counts}
\* UpdateBWRange leaves the ranges of single volumes empty, as Reset made them.
VolumeRanges == PerAccess(Volumes) \cup {Accesses \X Volumes}
TimeRanges   == PerAccess(Times) \cup {Accesses \X Times}
RangeGroups  == CountRanges \cup VolumeRanges \cup TimeRanges

\* SummarizeDiskIO of a disk with OBJs S.
Summary(S) ==
    [sums   |-> [t \in Terms |-> [g \in SumGroups |->
                    MapThenSumSet(LAMBDA o : SumOf(io[o][t], g), S) % Word]],
     ranges |-> [t \in Terms |-> [g \in RangeGroups |->
                    LET values == {SumOf(io[o][t], g) : o \in S} IN
                    [min |-> Min(values \cup {Word - 1}), max |-> Max(values \cup {0})]]]]

\* What DiskIO holds: DiskIOStat and DiskIOStatRange for each term.
DiskIOs ==
    [sums   : [Terms -> [SumGroups -> 0 .. Word - 1]],
     ranges : [Terms -> [RangeGroups -> [min : 0 .. Word - 1, max : 0 .. Word - 1]]]]

NoSummary == [sums |-> <<>>]

-----------------------------------------------------------------------------
(* The steps.                                                              *)

\* TimeManager::LaunchNewCycle asks for a round of learning.
NewCycle ==
    /\ relative < MaxTicks
    /\ Tick
    /\ rounds' = Append(rounds, windows'["short"].type = 1)
    /\ history' = IF windows'["short"].new
                  THEN [o \in OBJs |-> [history[o] EXCEPT !.cycles = {}]] ELSE history
    /\ UNCHANGED <<io, deleted, suspicious, diskIO, phase, todo, failures>>

\* P_collect_logical_config and the answer of the HUB.
StartRound ==
    /\ phase = "idle" /\ rounds # <<>>
    /\ phase' = "resolving"
    /\ suspicious' = Known
    /\ \E S \in SUBSET OBJs : todo' \in [S -> Samples]
    /\ UNCHANGED <<timeVars, io, deleted, diskIO, rounds, failures, history>>

\* Mutant of Counted: the cycle is counted before the window's count is reset.
FaultyCounted(cycles) ==
    IF windows["short"].new THEN 0 ELSE cycles + 1

\* A known OBJ's cycles after a report.
Counted(cycles) == (IF windows["short"].new THEN 0 ELSE cycles) + 1

\* ResolveOBJIO for one OBJ, with the window as the timer has it now.
ResolveOBJIO(o) ==
    LET raw == todo[o]
        old == IF o \in Known THEN io[o] ELSE [short |-> Zero, long |-> Zero, cycles |-> 0] IN
    /\ phase = "resolving" /\ o \in DOMAIN todo
    /\ io' = [io EXCEPT ![o] =
                [raw    |-> raw,
                 short  |-> CalculateEMAIO("short", old.short, raw),
                 long   |-> CalculateEMAIO("long", old.long, raw),
                 cycles |-> IF o \in Known THEN Counted(old.cycles) ELSE 1]]
    /\ suspicious' = suspicious \ {o}
    /\ todo' = Restrict(todo, DOMAIN todo \ {o})
    /\ history' = [history EXCEPT ![o] =
                     [stats  |-> @.stats \cup {raw},
                      cycles |-> @.cycles \cup {relative % windows["short"].cycles}]]
    /\ UNCHANGED <<timeVars, deleted, diskIO, rounds, phase, failures>>

\* Out of memory in the middle, or an answer that failed: the rest is dropped.
FailRound ==
    /\ phase = "resolving" /\ failures < MaxFailures
    /\ failures' = failures + 1
    /\ phase' = "idle"
    /\ rounds' = Tail(rounds)
    /\ todo' = <<>>
    /\ UNCHANGED <<timeVars, ioVars, diskIO>>

\* The end of the answer: what it did not confirm is to be removed.
EndRound ==
    /\ phase = "resolving" /\ DOMAIN todo = {}
    /\ deleted' = deleted \cup suspicious
    /\ phase' = IF Head(rounds) THEN "advising" ELSE "idle"
    /\ rounds' = Tail(rounds)
    /\ UNCHANGED <<timeVars, io, suspicious, diskIO, todo, failures, history>>

\* Mutant of Consolidate: disks are summed up before OBJs are removed.
FaultyConsolidate ==
    /\ phase = "advising"
    /\ io' = [o \in OBJs |-> IF o \in deleted THEN NoIO ELSE io[o]]
    /\ history' = [o \in OBJs |-> IF o \in deleted THEN Unseen ELSE history[o]]
    /\ deleted' = {}
    /\ diskIO' = [d \in Disks |-> Summary({o \in Known : DiskOf[o] = d})]
    /\ phase' = "idle"
    /\ UNCHANGED <<timeVars, suspicious, rounds, todo, failures>>

\* RelocationLearning::Consolidate before advice is generated: the
\* configuration first, then the IO of the disks.
Consolidate ==
    /\ phase = "advising"
    /\ io' = [o \in OBJs |-> IF o \in deleted THEN NoIO ELSE io[o]]
    /\ history' = [o \in OBJs |-> IF o \in deleted THEN Unseen ELSE history[o]]
    /\ deleted' = {}
    /\ diskIO' = [d \in Disks |-> Summary({o \in Known \ deleted : DiskOf[o] = d})]
    /\ phase' = "idle"
    /\ UNCHANGED <<timeVars, suspicious, rounds, todo, failures>>

\* AST is disabled and enabled again, with other windows perhaps.
Reenable ==
    /\ phase = "idle" /\ relative = MaxTicks
    /\ \E setting \in Settings : ResetTime(setting)
    /\ io' = [o \in OBJs |-> NoIO]
    /\ history' = [o \in OBJs |-> Unseen]
    /\ deleted' = {} /\ suspicious' = {} /\ rounds' = <<>>
    /\ diskIO' = [d \in Disks |-> NoSummary]
    /\ failures' = 0
    /\ UNCHANGED <<phase, todo>>

Init ==
    /\ InitTime
    /\ io = [o \in OBJs |-> NoIO] /\ history = [o \in OBJs |-> Unseen]
    /\ deleted = {} /\ suspicious = {} /\ rounds = <<>> /\ todo = <<>>
    /\ diskIO = [d \in Disks |-> NoSummary]
    /\ phase = "idle" /\ failures = 0

Next ==
    \/ NewCycle \/ StartRound \/ FailRound \/ EndRound \/ Consolidate \/ Reenable
    \/ \E o \in OBJs : ResolveOBJIO(o)

Spec == Init /\ [][Next]_allVars

-----------------------------------------------------------------------------
(* Properties                                                              *)

TypeOK ==
    /\ \A o \in Known : io[o] \in OBJIOs
    /\ deleted \subseteq OBJs /\ suspicious \subseteq OBJs
    /\ phase \in {"idle", "resolving", "advising"}

\* No value times the square of a window's length leaves a word: what EMA::Calculate
\* relies on and does not check.
ValuesFit ==
    \A s \in Samples, f \in Fields, setting \in Settings, name \in WindowNames :
        s[f] * (setting[name] + 1) * (setting[name] + 1) < Word

\* An average never leaves the span of the values it is an average of,
\* whatever rounding, the special treatment of zero and the order of the
\* reports do.  It needs ValuesFit.
AveragesBetween ==
    /\ TypeOK
    /\ \A o \in Known, f \in Fields :
          LET values == {s[f] : s \in history[o].stats}
          IN {io[o].short[f], io[o].long[f]} \subseteq Min(values) .. Max(values)

\* An OBJ that was reported in enough cycles of the present window is taken
\* into account, though the timer may start a window between two OBJs of one
\* answer and rounds may fail.
MonitoredIsEffective ==
    \A o \in Known :
        100 * Cardinality(history[o].cycles) >= 60 * windows["short"].cycles
            => IsMonitoredLongEnough(o)

\* Advice finds for each disk the sums, every one of them a ywb_uint32_t, of exactly
\* the OBJs that are left, and ranges in which each of them lies: those that are
\* kept (HeatDistribution::SetupHeatRangeSummary reads those of one tier's disks).
SummaryFits ==
    [][phase = "advising" /\ phase' # "advising" =>
        \A d \in Disks, t \in Terms :
            LET left == {o \in OBJs : io'[o] # NoIO /\ DiskOf[o] = d} IN
            /\ diskIO'[d] \in DiskIOs
            /\ \A g \in SumGroups :
                  diskIO'[d].sums[t][g] = MapThenSumSet(LAMBDA o : SumOf(io'[o][t], g), left) % Word
            /\ \A g \in RangeGroups, o \in left :
                  SumOf(io'[o][t], g) \in diskIO'[d].ranges[t][g].min .. diskIO'[d].ranges[t][g].max
      ]_allVars
================================================================================
