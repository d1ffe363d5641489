------------------------------ MODULE Reservations ------------------------------
(***************************************************************************)
(* What the disks of a SubPool can still take in a decision window, and    *)
(* how plans use it up: the ranking of the disks (ASTPerformance.cpp), the *)
(* planner's choice of a target (ASTPlan.cpp) and the arbitrator's         *)
(* reservations (ASTArb.cpp).  Everything runs in the executor's thread,   *)
(* but disks join and leave in the generator's, and migrations end in a    *)
(* later window than they were reserved in.  One SubPool, one tier.        *)
(***************************************************************************)
EXTENDS DiskProfiles, FiniteSets

CONSTANTS
    Disks, OBJs,
    Devices,        \* of the file of profiles
    Prop,           \* kind and capacity, in OBJs, of a disk
    Places,         \* where the OBJs may be at first
    Loads,          \* the IO the disks may have had when a window starts
    Demands,        \* the IO and the bandwidth an OBJ may need
    MaxWindows, MaxBatch, MaxConfigChanges,
    MaxPlans        \* of a window: advice is finite

ASSUME DevicesAssumption == \A i \in DOMAIN Devices : IsDevice(Devices[i])

ASSUME CycleAssumption == Period \in Nat /\ Default \in [bw : Nat, io : Nat]

ASSUME AmountsAssumption ==
    /\ Word \in Nat \ {0}
    /\ Places \subseteq [OBJs -> Disks]
    /\ Demands \subseteq [io : Nat, bw : Nat]
    /\ Loads \subseteq [Disks -> DiskIO]

VARIABLES
    present,        \* the disks of the SubPool
    place,          \* the disk of every OBJ
    window, ranked, \* the window; does it rank the disks of the SubPool?
    unit,           \* of the ranked disks: mDiskRanking, mIndexing
    batch,          \* plans chosen and not yet received
    chosen,         \* how many plans the window has
    in,             \* arbitratees of IN, all of them being migrated
    out,            \* OBJs whose lease in OUT goes on
    crashed,        \* a ranking that is not there was used
    offered,        \* history: what was available when the window started
    booked,         \* history: what was admitted to the disk in this window
    strayed,        \* history: disks whose books the code is known not to balance
    changes

configVars  == <<present, place, changes>>
rankingVars == <<window, ranked, unit, offered>>
vars == <<present, place, window, ranked, unit, batch, chosen, in, out, crashed,
          offered, booked, strayed, changes>>

Zero == [io |-> 0, bw |-> 0, cap |-> 0]
Plus(a, b)  == [io |-> (a.io + b.io) % Word, bw |-> (a.bw + b.bw) % Word, cap |-> a.cap + b.cap]
Minus(a, b) == [io |-> (a.io - b.io) % Word, bw |-> (a.bw - b.bw) % Word, cap |-> a.cap - b.cap]
WithCap(need, n) == [io |-> need.io, bw |-> need.bw, cap |-> n]
Entering(need) == WithCap(need, 1)
Leaving(need)  == WithCap(need, -1)

--------------------------------------------------------------------------------
(* A unit of the ranking *)

Profile == [d \in Disks |-> ProfileOf(Build(Devices), Prop[d])]

\* CalculateDiskAvailPerf, when nothing is reserved.
Above(limit, used) == IF limit > used THEN limit - used ELSE 0
NewUnit(d, load) ==
    LET limit == Threshold(Profile[d], load)
        used  == Consumed(load)
        count == Cardinality({o \in OBJs : place[o] = d})
    IN [limit |-> limit, reserved |-> Zero,
        used  |-> WithCap(used, count),
        avail |-> [io |-> Above(limit.io, used.io), bw |-> Above(limit.bw, used.bw),
                   cap |-> Above(Prop[d].cap, count)]]

\* SetupTierDiskAvailPerfRanking
Ranking(load) == [d \in present |-> NewUnit(d, load[d])]

\* DiskAvailPerfRankingUnit::Reserve, UnReserve and Consume.
HasRoom(u, need) ==
    u.avail.io > need.io /\ u.avail.bw > need.bw /\ u.avail.cap > need.cap
Reserved(u, need) ==
    [u EXCEPT !.avail = Minus(@, need), !.reserved = Plus(@, need)]
UnReserved(u, need) ==
    [u EXCEPT !.avail = Plus(@, need), !.reserved = Minus(@, need)]
ConsumedBy(u, need) ==
    [u EXCEPT !.reserved = Minus(@, need), !.used = Plus(@, need)]

\* In the ranking of a tier: a disk that joined after the disks were ranked has no
\* unit (ENOENT).
InTier(units, d, new) == IF d \in DOMAIN units THEN [units EXCEPT ![d] = new] ELSE units

\* In the ranking of the SubPool: a disk that left is ENOENT too.
Known(d) == d \in present /\ d \in DOMAIN unit
Reserve(units, d, need) ==
    IF Known(d) /\ HasRoom(units[d], need) THEN InTier(units, d, Reserved(units[d], need))
    ELSE units
UnReserve(units, d, need) ==
    IF d \in present THEN InTier(units, d, UnReserved(units[d], need)) ELSE units
Consume(units, d, need) ==
    IF d \in present THEN InTier(units, d, ConsumedBy(units[d], need)) ELSE units

\* Arbitrator::Reserve, UnReserve and Consume: the source gives up the OBJ and is
\* read, the target gets it and is written.
ReserveBoth(a) ==
    Reserve(Reserve(unit, a.src, Leaving(a.need)), a.tgt, Entering(a.need))
UnReserveBoth(units, a) ==
    UnReserve(UnReserve(units, a.src, Leaving(a.need)), a.tgt, Entering(a.need))
ConsumeBoth(units, a) ==
    Consume(Consume(units, a.src, Leaving(a.need)), a.tgt, Entering(a.need))

\* Of Arbitrator::Reserve, the result for the source and the result it returns.
SourceTakes(a) == Known(a.src) /\ HasRoom(unit[a.src], Leaving(a.need))
TargetTakes(a) == Known(a.tgt) /\ HasRoom(unit[a.tgt], Entering(a.need))

\* CheckConfigChange
ConfigChanged(a) == ~({a.src, a.tgt} \subseteq present)

--------------------------------------------------------------------------------
(* Windows and the configuration *)

Init ==
    /\ present = Disks /\ place \in Places
    /\ window = 0 /\ ranked = FALSE /\ unit = <<>> /\ batch = {} /\ chosen = 0 /\ in = {} /\ out = {}
    /\ crashed = FALSE /\ offered = <<>> /\ booked = [d \in Disks |-> Zero]
    /\ strayed = {} /\ changes = 0

\* RelocationPlan::Prepare: the rankings are forgotten, with all that is reserved,
\* and made anew; a SubPool without advice (SPF_no_advice) gets none.
NewWindow ==
    /\ ~crashed /\ batch = {} /\ window < MaxWindows
    /\ window' = window + 1
    /\ \E load \in Loads, advised \in BOOLEAN :
          /\ ranked' = (advised /\ present # {})
          /\ unit' = IF ranked' THEN Ranking(load) ELSE <<>>
    /\ offered' = [d \in DOMAIN unit' |-> unit'[d].avail]
    /\ booked' = [d \in Disks |-> Zero] /\ strayed' = {} /\ chosen' = 0
    /\ \E ended \in SUBSET out : out' = out \ ended
    /\ UNCHANGED <<configVars, batch, in, crashed>>

\* The generator's thread adds and removes disks.
DiskJoinsOrLeaves ==
    /\ changes < MaxConfigChanges /\ changes' = changes + 1
    /\ \E d \in Disks : present' = IF d \in present THEN present \ {d} ELSE present \cup {d}
    /\ UNCHANGED <<place, rankingVars, batch, chosen, in, out, crashed, booked, strayed>>

--------------------------------------------------------------------------------
(* The planner *)

\* DiskAvailPerfRankingGreater; equal ones are in any order.
Better(a, b) ==
    \/ a.io > b.io
    \/ a.io = b.io /\ a.bw > b.bw
    \/ a.io = b.io /\ a.bw = b.bw /\ a.cap > b.cap

\* The disks the lists of the planner allow: those that a plan of the batch uses
\* are not among them.
Allowed(units) == DOMAIN units \ {p.tgt : p \in batch}

\* GetFavoriteDisk removes the disks that left; of the others only the first of the
\* ranking that is allowed is considered.
StillThere == [d \in DOMAIN unit \cap present |-> unit[d]]
Favourites(units, need) ==
    {d \in Allowed(units) :
        /\ \A e \in Allowed(units) : ~Better(units[e].avail, units[d].avail)
        /\ units[d].avail.io >= need.io /\ units[d].avail.bw >= need.bw
        /\ units[d].avail.cap >= 1}

\* A plan of a batch; the advice leads to another disk than that of the OBJ.
ChoosePlan ==
    /\ ~crashed /\ ranked /\ Cardinality(batch) < MaxBatch /\ chosen < MaxPlans
    /\ chosen' = chosen + 1
    /\ unit' = StillThere
    /\ \E o \in OBJs \ {p.obj : p \in batch}, need \in Demands :
       \E d \in Favourites(unit', need) \ {place[o]} :
          batch' = batch \cup {[obj |-> o, src |-> place[o], tgt |-> d, need |-> need]}
    /\ UNCHANGED <<configVars, window, ranked, offered, in, out, crashed, booked, strayed>>

--------------------------------------------------------------------------------
(* The arbitrator *)

PlanFrame == <<configVars, rankingVars, chosen, out>>

\* ReceivePlan: the disks are gone, or the OBJ was moved a short time ago.
RefusePlan(p) ==
    /\ p.obj \notin {a.obj : a \in in}
    /\ ConfigChanged(p) \/ p.obj \in out
    /\ UNCHANGED <<PlanFrame, in, crashed, booked, strayed>>

\* CheckConflict: the OBJ is on its way already.  The new plan may overwrite what
\* the arbitratee needs and where it goes, and it is one of this window then.
Conflict(p) ==
    /\ ~ConfigChanged(p)
    /\ \E a \in in :
          /\ a.obj = p.obj
          /\ \/ UNCHANGED <<in, strayed>>
             \/ /\ in' = (in \ {a}) \cup
                         {[a EXCEPT !.tgt = p.tgt, !.need = p.need, !.window = window]}
                /\ strayed' = strayed \cup {a.src, a.tgt, p.tgt}
    /\ UNCHANGED <<PlanFrame, crashed, booked>>

Arbitratee(p) ==
    [obj |-> p.obj, src |-> p.src, tgt |-> p.tgt, need |-> p.need, window |-> window]

\* The result for the source is overwritten by that for the target.
Admit(p) ==
    /\ p.obj \notin {a.obj : a \in in} \cup out /\ ~ConfigChanged(p)
    /\ TargetTakes(p)
    /\ in' = in \cup {Arbitratee(p)}
    /\ unit' = ReserveBoth(p)
    /\ booked' = [booked EXCEPT ![p.tgt] = Plus(@, Entering(p.need)),
                                ![p.src] = Plus(@, WithCap(p.need, 0))]
    /\ strayed' = IF SourceTakes(p) THEN strayed ELSE strayed \cup {p.src}
    /\ UNCHANGED <<configVars, window, ranked, offered, chosen, out, crashed>>

\* The target has no room: what is reserved at the source stays reserved.
NoRoom(p) ==
    /\ p.obj \notin {a.obj : a \in in} \cup out /\ ~ConfigChanged(p)
    /\ ~TargetTakes(p)
    /\ unit' = Reserve(unit, p.src, Leaving(p.need))
    /\ strayed' = strayed \cup {p.src}
    /\ UNCHANGED <<configVars, window, ranked, offered, chosen, out, in, crashed, booked>>

\* Submit fails (out of memory): both are unreserved, the source also if it had
\* no room; UnReserve asserts that an OBJ has IO.
SubmitFails(p) ==
    /\ p.obj \notin {a.obj : a \in in} \cup out /\ ~ConfigChanged(p)
    /\ TargetTakes(p)
    /\ crashed' = (p.need.io = 0 \/ p.need.bw = 0)
    /\ unit' = UnReserveBoth(ReserveBoth(p), p)
    /\ strayed' = IF SourceTakes(p) THEN strayed ELSE strayed \cup {p.src}
    /\ UNCHANGED <<configVars, window, ranked, offered, chosen, out, in, booked>>

ReceivePlan ==
    /\ ~crashed
    /\ \E p \in batch :
          /\ batch' = batch \ {p}
          /\ RefusePlan(p) \/ Conflict(p) \/ Admit(p) \/ NoRoom(p) \/ SubmitFails(p)

\* Mutant of CompletesLate: the room is not reserved first.
FaultyCompletesLate(a) ==
    /\ a.window # window
    /\ crashed' = (~ConfigChanged(a) /\ ~ranked)
    /\ unit' = ConsumeBoth(unit, a)
    /\ UNCHANGED <<booked, strayed>>

\* Complete, for an arbitratee of this window: what is reserved is consumed, with
\* whatever result the migration ends.
CompletesInTime(a) ==
    /\ a.window = window
    /\ unit' = ConsumeBoth(unit, a)
    /\ strayed' = strayed \cup ({a.src, a.tgt} \ present)
    /\ UNCHANGED <<booked, crashed>>

\* Of an earlier window: it is reserved in this one and consumed if the target has
\* room.  The ranking of the SubPool is used without asking if there is one.
CompletesLate(a) ==
    /\ a.window # window
    /\ crashed' = (~ConfigChanged(a) /\ ~ranked)
    /\ \/ /\ ~ConfigChanged(a) /\ ranked /\ TargetTakes(a)
          /\ unit' = ConsumeBoth(ReserveBoth(a), a)
          /\ booked' = [booked EXCEPT ![a.tgt] = Plus(@, Entering(a.need)),
                                      ![a.src] = Plus(@, WithCap(a.need, 0))]
          /\ strayed' = IF SourceTakes(a) THEN strayed ELSE strayed \cup {a.src}
       \/ /\ ~ConfigChanged(a) /\ ranked /\ ~TargetTakes(a)
          /\ unit' = Reserve(unit, a.src, Leaving(a.need))
          /\ strayed' = strayed \cup {a.src}
          /\ UNCHANGED booked
       \/ /\ ConfigChanged(a) \/ ~ranked
          /\ UNCHANGED <<unit, booked, strayed>>

Complete ==
    /\ ~crashed
    /\ \E a \in in :
          /\ in' = in \ {a}
          /\ CompletesInTime(a) \/ CompletesLate(a)
          /\ \/ place' = [place EXCEPT ![a.obj] = a.tgt] /\ out' = out \cup {a.obj}
             \/ UNCHANGED <<place, out>>
    /\ UNCHANGED <<present, changes, window, ranked, offered, batch, chosen>>

\* Expire: the arbitratee is removed from IN before UnReserve looks it up there, so
\* that nothing is unreserved.
Expire ==
    /\ ~crashed
    /\ \E a \in in :
          /\ in' = in \ {a}
          /\ strayed' = IF a.window = window THEN strayed \cup {a.src, a.tgt} ELSE strayed
    /\ UNCHANGED <<configVars, rankingVars, batch, chosen, out, crashed, booked>>

Next ==
    \/ NewWindow \/ DiskJoinsOrLeaves
    \/ ChoosePlan \/ ReceivePlan \/ Complete \/ Expire

Spec == Init /\ [][Next]_vars

--------------------------------------------------------------------------------
(* Properties *)

\* The arbitratees of this window that need something of a disk.
Held(d) == {a \in in : a.window = window /\ d \in {a.src, a.tgt}}

\* The plans of a window, and the late migrations counted in it, never get more of
\* a disk's IO and bandwidth than the disk had left when the window started,
\* whatever the batches assumed and whichever part they play: CalculateDiskAvailPerf
\* is done once a window.  (Reservations a disk did not have are given back only
\* when memory runs out.)
NotOverbooked ==
    \A d \in DOMAIN unit \ strayed :
        booked[d].io <= offered[d].io /\ booked[d].bw <= offered[d].bw

\* What is reserved of a disk is what the arbitratees of this window that have not
\* ended need of it, as source or as target: completions, in time or late, use up
\* their own reservation and no other one's.  Disks where the code errs (a source
\* that had no room, a target that had none, a plan overwritten, an expiry, a disk
\* that left) are out of it.
HeldIsReserved ==
    \A d \in DOMAIN unit \ strayed :
        /\ unit[d].reserved.io = SumFunction([a \in Held(d) |-> a.need.io])
        /\ unit[d].reserved.bw = SumFunction([a \in Held(d) |-> a.need.bw])

\* Over plans, refusals and ends in any order a disk's reservations are neither
\* more than it has nor others than those of the migrations that go on.
BookedAsHeld == NotOverbooked /\ HeldIsReserved

\* The products of the interpolations and the values of a whole cycle are words.
FitsWord(value, scale) ==
    value \in Nat /\ value * value < Word /\ 100 * value < Word /\ scale * value < Word
ProfilesFit ==
    /\ FitsWord(Default.io, Period) /\ FitsWord(Default.bw, 1024 * Period)
    /\ \A i \in DOMAIN Devices : \A j \in DOMAIN Devices[i].rows :
          LET row == Devices[i].rows[j]
          IN /\ FitsWord(row.io, Period) /\ FitsWord(row.bw, 1024 * Period)
             /\ \A k \in DOMAIN Devices[i].rows :
                   FitsWord(row.io, Devices[i].rows[k].size)
                   /\ FitsWord(row.bw, Devices[i].rows[k].size)

\* What a disk is said to be able to do lies between the least and the most that
\* was measured of it, to whole hundreds, at any mix of reading and writing, random
\* and sequential, and any size: LinearInterpolation and WeightedInterpolation, one
\* inside the other.
Measured(profile, kind) ==
    {e[kind] : e \in UNION {profile.rnd[r] : r \in DOMAIN profile.rnd}}
Within(limit, values, scale, default) ==
    \/ limit \in scale * 100 * (Min(values) \div 100) .. scale * Max(values)
    \/ Min(values) < 100 /\ limit = scale * default
ThresholdsWithin ==
    \A d \in DOMAIN unit : Profile[d] # <<>> =>
        /\ Within(unit[d].limit.io, Measured(Profile[d], "io"), Period, Default.io)
        /\ Within(unit[d].limit.bw, Measured(Profile[d], "bw"), 1024 * Period, Default.bw)
================================================================================
