-------------------------------- MODULE Advising --------------------------------
(***************************************************************************)
(* The advices of one SubPool (AdviceManager, ASTAdvice.cpp, driven by     *)
(* RelocationAdvice, ASTRelocation.cpp): per decision window they are      *)
(* forgotten, the SubPool is checked, and each rule of the window is       *)
(* applied to tier after tier or disk after disk; after that the planner   *)
(* walks the advices of a type, again and again from the first one, and    *)
(* marks those that it makes plans of.                                     *)
(*                                                                         *)
(* A heat distribution is taken for what HeatRegistry shows of it: it has   *)
(* nothing, or yields some OBJs of the tier or disk in some order.         *)
(***************************************************************************)
EXTENDS Integers, Sequences, FiniteSets, SequencesExt

CONSTANTS
    Bandwidth,   \* of a disk: its ultimate read bandwidth, in bytes
    OBJSize,     \* DEFAULT_OBJ_SIZE
    Gain,        \* DEFAULT_ADVICE_NUM_GAIN_FACTOR
    Disks, OBJs, TierOf,   \* the tier of a disk
    Configs,    \* [disks, at, tiers, blocked]: the disks, the OBJs' disks, the tiers
                \* that exist, SPF_no_migration
    Windows(_), \* the calls of GenerateAdvice a window may make, given the config
    MaxFilters  \* MAX_FILTER_NUM

ASSUME RuleAssumption == OBJSize \in Nat \ {0} /\ Gain \in Nat

-----------------------------------------------------------------------------
(* What an advice rule asks for (AdviceRule, ASTAdviceRule.cpp) and what   *)
(* the tiers of a SubPool make of it: the tier an OBJ is advised to and    *)
(* the number of advices worth giving (ASTAdvice.cpp).                     *)

Tiers  == 0 .. 2             \* TIER_0 (SSD), TIER_1 (enterprise), TIER_2 (SATA)
NoTier == 3                  \* TIER_cnt
AdviceTypes == {"hot", "cold", "swapUp", "swapDown"}   \* AT_ctr_hot, ...

\* The options of a partition base or sort base, and those that exclude each other.
Options == {"long", "short", "raw", "ema", "rnd", "seq", "accum", "bw", "ios", "rt"}
Exclusive ==
    {{"long", "short"}, {"ema", "raw"}, {"long", "raw"}, {"short", "raw"},
     {"rnd", "seq"}, {"rnd", "accum"}, {"seq", "accum"},
     {"bw", "ios"}, {"bw", "rt"}, {"ios", "rt"}}

\* ValidateRule.  Whether random or sequential comes with their sum is looked up
\* in the partition base when the sort base is checked.
ValidRule(rule) ==
    LET looked(pair) == IF pair \in {{"rnd", "accum"}, {"seq", "accum"}}
                        THEN rule.partition ELSE rule.sort
    IN /\ rule.scope \in {"tier", "disk"}
       /\ rule.partition # {} /\ \A pair \in Exclusive : ~(pair \subseteq rule.partition)
       /\ rule.sort # {} /\ \A pair \in Exclusive : ~(pair \subseteq looked(pair))

\* Mutant of TargetTier: hot OBJs go to the highest tier at once.
FaultyTargetTier(comb, source, type) ==
    LET upper == {t \in comb : t < source}
        lower == {t \in comb : t > source}
    IN IF source \notin comb THEN NoTier
       ELSE IF type \in {"hot", "swapUp"} /\ upper # {}
            THEN CHOOSE t \in upper : \A u \in upper : t <= u
       ELSE IF type \in {"cold", "swapDown"} /\ lower # {}
            THEN CHOOSE t \in lower : \A u \in lower : t <= u
       ELSE NoTier

\* GetAdviceTargetTier of a SubPool with this combination of tiers.
TargetTier(comb, source, type) ==
    LET upper == {t \in comb : t < source}
        lower == {t \in comb : t > source}
    IN IF source \notin comb THEN NoTier
       ELSE IF type \in {"hot", "swapUp"} /\ upper # {}
            THEN CHOOSE t \in upper : \A u \in upper : u <= t
       ELSE IF type \in {"cold", "swapDown"} /\ lower # {}
            THEN CHOOSE t \in lower : \A u \in lower : t <= u
       ELSE NoTier

\* CalculateTheoreticalAdviceNum: the OBJs that the disks can read, times a gain;
\* none for a tier from which the combination leads nowhere.
AdviceNum(comb, tier, disks, type) ==
    LET readable == FoldSet(LAMBDA d, sum : Bandwidth[d] + sum, 0, disks) \div OBJSize
    IN IF TargetTier(comb, tier, type) = NoTier THEN 0 ELSE readable * Gain

TierAdviceNum(comb, tier, disks, type) ==
    IF type \in {"hot", "cold"} THEN AdviceNum(comb, tier, disks, type) ELSE 0
DiskAdviceNum(comb, tier, disk, type) ==
    IF type \in {"swapUp", "swapDown"} THEN AdviceNum(comb, tier, {disk}, type) ELSE 0

\* A call of GenerateAdvice that is not refused.
Valid(call) ==
    /\ Len(call.filters) <= MaxFilters
    /\ ValidRule(call.rule)
    /\ \A i \in DOMAIN call.filters :
          /\ ValidRule(call.filters[i].rule)
          /\ call.filters[i].rule.type = call.rule.type
          /\ call.filters[i].rule.scope = call.rule.scope

-----------------------------------------------------------------------------
(* What the constants are.                                                 *)

Rules == [type : AdviceTypes, scope : {"tier", "disk", "none"},
          partition : SUBSET Options, sort : SUBSET Options]
Calls == [rule : Rules, filters : Seq([rule : Rules, pass : SUBSET OBJs])]

\* RelocationAdvice asks once per window for each type of advice.
ASSUME ConfigAssumption ==
    /\ TierOf \in [Disks -> Tiers] /\ Disks \cap (Tiers \cup {NoTier}) = {} /\ IsFiniteSet(OBJs)
    /\ \A c \in Configs :
          /\ c.disks \subseteq Disks /\ {TierOf[d] : d \in c.disks} \subseteq c.tiers
          /\ DOMAIN c.at \subseteq OBJs /\ c.at \in [DOMAIN c.at -> c.disks]
          /\ Windows(c) \subseteq Seq(Calls)
          /\ \A w \in Windows(c) : \A i, j \in DOMAIN w :
                /\ Valid(w[i]) /\ Valid(w[j])
                /\ w[i].rule.type = w[j].rule.type
                /\ w[i].rule.scope = w[j].rule.scope
                => i = j

-----------------------------------------------------------------------------
(* The state.                                                              *)

Units == Tiers \cup Disks      \* what a list of advices belongs to

VARIABLES
    config,     \* the SubPool in the logical configuration
    flags,      \* pool, tier and disk flags: subsets of {"disk", "obj", "advice"},
                \* for SPF_no_disk, TF_no_obj, DF_no_advice, ...
    calls,      \* GenerateAdvice calls to come in this window
    steps,      \* units to come in the present call
    ret,        \* what the last unit returned
    lists,      \* mAdviceSet1 and mAdviceSet2: per type and unit a list of advices
    cursor,     \* per type: [last, took], mLastChosenTier and mAdviseChosen
    diskAt,     \* per type and disk: how many advices the iterator has passed
    walk,       \* the planner's walk: [type, unit, given]
    phase       \* "closed", "check", "generate", "ready"

genVars  == <<flags, calls, steps, ret, lists>>
readVars == <<cursor, diskAt, walk>>
vars == <<config, genVars, readVars, phase>>

Comb == {TierOf[d] : d \in config.disks}           \* GetCurTierComb
OBJsOn(unit) ==
    {o \in DOMAIN config.at : config.at[o] = unit
        \/ (unit \in Tiers /\ TierOf[config.at[o]] = unit)}
DisksOf(tier) == {d \in config.disks : TierOf[d] = tier}

NoCursor == [last |-> NoTier, took |-> [t \in Tiers |-> 0]]
NewWalk(type, unit) ==
    [type |-> type, unit |-> unit, given |-> <<>>, holds |-> FALSE, over |-> FALSE]
NoLists  == [type \in AdviceTypes |-> [u \in Units |-> <<>>]]

--------------------------------------------------------------------------------
(* Generating *)

\* RelocationAdvice::Prepare: Reset and Init, with what the configuration has
\* become since.  The flags live in the configuration and stay.
OpenWindow ==
    /\ phase \in {"closed", "ready"}
    /\ config' \in Configs
    /\ calls' \in Windows(config') /\ steps' = {} /\ ret' = "ok"
    /\ lists' = NoLists
    /\ cursor' = [type \in AdviceTypes |-> NoCursor]
    /\ diskAt' = [type \in AdviceTypes |-> [d \in Disks |-> 0]]
    /\ walk' = NewWalk("hot", NoTier) /\ phase' = "check"
    /\ UNCHANGED flags

\* Mutant of TierFlags: TF_no_advice is not set again.
FaultyTierFlags(t) ==
    IF DisksOf(t) = {} THEN {"disk", "obj", "advice"}
    ELSE (flags.tier[t] \cap {"advice"}) \cup (IF OBJsOn(t) = {} THEN {"obj"} ELSE {})

\* The flags of a tier in PreGenerateCheck.
TierFlags(t) ==
    IF DisksOf(t) = {} THEN {"disk", "obj", "advice"}
    ELSE {"advice"} \cup (IF OBJsOn(t) = {} THEN {"obj"} ELSE {})

PreGenerateCheck ==
    /\ phase = "check"
    /\ IF Comb = {}
       THEN /\ flags' = [flags EXCEPT !.pool = {"disk", "obj", "advice"}]
            /\ phase' = "ready"
       ELSE /\ flags' =
                 [pool |-> {"advice"} \cup (IF DOMAIN config.at = {} THEN {"obj"} ELSE {}),
                  tier |-> [t \in Tiers |-> IF t \in config.tiers THEN TierFlags(t)
                                            ELSE flags.tier[t]],
                  disk |-> [d \in Disks |-> IF d \in config.disks
                                            THEN flags.disk[d] \cup {"advice"}
                                            ELSE flags.disk[d]]]
            /\ phase' = IF DOMAIN config.at = {} THEN "ready" ELSE "generate"
    /\ UNCHANGED <<config, calls, steps, ret, lists, readVars>>

\* The units of a rule: the tiers of the combination, or their disks.
UnitsOf(rule) == IF rule.scope = "tier" THEN Comb ELSE config.disks

\* GenerateAdvice of the SubPool begins, or fails.
BeginCall ==
    /\ phase = "generate" /\ steps = {}
    /\ IF calls = <<>>
       THEN phase' = "ready" /\ UNCHANGED <<calls, steps, ret>>
       ELSE IF config.blocked \/ ~Valid(Head(calls))
       THEN calls' = Tail(calls) /\ UNCHANGED <<steps, ret, phase>>
       ELSE steps' = UnitsOf(Head(calls).rule) /\ ret' = "ok" /\ UNCHANGED <<calls, phase>>
    /\ UNCHANGED <<config, flags, lists, readVars>>

TierOfUnit(unit) == IF unit \in Tiers THEN unit ELSE TierOf[unit]

\* The advices that are worth giving for a unit.
NumOf(rule, unit) ==
    IF rule.scope = "tier"
    THEN TierAdviceNum(Comb, unit, DisksOf(unit), rule.type)
    ELSE DiskAdviceNum(Comb, TierOf[unit], unit, rule.type)

Passes(filters, unit) ==
    {o \in OBJsOn(unit) : \A i \in DOMAIN filters : o \in filters[i].pass}
\* GetAllSatisfyingOBJs of some filter rule finds none.
FilteredOut(filters, unit) ==
    \E i \in DOMAIN filters : filters[i].pass \cap OBJsOn(unit) = {}

\* AdoptAdviceRule: what a heat distribution yields and the filters let pass, in
\* any order; "nodata" when there is nothing to give, no OBJ, none that a filter
\* finds or none that is monitored long enough.
Yields(call, unit) ==
    IF NumOf(call.rule, unit) = 0 \/ OBJsOn(unit) = {} \/ FilteredOut(call.filters, unit)
    THEN {<<"nodata">>}
    ELSE {<<"nodata">>} \cup UNION {SetToSeqs(os) : os \in SUBSET Passes(call.filters, unit)}

Advice(o, unit, rule) ==
    [obj |-> o, from |-> TierOfUnit(unit),
     to |-> TargetTier(Comb, TierOfUnit(unit), rule.type), chosen |-> FALSE, live |-> TRUE]

\* GenerateAdvice of one tier or disk with what its heat distribution yields:
\* IntersectAdviceAndFilterRule adds an advice for each OBJ that passes, and the
\* unit (of a disk, its tier too) is no longer without advice.
Outcome(call, unit, yield) ==
    LET given == [i \in DOMAIN yield |-> Advice(yield[i], unit, call.rule)]
        tier  == TierOfUnit(unit)
        same(r) == [ret |-> r, lists |-> lists, flags |-> flags]
    IN IF yield = <<"nodata">> THEN same("nodata")
       ELSE IF yield = <<>> THEN same("noentry")
       ELSE [ret   |-> "ok",
             lists |-> [lists EXCEPT ![call.rule.type][unit] = @ \o given],
             flags |-> [pool |-> flags.pool \ (IF unit \in Tiers THEN {} ELSE {"advice"}),
                        tier |-> [flags.tier EXCEPT ![tier] = @ \ {"advice"}],
                        disk |-> [d \in Disks |-> flags.disk[d] \ (IF d = unit THEN {"advice"}
                                                                   ELSE {})]]]

\* The units to come: a tier that has data but no OBJ on the wanted side ends a
\* tier-wise call, and the tiers below it get no advice.
Left(rule, unit, r) ==
    IF rule.scope = "disk" \/ r \in {"ok", "nodata"} THEN steps \ {unit} ELSE {}

\* The end of a tier-wise call looks at the tiers, unless the highest of three
\* failed; that of a single tier at its result.
LooksAtTiers(rule, r) ==
    /\ rule.scope = "tier"
    /\ IF Cardinality(Comb) = 1 THEN r = "ok" ELSE steps # Tiers
PoolFlags(fl) ==
    IF \E t \in Comb : "advice" \notin fl.tier[t] THEN fl.pool \ {"advice"} ELSE fl.pool

\* The units come from the highest tier down.
Generate ==
    /\ phase = "generate"
    /\ \E unit \in steps : \E yield \in Yields(Head(calls), unit) :
          LET rule == Head(calls).rule
              out  == Outcome(Head(calls), unit, yield)
              left == Left(rule, unit, out.ret)
          IN /\ \A other \in steps : TierOfUnit(unit) <= TierOfUnit(other)
             /\ ret' = out.ret /\ lists' = out.lists /\ steps' = left
             /\ calls' = IF left = {} THEN Tail(calls) ELSE calls
             /\ flags' = IF left = {} /\ LooksAtTiers(rule, out.ret)
                         THEN [out.flags EXCEPT !.pool = PoolFlags(out.flags)]
                         ELSE out.flags
    /\ UNCHANGED <<config, readVars, phase>>

--------------------------------------------------------------------------------
(* Reading: the planner holds one advice at a time, hands it back, and takes   *)
(* the next one that is not chosen.                                            *)

\* GetFirstTier and GetNextTier: the tiers take turns, those that are used up
\* are passed over; NoTier once none is left, and from then on.
Lowest(S) == IF S = {} THEN NoTier ELSE CHOOSE t \in S : \A u \in S : t <= u
FirstTier(type) == Lowest({t \in Tiers : lists[type][t] # <<>>})
\* Mutant of NextTier: the tier that gave the last advice may give the next one.
FaultyNextTier(type, c) ==
    LET left  == {t \in Tiers : c.took[t] < Len(lists[type][t])}
        after == {t \in left : t >= c.last}
    IN IF c.last = NoTier THEN NoTier ELSE Lowest(IF after # {} THEN after ELSE left)

NextTier(type, c) ==
    LET left  == {t \in Tiers : c.took[t] < Len(lists[type][t])}
        after == {t \in left : t > c.last}
    IN IF c.last = NoTier THEN NoTier ELSE Lowest(IF after # {} THEN after ELSE left)

Taken(c, t) ==
    IF t = NoTier THEN [c EXCEPT !.last = NoTier]
    ELSE [last |-> t, took |-> [c.took EXCEPT ![t] = @ + 1]]

\* The loop of Get...AdviceSatisfy: from cursor c on, the first advice not chosen;
\* each turn passes one of all the advices.
Passed(type, k) ==
    IF k.last = NoTier \/ ~lists[type][k.last][k.took[k.last]].chosen THEN k
    ELSE Taken(k, NextTier(type, k))
Unchosen(type, c) ==
    LET all == Len(lists[type][0]) + Len(lists[type][1]) + Len(lists[type][2])
        passed[n \in 0 .. all] == IF n = 0 THEN c ELSE Passed(type, passed[n - 1])
    IN passed[all]

\* The planner gets what the search found, or ENOENT.
Hands(w, p) ==
    IF p.unit = NoTier THEN [w EXCEPT !.holds = FALSE, !.over = TRUE]
    ELSE [w EXCEPT !.holds = TRUE, !.given = Append(@, p)]

ToCursor(type, c, w) ==
    /\ cursor' = [cursor EXCEPT ![type] = c]
    /\ walk' = Hands(w, [unit |-> c.last, at |-> IF c.last = NoTier THEN 0 ELSE c.took[c.last]])

\* GetFirstAdviceSatisfy and GetNextAdviceSatisfy of a type.
First(type) ==
    /\ phase = "ready" /\ ~walk.holds
    /\ ToCursor(type, Unchosen(type, Taken(NoCursor, FirstTier(type))),
                NewWalk(type, NoTier))
    /\ UNCHANGED <<config, genVars, diskAt, phase>>

Refuse ==
    /\ walk.holds /\ walk.unit = NoTier
    /\ LET c == cursor[walk.type]
       IN ToCursor(walk.type, Unchosen(walk.type, Taken(c, NextTier(walk.type, c))), walk)
    /\ UNCHANGED <<config, genVars, diskAt, phase>>

\* The list of a disk, from position n on.  DiskAdvise::AddAdvice takes no
\* reference, so an advice is deleted when it is first put back, though it stays
\* in the list; whether a deleted one is chosen is anything.
ToPosition(type, d, n, w) ==
    LET list == lists[type][d]
        maySkip(i) == list[i].chosen \/ ~list[i].live
        mayHand(i) == ~list[i].chosen \/ ~list[i].live
    IN \E i \in n + 1 .. Len(list) + 1 :
          /\ \A j \in n + 1 .. i - 1 : maySkip(j)
          /\ i <= Len(list) => mayHand(i)
          /\ lists' = [lists EXCEPT ![type][d] = [j \in DOMAIN list |->
                IF j \in n + 1 .. i - 1 \/ (w.holds /\ j = n)
                THEN [list[j] EXCEPT !.live = FALSE] ELSE list[j]]]
          /\ diskAt' = [diskAt EXCEPT ![type][d] = IF i <= Len(list) THEN i ELSE Len(list)]
          /\ walk' = Hands(w, [unit |-> IF i <= Len(list) THEN d ELSE NoTier, at |-> i])

FirstOn(type, d) ==
    /\ phase = "ready" /\ ~walk.holds
    /\ ToPosition(type, d, 0, NewWalk(type, d))
    /\ UNCHANGED <<config, flags, calls, steps, ret, cursor, phase>>

RefuseOn ==
    /\ walk.holds /\ walk.unit \in Disks
    /\ ToPosition(walk.type, walk.unit, diskAt[walk.type][walk.unit], walk)
    /\ UNCHANGED <<config, flags, calls, steps, ret, cursor, phase>>

\* ADV_chosen; the reference that is dropped with it deletes the advice of a disk.
Marked(a, unit) == [a EXCEPT !.chosen = TRUE, !.live = @ /\ unit \in Tiers]

\* The planner makes a plan of the advice, and the walk ends.
Choose ==
    /\ walk.holds
    /\ LET p == Last(walk.given)
       IN lists' = [lists EXCEPT ![walk.type][p.unit][p.at] = Marked(@, p.unit)]
    /\ walk' = [walk EXCEPT !.holds = FALSE]
    /\ UNCHANGED <<config, flags, calls, steps, ret, cursor, diskAt, phase>>

--------------------------------------------------------------------------------
Init ==
    /\ config \in Configs
    /\ flags = [pool |-> {"disk", "obj", "advice"},
                tier |-> [t \in Tiers |-> {}], disk |-> [d \in Disks |-> {}]]
    /\ calls = <<>> /\ steps = {} /\ ret = "ok" /\ lists = NoLists
    /\ cursor = [type \in AdviceTypes |-> NoCursor]
    /\ diskAt = [type \in AdviceTypes |-> [d \in Disks |-> 0]]
    /\ walk = NewWalk("hot", NoTier) /\ phase = "closed"

Next ==
    \/ OpenWindow \/ PreGenerateCheck \/ BeginCall \/ Generate
    \/ \E type \in AdviceTypes : First(type) \/ \E d \in Disks : FirstOn(type, d)
    \/ Refuse \/ RefuseOn \/ Choose

Spec == Init /\ [][Next]_vars

--------------------------------------------------------------------------------
(* Properties *)

\* Positions that a walk may hand out: those of the unit or units it walks.
Places(type, unit) ==
    {p \in [unit : IF unit = NoTier THEN Tiers ELSE {unit}, at : 1 .. Cardinality(OBJs)] :
        p.at <= Len(lists[type][p.unit])}

\* A walk gives no advice twice, the tiers' walk none that was chosen before, and it
\* ends with every advice given that was not chosen; the tiers that still have
\* advice have taken turns.
WalksAreComplete ==
    LET given == ToSet(walk.given)
        chosen(p) == lists[walk.type][p.unit][p.at].chosen
        took == cursor[walk.type].took
    IN /\ Cardinality(given) = Len(walk.given)
       /\ walk.holds /\ walk.unit = NoTier => ~chosen(Last(walk.given))
       /\ walk.over /\ walk.unit = NoTier =>
             \A p \in Places(walk.type, walk.unit) : chosen(p) \/ p \in given
       /\ walk.holds /\ walk.unit = NoTier =>
             \A t, u \in Tiers : took[t] < Len(lists[walk.type][t]) => took[u] <= took[t] + 1

\* When a window is ready, a SubPool is without SPF_no_advice exactly when some
\* advice was generated for it, and so are its tiers and, for swapping, its disks,
\* whatever the windows before left behind.
FlagsTell ==
    phase = "ready" =>
        LET has(unit) == \E type \in AdviceTypes : lists[type][unit] # <<>>
            below(t)  == has(t) \/ \E d \in DisksOf(t) : has(d)
        IN /\ "advice" \notin flags.pool <=> \E unit \in Units : has(unit)
           /\ Comb # {} => \A t \in Comb : "advice" \notin flags.tier[t] <=> below(t)
           /\ Comb # {} => \A d \in config.disks : "advice" \notin flags.disk[d] <=> has(d)

\* An advice moves an OBJ out of the tier where it is, to a tier of the SubPool
\* that has disks, up when it is hot and down when it is cold, no other tier of
\* the SubPool being passed over; no list advises an OBJ twice.
AdviceLeadsNext ==
    \A type \in AdviceTypes, unit \in Units :
        LET list == lists[type][unit] IN
        /\ \A i, j \in DOMAIN list : list[i].obj = list[j].obj => i = j
        /\ \A i \in DOMAIN list :
              LET a == list[i] IN
              /\ a.to \in Comb /\ a.from = TierOf[config.at[a.obj]]
              /\ IF type \in {"hot", "swapUp"}
                 THEN a.to < a.from /\ Comb \cap (a.to + 1 .. a.from - 1) = {}
                 ELSE a.to > a.from /\ Comb \cap (a.from + 1 .. a.to - 1) = {}
================================================================================
