------------------------------ MODULE HeatRegistry ------------------------------
(***************************************************************************)
(* The heat distributions of a decision window (HeatDistributionManager,   *)
(* SubPoolHeatDistribution and the distributions of its tiers and disks,   *)
(* ASTHeatDistribution.cpp).  A rule sets up a heat bucket for a tier or   *)
(* disk, found again by the rule's two bases; filter rules ask it for all  *)
(* their OBJs, the advice rule walks it.  The advice manager works on one  *)
(* rule of one tier or disk at a time, and may ask the rule for more while *)
(* it walks.                                                               *)
(***************************************************************************)
EXTENDS HeatBuckets

CONSTANTS
    Units,        \* tiers and disks
    OrderOf,      \* per unit, its OBJs in the order in which it yields them
    DiskOf,       \* the units that are disks
    Profiles,     \* statistics the OBJs may have, with a field young: not
                  \* IsMonitoredLongEnough
    Rules,        \* [type, scope, key]: advice type, "tier" or "disk", and the bases
    MaxAsked,     \* bound: how many sorted OBJs are asked for
    MaxSetups     \* bound: calls of Setup in one window

Keys == {rule.key : rule \in Rules}

ASSUME RegistryAssumption ==
    /\ DiskOf \subseteq Units /\ Keys \subseteq [part : Bases, sort : Bases]
    /\ \A rule \in Rules : rule.type \in AdviceTypes
    /\ \A u \in Units : OrderOf[u] \in Seq(Range(OrderOf[u]))
    /\ MaxAsked \in Nat /\ MaxSetups \in Nat

VARIABLES
    heat,     \* per unit, its buckets by key: mTierHeat, mTierDiskHeat, mHeatBucket
    asked,    \* ghost: how many sorted OBJs were asked of a bucket, per side
    setups,   \* calls of Setup so far
    at,       \* the unit and key of the rule at work, or None
    walk      \* the cursors of its bucket

heatVars == <<stats, heat, asked, setups, at, walk>>

None == [unit |-> "none"]
Nothing == [u \in Units |-> <<>>]
NothingAsked == [u \in Units |-> [key \in Keys |-> [side \in Sides |-> 0]]]

\* SetupSubPoolHeatDistribution of a rule: the scope decides between the tier
\* and the disk; a tier without disk for a disk-wise rule is not implemented.
Applies(rule, u) == rule.scope = IF u \in DiskOf THEN "disk" ELSE "tier"

\* GetHeatBucket: by both bases, whatever the advice type.
Found(u, key) ==
    {hb \in {heat[u][k] : k \in DOMAIN heat[u]} : hb.key = key}

\* The buckets that Setup may leave for a rule that asks for n OBJs, of both sides
\* of the boundary whatever its advice type (CalculateTheoreticalAdviceNum): none
\* when PreSetupCheck finds no OBJ, or Partition none that is monitored long enough.
SetUp(rule, u, n) ==
    IF Found(u, rule.key) # {}
    THEN UNION {SortBoth(hb, n, n) : hb \in Found(u, rule.key)}
    ELSE IF OrderOf[u] = <<>> THEN {}
    ELSE UNION {SortBoth(NewBucket(rule.key, part), n, n) :
                part \in {p \in Partitions(OrderOf[u], rule.key, rule.type) :
                             \E i \in Indices : p[i] # <<>>}}

Barren(rule, u) ==
    /\ Found(u, rule.key) = {}
    /\ OrderOf[u] = <<>> \/ \E p \in Partitions(OrderOf[u], rule.key, rule.type) :
                               \A i \in Indices : p[i] = <<>>

\* A walk goes on over what is sorted now; a rule of another unit or other bases
\* starts anew.
Carried(u, key, hb) ==
    IF at # [unit |-> u, key |-> key] THEN NewWalk
    ELSE [walk EXCEPT !.may = @ \cup {side \in walk.begun :
                                        hb.sorted[side] > heat[u][key].sorted[side]}]

Setup(rule, u, n) ==
    /\ setups < MaxSetups /\ setups' = setups + 1
    /\ Applies(rule, u)
    /\ \/ \E hb \in SetUp(rule, u, n) :
             /\ heat' = [heat EXCEPT ![u] = [key \in DOMAIN @ \cup {rule.key} |->
                                               IF key = rule.key THEN hb ELSE @[key]]]
             /\ asked' = [asked EXCEPT ![u][rule.key] =
                                [side \in Sides |-> Larger(@[side], n)]]
             /\ at' = [unit |-> u, key |-> rule.key]
             /\ walk' = Carried(u, rule.key, hb)
       \/ /\ Barren(rule, u)
          /\ at' = None /\ walk' = NewWalk
          /\ UNCHANGED <<heat, asked>>
    /\ UNCHANGED stats

\* The bucket that the getters of the rule at work find.
Looked == heat[at.unit][at.key]

GetFirst(side) ==
    /\ at # None
    /\ walk' = FirstOf(Looked, walk, side)
    /\ UNCHANGED <<stats, heat, asked, setups, at>>

GetNext(side) ==
    /\ side \in walk.may
    /\ walk' = NextOf(Looked, walk, side)
    /\ UNCHANGED <<stats, heat, asked, setups, at>>

\* Reset and Init at the start of the next decision window, with new statistics.
NewHeatWindow ==
    /\ setups > 0 /\ setups' = 0
    /\ stats' \in Profiles
    /\ heat' = Nothing
    /\ asked' = NothingAsked
    /\ at' = None /\ walk' = NewWalk

--------------------------------------------------------------------------------
HeatInit ==
    /\ stats \in Profiles
    /\ heat = Nothing /\ setups = 0
    /\ asked = NothingAsked
    /\ at = None /\ walk = NewWalk

HeatNext ==
    \/ \E rule \in Rules, u \in Units, n \in 1 .. MaxAsked : Setup(rule, u, n)
    \/ \E side \in Sides : GetFirst(side) \/ GetNext(side)
    \/ NewHeatWindow

HeatSpec == HeatInit /\ [][HeatNext]_heatVars

--------------------------------------------------------------------------------
(* Properties *)

\* The sorted OBJs of a side in the order in which they are walked: the n-th one is
\* in the bucket up to which, from the side's end, there are n.
Order(hb, side) ==
    LET before(i) == IF side = "hot" THEN Hotter(hb.part, i + 1) ELSE Colder(hb.part, i - 1)
    IN [n \in 1 .. hb.sorted[side] |->
           LET i == CHOOSE j \in Indices :
                       before(j) < n /\ n <= before(j) + Len(hb.part[j])
           IN hb.part[i][n - before(i)]]

\* However the walks of both sides and further calls of Setup interleave, a walk
\* has handed out the sorted OBJs bucket by bucket from its end, none twice and
\* none left out, and it ends when all sorted ones were handed out: those that a
\* filter rule of the same bases would get.
WalkInOrder ==
    at # None => \A side \in walk.begun :
        /\ IsPrefix(walk.got[side], Order(Looked, side))
        /\ side \notin walk.may =>
              /\ walk.got[side] = Order(Looked, side)
              /\ ToSet(walk.got[side]) = AllSatisfying(Looked, side)

\* Whatever rules have used a bucket, each side has as many OBJs sorted as the most
\* that was asked for or as it has, not a bucket more than needed, each sorted bucket in
\* the order of its comparator, and no OBJ of the other side among them.
SortedAsAsked ==
    \A u \in Units : \A key \in DOMAIN heat[u] : \A side \in Sides :
        LET hb    == heat[u][key]
            total == OBJsOn(hb.part, side)
            want  == IF asked[u][key][side] > total THEN total ELSE asked[u][key][side]
            last  == hb.last[side]
            done  == IF side = "hot" THEN last .. Top
                     ELSE IF last = NoBucket THEN {} ELSE 0 .. last
            count(S) == Count(hb.part, S)
        IN /\ hb.key = key /\ hb.sorted[side] = count(done) /\ count(done) >= want
           /\ want > 0 => count(done \ {last}) < want
           /\ done \subseteq (IF side = "hot" THEN Boundary + 1 .. Top ELSE 0 .. Boundary)
           /\ \A i \in done : \A j, k \in DOMAIN hb.part[i] :
                 j < k => ~Before(hb, side, hb.part[i][k], hb.part[i][j])
================================================================================
