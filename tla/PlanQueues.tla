------------------------------ MODULE PlanQueues ------------------------------
(***************************************************************************)
(* The state of the planner, PlanManager (ASTPlan.cpp), and its choice of  *)
(* one plan: which direction comes next (SubPoolPlanDirStat), which advice *)
(* of it and which target disk.  The repository's files do not define      *)
(* WITH_INITIAL_PLACEMENT: nothing is swapped out, and the directions      *)
(* swap_up and swap_down are never available.                              *)
(***************************************************************************)
EXTENDS Integers, Sequences, FiniteSets, SequencesExt

CONSTANTS
    Pools,         \* SubPoolKeys
    PoolOrder,     \* the order of mPlans (SubPoolKeyCmp)
    Disks, OBJs,   \* DiskKeys and OBJKeys
    PoolOf,        \* the SubPool of a disk
    TierOf, Rank,  \* its tier, and its place in the ranking of the tier
    Advices,       \* the OBJs advised, in order, per SubPool and direction
    Source,        \* the disk an OBJ is on
    TargetTier,    \* the tier its advice wants
    Lacking,       \* the sets of disks that may lack performance or capacity
    RetryTimes,    \* RESCHEDULE_PLAN_TIMES
    Echoes,        \* answers of migrations: "completed", "full", "expired"
    MaxWindows,    \* bound: decision windows
    MaxMishaps,    \* bound: changes of the logical configuration, plans that find
                   \* no memory, and plans that the arbitrator refuses
    Movable        \* SubPools and disks the configuration may lose or regain,
                   \* and SubPools that may get SPF_no_migration

Directions == {"promote", "demote"}   \* PD_ctr_promote, PD_ctr_demote
NoPool == "none"                      \* a SubPoolKey that names no SubPool

ASSUME PlanAssumption ==
    /\ NoPool \notin Pools
    /\ PoolOf \in [Disks -> Pools] /\ Rank \in [Disks -> Nat]
    /\ \A d, e \in Disks : Rank[d] = Rank[e] => d = e
    /\ Advices \in [Pools -> [Directions -> Seq(OBJs)]]
    /\ Source \in [OBJs -> Disks] /\ RetryTimes \in Nat \ {0} /\ PoolOrder \in Seq(Pools)
    /\ \A p \in Pools, dir \in Directions : \A i \in 1 .. Len(Advices[p][dir]) :
          PoolOf[Source[Advices[p][dir][i]]] = p
    /\ Lacking \subseteq SUBSET Disks /\ Lacking # {}
    /\ MaxWindows \in Nat /\ MaxMishaps \in Nat

VARIABLES
    present,      \* SubPools and disks of the logical configuration
    noMigration,  \* SubPools with SPF_no_migration
    plans,        \* mPlans: the SubPoolPlans of each SubPool
    avail,        \* mAvailDisks
    unavail,      \* mUnavailDisks
    delayed,      \* the four queues of SubPools to schedule later
    err,          \* Error::GetPLNErr
    ret,          \* did the last call of a Schedule function succeed?
    key,          \* scheduledsubpool of ScheduleDelayed
    todo,         \* what is left of the executor's present handler
    flying,       \* plans submitted and not answered, with their window, and
                  \* whether the arbitrator still has them IN
    window,       \* Executor::mEpoch
    batch,        \* ghost: the plans of the present first batch
    used          \* how much of MaxMishaps is used

configVars == <<present, noMigration>>
diskVars   == <<avail, unavail>>
vars == <<configVars, plans, diskVars, delayed, err, ret, key, todo, flying,
          window, batch, used>>

Queues == {"first", "next", "timedFirst", "timedNext"}
Plans == [obj : OBJs, to : Disks, dir : Directions]
DisksOf(plan) == {Source[plan.obj], plan.to}
PoolOfPlan(plan) == PoolOf[plan.to]

--------------------------------------------------------------------------------
(* SubPoolPlanDirStat *)

StaticPriority == [promote |-> 20, demote |-> 30]
NewStat == [times   |-> [dir \in Directions |-> 0],
            penalty |-> [dir \in Directions |-> 0],
            missed  |-> "none", usable |-> Directions]

\* CalculateDynamicPriority of every direction in the queue.
Recalculated(stat) ==
    [stat EXCEPT !.times =
        [dir \in Directions |->
            @[dir] + IF dir \in stat.usable THEN stat.penalty[dir] ELSE 0]]

Priority(stat, dir) ==
    StaticPriority[dir] * (IF stat.times[dir] = 0 THEN 1 ELSE stat.times[dir])

\* GetPriorPlanDirectionFromAvailable, of recalculated priorities.
Prior(stat, dirs) ==
    {dir \in dirs \cap stat.usable : \A other \in dirs \cap stat.usable :
        Priority(stat, dir) <= Priority(stat, other)}

\* SetLastMissedPlanDir
Missed(stat, dir) ==
    [stat EXCEPT
        !.penalty = [other \in Directions |->
            IF other = dir THEN @[dir] + (IF stat.missed = dir THEN 1 ELSE 0)
            ELSE IF stat.missed = dir THEN @[other] ELSE 0],
        !.missed = dir]

\* ExcludeDirectionFromAvailableDirections for the rest of the window.
Excluded(stat, dir) == [stat EXCEPT !.usable = @ \ {dir}]

\* UpdatePlanDirScheTimes and ResetLastMissedPlanDir.
Scheduled(stat, dir) == [stat EXCEPT !.times[dir] = @ + 1, !.missed = "none"]

--------------------------------------------------------------------------------
(* SubPoolPlans *)

NoPlans  == [exists |-> FALSE, list |-> <<>>, mark |-> 0, noMore |-> FALSE,
             deleted |-> FALSE, stat |-> NewStat, chosen |-> {}]
NewPlans == [NoPlans EXCEPT !.exists = TRUE]

\* PlanManager::Init: SubPools with advice and without SPF_no_advice.
Advised(p) == \E dir \in Directions : Advices[p][dir] # <<>>

\* What a list keeps of S, in its order.
Kept(list, S) ==
    LET kept[n \in 0 .. Len(list)] ==
            IF n = 0 THEN <<>>
            ELSE IF list[n] \in S THEN Append(kept[n - 1], list[n]) ELSE kept[n - 1]
    IN kept[Len(list)]

\* The advices of a direction that a search looks at: a first batch begins
\* with all of them, later plans take those without ADV_chosen.
Offered(p, dir, mode) ==
    IF mode = "first" THEN Advices[p][dir]
    ELSE Kept(Advices[p][dir], OBJs \ plans[p].chosen)

\* How many advices a search tries in one direction.
Tries(mode, offers) ==
    IF mode = "next" /\ Len(offers) > RetryTimes + 1 THEN RetryTimes + 1
    ELSE Len(offers)

\* Disks that GetFavoriteDisk compares: the white list beats the black list.
Comparable(o, p) ==
    LET ranked == {d \in Disks \cap present : PoolOf[d] = p /\ TierOf[d] = TargetTier[o]}
    IN IF avail # {} THEN ranked \cap avail ELSE ranked \ unavail

Best(S) == CHOOSE d \in S : \A e \in S : Rank[d] <= Rank[e]

\* The first advice that gets a disk, 0 if there is none: a disk that lacks
\* performance makes the search go on, no disk at all ends it.
FirstFit(p, offers, tries, lacking) ==
    LET fits(i) == Comparable(offers[i], p) # {}
                   /\ Best(Comparable(offers[i], p)) \notin lacking
        goesOn(i) == Comparable(offers[i], p) # {}
    IN IF \E i \in 1 .. tries : fits(i) /\ \A j \in 1 .. i - 1 : goesOn(j)
       THEN CHOOSE i \in 1 .. tries : fits(i) /\ \A j \in 1 .. i - 1 : goesOn(j) /\ ~fits(j)
       ELSE 0
================================================================================
