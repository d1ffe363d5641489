------------------------------- MODULE Planning -------------------------------
(***************************************************************************)
(* The planner and its surroundings: the decision windows the generator    *)
(* opens, the answers of migrations (RelocationPlan, ASTRelocation.cpp,    *)
(* called by Executor::Handle), and the generator's thread, which changes  *)
(* the logical configuration at any time.                                  *)
(***************************************************************************)
EXTENDS PlanSteps

Init ==
    /\ present = Pools \cup Disks /\ noMigration = {}
    /\ plans = [p \in Pools |-> NoPlans]
    /\ avail = {} /\ unavail = {}
    /\ delayed = [queue \in Queues |-> <<>>]
    /\ err = "ok" /\ ret = FALSE /\ key = NoPool /\ todo = <<>>
    /\ flying = {} /\ window = 0 /\ batch = {}
    /\ used = 0

--------------------------------------------------------------------------------
(* A decision window *)

\* DoCycleWork for one SubPool after the other.
CycleWork(pools) ==
    [i \in 1 .. 2 * Len(pools) |->
        IF i % 2 = 1 THEN Call("first", pools[(i + 1) \div 2])
        ELSE Call("firstDone", pools[i \div 2])]

\* RelocationPlan::Prepare forgets the plans and the queues, not the disks.
OpenWindow ==
    /\ todo = <<>> /\ window < MaxWindows
    /\ window' = window + 1
    /\ \E noAdvice \in SUBSET (Pools \cap Movable) :
          plans' = [p \in Pools |->
              IF p \in present /\ Advised(p) /\ p \notin noAdvice THEN NewPlans ELSE NoPlans]
    /\ delayed' = [queue \in Queues |-> <<>>]
    /\ todo' = CycleWork(Kept(PoolOrder, {p \in Pools : plans'[p].exists}))
    /\ batch' = {}
    /\ UNCHANGED <<configVars, diskVars, err, ret, key, flying, used>>

Waits(queue, p) == delayed' = [delayed EXCEPT ![queue] = Append(@, p)]

\* What DoCycleWork does with the result of ScheduleFirstBatch.
FirstDone ==
    LET p == Head(todo).pool
    IN /\ Does("firstDone")
       /\ \/ ret /\ Then(<<Call("submit", p)>>) /\ UNCHANGED delayed
          \/ ~ret /\ err = "timed" /\ Waits("timedFirst", p) /\ Then(<<>>)
          \/ ~ret /\ err \notin {"timed", "noMore"} /\ Waits("first", p) /\ Then(<<>>)
          \/ ~ret /\ err = "noMore" /\ Then(<<>>) /\ UNCHANGED delayed
       /\ batch' = {}
       /\ UNCHANGED <<configVars, plans, diskVars, flying, window, used, err, ret, key>>

--------------------------------------------------------------------------------
(* ScheduleDelayed *)

DelayedStages == <<Drain("first"), Drain("next"), Drain("timedFirst"), Drain("timedNext")>>
Tried(queue)  == IF queue \in {"first", "timedFirst"} THEN "first" ELSE "next"
Submits(queue) == IF Tried(queue) = "first" THEN "submit" ELSE "submitNext"

ScheduleDelayed ==
    /\ Does("delayed")
    /\ key' = NoPool
    /\ Then(DelayedStages)
    /\ UNCHANGED <<callFrame, delayed, err, ret>>

\* A stage tries as many entries as the queue had, three at most.
TriesLeft(call) == call.tries > 0

\* ScheduleFirstBatchForDelayed, ScheduleNextForDelayed and their timed forms
\* up to the first entry.  An entry that has not timed out is a success.
BeginDrain ==
    LET queue == Head(todo).mode
        waiting == delayed[queue]
        tries == IF Len(waiting) < RetryTimes THEN Len(waiting) ELSE RetryTimes
    IN /\ Does("drain")
       /\ \/ waiting = <<>> /\ Then(<<>>) /\ UNCHANGED err
          \/ /\ waiting # <<>> /\ queue \in {"timedFirst", "timedNext"}
             /\ err' = "ok" /\ Then(<<Call(Submits(queue), key)>>)
          \/ /\ waiting # <<>> /\ err' = "ok"
             /\ Then(<<Call(Tried(queue), Head(waiting)),
                       [Drain(queue) EXCEPT !.op = "drained", !.tries = tries - 1]>>)
       /\ UNCHANGED <<callFrame, delayed, ret, key>>

\* The entry was tried: it is taken out, put back behind the others unless its
\* SubPool has no more plans, and the next one is tried.
Drained ==
    LET call == Head(todo)  queue == call.mode
        p == Head(delayed[queue])
        rest == IF ret \/ err = "noMore" THEN Tail(delayed[queue])
                ELSE Append(Tail(delayed[queue]), p)
    IN /\ Does("drained")
       /\ delayed' = [delayed EXCEPT ![queue] = rest]
       /\ \/ ret /\ key' = p /\ Then(<<Call(Submits(queue), p)>>)
          \/ /\ ~ret /\ UNCHANGED key
             /\ (~TriesLeft(call) \/ queue \in {"timedFirst", "timedNext"})
             /\ Then(<<>>)
          \/ /\ ~ret /\ TriesLeft(call) /\ UNCHANGED key
             /\ Then(<<Call(Tried(queue), Head(rest)), [call EXCEPT !.tries = @ - 1]>>)
       /\ UNCHANGED <<callFrame, err, ret>>

--------------------------------------------------------------------------------
(* The answers of migrations *)

Usable(p) == ~plans[p].deleted /\ p \in present

\* RemoveSubPoolPlans and RemoveSubPoolFromDelayed.
Forget(p) ==
    /\ plans' = [plans EXCEPT ![p] = NoPlans]
    /\ delayed' = [queue \in Queues |-> Kept(delayed[queue], Pools \ {p})]

\* PlanManager::Complete and Expire: the disks of a usable SubPool are free
\* again, and its next plan is looked for, at once or after a delay.
Answer(f, echo) ==
    LET p == PoolOfPlan(f.plan)
        goesOn == ~plans[p].noMore /\ echo # "full"
    IN /\ todo = <<>> /\ f \in flying /\ echo \in Echoes
       /\ flying' = flying \ {f}
       /\ \/ /\ plans[p].exists /\ Usable(p)
             /\ avail' = avail \cup DisksOf(f.plan)
             /\ unavail' = unavail \ DisksOf(f.plan)
             /\ todo' = IF ~goesOn THEN <<>>
                        ELSE IF echo = "expired"
                        THEN <<Call("delayed", p), Call("expired", p)>>
                        ELSE <<Call("delayed", p), Call("next", p), Call("nextDone", p)>>
             /\ UNCHANGED <<plans, delayed>>
          \/ /\ plans[p].exists /\ ~Usable(p)
             /\ Forget(p) /\ todo' = <<Call("delayed", p)>>
             /\ UNCHANGED diskVars
          \/ /\ ~plans[p].exists
             /\ UNCHANGED <<plans, delayed, diskVars, todo>>
       /\ err' = IF echo = "expired" THEN err ELSE "ok"
       /\ UNCHANGED <<configVars, ret, key, window, batch, used>>

\* Complete after ScheduleNext.
NextDone ==
    LET p == Head(todo).pool
    IN /\ Does("nextDone")
       /\ Then(IF ret THEN <<Call("submitNext", p)>>
               ELSE <<Call("delayed", p), Call("requeue", p)>>)
       /\ UNCHANGED <<callFrame, delayed, err, ret, key>>

\* Complete after the second ScheduleDelayed, which leaves its own error.
Requeue ==
    LET p == Head(todo).pool
    IN /\ Does("requeue") /\ Then(<<>>)
       /\ \/ Usable(p) /\ err = "timed" /\ Waits("timedFirst", p)
          \/ Usable(p) /\ err \notin {"timed", "noMore"} /\ Waits("next", p)
          \/ (~Usable(p) \/ err = "noMore") /\ UNCHANGED delayed
       /\ UNCHANGED <<callFrame, err, ret, key>>

\* Expire after ScheduleDelayed.
ExpiredDone ==
    /\ Does("expired") /\ Then(<<>>)
    /\ Waits("timedNext", Head(todo).pool)
    /\ UNCHANGED <<callFrame, err, ret, key>>

--------------------------------------------------------------------------------
(* The generator's thread *)

generatorFrame == <<plans, diskVars, delayed, err, ret, key, todo, flying, window, batch>>
Counted == used < MaxMishaps /\ used' = used + 1

Lose(x) ==
    /\ x \in Movable \cap present
    /\ present' = present \ {x} /\ noMigration' = noMigration \ {x}
    /\ Counted /\ UNCHANGED generatorFrame

\* Only SubPools: GetFavoriteDisk ranks a disk that was gone in the next window.
Regain(p) ==
    /\ p \in (Movable \cap Pools) \ present
    /\ present' = present \cup {p}
    /\ UNCHANGED <<generatorFrame, noMigration, used>>

\* LogicalConfig::ResolveRelocationType
ForbidMigration(p) ==
    /\ p \in (Movable \cap Pools \cap present) \ noMigration
    /\ noMigration' = noMigration \cup {p} /\ UNCHANGED present
    /\ Counted /\ UNCHANGED generatorFrame

--------------------------------------------------------------------------------
ExecutorStep ==
    \/ Schedule \/ SubmitFirstBatch \/ SubmitNext \/ FirstDone
    \/ ScheduleDelayed \/ BeginDrain \/ Drained
    \/ NextDone \/ Requeue \/ ExpiredDone

Next ==
    \/ OpenWindow \/ ExecutorStep
    \/ \E f \in flying, echo \in Echoes : Answer(f, echo)
    \/ \E x \in Pools \cup Disks : Lose(x)
    \/ \E p \in Pools : Regain(p) \/ ForbidMigration(p)

Spec == Init /\ [][Next]_vars

\* The executor's thread runs.
FairSpec == Spec /\ WF_vars(ExecutorStep)

--------------------------------------------------------------------------------
Ops == {"first", "firstDone", "more", "search", "next", "nextDone", "requeue",
        "expired", "submit", "submitNext", "delayed", "drain", "drained"}
Calls == [op : Ops, pool : Pools \cup {NoPool}, dirs : SUBSET Directions,
          named : SUBSET Directions, tries : Nat,
          mode : {"none", "first", "more", "next", "going"} \cup Queues]
Stats == [times : [Directions -> Nat], penalty : [Directions -> Nat],
          missed : Directions \cup {"none"}, usable : SUBSET Directions]

(* The variables of the planner have their types, and no disk is in         *)
(* mAvailDisks and in mUnavailDisks at once.                                *)
TypeOK ==
    /\ present \subseteq Pools \cup Disks /\ noMigration \subseteq Pools
    /\ plans \in [Pools -> [exists : BOOLEAN, list : Seq(Plans), mark : Nat,
                             noMore : BOOLEAN, deleted : BOOLEAN, stat : Stats,
                             chosen : SUBSET OBJs]]
    /\ avail \subseteq Disks /\ unavail \subseteq Disks /\ avail \cap unavail = {}
    /\ delayed \in [Queues -> Seq(Pools)]
    /\ err \in {"ok", "timed", "noMore", "memory"} /\ ret \in BOOLEAN
    /\ key \in Pools \cup {NoPool} /\ todo \in Seq(Calls)
    /\ flying \subseteq [plan : Plans, window : Nat, known : BOOLEAN]
    /\ window \in 0 .. MaxWindows /\ batch \subseteq Plans
    /\ used \in 0 .. MaxMishaps

(* ScheduleFirstBatch and the searches after it: no two plans of one batch  *)
(* write to the same disk, whatever the white list says and whatever other  *)
(* windows left behind.                                                     *)
BatchUsesTargetsOnce == \A a, b \in batch : a.to = b.to => a = b

(* PlanManager::Complete and Expire: a SubPool that waits in a queue has    *)
(* plans, so that a drained SubPool is one that can be scheduled.           *)
WaitingHavePlans ==
    \A queue \in Queues : \A i \in 1 .. Len(delayed[queue]) :
        plans[delayed[queue][i]].exists

(* Arbitrator::CheckConflict: an OBJ that the arbitrator has IN is not      *)
(* submitted again, by a resubmitted batch or by the next window.           *)
InOnce ==
    \A f, g \in flying : f.known /\ g.known /\ f.plan.obj = g.plan.obj => f = g

(* Whatever answers arrive in whatever order, over the windows: what waits *)
(* can be scheduled and what is submitted is not submitted twice.          *)
QueuesAreSound == TypeOK /\ WaitingHavePlans /\ InOnce

(* Every handler of the executor ends, however the drained SubPools fail.   *)
HandlersEnd == (todo # <<>>) ~> (todo = <<>>)
================================================================================
