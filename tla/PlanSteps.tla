------------------------------ MODULE PlanSteps ------------------------------
(***************************************************************************)
(* What the executor's thread does in the planner.  A handler is a         *)
(* sequence of calls, todo; the head of it is the next step, a search in   *)
(* one direction or the submission of one plan, and the configuration may  *)
(* change between two of them.                                             *)
(***************************************************************************)
EXTENDS PlanQueues

\* A call: its SubPool, the directions still to search, those the caller named,
\* the kind of search or the queue, and how many entries may be tried.
Call(op, p)   == [op |-> op, pool |-> p, dirs |-> {}, named |-> {},
                  mode |-> "none", tries |-> 0]
Drain(queue)  == [Call("drain", NoPool) EXCEPT !.mode = queue]
Search(p, dirs, named, mode) ==
    [Call("search", p) EXCEPT !.dirs = dirs, !.named = named, !.mode = mode]
More(p, dirs) == [Call("more", p) EXCEPT !.named = dirs]

Does(op) == todo # <<>> /\ Head(todo).op = op
Then(calls) == todo' = calls \o Tail(todo)
Returns(ok, e) == ret' = ok /\ err' = e

searchFrame == <<configVars, delayed, key, flying, window>>
\* What a call leaves alone that neither schedules nor submits.
callFrame == <<configVars, plans, diskVars, flying, window, batch, used>>

--------------------------------------------------------------------------------
(* Scheduling *)

\* ScheduleFirstBatch, ScheduleNextFromSpecifiedPlanDirs and ScheduleNext up to
\* their search, for a SubPool that has plans (WaitingHavePlans).  After its
\* first plan a first batch has succeeded.
BeginSchedule(op, mode) ==
    LET p == Head(todo).pool
        fails(e) == /\ Returns(mode = "more", IF mode = "more" THEN "ok" ELSE e)
                    /\ Then(<<>>)
        dirs == IF mode = "more" THEN Head(todo).named ELSE plans[p].stat.usable
    IN /\ Does(op) /\ plans[p].exists
       /\ \/ /\ p \in present \cap noMigration
             /\ fails("timed") /\ UNCHANGED plans
          \/ /\ p \notin present
             /\ fails("noMore")
             /\ plans' = [plans EXCEPT ![p].deleted = TRUE]
          \/ /\ p \in present \ noMigration
             /\ mode = "next" /\ (avail = {} \/ plans[p].deleted)
             /\ fails("ok") /\ UNCHANGED plans
          \/ /\ p \in present \ noMigration
             /\ mode = "next" => avail # {} /\ ~plans[p].deleted
             /\ err' = "ok" /\ Then(<<Search(p, dirs, dirs, mode)>>)
             /\ UNCHANGED <<plans, ret>>
       /\ batch' = IF mode = "first" THEN {} ELSE batch
       /\ UNCHANGED <<searchFrame, diskVars, used>>

\* Seeded fault: the target disk of a plan stays available.
FaultyMakePlan(p, o, dir, d, mode) ==
    /\ plans' = [plans EXCEPT
          ![p].list = Append(@, [obj |-> o, to |-> d, dir |-> dir]),
          ![p].stat = Scheduled(Recalculated(@), dir), ![p].chosen = @ \cup {o}]
    /\ avail' = avail \ {Source[o]}
    /\ unavail' = unavail \cup {Source[o]}
    /\ batch' = IF mode = "next" THEN batch
                ELSE batch \cup {[obj |-> o, to |-> d, dir |-> dir]}

\* The plan that a search has found: both disks become unavailable.
MakePlan(p, o, dir, d, mode) ==
    /\ plans' = [plans EXCEPT
          ![p].list = Append(@, [obj |-> o, to |-> d, dir |-> dir]),
          ![p].stat = Scheduled(Recalculated(@), dir), ![p].chosen = @ \cup {o}]
    /\ avail' = avail \ {Source[o], d}
    /\ unavail' = unavail \cup {Source[o], d}
    /\ batch' = IF mode = "next" THEN batch
                ELSE batch \cup {[obj |-> o, to |-> d, dir |-> dir]}

\* One direction of a search: it finds a plan, or the advice is lost because
\* there is no memory for the plan, or the direction is given up.
SearchDirection ==
    LET p == Head(todo).pool      mode == Head(todo).mode
        dirs == Head(todo).dirs   named == Head(todo).named
        stat == Recalculated(plans[p].stat)
    IN /\ Does("search")
       /\ \E dir \in Prior(stat, dirs), lacking \in Lacking :
            LET offers == Offered(p, dir, mode)
                i == FirstFit(p, offers, Tries(mode, offers), lacking)
                o == offers[i]
                d == Best(Comparable(o, p))
            IN \/ /\ i # 0
                  /\ MakePlan(p, o, dir, d, mode)
                  /\ ret' = TRUE
                  /\ Then(CASE mode = "first" -> <<More(p, dirs)>>
                            [] mode = "more"  -> <<More(p, named)>>
                            [] mode = "next"  -> <<>>)
                  /\ UNCHANGED <<err, used>>
               \/ /\ i # 0 /\ used < MaxMishaps /\ used' = used + 1
                  /\ plans' = [plans EXCEPT ![p].stat = Scheduled(stat, dir),
                                            ![p].chosen = @ \cup {o}]
                  /\ Returns(mode = "more", IF mode = "more" THEN "ok" ELSE "memory")
                  /\ Then(<<>>) /\ UNCHANGED <<diskVars, batch>>
               \/ /\ i = 0
                  /\ plans' = [plans EXCEPT ![p].stat =
                        Missed(IF offers = <<>> THEN Excluded(stat, dir) ELSE stat, dir)]
                  /\ Then(<<Search(p, dirs \ {dir}, named, mode)>>)
                  /\ UNCHANGED <<diskVars, ret, err, used, batch>>
       /\ UNCHANGED searchFrame

\* No direction is left.
SearchEnds ==
    LET p == Head(todo).pool  mode == Head(todo).mode
    IN /\ Does("search") /\ Head(todo).dirs \cap plans[p].stat.usable = {}
       /\ plans' = [plans EXCEPT
             ![p].noMore = @ \/ mode = "first",
             ![p].stat = IF Head(todo).dirs = {} THEN @ ELSE Recalculated(@)]
       /\ Returns(mode = "more", IF mode = "first" THEN "noMore" ELSE "ok")
       /\ Then(<<>>)
       /\ UNCHANGED <<searchFrame, diskVars, used, batch>>

Schedule ==
    \/ BeginSchedule("first", "first") \/ BeginSchedule("more", "more")
    \/ BeginSchedule("next", "next") \/ SearchDirection \/ SearchEnds

--------------------------------------------------------------------------------
(* Submitting *)

\* Seeded fault: no look at the plans that are IN.
FaultyAnswers(plan) ==
    IF PoolOfPlan(plan) \notin present THEN {"subpool"}
    ELSE IF Source[plan.obj] \notin present THEN {"source"}
    ELSE IF plan.to \notin present THEN {"target"}
    ELSE {"accepted"}

\* Arbitrator::ReceivePlan: what became of the configuration, a conflict with a
\* plan that is still IN, and everything else that may be refused.
Answers(plan) ==
    IF PoolOfPlan(plan) \notin present THEN {"subpool"}
    ELSE IF Source[plan.obj] \notin present THEN {"source"}
    ELSE IF plan.to \notin present THEN {"target"}
    ELSE IF \E f \in flying : f.known /\ f.plan.obj = plan.obj THEN {"conflict"}
    ELSE {"accepted"} \cup IF used < MaxMishaps THEN {"refused"} ELSE {}

\* OnFailToSubmit: the disk that is still there is free again.
OnFailToSubmit(plan, answer) ==
    LET freed == CASE answer = "source" -> {plan.to}
                   [] answer = "target" -> {Source[plan.obj]}
                   [] OTHER -> {}
    IN avail' = avail \cup freed /\ unavail' = unavail \ freed

\* ReceivePlan and OnFailToSubmit for the plan at position at of the list.
Receive(p, at, answer) ==
    LET plan == plans[p].list[at]
    IN /\ answer \in Answers(plan)
       /\ flying' = IF answer = "accepted"
                    THEN flying \cup {[plan |-> plan, window |-> window, known |-> TRUE]}
                    ELSE IF answer = "subpool"
                    THEN {[f EXCEPT !.known = @ /\ PoolOfPlan(f.plan) # p] : f \in flying}
                    ELSE flying
       /\ plans' = [plans EXCEPT ![p].mark = at,
                                 ![p].deleted = @ \/ answer = "subpool"]
       /\ OnFailToSubmit(plan, answer)
       /\ used' = used + IF answer = "refused" THEN 1 ELSE 0

\* GetFirstPlan and GetNextPlan
HasPlanAt(p, at) == p # NoPool /\ plans[p].exists /\ at <= Len(plans[p].list)

\* Seeded fault: the iterator stays on the plan that was submitted.
FaultyNextPlan(p) == plans[p].mark

\* GetNextPlan: the place behind mIt.
NextPlan(p) == plans[p].mark + 1

\* SubmitFirstBatch: from the first plan on, one plan after the other, until
\* SPF_subpool_deleted is seen after one.
SubmitFirstBatch ==
    LET p == Head(todo).pool
        going == Head(todo).mode = "going"
        at == IF going THEN NextPlan(p) ELSE 1
    IN /\ Does("submit")
       /\ \/ /\ ~HasPlanAt(p, at)
             /\ Then(<<>>) /\ UNCHANGED <<plans, flying, diskVars, used>>
          \/ /\ HasPlanAt(p, at)
             /\ \E answer \in {"accepted", "subpool", "source", "target",
                               "conflict", "refused"} :
                   /\ Receive(p, at, answer)
                   /\ Then(IF plans'[p].deleted THEN <<>>
                           ELSE <<[Call("submit", p) EXCEPT !.mode = "going"]>>)
       /\ UNCHANGED <<configVars, delayed, err, ret, key, window, batch>>

\* SubmitNext: the plan behind the one that was submitted last.
SubmitNext ==
    LET p == Head(todo).pool
        at == NextPlan(p)
    IN /\ Does("submitNext")
       /\ \/ /\ ~HasPlanAt(p, at)
             /\ UNCHANGED <<plans, flying, diskVars, used>>
          \/ /\ HasPlanAt(p, at)
             /\ \E answer \in {"accepted", "subpool", "source", "target",
                               "conflict", "refused"} : Receive(p, at, answer)
       /\ Then(<<>>)
       /\ UNCHANGED <<configVars, delayed, err, ret, key, window, batch>>
================================================================================
