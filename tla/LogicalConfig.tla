------------------------------ MODULE LogicalConfig ------------------------------
(***************************************************************************)
(* The generator's thread as a learner of the configuration: Relocation-   *)
(* Learning (ASTRelocation.cpp), LogicalConfig (ASTLogicalConfig.cpp) and  *)
(* IOManager::ResolveOBJIO (ASTIO.cpp).  Every round marks all that is     *)
(* known as suspicious, clears what the answers confirm, and puts the rest *)
(* into the deleted sets, from where an advice takes it away.              *)
(***************************************************************************)
EXTENDS ConfigState

learnerFrame == <<hubVars, changes>>

-----------------------------------------------------------------------------
(* Operations of LogicalConfig.                                            *)

\* The first disk of each tier of SubPool p, the only ones that AddDeletedSubPool
\* and ResolveDeletedSubPool mark: the key is not read again.
FirstOfTiers(p) ==
    {d \in In(p, cfgDisks) :
        \A e \in In(p, cfgDisks) : TierOf[e] = TierOf[d] => Rank[d] <= Rank[e]}

\* The deleted sets with SubPools ps, disks ds and OBJs keys, and what the
\* SubPools and disks contain.
WithDeleted(ps, ds, keys) ==
    [pools |-> deleted.pools \cup ps,
     disks |-> deleted.disks \cup ds \cup UNION {FirstOfTiers(p) : p \in ps \cap cfgPools},
     objs  |-> deleted.objs \cup keys
               \cup On(ds \cup {d \in cfgDisks : PoolOf[d] \in ps}, cfgOBJs)]

\* Consolidate: SubPools go with their disks, disks with their OBJs; the id of
\* a disk only with the disk.
Consolidate ==
    LET goes(d) == PoolOf[d] \in deleted.pools \/ d \in deleted.disks IN
    /\ cfgPools' = cfgPools \ deleted.pools
    /\ cfgDisks' = {d \in cfgDisks : ~goes(d)}
    /\ cfgOBJs'  = {k \in cfgOBJs : ~goes(DiskOf(k)) /\ k \notin deleted.objs}
    /\ diskIds'  = diskIds \ deleted.disks
    /\ suspicious' = [pools |-> suspicious.pools \cap cfgPools',
                      disks |-> suspicious.disks \cap cfgDisks',
                      objs  |-> suspicious.objs \cap cfgOBJs']
    /\ deleted' = NoSets

\* ResolveLogicalConfig: what is known is confirmed, what is not is added, but
\* a disk whose id is still taken is not.
ConfirmConfig(a) ==
    LET eligible == {d \in a.disks : PoolOf[d] \in a.pools}
        new == eligible \ (cfgDisks \cup diskIds) IN
    /\ cfgPools' = cfgPools \cup a.pools
    /\ cfgDisks' = cfgDisks \cup new
    /\ diskIds'  = diskIds \cup new
    /\ suspicious' = [suspicious EXCEPT !.pools = @ \ a.pools, !.disks = @ \ eligible]
    /\ UNCHANGED cfgOBJs

\* Seeded fault: an OBJ is kept though no disk takes it.
FaultyConfirmOBJs(keys) ==
    /\ cfgOBJs' = cfgOBJs \cup keys
    /\ suspicious' = [suspicious EXCEPT !.objs = @ \ keys]
    /\ UNCHANGED <<cfgPools, cfgDisks, diskIds>>

\* ResolveOBJIO: likewise; an OBJ whose disk is not known is left out.
ConfirmOBJs(keys) ==
    /\ cfgOBJs' = cfgOBJs \cup On(cfgDisks, keys)
    /\ suspicious' = [suspicious EXCEPT !.objs = @ \ keys]
    /\ UNCHANGED <<cfgPools, cfgDisks, diskIds>>

-----------------------------------------------------------------------------
(* The learning phases.                                                    *)

\* Seeded fault: nothing is marked.
FaultyCollectConfig ==
    /\ genStatus = "idle"
    /\ genStatus' = "learning"
    /\ cycle' = (cycle + 1) % AdviseEvery
    /\ advise' = (cycle = AdviseEvery - 1)
    /\ toHub' = Append(toHub, "config")
    /\ UNCHANGED <<learnerFrame, answers, reports, configVars, suspicious, deleted,
                   failures>>

\* P_collect_logical_config of a new cycle, with MarkLogicalConfigAsSuspicious.
CollectConfig ==
    /\ genStatus = "idle"
    /\ genStatus' = "learning"
    /\ cycle' = (cycle + 1) % AdviseEvery
    /\ advise' = (cycle = AdviseEvery - 1)
    /\ suspicious' = [pools |-> cfgPools, disks |-> cfgDisks, objs |-> cfgOBJs]
    /\ toHub' = Append(toHub, "config")
    /\ UNCHANGED <<learnerFrame, answers, reports, configVars, deleted, failures>>

Answered(type) ==
    /\ genStatus = "learning"
    /\ answers # <<>> /\ Head(answers).type = type
    /\ answers' = Tail(answers)

\* P_resolve_logical_config
ResolveConfig ==
    LET a == Head(answers) IN
    /\ Answered("config")
    /\ \/ /\ a.ok
          /\ ConfirmConfig(a)
          /\ toHub' = toHub \o <<"prepare", "collect">>
          /\ UNCHANGED genStatus
       \/ /\ ~a.ok
          /\ genStatus' = "idle"
          /\ UNCHANGED <<configVars, suspicious, toHub>>
    /\ UNCHANGED <<learnerFrame, reports, deleted, cycle, advise, failures>>

\* Seeded fault: OBJs are not looked at.
FaultyRemoveUnConfirmedSuspect(sus) ==
    WithDeleted(sus.pools, {d \in sus.disks : PoolOf[d] \notin sus.pools}, {})

\* RemoveUnConfirmedSuspect, the suspicious ones being sus.
RemoveUnConfirmedSuspect(sus) ==
    WithDeleted(sus.pools, {d \in sus.disks : PoolOf[d] \notin sus.pools},
                {k \in sus.objs : /\ DiskOf(k) \notin sus.disks
                                  /\ PoolOf[DiskOf(k)] \notin sus.pools})

\* P_resolve_OBJ_io: the next batch is asked for, or the round ends, with the
\* advice or without.  An answer that says there is nothing ends the collection
\* and nothing else.
ResolveIO ==
    LET a == Head(answers) IN
    /\ Answered("io")
    /\ \/ /\ a.ok /\ a.more
          /\ ConfirmOBJs(a.objs)
          /\ toHub' = Append(toHub, "collect")
          /\ UNCHANGED <<genStatus, deleted, failures>>
       \/ /\ a.ok /\ ~a.more
          /\ ConfirmOBJs(a.objs)
          /\ toHub' = Append(toHub, "post")
          /\ deleted' = RemoveUnConfirmedSuspect(suspicious')
          /\ genStatus' = IF advise THEN "advising" ELSE "idle"
          /\ UNCHANGED failures
       \/ /\ ~a.ok
          /\ toHub' = Append(toHub, "post")
          /\ UNCHANGED <<configVars, suspicious, genStatus, deleted, failures>>
    /\ UNCHANGED <<learnerFrame, reports, cycle, advise>>

\* Seeded fault: the suspects are removed although the round failed.
FaultyFailToResolveIO ==
    LET a == Head(answers) IN
    /\ Answered("io") /\ a.ok /\ ~a.more
    /\ failures < MaxFailures
    /\ failures' = failures + 1
    /\ \E done \in SUBSET a.objs : done # a.objs /\ ConfirmOBJs(done)
    /\ deleted' = RemoveUnConfirmedSuspect(suspicious')
    /\ toHub' = Append(toHub, "post")
    /\ genStatus' = "idle"
    /\ UNCHANGED <<learnerFrame, reports, cycle, advise>>

\* P_resolve_OBJ_io, out of memory after some OBJs of the last answer.
FailToResolveIO ==
    LET a == Head(answers) IN
    /\ Answered("io") /\ a.ok /\ ~a.more
    /\ failures < MaxFailures
    /\ failures' = failures + 1
    /\ \E done \in SUBSET a.objs : done # a.objs /\ ConfirmOBJs(done)
    /\ toHub' = Append(toHub, "post")
    /\ genStatus' = "idle"
    /\ UNCHANGED <<learnerFrame, reports, deleted, cycle, advise>>

\* ResolveDeletedSubPools, ResolveDeletedDisks and ResolveDeletedOBJs.
DeletedSubPool(p) == WithDeleted({p}, {}, {})
DeletedDisk(d)    == WithDeleted({}, {d}, {})
DeletedOBJ(key)   == WithDeleted({}, {}, {key})

\* P_resolve_deleted_subpool, _disk and _OBJ: put aside while learning or
\* advising (ShouldEventPend), later handled in their order.
ResolveDeleted ==
    LET r == Head(reports) IN
    /\ genStatus = "idle" /\ reports # <<>>
    /\ reports' = Tail(reports)
    /\ deleted' = CASE r.kind = "pool" -> DeletedSubPool(r.what)
                    [] r.kind = "disk" -> DeletedDisk(r.what)
                    [] OTHER -> DeletedOBJ(r.what)
    /\ UNCHANGED <<learnerFrame, toHub, answers, configVars, suspicious, genStatus,
                   cycle, advise, failures>>

\* ET_gen_advise, as far as the configuration goes.
Advise ==
    /\ genStatus = "advising"
    /\ genStatus' = "idle"
    /\ Consolidate
    /\ UNCHANGED <<learnerFrame, toHub, answers, reports, cycle, advise, failures>>

Learn == CollectConfig \/ ResolveConfig \/ ResolveIO \/ FailToResolveIO
         \/ ResolveDeleted \/ Advise
================================================================================
