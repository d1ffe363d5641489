------------------------------ MODULE Relocator -------------------------------
(***************************************************************************)
(* The executor thread between the planner and the migrator: Arbitrator    *)
(* (ASTArb.cpp) and Migration (ASTMigration.cpp).  What a disk can perform *)
(* and whether a reservation succeeds is abstracted: the planner may       *)
(* propose any migration of an OBJ that AST knows.                         *)
(***************************************************************************)
EXTENDS MigrationState

relocatorFrame == <<astVars, migVars, hubQueue, hubVars, procedures>>

-----------------------------------------------------------------------------
(* Migration: one migration at a time to each target disk.                 *)

\* LaunchMigration, the in-flight table being m.
Launch(m, i) ==
    /\ inflight' = Insert(m, KeyOf(i), i)
    /\ container' = Append(container, Submitted(i))

\* ReceiveArbitratee: item i, made in this step, for disk d; a free disk takes
\* the arbitratee behind its iterator, which need not be i.
ReceiveArbitratee(i, d) ==
    LET queue == Append(waiting[d], i) IN
    /\ disks' = disks \cup {d}
    /\ \/ /\ d \in free \/ d \notin disks
          /\ free' = free \ {d}
          /\ waiting' = [waiting EXCEPT ![d] = Tail(queue)]
          /\ inflight' = Insert(inflight, item'[Head(queue)].key, Head(queue))
          /\ container' = Append(container, Submitted(Head(queue)))
       \/ /\ d \in disks \ free
          /\ waiting' = [waiting EXCEPT ![d] = queue]
          /\ UNCHANGED <<free, inflight, container>>

\* Complete and Expire of Migration: the disk becomes free (unless the migration
\* failed) and, if more is wanted, launches the next arbitratee that waits.
NextOfDisk(key, d, freed, more) ==
    LET rest == Erase(inflight, key)
        ready == IF freed /\ d \in disks THEN free \cup {d} ELSE free IN
    \/ /\ d \notin disks \/ ~more \/ waiting[d] = <<>>
       /\ free' = ready
       /\ inflight' = rest
       /\ UNCHANGED <<disks, waiting, container>>
    \/ /\ d \in disks /\ more /\ waiting[d] # <<>> /\ d \in astDisks
       /\ free' = ready \ {d}
       /\ waiting' = [waiting EXCEPT ![d] = Tail(@)]
       /\ Launch(rest, Head(waiting[d]))
       /\ UNCHANGED disks
    \/ /\ d \in disks /\ more /\ waiting[d] # <<>> /\ d \notin astDisks
       /\ disks' = disks \ {d}                          \* RemoveMigrationDisk
       /\ free' = free \ {d}
       /\ waiting' = [waiting EXCEPT ![d] = <<>>]
       /\ inflight' = rest
       /\ UNCHANGED container

\* Seeded fault: Init forgets the migrations in flight.
FaultyPrepareMigration ==
    LET kept == {d \in disks : d \notin free \/ d \in astDisks} IN
    /\ disks' = kept
    /\ waiting' = [d \in Disks |-> <<>>]
    /\ free' = kept
    /\ UNCHANGED <<inflight, container>>

\* Reset(false) and Init of Migration: what waits is dropped, and only the
\* targets of migrations in flight are not free.
PrepareMigration ==
    LET kept == {d \in disks : d \notin free \/ d \in astDisks} IN
    /\ disks' = kept
    /\ waiting' = [d \in Disks |-> <<>>]
    /\ free' = kept \ {TargetOf(i) : i \in Values(inflight)}
    /\ UNCHANGED <<inflight, container>>

-----------------------------------------------------------------------------
(* Arbitrator.                                                             *)

Delete(S) == [i \in DOMAIN item |-> [item[i] EXCEPT !.deleted = @ \/ i \in S]]

\* Seeded fault: Reset clears IN as well.
FaultyPrepareArbitrator ==
    /\ item' = Delete(Values(arbIn))
    /\ arbIn' = <<>>
    /\ UNCHANGED arbOut

\* Reset(false) of Arbitrator: OUT arbitratees whose lease ends are deleted.
PrepareArbitrator ==
    \E ended \in SUBSET DOMAIN arbOut :
        /\ ended # {} => TRUE \in LeaseEnds
        /\ arbOut' = [k \in DOMAIN arbOut \ ended |-> arbOut[k]]
        /\ item' = Delete({arbOut[k] : k \in ended})
        /\ UNCHANGED arbIn

\* ET_exe_planning: a new decision window.
StartWindow ==
    /\ exePc = "idle" /\ epoch < MaxEpochs
    /\ epoch' = epoch + 1
    /\ PrepareArbitrator
    /\ PrepareMigration
    /\ exePc' = "planning"
    /\ UNCHANGED <<relocatorFrame, exeQueue, spent>>

\* CheckConfigChange
ConfigAllows(key, d) == {key[2], d} \subseteq astDisks

\* CheckFrequentUpDown: the OBJ was not migrated, or its lease ended.
MayMoveAgain(key) == key \in DOMAIN arbOut => TRUE \in LeaseEnds

\* ReceivePlan of a plan whose OBJ has no arbitratee in IN: an earlier one in
\* OUT, its lease ended, is deleted; then the disks can be reserved or not.
ReceivePlan(key, d) ==
    LET i == Len(item) + 1
        old == IF key \in DOMAIN arbOut THEN {arbOut[key]} ELSE {} IN
    /\ exePc = "planning"
    /\ ConfigAllows(key, d) /\ key \notin DOMAIN arbIn /\ MayMoveAgain(key)
    /\ arbOut' = Erase(arbOut, key)
    /\ \/ /\ Len(item) < MaxItems
          /\ item' = Append(Delete(old), [key |-> key, target |-> d, deleted |-> FALSE])
          /\ arbIn' = Insert(arbIn, key, i)
          /\ ReceiveArbitratee(i, d)
       \/ /\ item' = Delete(old)
          /\ UNCHANGED <<arbIn, disks, free, waiting, inflight, container>>
    /\ UNCHANGED <<relocatorFrame, epoch, exePc, exeQueue, spent>>

\* ReceivePlan, CheckConflict: the plan is dropped, but one that does not have
\* the lower priority leaves its target to the arbitratee of the OBJ, whatever
\* became of that arbitratee meanwhile.
Conflict(key, d) ==
    /\ exePc = "planning" /\ ConfigAllows(key, d) /\ key \in DOMAIN arbIn
    /\ TRUE \in ConflictWins
    /\ item' = [item EXCEPT ![arbIn[key]].target = d]
    /\ UNCHANGED <<relocatorFrame, epoch, exePc, exeQueue, arbIn, arbOut, disks,
                   free, waiting, inflight, container, spent>>

PlansDone ==
    /\ exePc = "planning"
    /\ exePc' = "idle"
    /\ UNCHANGED <<relocatorFrame, epoch, exeQueue, item, arbIn, arbOut, disks,
                   free, waiting, inflight, container, spent>>

\* Complete of Arbitrator: the arbitratee moves to OUT or is deleted.
ArbitratorComplete(key, status) ==
    \/ /\ key \notin DOMAIN arbIn
       /\ UNCHANGED <<item, arbIn, arbOut>>
    \/ /\ key \in DOMAIN arbIn /\ status = "ok"
       /\ arbOut' = Insert(arbOut, key, arbIn[key])
       /\ arbIn' = Erase(arbIn, key)
       /\ UNCHANGED item
    \/ /\ key \in DOMAIN arbIn /\ status # "ok"
       /\ item' = Delete({arbIn[key]})
       /\ arbIn' = Erase(arbIn, key)
       /\ UNCHANGED arbOut

\* Expire of Arbitrator.
ArbitratorExpire(key) ==
    \/ /\ key \notin DOMAIN arbIn
       /\ UNCHANGED <<item, arbIn, arbOut>>
    \/ /\ key \in DOMAIN arbIn
       /\ item' = Delete({arbIn[key]})
       /\ arbIn' = Erase(arbIn, key)
       /\ UNCHANGED arbOut

\* ET_exe_migration_completed and ET_exe_migration_expired; a migration that
\* the HUB discarded asks for no more.
HandleEcho ==
    LET e == Head(exeQueue) IN
    /\ exePc = "idle" /\ exeQueue # <<>>
    /\ exeQueue' = Tail(exeQueue)
    /\ \E trigger \in TriggerChoices :
          LET more == trigger /\ (e.type = "expired" \/ e.status # "notdone") IN
          /\ NextOfDisk(e.key, e.target, e.type = "expired" \/ e.status = "ok", more)
          /\ exePc' = IF more THEN "planning" ELSE "idle"
    /\ IF e.type = "expired" THEN ArbitratorExpire(e.key)
                             ELSE ArbitratorComplete(e.key, e.status)
    /\ UNCHANGED <<relocatorFrame, epoch, spent>>

ExecutorStep ==
    \/ StartWindow \/ PlansDone \/ HandleEcho
    \/ \E key \in astOBJs, d \in Disks :
          key[2] # d /\ (ReceivePlan(key, d) \/ Conflict(key, d))

-----------------------------------------------------------------------------
(* The generator's thread.                                                 *)

Present == {d \in Disks : hubDisks[d] = "present"}

\* GetFirstDiskView and GetNextDiskView do not pass over delay-deleted views.
Collected == {d \in Disks : hubDisks[d] # "gone"}

\* The configuration is learned anew, from what the HUB collects.
LearnConfig ==
    /\ CanSpend("learnings")
    /\ Spend("learnings")
    /\ astDisks' = Collected
    /\ astOBJs' = {k \in hubOBJs : k[2] \in Collected}
    /\ UNCHANGED <<exeVars, exeQueue, container, migVars, hubQueue, hubVars,
                   procedures>>

\* ResolveDeletedDisk: CheckDiskExistence no longer finds a reported disk.
ResolveDeletedDisk ==
    \E d \in astDisks \ Present :
        /\ astDisks' = astDisks \ {d}
        /\ UNCHANGED <<exeVars, exeQueue, astOBJs, container, migVars, hubQueue,
                       hubVars, procedures, spent>>

GeneratorStep == LearnConfig \/ ResolveDeletedDisk
=============================================================================
