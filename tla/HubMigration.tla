----------------------------- MODULE HubMigration ------------------------------
(***************************************************************************)
(* The HUB thread as far as migrations go (HUB::Handle, Migrate,           *)
(* CompleteMigrate, RemoveDisk, DeleteOBJ of ASTHUB.cpp) and the storage   *)
(* service that migrates (ASTCommDispatcher.cpp).  The completions that    *)
(* the HUB holds back while it collects IO are those that the storage      *)
(* service has not yet notified.                                           *)
(***************************************************************************)
EXTENDS MigrationState

hubFrame == <<exeVars, exeQueue, astVars, migVars>>
HubHandles(type) == hubQueue # <<>> /\ Head(hubQueue).type = type

HasView(d) == hubDisks[d] # "gone"

-----------------------------------------------------------------------------
(* ConfigView.                                                             *)

\* RemoveDiskView of SubPoolView looks up the tier of the disk.  RemoveTierView
\* deletes the view of a tier without disks but leaves it in the list, so the
\* lookup may come upon memory that was freed, and does if it is this tier's.
TierHasView(d)  == \E e \in tierDisks : TierOf[e] = TierOf[d]
ListedFreedView == \E d \in Disks : ~TierHasView(d)

\* RemoveDiskView for the disks S, the pins being those after the step.
RemoveViews(S) ==
    /\ hubDisks' = [d \in Disks |-> IF d \notin S THEN hubDisks[d]
                                    ELSE IF pinned'[d] = 0 THEN "gone"
                                    ELSE "delayed"]
    /\ tierDisks' = tierDisks \ S

OnDisks(S) == {k \in OBJKeys : k[2] \in S}

-----------------------------------------------------------------------------
(* Migrations.                                                             *)

\* The service migrates to key one more time.
StartProcedure(key) == procedures' = [procedures EXCEPT ![key] = @ + 1]
EndProcedure(key)   == procedures' = [procedures EXCEPT ![key] = @ - 1]

\* Seeded fault: the entry is made before the OBJ gets the id of its target.
FaultyTableKey(e) == e.key

\* AddIntoOBJ2SrcDiskTable is given the OBJ with the id of its target disk.
TableKey(e) == <<e.key[1], e.target>>

\* ET_hub_migrate: both disks and the OBJ must be known; then they are pinned
\* and the service migrates, else the migrator is told.
Migrate ==
    LET e == Head(hubQueue)
        source == e.key[2]
        key == <<e.key[1], e.target>> IN
    /\ HubHandles("migrate")
    /\ hubQueue' = Tail(hubQueue)
    /\ \/ /\ HasView(source) /\ HasView(e.target) /\ e.key \in hubOBJs
          /\ pinned' = [d \in Disks |-> IF d \in {source, e.target}
                                        THEN pinned[d] + 1 ELSE pinned[d]]
          /\ moving' = Insert(moving, TableKey(e), source)
          /\ StartProcedure(key)
          /\ UNCHANGED container
       \/ /\ ~(HasView(source) /\ HasView(e.target) /\ e.key \in hubOBJs)
          /\ container' = Append(container, Ended(key, "notdone"))
          /\ UNCHANGED <<pinned, moving, procedures>>
    /\ UNCHANGED <<hubFrame, hubOBJs, hubDisks, tierDisks, asserted, spent>>

\* The assertions of CompleteMigrate and MoveOBJFromSrc2Tgt that fail.
CompletionAsserts(e) ==
    LET source == moving[e.key]
        key == <<e.key[1], source>> IN
    IF e.key \notin DOMAIN moving THEN {"no_entry"}
    ELSE IF ~(HasView(source) /\ HasView(e.key[2])) THEN {"no_disk"}
    ELSE IF e.status = "ok" /\ key \notin hubOBJs THEN {"no_source"}
    ELSE IF e.status = "ok" /\ e.key \in hubOBJs THEN {"target_exists"}
    ELSE {}

\* DecPinnedNum saturates.
Unpin(p, d) == [p EXCEPT ![d] = IF @ > 1 THEN @ - 1 ELSE 0]

\* Seeded fault: only the target is unpinned.
FaultyUnpinBoth(p, source, target) == Unpin(p, target)

UnpinBoth(p, source, target) == Unpin(Unpin(p, source), target)

\* ET_hub_migration_completed: CompleteMigrate; its tables of unsettled OBJs are in
\* Redirects.
CompleteMigrate ==
    LET e == Head(hubQueue)
        source == moving[e.key]
        target == e.key[2]
        key == <<e.key[1], source>>
        ready == {d \in {source, target} : hubDisks[d] = "delayed" /\ pinned'[d] = 0} IN
    /\ HubHandles("completed")
    /\ hubQueue' = Tail(hubQueue)
    /\ \/ /\ CompletionAsserts(e) # {}
          /\ asserted' = asserted \cup CompletionAsserts(e)
          /\ UNCHANGED <<viewVars, moving, container>>
       \/ /\ CompletionAsserts(e) = {}
          /\ moving' = Erase(moving, e.key)
          /\ container' = Append(container, Ended(e.key, e.status))
          /\ pinned' = UnpinBoth(pinned, source, target)
          /\ RemoveViews(ready)
          /\ hubOBJs' = (IF e.status = "ok" THEN (hubOBJs \ {key}) \cup {e.key}
                         ELSE hubOBJs) \ OnDisks(ready)
          /\ \/ /\ ready # {} /\ ListedFreedView
                /\ asserted' = asserted \cup {"freed_tier"}
             \/ /\ \A d \in ready : TierHasView(d)
                /\ UNCHANGED asserted
    /\ UNCHANGED <<hubFrame, procedures, spent>>

\* ET_hub_remove_disk: RemoveDisk, with the lookup of the tier as meant (HubViews
\* has it as coded).
RemoveDisk(d) ==
    /\ CanSpend("removals") /\ d \in Removable /\ hubDisks[d] = "present"
    /\ Spend("removals")
    /\ \/ /\ ListedFreedView
          /\ asserted' = asserted \cup {"freed_tier"}
          /\ UNCHANGED viewVars
       \/ /\ TierHasView(d)
          /\ UNCHANGED <<pinned, asserted>>
          /\ RemoveViews({d})
          /\ hubOBJs' = IF pinned[d] = 0 THEN hubOBJs \ OnDisks({d}) ELSE hubOBJs
    /\ UNCHANGED <<hubFrame, container, hubQueue, moving, procedures>>

\* ET_hub_delete_obj: DeleteOBJ.
DeleteOBJ(key) ==
    /\ CanSpend("deletions") /\ key \in hubOBJs
    /\ Spend("deletions")
    /\ hubOBJs' = hubOBJs \ {key}
    /\ UNCHANGED <<hubFrame, container, hubQueue, hubDisks, tierDisks, pinned, moving,
                   asserted, procedures>>

HubStep ==
    \/ Migrate \/ CompleteMigrate
    \/ \E d \in Disks : RemoveDisk(d)
    \/ \E key \in OBJKeys : DeleteOBJ(key)

-----------------------------------------------------------------------------
(* The storage service: ASTMigrateProcedure::Process.                      *)

Notify(key) ==
    /\ procedures[key] > 0
    /\ EndProcedure(key)
    /\ \E status \in Results :
          hubQueue' = Append(hubQueue, [type |-> "completed", key |-> key,
                                        status |-> status])
    /\ UNCHANGED <<hubFrame, container, hubVars, spent>>

Lose(key) ==
    /\ procedures[key] > 0 /\ CanSpend("losses")
    /\ EndProcedure(key)
    /\ Spend("losses")
    /\ UNCHANGED <<hubFrame, container, hubQueue, hubVars>>

ServiceStep == \E key \in OBJKeys : Notify(key) \/ Lose(key)
=============================================================================
