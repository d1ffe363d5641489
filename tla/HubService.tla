------------------------------ MODULE HubService ------------------------------
(***************************************************************************)
(* The HUB thread (HUB::Handle, ASTHUB.cpp) as AST sees it: it turns AST   *)
(* on and off for the whole storage service, keeps the configuration view  *)
(* and answers the generator's requests for it.  Enabling single SubPools, *)
(* migrations and stopping the HUB are left to other modules.              *)
(*                                                                         *)
(* Only the HUB thread touches hubAst, hubStatus and the configuration, so *)
(* an event is handled in one step.                                        *)
(***************************************************************************)
EXTENDS ASTState

hubFrame == <<astState, msgPc, session, motor, genVars, exeVars, asserted, used>>

\* The thread is about to handle an event of one of the types.
HubHandles(types) == hubQueue # <<>> /\ Head(hubQueue).type \in types
HubEvent == Head(hubQueue)

\* Every answer belongs to the session of the request.
Answer(type, ok, flag) == Record(type, ok, flag, HubEvent.sn)

HubOff == hubAst \in {"disabling", "disabled"}

\* Seeded faults: changes are not held back; a collection holds back itself.
FaultyPendNoChange(type) == hubStatus = "collecting_IO" /\ type = "config_view"
FaultyPendCollection(type) ==
    hubStatus = "collecting_IO" /\ type \in {"change", "config_view", "io_normal"}

\* ShouldEventPend: the configuration is frozen while OBJ IO is collected.
HubShouldPend(type) ==
    hubStatus = "collecting_IO" /\ type \in {"change", "config_view"}

HubPend ==
    /\ hubQueue # <<>> /\ HubShouldPend(HubEvent.type)
    /\ hubPending' = Append(hubPending, HubEvent)
    /\ hubQueue' = Tail(hubQueue)
    /\ UNCHANGED <<hubFrame, msgQueue, hubAst, hubStatus, configLock, objs,
                   toCollect, collected>>

\* Seeded fault: AST is enabled again before it has echoed its disabling.
FaultyEnableEarly ==
    /\ HubHandles({"enable_ast"})
    /\ IF hubAst \in {"disabled", "disabling"}
       THEN /\ msgQueue' = <<Sent("enable_ast")>>
            /\ hubAst' = "enabling"
       ELSE UNCHANGED <<msgQueue, hubAst>>
    /\ hubQueue' = Tail(hubQueue)
    /\ UNCHANGED <<hubFrame, hubPending, hubStatus, configLock, objs, toCollect,
                   collected>>

\* ET_hub_enable_ast in batch mode and EnableAST: the message manager is reset
\* before the request is sent; while AST is disabling the event is launched again.
HubEnable ==
    /\ HubHandles({"enable_ast"})
    /\ IF hubAst = "disabled"
       THEN /\ msgQueue' = <<Sent("enable_ast")>>
            /\ hubAst' = "enabling"
       ELSE UNCHANGED <<msgQueue, hubAst>>
    /\ hubQueue' = IF hubAst = "disabling" THEN Append(Tail(hubQueue), HubEvent)
                   ELSE Tail(hubQueue)
    /\ UNCHANGED <<hubFrame, hubPending, hubStatus, configLock, objs, toCollect,
                   collected>>

\* ET_hub_disable_ast in batch mode and DisableAST.  While AST is enabling the
\* event is launched again at the front: the HUB takes it again and again, and
\* never comes to the echo behind it.
HubDisable ==
    /\ HubHandles({"disable_ast"})
    /\ IF hubAst = "enabled"
       THEN /\ msgQueue' = Append(msgQueue, Sent("disable_ast"))
            /\ hubAst' = "disabling"
       ELSE UNCHANGED <<msgQueue, hubAst>>
    /\ hubQueue' = IF hubAst = "enabling" THEN hubQueue ELSE Tail(hubQueue)
    /\ UNCHANGED <<hubFrame, hubPending, hubStatus, configLock, objs, toCollect,
                   collected>>

\* HandleEnableASTEcho: a failure is only logged.
HubEnableEcho ==
    /\ HubHandles({"enable_ast_echo"})
    /\ hubQueue' = Tail(hubQueue)
    /\ IF HubEvent.ok
       THEN hubAst' = "enabled" /\ hubStatus' = "serving_for_ast"
       ELSE UNCHANGED <<hubAst, hubStatus>>
    /\ UNCHANGED <<hubFrame, msgQueue, hubPending, configLock, objs, toCollect,
                   collected>>

\* HandleDisableASTEcho
HubDisableEcho ==
    /\ HubHandles({"disable_ast_echo"})
    /\ hubQueue' = Tail(hubQueue)
    /\ IF HubEvent.ok
       THEN hubAst' = "disabled" /\ hubStatus' = "running"
       ELSE UNCHANGED <<hubAst, hubStatus>>
    /\ UNCHANGED <<hubFrame, msgQueue, hubPending, configLock, objs, toCollect,
                   collected>>

\* CollectConfigView: an answer without data is a failure.
HubConfigView ==
    /\ HubHandles({"config_view"}) /\ ~HubShouldPend("config_view")
    /\ hubQueue' = Tail(hubQueue)
    /\ \E involved \in ConfigAnswers :
          msgQueue' = Append(msgQueue, Answer("collect_config_resp",
                                          hubAst = "enabled" /\ involved, FALSE))
    /\ UNCHANGED <<hubFrame, hubPending, hubAst, hubStatus, configLock, objs,
                   toCollect, collected>>

\* Seeded fault: the lock is not taken.
FaultyPrepareUnlocked ==
    /\ HubHandles({"io_prepare"})
    /\ hubQueue' = Tail(hubQueue)
    /\ IF HubOff
       THEN UNCHANGED <<hubStatus, toCollect, collected>>
       ELSE /\ hubStatus' = "collecting_IO"
            /\ toCollect' = objs
            /\ collected' = 0
    /\ UNCHANGED <<hubFrame, msgQueue, hubPending, hubAst, configLock, objs>>

\* CollectIOEvent::F_prep: take the configuration's lock and count the OBJs.
HubPrepare ==
    /\ HubHandles({"io_prepare"})
    /\ hubQueue' = Tail(hubQueue)
    /\ IF HubOff
       THEN UNCHANGED <<hubStatus, configLock, toCollect, collected>>
       ELSE /\ hubStatus' = "collecting_IO"
            /\ configLock' = configLock + 1
            /\ toCollect' = objs
            /\ collected' = 0
    /\ UNCHANGED <<hubFrame, msgQueue, hubPending, hubAst, objs>>

\* CollectIOEvent::F_normal and CollectIO: one batch of OBJs, or no data.
HubCollect ==
    /\ HubHandles({"io_normal"}) /\ ~HubShouldPend("io_normal")
    /\ hubQueue' = Tail(hubQueue)
    /\ IF HubOff \/ toCollect = 0 \/ collected = toCollect
       THEN /\ msgQueue' = Append(msgQueue, Answer("collect_OBJ_resp", FALSE, FALSE))
            /\ UNCHANGED collected
       ELSE /\ collected' = collected + 1
            /\ msgQueue' = Append(msgQueue, Answer("collect_OBJ_resp", TRUE,
                                                   collected + 1 = toCollect))
    /\ UNCHANGED <<hubFrame, hubPending, hubAst, hubStatus, configLock, objs,
                   toCollect>>

\* CollectIOEvent::F_post: give the lock back and handle what was pending.
HubPost ==
    /\ HubHandles({"io_post"})
    /\ configLock' = configLock - 1
    /\ hubStatus' = "serving_for_ast"
    /\ hubQueue' = hubPending \o Tail(hubQueue)
    /\ hubPending' = <<>>
    /\ UNCHANGED <<hubFrame, msgQueue, hubAst, objs, toCollect, collected>>

\* AddDisk, RemoveDisk, AddOBJ, DeleteOBJ, CompleteMigrate: the configuration
\* changes under the write lock, which waits for every reader; a deletion is
\* reported while AST is on.
HubChange ==
    /\ HubHandles({"change"}) /\ ~HubShouldPend("change")
    /\ configLock = 0
    /\ hubQueue' = Tail(hubQueue)
    /\ objs' \in ObjBatches
    /\ msgQueue' = IF HubEvent.flag /\ ~HubOff
                   THEN Append(msgQueue, Record("report_delete", FALSE, FALSE, 0))
                   ELSE msgQueue
    /\ UNCHANGED <<hubFrame, hubPending, hubAst, hubStatus, configLock,
                   toCollect, collected>>

HubStep ==
    \/ HubPend \/ HubEnable \/ HubDisable \/ HubEnableEcho \/ HubDisableEcho
    \/ HubConfigView \/ HubPrepare \/ HubCollect \/ HubPost \/ HubChange

\* The storage service calls HUB::Launch*Event.
Launch(bound, type, flag) ==
    /\ CanUse(bound)
    /\ Use(bound)
    /\ hubQueue' = Append(hubQueue, Record(type, FALSE, flag, 0))
    /\ UNCHANGED <<msgVars, genVars, exeVars, hubPending, hubAst, hubStatus,
                   configLock, objs, toCollect, collected, asserted>>

LaunchEnable  == Launch("enables", "enable_ast", FALSE)
LaunchDisable == Launch("disables", "disable_ast", FALSE)
LaunchChange  == \E deletes \in BOOLEAN : Launch("changes", "change", deletes)

HubTypeOK ==
    /\ hubQueue \in Seq(HubEvents)
    /\ hubPending \in Seq(HubEvents)
    /\ hubAst \in HubAstStates
    /\ hubStatus \in HubStatuses
    /\ configLock \in Int
    /\ objs \in Nat
    /\ toCollect \in Nat
    /\ collected \in Nat
=============================================================================
