------------------------------- MODULE ASTCore -------------------------------
(***************************************************************************)
(* The four threads of Auto Storage Tiering together: the storage service  *)
(* enables and disables AST and changes its configuration, the timer       *)
(* launches cycles, the generator learns the configuration and the IO from *)
(* the HUB, and generator and executor take turns in a decision window.    *)
(***************************************************************************)
EXTENDS Generator, Executor, HubService, ControlThread

Init ==
    /\ astState = "none" /\ msgQueue = <<>> /\ msgPc = "idle"
    /\ session = 0 /\ motor = FALSE
    /\ genStatus = "stopped" /\ genQueue = <<>> /\ genPending = <<>>
    /\ genPc = [t \in Threads |-> "none"]
    /\ genEv = [t \in Threads |-> NoGenEvent]
    /\ adviceAfter = FALSE
    /\ exeStatus = "stopped" /\ exeQueue = <<>> /\ exeDelayed = <<>>
    /\ exePc = [t \in Threads |-> "none"]
    /\ exeEv = [t \in Threads |-> NoExeEvent]
    /\ inflight = 0 /\ echoes = 0
    /\ hubQueue = <<>> /\ hubPending = <<>>
    /\ hubAst = "disabled" /\ hubStatus = "running" /\ configLock = 0
    /\ objs \in ObjBatches /\ toCollect = 0 /\ collected = 0
    /\ asserted = {}
    /\ used = [b \in Bounds |-> 0]

\* A failed assertion ends the process.
Next ==
    /\ asserted = {}
    /\ \/ MsgStep
       \/ \E t \in Threads : GenStep(t)
       \/ \E t \in Threads : ExeStep(t)
       \/ HubStep
       \/ MigratorEcho
       \/ Tick
       \/ LaunchEnable \/ LaunchDisable \/ LaunchChange

Spec == Init /\ [][Next]_vars

(***************************************************************************)
(* Every thread that can go on does; migrations are echoed or expire.  The *)
(* timer and the storage service owe nothing.                              *)
(***************************************************************************)
Alive == asserted = {}
Fairness ==
    /\ WF_vars(Alive /\ MsgStep)
    /\ \A t \in Threads : WF_vars(Alive /\ GenStep(t)) /\ WF_vars(Alive /\ ExeStep(t))
    /\ WF_vars(Alive /\ HubStep)
    /\ WF_vars(Alive /\ MigratorEcho)

FairSpec == Spec /\ Fairness

-----------------------------------------------------------------------------
CountsOK ==
    /\ asserted \subseteq {"resolve_config", "resolve_OBJ_io"}
    /\ used \in [Bounds -> Nat]
    /\ used["migrations"] <= MaxMigrations
    /\ inflight + echoes <= used["migrations"]

(* Every variable has the type of the member it stands for; no echo has a  *)
(* number that was not given to it.                                        *)
TypeOK == MsgTypeOK /\ GenTypeOK /\ ExeTypeOK /\ HubTypeOK /\ CountsOK

-----------------------------------------------------------------------------
(* The HUB and AST.                                                        *)

(* What the HUB believes of AST is true: it calls AST enabled (disabled)   *)
(* only while it is, and a request of its own is the only one under way,   *)
(* so that neither AST::EnableAST nor AST::DisableAST ever refuses.        *)
HubKnowsAst ==
    /\ hubAst = "enabled"  => astState = "enabled"
    /\ hubAst = "disabled" => astState \in {"none", "disabled"}
    /\ MsgHandles({"enable_ast"})  => astState \in {"none", "disabled"}
    /\ MsgHandles({"disable_ast"}) => astState = "enabled"

\* No element of the queue has one of the types, or exactly one has.
Without(q, types) == \A i \in DOMAIN q : q[i].type \notin types
OneOf(q, types, type, ok) ==
    \E i \in DOMAIN q : /\ q[i].type = type /\ q[i].ok = ok
                        /\ \A j \in DOMAIN q : q[j].type \in types => j = i

ControlMsgs == {"enable_ast", "disable_ast", "ast_enabled", "ast_disabled"}
EchoEvents  == {"enable_ast_echo", "disable_ast_echo"}

\* Where the one request or echo is: nowhere, a message, or an event of the HUB.
Quiet == Without(msgQueue, ControlMsgs) /\ Without(hubQueue, EchoEvents)
AsMsg(type, ok) ==
    OneOf(msgQueue, ControlMsgs, type, ok) /\ Without(hubQueue, EchoEvents)
AsEcho(type, ok) ==
    Without(msgQueue, ControlMsgs) /\ OneOf(hubQueue, EchoEvents, type, ok)

(* At most one request or echo is under way between HUB and AST, and the   *)
(* two statuses say which: this is what makes HubKnowsAst inductive. A     *)
(* configuration change or a config_view is all the HUB ever puts aside.   *)
OneRequestAtATime ==
    /\ Without(hubPending, EchoEvents)
    /\ \/ hubAst = "disabled" /\ msgPc = "idle" /\ Quiet
          /\ astState \in {"none", "disabled"}
       \/ hubAst = "enabling" /\ msgPc = "idle"
          /\ \/ AsMsg("enable_ast", FALSE) /\ astState \in {"none", "disabled"}
             \/ AsMsg("ast_enabled", TRUE) /\ astState = "enabled"
             \/ AsEcho("enable_ast_echo", TRUE) /\ astState = "enabled"
             \/ AsMsg("ast_enabled", FALSE) /\ astState = "enabling"
             \/ AsEcho("enable_ast_echo", FALSE) /\ astState = "enabling"
             \/ Quiet /\ astState = "enabling"
       \/ hubAst = "enabled" /\ msgPc = "idle" /\ Quiet /\ astState = "enabled"
       \/ hubAst = "disabling" /\ msgPc = "idle"
          /\ \/ AsMsg("disable_ast", FALSE) /\ astState = "enabled"
             \/ AsMsg("ast_disabled", TRUE) /\ astState = "disabled"
             \/ AsEcho("disable_ast_echo", TRUE) /\ astState = "disabled"
       \/ hubAst = "disabling" /\ msgPc # "idle" /\ Quiet /\ astState = "disabling"

\* The two status machines alone.
Switch == INSTANCE ASTSwitch WITH hub <- hubAst, ast <- astState

(* Whatever the threads do in between, HUB and AST switch as ASTSwitch     *)
(* allows: request, work, echo, one at a time.                             *)
SwitchSpec == Switch!Spec

Elements(q) == {q[i] : i \in 1 .. Len(q)}

\* Stop neither ends nor joins a generator or an executor that is noop.
ThreadsReleased ==
    \A t \in Threads : {genPc[t], exePc[t]} \subseteq {"none", "exited"}

(* Enabling AST again forgets the conversations of the session before, if    *)
(* disabling has released the threads of that session: the order of          *)
(* messages, the echo of disabling and the two resets (of MessageManager and *)
(* of AST) leave nothing of them on its way but configuration requests that  *)
(* the HUB had put aside (HandleDisableASTEcho leaves mPendingEventContainer *)
(* as it is), which the HUB answers in the session that begins.  A session   *)
(* leaves such a request behind only if the HUB is still collecting IO when  *)
(* it hears that AST is disabled: a collection that has ended took up all    *)
(* that it had put aside.                                                    *)
EnablingForgets ==
    [][/\ session' # session /\ ThreadsReleased =>
             /\ \A e \in Elements(msgQueue') \cup Elements(genQueue') \cup
                         Elements(genPending') \cup Elements(hubQueue') :
                   e.sn \in {0, session'}
             /\ \A e \in Elements(hubPending') :
                   e.sn \in {0, session'} \/ e.type = "config_view"
       /\ hubAst = "disabling" /\ hubAst' = "disabled" /\ hubStatus # "collecting_IO" =>
             \A e \in Elements(hubPending') : e.type = "config_view" => e.sn # session]_vars

-----------------------------------------------------------------------------
(* Conversations: what is on its way between the generator and the HUB.    *)

Count(q, types) == Cardinality({i \in 1 .. Len(q) : q[i].type \in types})

\* Threads that have taken an event of one of the types and not finished it.
GenHolders(types) ==
    {t \in Threads : /\ genPc[t] \in {"check", "assert", "act"}
                     /\ genEv[t].type \in types}
ExeHolders(types) ==
    {t \in Threads : exePc[t] \in {"check", "act"} /\ exeEv[t].type \in types}
GenBusy == \E t \in Threads : genPc[t] \in {"check", "assert", "act", "drain"}

\* Requests that the HUB has not answered, and answers not yet resolved.
Owed ==
    Count(msgQueue, {"collect_config_req", "collect_config_resp",
                     "collect_OBJ_normal", "collect_OBJ_resp"})
    + Count(hubQueue, {"config_view", "io_normal"})
    + Count(hubPending, {"config_view", "io_normal"})
    + Count(genQueue, {"resolve_config", "resolve_OBJ_io"})
    + Cardinality(GenHolders({"resolve_config", "resolve_OBJ_io"}))

(* A generator that is learning is owed exactly one answer: with none it   *)
(* would learn forever (Generator::ShouldEventPend holds every other event *)
(* back), with two it would resolve one that it no longer waits for.       *)
LearningIsOwedOneAnswer ==
    astState = "enabled" /\ genStatus = "learning" => Owed = 1

(* Nobody but a learning generator is owed an answer while AST is enabled: *)
(* any other answer would meet the assertion at the head of the resolving  *)
(* phases of RelocationLearning::DoCycleWork.                              *)
OwedOnlyWhileLearning ==
    astState = "enabled" /\ Owed > 0 => genStatus = "learning"

(* Generator and HUB have one conversation at a time, as long as nothing    *)
(* fails: a learning generator is owed one answer, any other none.          *)
OneConversation == LearningIsOwedOneAnswer /\ OwedOnlyWhileLearning

(* Events the generator put aside wait only while it learns, advises or    *)
(* is stopped: otherwise nothing would move them back to its queue         *)
(* (Generator::HandlePendingEvent is called by the end of a phase only).   *)
PendingOnlyWhileBusy ==
    genPending # <<>> /\ ~GenBusy =>
        genStatus \in {"learning", "advising", "stopping", "stopped"}

-----------------------------------------------------------------------------
(* The HUB's configuration.                                                *)

(* From the count of the OBJs to the end of their collection the HUB's     *)
(* configuration is the one that was counted, and somebody holds its lock. *)
FrozenWhileCollecting ==
    hubStatus = "collecting_IO" =>
        toCollect = objs /\ collected <= toCollect /\ configLock > 0

(* The HUB never gives back a lock that it does not hold.                  *)
UnlocksOnlyWhatIsLocked == configLock >= 0

(* The lock of the configuration is held from the first to the last step   *)
(* of a collection, and given back once (HUB::Handle, ET_hub_collect_io).   *)
LockedWhileCollecting == FrozenWhileCollecting /\ UnlocksOnlyWhatIsLocked

\* The HUB thread waits for readers of the configuration, the only one of
\* which is the HUB thread.
HubWaitsForItself ==
    HubHandles({"change"}) /\ ~HubShouldPend("change") /\ configLock > 0

(* Until AST is disabled (in the middle of a collection, which then never   *)
(* gives its lock back) the HUB thread never waits for a lock it took itself *)
(* when the collection began.                                              *)
HubServesWhileEnabled == session = 1 /\ hubAst = "enabled" => ~HubWaitsForItself

-----------------------------------------------------------------------------
(* Stalling the executor for an advice.                                    *)

\* The generator will tell the executor to plan, or it has done so.
PlanIsComing ==
    \/ Count(exeQueue, {"planning"}) + Cardinality(ExeHolders({"planning"})) > 0
    \/ Count(genQueue, {"advise"}) + Cardinality(GenHolders({"advise"})) > 0
    \/ \E t \in Threads : genPc[t] = "drain" /\ genEv[t].type = "advise"

(* An executor that stands still, or has put echoes aside, will be told to *)
(* plan again while AST stays enabled: the advice that ends its stall is   *)
(* always under way, whatever the timer launches meanwhile.                *)
StallIsTemporary ==
    astState = "enabled" /\ (exeStatus = "stall" \/ exeDelayed # <<>>)
        => PlanIsComing

(* No event is put aside for good: what generator and executor hold back    *)
(* waits for something that is still to come.                               *)
NothingIsStranded == PendingOnlyWhileBusy /\ StallIsTemporary

\* The events the executor still has to handle, in the order it will: the one it
\* is handling, those put aside, the one it took, those in its queue.
ExeHeldAt(pc) ==
    LET ts == {t \in Threads : exePc[t] = pc}
    IN  IF ts = {} THEN <<>> ELSE <<exeEv[CHOOSE t \in ts : TRUE]>>
ToHandle == ExeHeldAt("act") \o exeDelayed \o ExeHeldAt("check") \o exeQueue

(* The executor handles the echoes of migrations in the order in which     *)
(* they arrive, also when a stall delays some of them, until Executor::Stop *)
(* (a stopping executor never returns to what it delayed).                 *)
EchoesInOrder ==
    exeStatus # "stopping" =>
        \A i, j \in DOMAIN ToHandle :
            i < j /\ IsEcho(ToHandle[i]) /\ IsEcho(ToHandle[j])
                => ToHandle[i].no < ToHandle[j].no

-----------------------------------------------------------------------------
(* Progress, under Fairness.                                               *)

(* Disabling AST ends: generator and executor stop, whatever they were     *)
(* doing (Generator::Stop and Executor::Stop wait for them on the thread    *)
(* that delivers their messages).                                          *)
DisableEnds == astState = "disabling" ~> (~Alive \/ astState = "disabled")

\* The HUB takes the same disable event for ever (HubDisable).
HubSpins == HubHandles({"disable_ast"}) /\ hubAst = "enabling"

(* Every collection of configuration and IO ends, unless the HUB spins on a *)
(* disable event that came before the echo of enabling.                    *)
LearningEnds ==
    genStatus = "learning" ~> (~Alive \/ HubSpins \/ genStatus # "learning")

(* Every stall of the executor ends, and what it put aside is handled;     *)
(* again unless the HUB spins.                                             *)
StallEnds ==
    (exeStatus = "stall" \/ \E i \in 1 .. Len(exeDelayed) : IsEcho(exeDelayed[i]))
        ~> (~Alive \/ HubSpins \/ astState # "enabled"
                \/ (exeStatus # "stall" /\ exeDelayed = <<>>))

(* Every round ends: the generator stops learning, and the executor, which   *)
(* stands still meanwhile, goes on.                                          *)
RoundsEnd == LearningEnds /\ StallEnds

=============================================================================
