----------------------------- MODULE ControlThread -----------------------------
(***************************************************************************)
(* The message thread (MessageManager::Handle, MessageExpress.cpp) with    *)
(* the two proxies it hands messages to (MessageImpl.cpp).  AST is enabled *)
(* and disabled on this thread (AST.cpp), so nothing else is delivered     *)
(* while it waits for the generator or the executor to stop.  The timer    *)
(* (TimeManager::LaunchNewCycle, ASTTime.cpp) is here too.                 *)
(***************************************************************************)
EXTENDS ASTState

\* The message thread is free and the next message has one of the types.
MsgHandles(types) ==
    msgPc = "idle" /\ msgQueue # <<>> /\ Head(msgQueue).type \in types
Msg == Head(msgQueue)

\* OSSProxy::Handle: what the HUB is told.
ToHub == [ast_enabled         |-> "enable_ast_echo",
          ast_disabled        |-> "disable_ast_echo",
          collect_config_req  |-> "config_view",
          collect_OBJ_prepare |-> "io_prepare",
          collect_OBJ_normal  |-> "io_normal",
          collect_OBJ_post    |-> "io_post"]

\* ASTProxy::Handle: what the generator is told.
ToGen == [collect_config_resp |-> "resolve_config",
          collect_OBJ_resp    |-> "resolve_OBJ_io",
          report_delete       |-> "resolve_deleted"]

ForwardToHub ==
    /\ MsgHandles(DOMAIN ToHub)
    /\ msgQueue' = Tail(msgQueue)
    /\ hubQueue' = Append(hubQueue, [Msg EXCEPT !.type = ToHub[Msg.type]])
    /\ UNCHANGED <<astState, msgPc, session, motor, genVars, exeVars, hubPending,
                   hubAst, hubStatus, configLock, objs, toCollect, collected,
                   asserted, used>>

ForwardToGen ==
    /\ MsgHandles(DOMAIN ToGen)
    /\ msgQueue' = Tail(msgQueue)
    /\ genQueue' = Append(genQueue, [Msg EXCEPT !.type = ToGen[Msg.type]])
    /\ UNCHANGED <<astState, msgPc, session, motor, genStatus, genPending, genPc,
                   genEv, adviceAfter, exeVars, hubVars, asserted, used>>

-----------------------------------------------------------------------------
(* AST::HandleEnableAST                                                    *)

\* Seeded fault: a reset forgets to empty the queues.
FaultyEmptied(q) == q

\* What a reset leaves of an event queue: nothing.
Emptied(q) == <<>>

\* AST::Reset forgets what both threads had to do; before AST is enabled for
\* the first time this is nothing.
ResetThreads(status, genEvents) ==
    /\ genStatus' = status /\ exeStatus' = status
    /\ genQueue' = Emptied(genQueue) \o genEvents
    /\ genPending' = Emptied(genPending)
    /\ exeQueue' = Emptied(exeQueue) /\ exeDelayed' = Emptied(exeDelayed)
    /\ inflight' = 0

\* AST::EnableAST refuses, or fails to read its configuration file, its disk
\* profile or to start the timer, and stays ST_enabling.
EnableFails ==
    /\ MsgHandles({"enable_ast"})
    /\ msgQueue' = Append(Tail(msgQueue), Record("ast_enabled", FALSE, FALSE, session))
    /\ \/ /\ astState \in {"enabling", "enabled", "disabling"}
          /\ UNCHANGED <<astState, genVars, exeVars>>
       \/ /\ astState \in {"none", "disabled"} /\ FALSE \in StartResults
          /\ astState' = "enabling"
          /\ ResetThreads("stopped", <<>>)
          /\ UNCHANGED <<genPc, genEv, adviceAfter, exePc, exeEv, echoes>>
    /\ UNCHANGED <<msgPc, session, motor, hubVars, asserted, used>>

\* AST::EnableAST starts the timer, both threads and the migrator, after
\* AST::Reset if AST has been disabled before.  The first cycle only learns.
EnableSucceeds ==
    /\ MsgHandles({"enable_ast"})
    /\ astState \in {"none", "disabled"} /\ TRUE \in StartResults
    /\ session < MaxEnables
    /\ astState' = "enabled"
    /\ session' = session + 1
    /\ motor' = TRUE
    /\ msgQueue' = Append(Tail(msgQueue), Record("ast_enabled", TRUE, FALSE, session + 1))
    /\ ResetThreads("running", <<Record("collect_config", FALSE, FALSE, session + 1)>>)
    /\ genPc' = [genPc EXCEPT ![session + 1] = "idle"]
    /\ exePc' = [exePc EXCEPT ![session + 1] = "idle"]
    /\ UNCHANGED <<msgPc, genEv, adviceAfter, exeEv, echoes, hubVars, asserted, used>>

-----------------------------------------------------------------------------
(* AST::HandleDisableAST                                                   *)

\* AST::DisableAST stops the timer, then the generator, the executor and the
\* migrator, in this order; it refuses if it has done so already.
DisableBegin ==
    /\ MsgHandles({"disable_ast"})
    /\ IF astState \in {"disabling", "disabled"}
       THEN /\ msgQueue' = Append(Tail(msgQueue),
                                  Record("ast_disabled", FALSE, FALSE, session))
            /\ UNCHANGED <<astState, motor, msgPc>>
       ELSE /\ astState' = "disabling"
            /\ motor' = FALSE
            /\ msgQueue' = Tail(msgQueue)
            /\ msgPc' = "gen_stop"
    /\ UNCHANGED <<session, genVars, exeVars, hubVars, asserted, used>>

\* The stop event overtakes everything in both queues.
StopGenEvent == Record("stop", FALSE, FALSE, session)

\* Generator::Stop up to its wait; in any other status there is nothing to stop.
GenStopBegin ==
    /\ msgPc = "gen_stop"
    /\ \/ /\ genStatus \in {"running", "learning", "learning_done", "advising",
                            "advising_done"}
          /\ genStatus' = "stopping"
          /\ genQueue' = <<StopGenEvent>> \o genQueue
          /\ genPending' = <<StopGenEvent>> \o genPending
          /\ msgPc' = "gen_wait"
       \/ /\ genStatus \in {"stopped", "noop", "stopping"}
          /\ msgPc' = "exe_stop"
          /\ UNCHANGED <<genStatus, genQueue, genPending>>
    /\ UNCHANGED <<astState, msgQueue, session, motor, genPc, genEv, adviceAfter,
                   exeVars, hubVars, asserted, used>>

\* Generator::Stop after its wait: join() the thread that was made last.
GenStopEnd ==
    /\ msgPc = "gen_join" /\ genPc[session] = "exited"
    /\ genStatus' = "stopped"
    /\ msgPc' = "exe_stop"
    /\ UNCHANGED <<astState, msgQueue, session, motor, genQueue, genPending, genPc,
                   genEv, adviceAfter, exeVars, hubVars, asserted, used>>

\* Executor::Stop up to its wait.
ExeStopBegin ==
    /\ msgPc = "exe_stop"
    /\ \/ /\ exeStatus \in {"running", "stall"}
          /\ exeStatus' = "stopping"
          /\ exeQueue' = <<ExeEvent("stop")>> \o exeQueue
          /\ exeDelayed' = <<ExeEvent("stop")>> \o exeDelayed
          /\ msgPc' = "exe_wait"
       \/ /\ exeStatus \in {"stopped", "noop", "stopping"}
          /\ msgPc' = "finish"
          /\ UNCHANGED <<exeStatus, exeQueue, exeDelayed>>
    /\ UNCHANGED <<astState, msgQueue, session, motor, genVars, exePc, exeEv,
                   inflight, echoes, hubVars, asserted, used>>

ExeStopEnd ==
    /\ msgPc = "exe_join" /\ exePc[session] = "exited"
    /\ exeStatus' = "stopped"
    /\ msgPc' = "finish"
    /\ UNCHANGED <<astState, msgQueue, session, motor, genVars, exeQueue,
                   exeDelayed, exePc, exeEv, inflight, echoes, hubVars, asserted,
                   used>>

\* The migrator is stopped and forgets its migrations; the HUB is told.
DisableEnd ==
    /\ msgPc = "finish"
    /\ msgPc' = "idle"
    /\ astState' = "disabled"
    /\ inflight' = 0
    /\ msgQueue' = Append(msgQueue, Record("ast_disabled", TRUE, FALSE, session))
    /\ UNCHANGED <<session, motor, genVars, exeStatus, exeQueue, exeDelayed, exePc,
                   exeEv, echoes, hubVars, asserted, used>>

-----------------------------------------------------------------------------
\* TimeManager::LaunchNewCycle: a decision cycle ends with an advice.
Tick ==
    /\ motor /\ CanUse("ticks")
    /\ Use("ticks")
    /\ \E advice \in AdviceChoices :
          genQueue' = Append(genQueue, Record("collect_config", FALSE, advice, session))
    /\ UNCHANGED <<msgVars, genStatus, genPending, genPc, genEv, adviceAfter,
                   exeVars, hubVars, asserted>>

MsgStep ==
    \/ ForwardToHub \/ ForwardToGen \/ EnableFails \/ EnableSucceeds
    \/ DisableBegin \/ GenStopBegin \/ GenStopEnd \/ ExeStopBegin
    \/ ExeStopEnd \/ DisableEnd

MsgTypeOK ==
    /\ astState \in AstStates
    /\ msgQueue \in Seq(Messages)
    /\ msgPc \in {"idle", "gen_stop", "gen_wait", "gen_join", "exe_stop",
                  "exe_wait", "exe_join", "finish"}
    /\ session \in Sessions
    /\ motor \in BOOLEAN
=============================================================================
