------------------------------- MODULE ASTState -------------------------------
(***************************************************************************)
(* The state shared by the four threads of Auto Storage Tiering (AST):     *)
(*                                                                         *)
(*   - the message thread (MessageManager::Handle), the only one that      *)
(*     enables and disables AST (ControlThread.tla);                       *)
(*   - the generator thread, which learns and advises (Generator.tla);     *)
(*   - the executor thread, which plans and migrates (Executor.tla);       *)
(*   - the HUB thread, which serves the storage service and answers the    *)
(*     generator's requests (HubService.tla).                              *)
(*                                                                         *)
(* Every thread owns a FIFO queue of events or messages.  Records carry a  *)
(* ghost field sn, the session (one successful EnableAST) that the         *)
(* conversation started in, 0 for none; no action reads it.                *)
(***************************************************************************)
EXTENDS Integers, Sequences, FiniteSets

CONSTANTS
    MaxEnables,      \* bound: requests to enable AST
    MaxDisables,     \* bound: requests to disable AST
    MaxTicks,        \* bound: cycles the timer launches
    MaxChanges,      \* bound: changes of the storage configuration
    MaxMigrations,   \* bound: migrations the executor submits
    ConfigAnswers,   \* may the HUB find an involved SubPool and disk?
    ObjBatches,      \* how many batches of OBJs the HUB may hold
    ResolveResults,  \* may ResolveOBJIO succeed or fail (out of memory)?
    StartResults,    \* may the steps of EnableAST succeed or fail?
    AdviceChoices    \* may a cycle be a learning or a decision cycle?

ASSUME BoundsAssumption ==
    /\ MaxEnables \in Nat /\ MaxDisables \in Nat /\ MaxTicks \in Nat
    /\ MaxChanges \in Nat /\ MaxMigrations \in Nat

ASSUME ChoicesAssumption ==
    /\ ConfigAnswers \subseteq BOOLEAN
    /\ ObjBatches \subseteq Nat /\ ObjBatches # {}
    /\ ResolveResults \subseteq BOOLEAN
    /\ StartResults \subseteq BOOLEAN
    /\ AdviceChoices \subseteq BOOLEAN

VARIABLES
    \* message thread and AST
    astState,    \* AST::mState
    msgQueue,    \* MessageManager::mMsgQueue
    msgPc,       \* where DisableAST is, "idle" outside of it
    session,     \* ghost: number of successful enables, names the threads
    motor,       \* the timer of TimeManager runs
    \* generator
    genStatus, genQueue, genPending,  \* mStatus and its two queues
    genPc, genEv,                     \* step and event of every thread made
    adviceAfter,                      \* RelocationLearning::mAdviceAfterLearning
    \* executor
    exeStatus, exeQueue, exeDelayed, exePc, exeEv,
    inflight,    \* migrations submitted and not echoed
    echoes,      \* ghost: echoes that arrived, numbers them
    \* HUB
    hubQueue, hubPending,
    hubAst,      \* HUB::mASTStatus
    hubStatus,   \* HUB::mHUBStatus
    configLock,  \* readers that hold HUB::mConfigLock
    objs,        \* OBJs in mConfigView, in batches
    toCollect, collected,  \* mToBeCollectedOBJsNum, mAlreadyCollectedOBJsNum
    \* the whole program
    asserted,    \* YWB_ASSERTs that failed; one ends the process
    used         \* ghost: how much of every bound is used

msgVars   == <<astState, msgQueue, msgPc, session, motor>>
genVars   == <<genStatus, genQueue, genPending, genPc, genEv, adviceAfter>>
exeVars   == <<exeStatus, exeQueue, exeDelayed, exePc, exeEv, inflight, echoes>>
hubVars   == <<hubQueue, hubPending, hubAst, hubStatus, configLock, objs,
               toCollect, collected>>
vars      == <<msgVars, genVars, exeVars, hubVars, asserted, used>>

-----------------------------------------------------------------------------
(* Threads, events and messages.                                           *)

Threads  == 1 .. MaxEnables
Sessions == 0 .. MaxEnables

GenStatuses == {"stopped", "running", "stopping", "learning", "learning_done",
                "advising", "advising_done", "noop"}
ExeStatuses == {"stopped", "running", "stopping", "stall", "noop"}
AstStates   == {"none", "enabling", "enabled", "disabling", "disabled"}
HubAstStates == {"disabled", "enabling", "enabled", "disabling"}
HubStatuses  == {"running", "serving_for_ast", "collecting_IO"}

\* Fields that an operation does not use are FALSE.
Record(type, ok, flag, sn) == [type |-> type, ok |-> ok, flag |-> flag, sn |-> sn]
RecordOf(types) == [type : types, ok : BOOLEAN, flag : BOOLEAN, sn : Sessions]

Messages == RecordOf(
    {"enable_ast", "disable_ast", "ast_enabled", "ast_disabled",
     "collect_config_req", "collect_config_resp", "collect_OBJ_prepare",
     "collect_OBJ_normal", "collect_OBJ_post", "collect_OBJ_resp",
     "report_delete"})
GenEvents == RecordOf(
    {"collect_config", "resolve_config", "resolve_OBJ_io", "resolve_deleted",
     "advise", "stop"})
HubEvents == RecordOf(
    {"enable_ast", "disable_ast", "enable_ast_echo", "disable_ast_echo",
     "config_view", "io_prepare", "io_normal", "io_post", "change"})
\* no: ghost, the order in which the migrator's echoes arrived
ExeEvents == [type : {"planning", "stall", "stop", "completed", "expired"},
              no : 0 .. MaxMigrations, ok : BOOLEAN]

ExeEvent(type) == [type |-> type, no |-> 0, ok |-> FALSE]
NoGenEvent == Record("stop", FALSE, FALSE, 0)
NoExeEvent == ExeEvent("stop")

\* Events that resolve an answer of the HUB.
IsAnswer(e) == e.type \in {"resolve_config", "resolve_OBJ_io"}
\* Events of the migrator that the executor delays while it stalls.
IsEcho(e) == e.type \in {"completed", "expired"}

Bounds == {"enables", "disables", "ticks", "changes", "migrations"}
BoundOf(b) == CASE b = "enables"    -> MaxEnables
                [] b = "disables"   -> MaxDisables
                [] b = "ticks"      -> MaxTicks
                [] b = "changes"    -> MaxChanges
                [] b = "migrations" -> MaxMigrations
CanUse(b) == used[b] < BoundOf(b)
Use(b)    == used' = [used EXCEPT ![b] = @ + 1]

-----------------------------------------------------------------------------
(* The mutexes of Generator and Executor are held for a whole join() by    *)
(* the message thread; everywhere else they protect one step.              *)

GenMutexFree == msgPc # "gen_join"
ExeMutexFree == msgPc # "exe_join"

\* Generator::Send and MessageManager::Enqueue
Sent(type) == Record(type, FALSE, FALSE, session)

\* Executor::LaunchStallEvent puts the event at the front, LaunchPlanEvent
\* at the tail.
WithStall(q) == <<ExeEvent("stall")>> \o q
WithPlan(q)  == Append(q, ExeEvent("planning"))
=============================================================================
