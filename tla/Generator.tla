------------------------------ MODULE Generator ------------------------------
(***************************************************************************)
(* The generator thread: Generator::Handle (AST.cpp) and the work it hands *)
(* to RelocationLearning::DoCycleWork (ASTRelocation.cpp).                 *)
(*                                                                         *)
(* A thread dequeues an event ("idle"), reads the status to decide whether *)
(* the event pends ("check"), reads it again in the assertion of the two   *)
(* resolving phases ("assert"), does the work and sets the new status      *)
(* ("act"), and moves the pending events back ("drain").  Generator::Stop  *)
(* of the message thread may change the status between any two of them.    *)
(***************************************************************************)
EXTENDS ASTState

genFrame == <<astState, msgPc, session, motor, hubVars, used>>

GenGoes(t, pc) == genPc' = [genPc EXCEPT ![t] = pc]
GenActs(t, type) == genPc[t] = "act" /\ genEv[t].type = type /\ GenMutexFree

\* ... or a stop is held back like any other event.
FaultyPendStop(type) ==
    \/ genStatus = "learning" /\ type \notin {"resolve_config", "resolve_OBJ_io"}
    \/ genStatus = "advising" /\ type # "advise"

\* Any event but those of the phase in progress waits; a stop never does.
GenShouldPend(type) ==
    \/ genStatus = "learning"
       /\ type \notin {"resolve_config", "resolve_OBJ_io", "stop"}
    \/ genStatus = "advising"
       /\ type \notin {"advise", "stop"}

\* Dequeue of the loop in Handle.
GenDequeue(t) ==
    /\ genPc[t] = "idle" /\ genQueue # <<>>
    /\ genEv' = [genEv EXCEPT ![t] = Head(genQueue)]
    /\ genQueue' = Tail(genQueue)
    /\ GenGoes(t, "check")
    /\ UNCHANGED <<genFrame, msgQueue, genStatus, genPending, adviceAfter,
                   exeVars, asserted>>

\* ShouldEventPend and EnqueuePending.
GenCheck(t) ==
    /\ genPc[t] = "check" /\ GenMutexFree
    /\ \/ /\ GenShouldPend(genEv[t].type)
          /\ genPending' = Append(genPending, genEv[t])
          /\ GenGoes(t, "idle")
       \/ /\ ~GenShouldPend(genEv[t].type)
          /\ GenGoes(t, IF IsAnswer(genEv[t]) THEN "assert" ELSE "act")
          /\ UNCHANGED genPending
    /\ UNCHANGED <<genFrame, msgQueue, genStatus, genQueue, genEv, adviceAfter,
                   exeVars, asserted>>

\* YWB_ASSERT(Generator::S_learning == gen->GetStatus()) of both phases.
GenAssert(t) ==
    /\ genPc[t] = "assert" /\ GenMutexFree
    /\ asserted' = IF genStatus = "learning" THEN asserted
                   ELSE asserted \cup {genEv[t].type}
    /\ GenGoes(t, "act")
    /\ UNCHANGED <<genFrame, msgQueue, genStatus, genQueue, genPending, genEv,
                   adviceAfter, exeVars>>

\* P_collect_logical_config: a new cycle starts with a request to the HUB.
GenCollectConfig(t) ==
    /\ GenActs(t, "collect_config")
    /\ genStatus' = "learning"
    /\ adviceAfter' = genEv[t].flag
    /\ msgQueue' = Append(msgQueue, Sent("collect_config_req"))
    /\ GenGoes(t, "idle")
    /\ UNCHANGED <<genFrame, genQueue, genPending, genEv, exeVars, asserted>>

\* The learning failed: generator and executor become noop.
BothNoop ==
    /\ ExeMutexFree
    /\ genStatus' = "noop"
    /\ exeStatus' = "noop"

\* P_resolve_logical_config
GenResolveConfig(t) ==
    /\ GenActs(t, "resolve_config")
    /\ \/ /\ genEv[t].ok
          /\ msgQueue' = msgQueue \o <<Sent("collect_OBJ_prepare"),
                                       Sent("collect_OBJ_normal")>>
          /\ GenGoes(t, "idle")
          /\ UNCHANGED <<genStatus, exeStatus>>
       \/ /\ ~genEv[t].ok
          /\ BothNoop
          /\ GenGoes(t, "drain")
          /\ UNCHANGED msgQueue
    /\ UNCHANGED <<genFrame, genQueue, genPending, genEv, adviceAfter, exeQueue,
                   exeDelayed, exePc, exeEv, inflight, echoes, asserted>>

\* Seeded fault: another batch is asked for after the last one.
FaultyNextBatch(t) == <<Sent("collect_OBJ_normal")>>

\* F_next_batch or F_end of the answer.
NextBatch(t) == IF genEv[t].flag THEN <<>> ELSE <<Sent("collect_OBJ_normal")>>

\* The last batch is resolved: stall the executor, then advise.
GenFinishLearning(t) ==
    /\ msgQueue' = msgQueue \o NextBatch(t) \o <<Sent("collect_OBJ_post")>>
    /\ IF adviceAfter
       THEN /\ genStatus' = "advising"
            /\ exeQueue' = WithStall(exeQueue)
            /\ GenGoes(t, "idle")
       ELSE /\ genStatus' = "learning_done"
            /\ GenGoes(t, "drain")
            /\ UNCHANGED exeQueue
    /\ UNCHANGED exeStatus

\* P_resolve_OBJ_io; the next batch is asked for before this one is resolved.
GenResolveIO(t) ==
    /\ GenActs(t, "resolve_OBJ_io")
    /\ LET post == <<Sent("collect_OBJ_post")>>
       IN  \/ /\ ~genEv[t].ok \/ genStatus = "noop"
              /\ msgQueue' = IF genStatus = "noop" THEN msgQueue ELSE msgQueue \o post
              /\ GenGoes(t, "idle")
              /\ UNCHANGED <<genStatus, exeStatus, exeQueue>>
           \/ /\ genEv[t].ok /\ genStatus # "noop" /\ TRUE \in ResolveResults
              /\ \/ genEv[t].flag /\ GenFinishLearning(t)
                 \/ /\ ~genEv[t].flag
                    /\ msgQueue' = msgQueue \o NextBatch(t)
                    /\ GenGoes(t, "idle")
                    /\ UNCHANGED <<genStatus, exeStatus, exeQueue>>
           \/ /\ genEv[t].ok /\ genStatus # "noop" /\ FALSE \in ResolveResults
              /\ msgQueue' = msgQueue \o NextBatch(t) \o post
              /\ BothNoop
              /\ GenGoes(t, "drain")
              /\ UNCHANGED exeQueue
    /\ UNCHANGED <<genFrame, genQueue, genPending, genEv, adviceAfter,
                   exeDelayed, exePc, exeEv, inflight, echoes, asserted>>

\* P_resolve_deleted_*: the logical configuration alone changes.
GenResolveDeleted(t) ==
    /\ GenActs(t, "resolve_deleted")
    /\ GenGoes(t, "idle")
    /\ UNCHANGED <<genFrame, msgQueue, genStatus, genQueue, genPending, genEv,
                   adviceAfter, exeVars, asserted>>

\* ET_gen_advise: consolidate, advise, and be done with it.
GenAdvise(t) ==
    /\ GenActs(t, "advise")
    /\ genStatus' = "advising_done"
    /\ GenGoes(t, "drain")
    /\ UNCHANGED <<genFrame, msgQueue, genQueue, genPending, genEv, adviceAfter,
                   exeVars, asserted>>

\* Seeded fault: the executor is not told to plan.
FaultyDrainNoPlan(t) ==
    /\ genPc[t] = "drain"
    /\ genQueue' = genPending \o genQueue
    /\ genPending' = <<>>
    /\ GenGoes(t, "idle")
    /\ UNCHANGED <<genFrame, msgQueue, genStatus, genEv, adviceAfter, exeVars,
                   asserted>>

\* HandlePendingEvent: the pending events go, in their order, to the front of
\* the queue; after an advice the executor is told to plan.
GenDrain(t) ==
    /\ genPc[t] = "drain"
    /\ genQueue' = genPending \o genQueue
    /\ genPending' = <<>>
    /\ exeQueue' = IF genEv[t].type = "advise" THEN WithPlan(exeQueue) ELSE exeQueue
    /\ GenGoes(t, "idle")
    /\ UNCHANGED <<genFrame, msgQueue, genStatus, genEv, adviceAfter, exeStatus,
                   exeDelayed, exePc, exeEv, inflight, echoes, asserted>>

\* ET_gen_stop: signal whoever waits in Stop, then leave the thread.
GenStop(t) ==
    /\ GenActs(t, "stop")
    /\ msgPc' = IF msgPc = "gen_wait" THEN "gen_join" ELSE msgPc
    /\ GenGoes(t, "exited")
    /\ UNCHANGED <<astState, session, motor, hubVars, used, msgQueue, genStatus,
                   genQueue, genPending, genEv, adviceAfter, exeVars, asserted>>

GenStep(t) ==
    \/ GenDequeue(t) \/ GenCheck(t) \/ GenAssert(t)
    \/ GenCollectConfig(t) \/ GenResolveConfig(t) \/ GenResolveIO(t)
    \/ GenResolveDeleted(t) \/ GenAdvise(t) \/ GenDrain(t) \/ GenStop(t)

GenTypeOK ==
    /\ genStatus \in GenStatuses
    /\ genQueue \in Seq(GenEvents)
    /\ genPending \in Seq(GenEvents)
    /\ genPc \in [Threads -> {"none", "idle", "check", "assert", "act", "drain",
                              "exited"}]
    /\ genEv \in [Threads -> GenEvents]
    /\ \A t \in Threads : genPc[t] = "assert" => IsAnswer(genEv[t])
    /\ adviceAfter \in BOOLEAN
=============================================================================
