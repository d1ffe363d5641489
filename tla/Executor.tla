------------------------------- MODULE Executor -------------------------------
(***************************************************************************)
(* The executor thread: Executor::Handle (AST.cpp).  What the planner, the *)
(* arbitrator and the migrator decide is abstracted to the number of       *)
(* migrations that are submitted; the echo of a migration (completed or    *)
(* expired) comes from the migrator's thread.                              *)
(***************************************************************************)
EXTENDS ASTState

exeFrame == <<astState, msgQueue, session, motor, genStatus, genPending,
              genPc, genEv, adviceAfter, hubVars, asserted>>

ExeGoes(t, pc) == exePc' = [exePc EXCEPT ![t] = pc]
ExeActs(t, types) == exePc[t] = "act" /\ exeEv[t].type \in types /\ ExeMutexFree

\* ShouldEventDelayed
ExeShouldDelay(e) == exeStatus = "stall" /\ IsEcho(e)

ExeDequeue(t) ==
    /\ exePc[t] = "idle" /\ exeQueue # <<>>
    /\ exeEv' = [exeEv EXCEPT ![t] = Head(exeQueue)]
    /\ exeQueue' = Tail(exeQueue)
    /\ ExeGoes(t, "check")
    /\ UNCHANGED <<exeFrame, msgPc, genQueue, exeStatus, exeDelayed, inflight,
                   echoes, used>>

ExeCheck(t) ==
    /\ exePc[t] = "check" /\ ExeMutexFree
    /\ \/ /\ ExeShouldDelay(exeEv[t])
          /\ exeDelayed' = Append(exeDelayed, exeEv[t])
          /\ ExeGoes(t, "idle")
       \/ /\ ~ExeShouldDelay(exeEv[t])
          /\ ExeGoes(t, "act")
          /\ UNCHANGED exeDelayed
    /\ UNCHANGED <<exeFrame, msgPc, genQueue, exeStatus, exeQueue, exeEv,
                   inflight, echoes, used>>

\* Plan, arbitrate and submit: the migrator gets any number of migrations.
SubmitMigration ==
    \E n \in 0 .. MaxMigrations - used["migrations"] :
        /\ used' = [used EXCEPT !["migrations"] = @ + n]
        /\ inflight' = inflight + n

\* Seeded fault: the delayed echoes go to the tail of the queue.
FaultyPlanDelayedLast(t) ==
    /\ ExeActs(t, {"planning"})
    /\ exeStatus' = "running"
    /\ exeQueue' = exeQueue \o exeDelayed
    /\ exeDelayed' = <<>>
    /\ SubmitMigration
    /\ ExeGoes(t, "idle")
    /\ UNCHANGED <<exeFrame, msgPc, genQueue, exeEv, echoes>>

\* ET_exe_planning: a new decision window; the echoes of the stall come first.
ExePlan(t) ==
    /\ ExeActs(t, {"planning"})
    /\ exeStatus' = "running"
    /\ exeQueue' = exeDelayed \o exeQueue
    /\ exeDelayed' = <<>>
    /\ SubmitMigration
    /\ ExeGoes(t, "idle")
    /\ UNCHANGED <<exeFrame, msgPc, genQueue, exeEv, echoes>>

\* ET_exe_migration_completed and ET_exe_migration_expired: a stopping or noop
\* executor, and one whose disk is full or SubPool is gone, submits no more.
ExeEcho(t) ==
    /\ ExeActs(t, {"completed", "expired"})
    /\ IF exeStatus \in {"stopping", "noop"} \/ ~exeEv[t].ok
       THEN UNCHANGED <<inflight, used>>
       ELSE SubmitMigration
    /\ ExeGoes(t, "idle")
    /\ UNCHANGED <<exeFrame, msgPc, genQueue, exeStatus, exeQueue, exeDelayed,
                   exeEv, echoes>>

\* ET_exe_stall: stand still and let the generator advise.
ExeStall(t) ==
    /\ ExeActs(t, {"stall"})
    /\ exeStatus' = "stall"
    /\ genQueue' = Append(genQueue, Sent("advise"))
    /\ ExeGoes(t, "idle")
    /\ UNCHANGED <<exeFrame, msgPc, exeQueue, exeDelayed, exeEv, inflight,
                   echoes, used>>

ExeStop(t) ==
    /\ ExeActs(t, {"stop"})
    /\ msgPc' = IF msgPc = "exe_wait" THEN "exe_join" ELSE msgPc
    /\ ExeGoes(t, "exited")
    /\ UNCHANGED <<exeFrame, genQueue, exeStatus, exeQueue, exeDelayed, exeEv,
                   inflight, echoes, used>>

\* Seeded fault: a migration stays in flight after its echo.
FaultyEchoTwice ==
    /\ inflight > 0
    /\ echoes' = echoes + 1
    /\ exeQueue' = Append(exeQueue,
                      [type |-> "completed", no |-> echoes + 1, ok |-> TRUE])
    /\ UNCHANGED <<exeFrame, msgPc, genQueue, exeStatus, exeDelayed, exePc, exeEv,
                   inflight, used>>

\* The migrator's thread: Executor::LaunchMigrationCompletedEvent and
\* LaunchMigrationExpiredEvent.
MigratorEcho ==
    /\ inflight > 0
    /\ inflight' = inflight - 1
    /\ echoes' = echoes + 1
    /\ \E type \in {"completed", "expired"}, ok \in BOOLEAN :
          /\ type = "expired" => ok
          /\ exeQueue' = Append(exeQueue,
                            [type |-> type, no |-> echoes + 1, ok |-> ok])
    /\ UNCHANGED <<exeFrame, msgPc, genQueue, exeStatus, exeDelayed, exePc,
                   exeEv, used>>

ExeStep(t) ==
    \/ ExeDequeue(t) \/ ExeCheck(t) \/ ExePlan(t) \/ ExeEcho(t)
    \/ ExeStall(t) \/ ExeStop(t)

ExeTypeOK ==
    /\ exeStatus \in ExeStatuses
    /\ exeQueue \in Seq(ExeEvents)
    /\ exeDelayed \in Seq(ExeEvents)
    /\ exePc \in [Threads -> {"none", "idle", "check", "act", "exited"}]
    /\ exeEv \in [Threads -> ExeEvents]
    /\ inflight \in Nat
    /\ echoes \in Nat
=============================================================================
