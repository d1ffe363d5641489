------------------------------- MODULE ConfigView -------------------------------
(***************************************************************************)
(* The HUB thread as the keeper of the configuration: ConfigView changes,  *)
(* collections of it and of OBJ IO (ASTHUB.cpp).  Every event is handled   *)
(* in one step; changes wait while OBJ IO is collected (ShouldEventPend).  *)
(***************************************************************************)
EXTENDS ConfigState

Viewed  == {d \in Disks : hubDisks[d] # "none"}
Present == {d \in Disks : hubDisks[d] = "present"}

\* ShouldSubPoolBeInvolved: the SubPool has a view and is scheduled now.
Involved == {p \in scheduled : In(p, Viewed) # {}}
InvolvedDisks == {d \in Viewed : PoolOf[d] \in Involved}

\* The environment changes something.
Change == changes < MaxChanges /\ changes' = changes + 1
ChangeOfConfig == Change /\ ~frozen

-----------------------------------------------------------------------------
(* Changes.                                                                *)

KeptDisks == {DiskOf(k) : k \in Kept}
KeptPools == {PoolOf[d] : d \in KeptDisks}

\* AddDisk, which tells AST nothing.
AddDisk(d) ==
    /\ ChangeOfConfig
    /\ hubDisks[d] = "none"
    /\ hubDisks' = [hubDisks EXCEPT ![d] = "present"]
    /\ UNCHANGED <<hubOBJs, scheduled, frozen, toCollect, collected, toHub,
                   answers, reports, genVars>>

\* Seeded fault: only SubPools that AST is to learn are reported.
FaultyReportRemoval(d) ==
    reports' = IF PoolOf[d] \in scheduled THEN Append(reports, Report("disk", d))
               ELSE reports

\* What RemoveDisk tells AST: the SubPool is gone when no view is left but
\* delay-deleted ones.
ReportRemoval(d) ==
    reports' = Append(reports,
                      IF \A e \in In(PoolOf[d], Disks) : hubDisks'[e] # "present"
                      THEN Report("pool", PoolOf[d]) ELSE Report("disk", d))

\* RemoveDisk; the view of a disk that migrations use stays until they end.  The
\* lookup of the disk's tier, which HubViews has as it is coded (it always fails),
\* is taken as meant: AST's side could not be studied otherwise.
RemoveDisk(d, pinned) ==
    /\ ChangeOfConfig
    /\ d \in Present \ KeptDisks /\ (pinned => d \in Pinnable)
    /\ hubDisks' = [hubDisks EXCEPT ![d] = IF pinned THEN "delayed" ELSE "none"]
    /\ hubOBJs' = IF pinned THEN hubOBJs ELSE hubOBJs \ On({d}, hubOBJs)
    /\ ReportRemoval(d)
    /\ UNCHANGED <<scheduled, frozen, toCollect, collected, toHub, answers, genVars>>

\* CompleteMigrate: the OBJ is moved, which is not reported.
MoveOBJ(key, d) ==
    /\ ChangeOfConfig
    /\ key \in hubOBJs \ Kept /\ d \in Viewed /\ d # DiskOf(key)
    /\ PoolOf[d] = PoolOf[DiskOf(key)] /\ <<key[1], d>> \notin hubOBJs
    /\ hubOBJs' = (hubOBJs \ {key}) \cup {<<key[1], d>>}
    /\ UNCHANGED <<hubDisks, scheduled, frozen, toCollect, collected, toHub,
                   answers, reports, genVars>>

\* CompleteMigrate: the last migration of a delay-deleted disk takes its view
\* away, which is not reported.
LastUnpin(d) ==
    /\ ~frozen /\ hubDisks[d] = "delayed"
    /\ hubDisks' = [hubDisks EXCEPT ![d] = "none"]
    /\ hubOBJs' = hubOBJs \ On({d}, hubOBJs)
    /\ UNCHANGED <<scheduled, frozen, toCollect, collected, toHub, answers, reports,
                   genVars, changes>>

\* AddOBJ
AddOBJ(key) ==
    /\ ChangeOfConfig
    /\ key \notin hubOBJs /\ DiskOf(key) \in Viewed
    /\ hubOBJs' = hubOBJs \cup {key}
    /\ UNCHANGED <<hubDisks, scheduled, frozen, toCollect, collected, toHub, answers,
                   reports, genVars>>

\* DeleteOBJ, reported when the SubPool is involved.
DeleteOBJ(key) ==
    /\ ChangeOfConfig
    /\ key \in hubOBJs \ Kept
    /\ hubOBJs' = hubOBJs \ {key}
    /\ reports' = IF PoolOf[DiskOf(key)] \in Involved
                  THEN Append(reports, Report("OBJ", key)) ELSE reports
    /\ UNCHANGED <<hubDisks, scheduled, frozen, toCollect, collected, toHub, answers,
                   genVars>>

\* The time of the SubPool begins or ends; no event says so.
Reschedule(p) ==
    /\ Change
    /\ p \notin KeptPools
    /\ scheduled' = IF p \in scheduled THEN scheduled \ {p} ELSE scheduled \cup {p}
    /\ UNCHANGED <<hubDisks, hubOBJs, frozen, toCollect, collected, toHub, answers,
                   reports, genVars>>

-----------------------------------------------------------------------------
(* Requests of the generator.                                              *)

Requested(type) ==
    /\ toHub # <<>> /\ Head(toHub) = type
    /\ toHub' = Tail(toHub)

\* CollectConfigView: what is involved, delay-deleted views included.
CollectConfigView ==
    /\ Requested("config") /\ ~frozen
    /\ answers' = Append(answers,
                         ConfigAnswer(InvolvedDisks # {}, Involved, InvolvedDisks))
    /\ UNCHANGED <<hubVars, reports, genVars, changes>>

\* ET_hub_collect_io, F_prep: all OBJs are counted, involved or not.
PrepareIO ==
    /\ Requested("prepare")
    /\ frozen' = TRUE
    /\ toCollect' = Cardinality(hubOBJs)
    /\ collected' = 0
    /\ UNCHANGED <<viewVars, answers, reports, genVars, changes>>

\* CollectIO, one answer having room for every OBJ: the first request gets the
\* OBJs of the involved SubPools, a second one finds none that is left.
CollectIO ==
    LET objs == IF collected = 0 THEN On(InvolvedDisks, hubOBJs) ELSE {} IN
    /\ Requested("collect")
    /\ collected' = collected + Cardinality(objs)
    /\ answers' = Append(answers, IOAnswer(objs # {}, objs # {} /\ collected' < toCollect,
                                           objs))
    /\ UNCHANGED <<viewVars, frozen, toCollect, reports, genVars, changes>>

\* F_post: the changes put aside are handled from now on.
PostIO ==
    /\ Requested("post")
    /\ frozen' = FALSE
    /\ UNCHANGED <<viewVars, toCollect, collected, answers, reports, genVars, changes>>

Serve == CollectConfigView \/ PrepareIO \/ CollectIO \/ PostIO

ViewChanges ==
    \/ \E d \in Disks : AddDisk(d) \/ LastUnpin(d) \/ \E pinned \in BOOLEAN : RemoveDisk(d, pinned)
    \/ \E key \in OBJKeys : AddOBJ(key) \/ DeleteOBJ(key) \/ \E d \in Disks : MoveOBJ(key, d)
    \/ \E p \in Pools : Reschedule(p)
================================================================================
