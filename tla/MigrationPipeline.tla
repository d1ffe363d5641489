--------------------------- MODULE MigrationPipeline ---------------------------
(***************************************************************************)
(* Executor, migrator, HUB and storage service together: what happens to   *)
(* a migration from the plan to its echo.                                  *)
(***************************************************************************)
EXTENDS Relocator, DefaultMigrator, HubMigration

Alive == asserted = {}

\* AST has just learned the configuration for the first time.
Init ==
    /\ epoch = 0 /\ exePc = "idle" /\ exeQueue = <<>> /\ item = <<>>
    /\ arbIn = <<>> /\ arbOut = <<>>
    /\ disks = {} /\ free = {} /\ waiting = [d \in Disks |-> <<>>]
    /\ inflight = <<>> /\ container = <<>> /\ flying = <<>> /\ hubQueue = <<>>
    /\ \E place \in [OBJs -> Disks] : hubOBJs = {<<o, place[o]>> : o \in OBJs}
    /\ astDisks = Disks /\ astOBJs = hubOBJs
    /\ hubDisks = [d \in Disks |-> "present"] /\ tierDisks = Disks
    /\ pinned = [d \in Disks |-> 0] /\ moving = <<>> /\ asserted = {}
    /\ procedures = [k \in OBJKeys |-> 0]
    /\ spent = [b \in Bounds |-> 0]

Next == Alive /\ (ExecutorStep \/ GeneratorStep \/ MigratorStep \/ HubStep \/ ServiceStep)

Spec == Init /\ [][Next]_vars

\* Every thread goes on, the service answers what it does not lose, and the
\* timer of the migrator goes on ticking.  Nobody owes another window.
Fairness ==
    /\ WF_vars(Alive /\ (PlansDone \/ HandleEcho))
    /\ WF_vars(Alive /\ (DoMigration \/ CompleteMigration))
    /\ WF_vars(Alive /\ CheckExpired)
    /\ WF_vars(Alive /\ (Migrate \/ CompleteMigrate))
    /\ WF_vars(Alive /\ \E key \in OBJKeys : Notify(key))

FairSpec == Spec /\ Fairness

TypeOK ==
    /\ epoch \in 0 .. MaxEpochs /\ exePc \in {"idle", "planning"}
    /\ exeQueue \in Seq(Echoes)
    /\ item \in Seq(Arbitratees) /\ Len(item) <= MaxItems
    /\ {arbIn, arbOut, inflight, flying} \subseteq Maps(OBJKeys, DOMAIN item)
    /\ free \subseteq disks /\ disks \subseteq Disks
    /\ waiting \in [Disks -> Seq(DOMAIN item)]
    /\ \A d \in Disks \ disks : waiting[d] = <<>>
    /\ astDisks \subseteq Disks /\ astOBJs \subseteq OBJKeys
    /\ container \in Seq(ContainerItems) /\ hubQueue \in Seq(HubEvents)
    /\ hubOBJs \subseteq OBJKeys /\ tierDisks \subseteq Disks
    /\ hubDisks \in [Disks -> {"present", "delayed", "gone"}]
    /\ pinned \in [Disks -> Nat]
    /\ moving \in Maps(OBJKeys, Disks)
    /\ asserted \subseteq {"no_entry", "no_disk", "no_source", "target_exists",
                           "freed_tier"}
    /\ procedures \in [OBJKeys -> Nat]
    /\ spent \in [Bounds -> Nat] /\ \A b \in Bounds : spent[b] <= BoundOf[b]

-----------------------------------------------------------------------------
(* Where an arbitratee is.                                                 *)

\* Arbitratees of the migrator's queue, in any form but an answer.
Queued  == {container[n].item : n \in {n \in DOMAIN container : container[n].type = "migrate"}}
Waiting == UNION {{waiting[d][n] : n \in DOMAIN waiting[d]} : d \in Disks}
EchoedKeys == {exeQueue[n].key : n \in DOMAIN exeQueue}

(* One migration at a time writes to a disk, and none to a disk that is    *)
(* free ("disk not participate into migration", ASTMigration.hpp:24),      *)
(* across decision windows, failures and expiries: Migration::Init and     *)
(* MDF_free.                                                               *)
OneMigrationPerDisk ==
    /\ \A i, j \in Values(inflight) : TargetOf(i) = TargetOf(j) => i = j
    /\ \A i \in Values(inflight) : TargetOf(i) \notin free

(* A migration in flight is at exactly one place: it waits for the         *)
(* migrator, or the migrator waits for its end, or its echo is on the way; *)
(* the three tables that know it (two of them keyed by the source disk,    *)
(* one by the target disk) never disagree.                                 *)
InFlightIsSomewhere ==
    /\ \A k \in DOMAIN inflight :
          Cardinality({p \in 1 .. 3 :
              \/ p = 1 /\ inflight[k] \in Queued
              \/ p = 2 /\ inflight[k] \in Values(flying)
              \/ p = 3 /\ k \in EchoedKeys}) = 1
    /\ Queued \cup Values(flying) \subseteq Values(inflight)
    /\ EchoedKeys \subseteq DOMAIN inflight

(* The migrator never holds an arbitratee that Arbitrator::Complete or     *)
(* Expire has deleted on the executor's thread; nor does Migration.        *)
NobodyHoldsDeleted ==
    \A i \in Queued \cup Values(flying) \cup Values(inflight) \cup Waiting : Live(i)

(* Executor and migrator agree about every migration in flight.            *)
InFlightIsKnown == TypeOK /\ InFlightIsSomewhere /\ NobodyHoldsDeleted

-----------------------------------------------------------------------------
(* The HUB.                                                                *)

\* No migration was given up or lost its OBJ.
NoneAbandoned == spent["expiries"] = 0 /\ spent["deletions"] = 0

(* The HUB never pins a disk longer than it migrates from or to it, and    *)
(* never forgets a pin: the pins are those of the entries of moving.       *)
PinsAreMigrations ==
    NoneAbandoned => \A d \in Disks :
        pinned[d] = Cardinality({k \in DOMAIN moving : k[2] = d})
                    + Cardinality({k \in DOMAIN moving : moving[k] = d})

(* The view of a disk that is removed while migrations use it goes when    *)
(* the last of them ends, and not before.                                  *)
DelayedWhilePinned ==
    \A d \in Disks : /\ hubDisks[d] = "delayed" => pinned[d] > 0
                     /\ hubDisks[d] = "gone" => pinned[d] = 0

(* Views live as long as migrations need them, whatever is removed when.   *)
PinsHold == PinsAreMigrations /\ DelayedWhilePinned

(* Without expiries and deletions of OBJs no assertion of CompleteMigrate  *)
(* and MoveOBJFromSrc2Tgt fails: every answer finds its entry, both disks, *)
(* the OBJ on its source and not on its target, whatever disks are         *)
(* removed; the lookup of an emptied tier is another matter.               *)
CompletionsFit == NoneAbandoned => asserted \subseteq {"freed_tier"}

-----------------------------------------------------------------------------
(* Every migration in flight ends for the executor, by an answer of the    *)
(* service or because it expires, also when its end is never notified: the *)
(* plans being bounded, none is in flight in the end.                      *)
EveryMigrationEnds == (inflight # <<>>) ~> (~Alive \/ inflight = <<>>)
=============================================================================
