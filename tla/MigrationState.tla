---------------------------- MODULE MigrationState ----------------------------
(***************************************************************************)
(* The state that a migration passes through, from the plan to its echo:   *)
(*                                                                         *)
(*   executor thread     Arbitrator, Migration  (ASTArb, ASTMigration)     *)
(*   migrator thread     DefaultMigrator        (ASTMigration)             *)
(*   HUB thread          HUB, ConfigView        (ASTHUB)                   *)
(*   storage service     ASTMigrateProcedure    (ASTCommDispatcher)        *)
(*                                                                         *)
(* One SubPool that exists and is scheduled; AST stays enabled.            *)
(***************************************************************************)
EXTENDS Naturals, Sequences, FiniteSets

CONSTANTS
    OBJs,
    Disks,
    TierOf,          \* the tier of each disk
    MaxItems,        \* bound: arbitratees made of plans
    MaxEpochs,       \* bound: decision windows
    Removable,       \* the disks that may be removed
    MaxLearnings,    \* bound: collections of the configuration
    MaxExpiries,     \* bound: migrations that expire
    MaxLosses,       \* bound: migrations whose end is never notified
    MaxRemovals,     \* bound: disks removed
    MaxDeletions,    \* bound: OBJs deleted
    MaxEvents,       \* bound: all of these but the expiries together
    Results,         \* how the storage service may end a migration
    TriggerChoices,  \* FALSE: the executor may be noop or stopping
    ConflictWins,    \* TRUE: a plan may win over the arbitratee of its OBJ
    LeaseEnds        \* TRUE: the lease of a migrated OBJ may end

Items == 1 .. MaxItems
OBJKeys == OBJs \X Disks          \* an OBJ on a disk
Outcomes == {"ok", "failed", "notdone"}

ASSUME SetsAssumption ==
    /\ TierOf \in [Disks -> Nat] /\ Removable \subseteq Disks
    /\ Results \subseteq {"ok", "failed"}
    /\ {TriggerChoices, ConflictWins, LeaseEnds} \subseteq SUBSET BOOLEAN
ASSUME MigrationBoundsAssumption ==
    {MaxItems, MaxEpochs, MaxLearnings, MaxExpiries, MaxLosses, MaxRemovals,
     MaxDeletions, MaxEvents} \subseteq Nat

VARIABLES
    \* the executor thread
    epoch,       \* mEpoch of the executor: number of the decision window
    exePc,       \* "idle", or "planning" while plans are arbitrated
    exeQueue,    \* echoes of migrations for the executor
    item,        \* the arbitratees on the heap, in the order they were made
    arbIn,       \* mItemsIn: OBJKey -> arbitratee
    arbOut,      \* mItemsOut: OBJKey -> arbitratee
    disks,       \* mMigrationDisks: target disks that had a migration
    free,        \* those with MDF_free
    waiting,     \* per disk: arbitratees behind its iterator, not yet launched
    inflight,    \* Migration::mInflight: OBJKey -> arbitratee
    astDisks,    \* disks of the logical configuration
    astOBJs,     \* OBJs of the logical configuration
    \* the migrator thread
    container,   \* its queue
    flying,      \* DefaultMigrator::mInflight: OBJKey on the target -> arbitratee
    \* the HUB thread
    hubQueue,    \* events about migrations
    hubOBJs,     \* OBJViews of the ConfigView
    hubDisks,    \* DiskViews: "present", "delayed" (delay-deleted) or "gone"
    tierDisks,   \* disks of the TierViews
    pinned,      \* mPinnedNum of each DiskView
    moving,      \* mMigratingOBJ2SrcDisk: OBJKey on the target -> source disk
    asserted,    \* the assertions of the HUB thread that failed
    \* the storage service
    procedures,  \* per OBJKey on the target: migrations under way
    spent        \* use of the bounds

\* Arbitrator and MigrationDisk keep the arbitratees of the executor.
itemVars == <<item, arbIn, arbOut>>
diskVars == <<disks, free, waiting>>
exeVars == <<epoch, exePc, itemVars, diskVars, inflight>>
astVars == <<astDisks, astOBJs>>
migVars == <<flying>>
viewVars == <<hubOBJs, hubDisks, tierDisks, pinned>>
hubVars == <<viewVars, moving, asserted>>
vars == <<exeVars, exeQueue, astVars, container, migVars, hubQueue, hubVars,
          procedures, spent>>

Bounds == {"learnings", "expiries", "losses", "removals", "deletions"}
BoundOf == [learnings |-> MaxLearnings, expiries |-> MaxExpiries,
            losses |-> MaxLosses, removals |-> MaxRemovals,
            deletions |-> MaxDeletions]
CanSpend(b) ==
    /\ spent[b] < BoundOf[b]
    /\ b = "expiries" \/ spent["learnings"] + spent["losses"] + spent["removals"]
                           + spent["deletions"] < MaxEvents
Spend(b)    == spent' = [spent EXCEPT ![b] = @ + 1]

-----------------------------------------------------------------------------
(* std::map: insert leaves an entry that is there, erase removes it.       *)

Insert(m, k, v) ==
    IF k \in DOMAIN m THEN m
    ELSE [x \in DOMAIN m \cup {k} |-> IF x = k THEN v ELSE m[x]]
Erase(m, k) == [x \in DOMAIN m \ {k} |-> m[x]]
Values(m) == {m[k] : k \in DOMAIN m}
\* SubPoolArbitratee, Migration::mInflight, DefaultMigrator::mInflight.
Maps(K, V) == UNION {[D -> V] : D \in SUBSET K}

TargetOf(i)    == item[i].target
\* OBJKey2ArbitrateeKey, and the key the migrator makes of it for the HUB
KeyOf(i)       == item[i].key
TargetKeyOf(i) == <<item[i].key[1], item[i].target>>
Live(i)        == ~item[i].deleted

Arbitratees == [key : OBJKeys, target : Disks, deleted : BOOLEAN]
Submitted(i)       == [type |-> "migrate", item |-> i]
Ended(key, status) == [type |-> "complete", key |-> key, status |-> status]
ContainerItems ==
    [type : {"migrate"}, item : Items]
        \cup [type : {"complete"}, key : OBJKeys, status : Outcomes]
HubEvents ==
    [type : {"migrate"}, key : OBJKeys, target : Disks]
        \cup [type : {"completed"}, key : OBJKeys, status : Outcomes]
Echoes ==
    [type : {"completed", "expired"}, key : OBJKeys, target : Disks,
     status : Outcomes]
=============================================================================
