---------------------------- MODULE DefaultMigrator ----------------------------
(***************************************************************************)
(* The migrator thread: DefaultMigrator::Handle (ASTMigration.cpp).        *)
(***************************************************************************)
EXTENDS MigrationState

migratorFrame == <<exeVars, astVars, hubVars, procedures>>
Migrates(type) == container # <<>> /\ Head(container).type = type

\* The echo names the OBJ with its source disk, as the executor's tables do.
EchoOf(type, i, status) ==
    [type |-> type, key |-> KeyOf(i), target |-> TargetOf(i), status |-> status]

\* DoMigration
DoMigration ==
    LET i == Head(container).item IN
    /\ Migrates("migrate")
    /\ container' = Tail(container)
    /\ flying' = Insert(flying, TargetKeyOf(i), i)
    /\ hubQueue' = Append(hubQueue, [type |-> "migrate", key |-> KeyOf(i),
                                     target |-> TargetOf(i)])
    /\ UNCHANGED <<migratorFrame, exeQueue, spent>>

\* CompleteMigration, unless the migration has expired before.
CompleteMigration ==
    LET e == Head(container) IN
    /\ Migrates("complete")
    /\ container' = Tail(container)
    /\ flying' = Erase(flying, e.key)
    /\ exeQueue' = IF e.key \in DOMAIN flying
                   THEN Append(exeQueue, EchoOf("completed", flying[e.key], e.status))
                   ELSE exeQueue
    /\ UNCHANGED <<migratorFrame, hubQueue, spent>>

\* Seeded fault: the executor is not told of the expiry.
FaultySilentExpiry ==
    /\ CanSpend("expiries")
    /\ Spend("expiries")
    /\ \E k \in DOMAIN flying : flying' = Erase(flying, k)
    /\ UNCHANGED <<migratorFrame, exeQueue, container, hubQueue>>

\* CheckExpired finds a migration that takes too long.  It visits the table in
\* one pass; every other thread may run between two steps of this action, so
\* a pass that finds several is several steps.
CheckExpired ==
    /\ CanSpend("expiries")
    /\ Spend("expiries")
    /\ \E k \in DOMAIN flying :
          /\ flying' = Erase(flying, k)
          /\ exeQueue' = Append(exeQueue, EchoOf("expired", flying[k], "failed"))
    /\ UNCHANGED <<migratorFrame, container, hubQueue>>

MigratorStep == DoMigration \/ CompleteMigration \/ CheckExpired
=============================================================================
