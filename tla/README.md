# Auto Storage Tiering: a TLA+ development

Auto Storage Tiering (AST) is a library inside a storage service.  It learns how
hot every object (OBJ) of every disk is, decides periodically which OBJs should
live on faster or slower disks, and migrates them.  This directory holds TLA+
models of its concurrent core and of the components that decide, TLC runs over
small instances, and proofs that TLAPS checks for every instance.  Paths below are
relative to `src/Relocation/`.

Contents: 1 inventory, 2 modules, 3 the core, 4 migrations, 5 reservations,
6 the configuration, 7 the HUB's views and tables, 8 turning AST on and off,
9 time and IO statistics, 10 heat, 11 advice, 12 the planner, 13 proofs,
14 not modelled, 15 what is left to do.

## 1. Inventory

| Component | State it keeps | Operations | Talks to |
|---|---|---|---|
| AST life cycle (`AST.cpp`, class `AST`) | `mState` | enable, disable, reset | everything it owns |
| Generator (`AST.cpp`, `ASTRelocation.cpp`) | status, event queue, pending events, "advise after learning" | start, stop, learn (collect and resolve configuration and IO), advise | HUB by messages, executor by events |
| Executor (`AST.cpp`) | status, epoch, event queue, delayed echoes | start, stop, stall, plan, handle completed or expired migrations | generator by events; planner, arbitrator, migration by calls |
| Message manager (`MessageExpress.cpp`, `MessageImpl.cpp`) | message queue, registered targets | enqueue, dispatch to `ASTProxy`/`OSSProxy`, reset, stop | runs `AST::EnableAST`/`DisableAST` on its thread |
| HUB (`ASTHUB.cpp`) | status of AST, its own status, configuration view and its lock, pending events, objects being migrated | launch events of the storage service, enable/disable AST (whole or per SubPool), configuration changes, collections, migrations | message manager, default migrator, storage service |
| Time (`ASTTime.cpp`) | two decision windows, a cycle manager, a timer | tick: start a cycle, learning or decision | generator and migrator by events; IO by calls |
| Logical configuration (`ASTLogicalConfig.cpp`), IO (`ASTIO.cpp`) | SubPools, disks, OBJs, tiers, suspicious marks | collect, resolve, remove unconfirmed | HUB by messages |
| Advice, heat distribution, planner (`ASTAdvice.cpp`, `ASTHeatDistribution.cpp`, `ASTPlan.cpp`) | advices per SubPool, OBJs by heat, plan queues | advise, plan, drop used advices | each other by calls |
| Arbitrator, performance (`ASTArb.cpp`, `ASTPerformance.cpp`) | arbitratees waiting and in flight, reserved performance | receive, check conflicts, reserve, release | planner, migration |
| Migration, default migrator (`ASTMigration.cpp`) | a queue and a free flag per target disk, two tables of migrations in flight, migrator thread | receive, launch, complete, expire, start, stop | HUB and executor by events |
| IO module (`ASTIOModule.cpp`) | - (reads and clears the HUB's tables of unsettled OBJs) | read, write, create, delete, replicate | HUB by calls and events, on the storage service's threads |
| Swap-out, initial placement (`ASTSwapOut.cpp`, `ASTPlacement.cpp`), storage policies | requirements to swap, mappers | notify, iterate | logical configuration |
| Glue (`ASTCommDispatcher.cpp`, configuration file, errors, logger, simulator) | - | - | storage service |

Four threads do the work of the core: the message thread, the generator, the
executor and the HUB; the default migrator and the timer are two more.  They
share no data but their queues, their statuses (under a mutex each) and the
logical configuration.  What is hard about them:

* **interleaving**: a thread decides on a status it read, and another one changes
  the status (stop against a phase of the generator);
* **protocol**: requests and answers of one collection, of two collections, and of
  two sessions (between two enables) must not be mixed;
* **waiting**: events put aside (generator, executor, HUB) must come back, a
  stall must end, and AST is disabled on the thread that delivers messages;
* **failure**: enabling may fail halfway, the HUB may have nothing to answer with,
  resolving may run out of memory;
* **locks across events**: the HUB's configuration lock is held from the first to
  the last event of a collection, by the thread that also wants to write;
* **long sequences**: disks, OBJs and SubPools pass through queues, lists, flags and
  iterators that live over many windows (planner, advice, heat);
* **arithmetic**: averages, thresholds, shares of windows and slices of the day, in
  unsigned 32 bit, with zero and equality at every boundary;
* **accounting**: a migration must be submitted, echoed (completed or expired) and
  forgotten once, by three tables on two threads.

`PROJECT.json` lists the hazards one by one, each at its line, with the
properties that watch it.

## 2. Modules

| Module | Models | Kind |
|---|---|---|
| `ASTState` | the state shared by the four threads, events, messages, bounds | constants and variables |
| `Generator` | `Generator::Handle`, `RelocationLearning::DoCycleWork` | actions |
| `Executor` | `Executor::Handle`, the migrator's echoes | actions |
| `HubService` | `HUB::Handle` as AST sees it | actions |
| `ControlThread` | `MessageManager::Handle`, both proxies, `AST::EnableAST`, `DisableAST`, the timer | actions |
| `ASTCore` | the four together, fairness, all properties | specification |
| `ASTSwitch` | what HUB and AST promise each other about on and off | abstract specification |
| `ASTCore_proofs` | theorems about types, requests and the switch; about what is put aside, in one session and what of it is left in the next; about the HUB's lock | proofs |
| `Conversations_proofs` | theorems about the conversation of generator and HUB, on those of `ASTCore_proofs` | proofs |
| `MigrationState` | what a migration passes through, on four threads | constants and variables |
| `Relocator` | `Arbitrator` and `Migration` on the executor's thread | actions |
| `DefaultMigrator` | `DefaultMigrator::Handle` | actions |
| `HubMigration` | `HUB::Migrate`, `CompleteMigrate`, `RemoveDisk`, `DeleteOBJ`; the storage service | actions |
| `MigrationPipeline` | the four together, fairness, all properties | specification |
| `Migration_proofs` | theorems | proofs |
| `DiskProfiles` | `ASTDiskProfile.cpp`, `DiskPerf`: profiles and their interpolation | functions |
| `Reservations` | the ranking of disks (`ASTPerformance.cpp`), choice and reservation (`ASTArb.cpp`) | specification |
| `ConfigState` | the configuration of the HUB and of AST, what travels between them | constants and variables |
| `ConfigView` | the HUB thread as keeper of the configuration (`ASTHUB.cpp`) | actions |
| `LogicalConfig` | `RelocationLearning`, `LogicalConfig`, `IOManager::ResolveOBJIO` | actions |
| `ConfigSync` | both together, fairness, all properties | specification |
| `HubViews` | `ConfigView`, `SubPoolView`, `TierView`, `DiskView`, `OBJView`, `CollectIO` | specification |
| `Redirects` | `ASTIOModule.cpp` and the tables of unsettled OBJs | specification |
| `HubControl` | start, stop and the enabling of SubPools in `ASTHUB.cpp`; `TimeRange`, `TimeScheduleConfig` | specification |
| `Hub_proofs` | theorems about `ConfigSync` and about `HubControl` | proofs |
| `DecisionWindows` | `ASTTime.cpp`: the two windows and the cycle | actions |
| `IOStatistics` | `ASTIO.cpp`: statistics, averages, summaries, together with the windows | specification |
| `IO_proofs` | theorems about `HubViews`, the windows and the statistics | proofs |
| `HeatBuckets` | bases, comparators, ranges (`ASTHeatDistribution.cpp`); `HeatBucket`: partitioning, sorting, the two walks | actions |
| `HeatRegistry` | the distributions of a window | specification |
| `Rankings_proofs` | theorems about `Reservations` and `HeatRegistry`: both rank, and both count with sums over finite sets | proofs |
| `Advising` | rules (`ASTAdviceRule.cpp`), `AdviceManager` and its lists of advice (`ASTAdvice.cpp`) | specification |
| `Advising_proofs` | theorems | proofs |
| `PlanQueues` | state of `PlanManager`, choice of one plan (`ASTPlan.cpp`) | constants, variables, functions |
| `PlanSteps` | the calls a handler of the planner is made of | actions |
| `Planning` | decision windows, answers, configuration changes around the planner | specification |
| `Planning_proofs` | theorems | proofs |
| `MC_*` | constants of the runs | instances |

How they meet.  `Executor` sees a migration as something that is submitted and
echoed; `MigrationPipeline` sees the executor as the thread that plans, and handles
echoes one at a time; `Planning` is what happens inside of the executor's handlers
before a plan is received, and `Reservations` what the arbitrator books for it.
`ConfigSync`, `HubViews` and `IOStatistics` are what `Generator` and `HubService`
abstract: what the answers contain, how they are built and what AST makes of them.
`HubControl` refines the HUB's half of `ASTSwitch` to single SubPools.  `IOStatistics`
runs on the windows of `DecisionWindows`; `HeatRegistry` takes its ranges from what
`IOStatistics` sums up; `Advising` takes any order that `HeatRegistry` may yield, and
`Planning` any lists that `Advising` may have left.  Each composition is cut where one
side is a set of choices for the other, which keeps every instance small enough to be
checked completely.

### How state and actions correspond to the code

A queue of the code is a sequence; an event or message is a record with a type,
a success flag, one more flag (last batch, advise after learning, a deletion) and
the *ghost* `sn`, the session it belongs to, which no action reads.  A thread is
numbered by the session that made it, because a thread that was not joined lives
on beside its successor; `genPc`/`exePc` say where each thread is.

Atomicity follows the code's locks.  The generator's and the executor's statuses
are read and written under a mutex, one access at a time, and other threads write
them: taking an event, reading the status to decide whether it pends, reading it
again in an assertion, and the work with the status change are separate steps
(`GenDequeue`, `GenCheck`, `GenAssert`, the phases, `GenDrain`).  What a phase does
between two accesses to shared state is one step.  `mMutex` is held by `Stop`
while it joins, which `GenMutexFree` expresses.  Only the HUB thread touches the
HUB's state, so one event is one step; its configuration lock is a counter of
read locks, and `HubChange` (write lock) waits for zero.  The message thread does
`DisableAST` in the steps at which it waits.

Abstracted: what is in a configuration (only whether an answer carries data, and
how many batches of OBJs), what is advised and planned (only that a migration may
be submitted), the length of a cycle.  `EnableAST` may fail in its steps 1 to 3
(`StartResults`); that creating a thread fails (steps 4 to 7) is not modelled.
`YWB_ASSERT` ends the process: `asserted` records it and `Next` stops.  `Queue`,
`Mutex`, `Cond`, `RWLock`, `Thread` come from outside of the repository and are
taken to be what their names say; `Cond::Wait` has no spurious wakeups.

## 3. The core

Both runs use `ASTCore` itself.  The constants are bounds on what the environment
does: requests to enable and disable, ticks, configuration changes, migrations;
and the sets of outcomes it may choose from.  Each bound is the smallest with
which the interesting case happens: two enables for two sessions, two ticks (three
cycles, the first is launched by enabling) for a stall that meets the plan of the
cycle before, two migrations for an order of echoes, two batches for a next batch, one
configuration change for the lock the HUB might wait for.
`CHECK_DEADLOCK FALSE` is stated because the bounds run out and because some
behaviours of the code really stop.

| Run | Question |
|---|---|
| `CoreCycles` | in one session without failures, AST being disabled at any moment: does the conversation of generator and HUB stay in order (`OneConversation`), does nothing that was put aside get stuck (`NothingIsStranded`), is the configuration locked exactly while it is collected (`LockedWhileCollecting`), do echoes keep their order (`EchoesInOrder`), and do disabling, rounds and stalls end (`DisableEnds`, `RoundsEnd`)? |
| `CoreSessions` | with every failure, over two sessions: do HUB and AST agree on who is on and follow the abstract switch (`OneRequestAtATime`, `SwitchSpec`), does the HUB serve (`HubServesWhileEnabled`), and what is left of the old session, on its way or put aside (`EnablingForgets`)? |

The properties, in words, stand above their definitions in `ASTCore.tla`.
`EnablingForgets` does not say that nothing is left: the HUB keeps a request for its
configuration that it had put aside, but only if AST was disabled in the middle of a
collection; the property says that this is all.  It excepts sessions whose threads were
not joined, and `RoundsEnd` the rounds that the spinning HUB (below) keeps from ending.
`CoreCycles` has no configuration change, so what `LockedWhileCollecting` says of the
number of OBJs is shown by the theorem (section 13) rather than by the run.

**Fairness** (`ASTCore!Fairness`): weak fairness of every thread (as one action
each: a thread that can go on does) and of the migrator's echoes (a migration is
completed or expires at a later tick).  The storage service and the timer owe
nothing: no property needs another tick.  Weak fairness is what a preemptive
scheduler gives; no strong fairness is used.

The failures are kept out of `CoreCycles` because its properties fail with them (see
the list below); `CoreSessions` shows what remains true.

### Disagreements of code and comments

Met while modelling.  The behaviours are in the models; one of them is kept as a run
that ends in a counterexample (`FindUnsettled`, section 7), with an entry under
`findings`.  The core, the configuration and migrations:

* Disabling AST while it is being enabled: the event is launched again at the front of
  the queue (`ASTHUB.cpp:365`), so the HUB thread handles it for ever and never sees the
  echo it waits for.  Liveness properties except this (`HubSpins`); the core has the
  launch of a disable at the tail only.
* `Generator::Stop` and `Executor::Stop` do not join a thread that is in S_noop
  (`AST.cpp:185`), against `AST.hpp:324`: the next session's threads take events beside
  those of the old one.
* Disabling AST in the middle of a collection leaves the HUB with its own read lock
  (`ASTHUB.cpp:440`, 526): the next change of the configuration waits for ever.
* After a resolution that failed, the collection is ended twice and the lock is
  unlocked twice (`ASTRelocation.cpp:368`).
* A second answer to a migration finds no entry in the HUB's table and fails an
  assertion (`ASTHUB.cpp:2743`, 2786): a success after an expiry, an answer of the
  second of two migrations of one OBJ.
* `ResolveDeletedSubPool` and `AddDeletedSubPool` read the key of the first disk of a
  tier only (`ASTLogicalConfig.cpp:2345`, 2372, 1603): the ids of the others stay taken
  after the SubPool was consolidated away, and `AddDisk` (1362) refuses these disks.
* `ASTRelocation.cpp:335` asserts that the generator learns; `Generator::Stop` may
  set `S_stopping` (`AST.cpp:169`) between the check at `AST.cpp:569` and it.
* The same assertion fails when a config_view that the HUB put aside survives the
  disabling of AST (`HandleDisableASTEcho` does not empty the pending events) and is
  answered in the next session; also without failures.  `EnablingForgets` says when.
* `ASTRelocation.cpp:358` asserts the same; the next batch is asked for (line 368)
  before the present one is resolved, and when resolving fails the generator becomes
  noop (line 396) with that answer still to come.
* A failed answer about the IO (`ASTRelocation.cpp:401`) leaves the generator
  learning instead of noop (`AST.cpp:1290`); nothing continues the collection, so
  every later cycle pends behind it.
* `LaunchStallEvent` uses the front of the executor's queue, `LaunchPlanEvent` the
  tail: the plan of the cycle before is handled after a stall and ends it while the
  generator advises, against `AST.hpp:304`.
* When enabling fails before the generator starts (`AST.cpp:1472-1499`), AST stays
  `ST_enabling`, against `AST.cpp:1541`.
* `HUB::DeleteOBJ` (`ASTHUB.cpp:2307`) takes no notice of migrations: a success that
  is notified later fails the assertion at line 3029.
* `MigrationDisk::Reset` drops arbitratees that were not launched, the arbitrator
  retains them in IN (`ASTArb.cpp:1310`), and `CheckConflict` then refuses every plan
  for their OBJs.
* `Migration::Complete` sets `MDF_free` only after a success (`ASTMigration.cpp:883`):
  after a failure nothing is in flight to the disk, but it launches nothing until
  another echo or window.
* `CheckConflict` writes a new target into an arbitratee (`ASTArb.cpp:515`) that may
  be in flight to the old one: its echo then frees the wrong disk, and the reservation
  stays with the old one.
* A disk in use is removed twice, first as delay-deleted, then when its last migration
  ends.  If it was the last of its tier the first removal deletes the `TierView`
  without taking it out of `mTierViews` (`ASTHUB.cpp:4066`); the second reads it
  (line 3776).
* `mToBeCollectedOBJsNum` counts the OBJs of all SubPools, `CollectIO` sends those of
  the involved ones only: with an OBJ in a SubPool that is not scheduled the last batch
  says "more", the next request finds nothing, and the generator stays learning for
  ever (`Stranded` in `ConfigSync`).
* A disk that was learned again after it was marked as delay-deleted is not reported
  when its view goes (`Pinnable` in `ConfigSync`).

## 4. Migrations

A plan becomes an *arbitratee* (`ReceivePlan`), which waits for its target disk or
is launched at once (`ReceiveArbitratee`), goes through the migrator's queue to the
HUB (`DoMigration`, `Migrate`), through the storage service back to the HUB
(`Notify`, `CompleteMigrate`), to the migrator (`CompleteMigration`) and as an echo
to the executor (`HandleEcho`), where the disk launches its next one.

*State.*  `item` is the heap: arbitratees by number, with the source (`key`), the
target and whether they were deleted; tables hold numbers as the code's hold
pointers, so a table with a deleted arbitratee is a dangling pointer.  `arbIn` and
`arbOut` are the arbitrator's `mItemsIn` and `mItemsOut`; `waiting[d]` is what is
behind the iterator of a `MigrationDisk`, `disks \ free` those without `MDF_free`;
`inflight` and `flying` are the tables `mInflight` of `Migration` (by OBJ on its
source) and of `DefaultMigrator` (by OBJ on its target); `moving` is the HUB's
`mMigratingOBJ2SrcDisk`.  Maps are functions, and `Insert` leaves an entry that is
there, as `std::map::insert` does.  `procedures` counts what the storage service
has under way.

*Abstracted.*  What the planner proposes (any OBJ that AST knows to any other disk),
whether the disks can be reserved (they may or may not), time (a lease may have
ended, a migration may expire), the direction of a plan (`ConflictWins`), statistics.
One SubPool that exists and is scheduled; AST stays enabled; disks and OBJs are
removed but not added.  `LearnConfig` and `ResolveDeletedDisk` bring AST up to date.
The completions that the HUB puts aside while it collects IO (`HubService`) are
those that the storage service has not notified yet.

`Migrations` checks all of it in one instance: 2 OBJs and 2 disks (each alone in its
tier), 2 arbitratees, 2 windows, 2 expiries, and at most two (`MaxEvents`) of: a lost
answer, a removal of a disk, a deletion of an OBJ, a configuration learned anew.  It
shows one migration per target disk (`OneMigrationPerDisk`), that executor, migrator
and arbitrator agree about every migration in flight and hold nothing that was deleted
(`InFlightIsKnown`), that answers find their entries (`CompletionsFit`), that a disk's
view lives exactly as long as migrations pin it (`PinsHold`), and that every migration
ends for the executor (`EveryMigrationEnds`).  Two OBJs are enough for two migrations to
one disk and for one that waits; two windows for an answer that comes late; a removal
empties a tier.  With two disks a plan that wins over another one has the same target:
the conflict is taken, its retargeting is not reached (it breaks one migration per disk:
`ASTArb.cpp:515`, section 3).

*Fairness* (`MigrationPipeline!Fairness`): of each thread, of the service for each
migration whose answer is not lost, and of the expiry check, since the timer ticks
on; not of new windows or plans.  `MaxExpiries` equals `MaxItems`, so the bound never
keeps a migration from expiring.

`PinsHold` and `CompletionsFit` hold as long as nothing expired and no OBJ was deleted
(`NoneAbandoned`): the HUB's assertions fail otherwise (section 3).

## 5. Reservations

A window ranks the disks of each tier by what they have left: what a disk can do
(`DiskProfiles`, interpolated from a file of measurements between sizes and shares of
reading) less the IO it had, and its free capacity.  The planner chooses targets for a
batch of plans from the ranking; the arbitrator then reserves, for each plan it
receives, the OBJ's load at source and target, and consumes or gives back what was
reserved when the migration ends, in this window or a later one.

*State.*  `unit` is the ranking (what is available and reserved, per disk), `in` and
`out` the arbitrator's tables, `place` where OBJs are.  `offered`, `booked` and
`strayed` are history: what a disk had when the window started, what was admitted, and
the disks whose books the code is known not to balance.  One SubPool, one tier; rows of
a profile are given, not parsed.

`Reservations` (3 disks, two of them measured, one kind known by another capacity; 2
OBJs, 2 windows, batches of 2, 3 plans, one change of the configuration): over plans,
refusals, conflicts, completions in time and late, expiries and lack of memory, no disk
is booked beyond what it had, and what is reserved is what the migrations in flight need
(`BookedAsHeld`); and what a disk is said to do lies between the least and the most that
was measured (`ThresholdsWithin`).

Disagreements, all of them in the model: an expired migration of the present window is
removed from IN before its reservation is looked up there (`ASTArb.cpp:1232`), never to
be given back; the source's reservation stays when the target has no room, and a
refused source with an accepted target is later given back all the same
(`ASTArb.cpp:694`); a completion in a window in which the SubPool is not ranked follows a
null pointer (`ASTPerformance.cpp:690`, `crashed`); favourites are checked with `>=`,
`Reserve` wants `>`; the capacity of OBJs that will leave counts in advance; products
overflow 32 bit above 65,535 IOs (`FIXME`s of the profiles); a device listed twice ends
the reading of the file.

## 6. The configuration

The HUB's configuration (`hubDisks`, `hubOBJs`, `scheduled`) changes at any time; AST
learns it in rounds.  A round marks all it knows as suspicious (`CollectConfig`), asks
for SubPools and disks, clears and adds what the answer has (`ResolveConfig`), asks for
the OBJs, does the same (`ResolveIO`), and puts what is still suspicious into the
deleted sets.  The advice at the end of a decision window removes what is in the
deleted sets (`Advise`, `Consolidate`).  Beside the rounds the HUB reports removals
(`reports`); they are put aside during a round and then also go to the deleted sets
(`ResolveDeleted`).

*State.*  A SubPool, a disk, an OBJ is a member of a set; `cfgPools`, `cfgDisks` and
`cfgOBJs` are the three levels of `mSubPools`, `diskIds` the keys of `mDiskId2Key`
(ids and keys are one to one).  `suspicious` has the flags of all objects.  `cycle`
counts the short-term window, whose last cycle advises.  `Kept` are OBJs that nobody
touches, `Pinnable` the disks that migrations may use.

*Abstracted.*  One answer has room for everything, so a collection has one batch and,
where the code says "more", a second request that finds nothing; the HUB always has a
migration's end ready when it likes (`MoveOBJ`, `LastUnpin`); a removed disk finds its
tier (it does not in the code, section 7); numbers of IO; relocation types.  AST stays
enabled.  A disk that is delay-deleted is not added again (the code refuses it).  Out
of memory is modelled in the last answer about OBJs, not in the
configuration and not in an earlier batch, whose foreign answer is section 3's.

`ConfigAgreement` (2 SubPools, 3 disks in one tier, 2 OBJs, one of them kept, d3
pinnable, 3 changes, 1 failure, windows of 2 cycles): AST's configuration stays a tree
(`ConfigIsATree`), it uses only what the HUB has or reports as gone (`StaleIsReported`),
advises only on what was confirmed (`AdviceIsConfirmed`), keeps what stays
(`KeptIsNotForgotten`), and knows in the end what is involved (`AgreesInTheEnd`).

A SubPool with two disks in one tier is what distinguishes a removed disk from a removed
SubPool; three changes let a disk go, come back and go, or an OBJ follow a disk that
does; one failure meets a round with something to confirm.

*Fairness* (`ConfigSync!Fairness`): the HUB thread serves and the generator's thread
resolves and advises (weak).  Strong fairness of `CollectConfig` stands for the timer,
which starts a cycle every period, and strong fairness of `ResolveDeleted` for the
reports, which `Generator` puts aside and takes up again in front of later events: each
is enabled in between rounds again and again and gets its turn.  Changes, schedules
and failures owe nothing.

## 7. The HUB's views and tables

**Views** (`HubViews`).  The HUB counts every access in the view of its OBJ, moves views
with their OBJs, and hands the numbers to AST in batches that AST reads from the HUB's
own two buffers.  `diskIds` and `tierDisks` are `mDiskID2Key` and the tier views, `views`
the OBJ views by key, `walk` the iterators that survive from batch to batch, `buffers`
and `free` the ping-pong buffers.  The run `Views` (2 SubPools, 4 disks, batches of two
fragments of one OBJ each, 2 accesses, 2 changes, 2 collections, 1 failure) shows that no IO
and no time is lost or told twice (`NothingIsForgotten`, unless a resolution failed),
that no fragment is sent empty (`FragmentsAreFilled`) and that a collection visits each
involved OBJ once (`WalkIsComplete`).  The maps that a walk goes through are ordered by
key; the specification states that order (`Before`, after `OBJKeyCmp` and `DiskKeyCmp`) and
takes a set of keys in it by rank (`InOrder`).

After two failed resolutions the model goes no further than the code does: the second
buffer of a collection that was given up is taken for an answer of a later one, its post
ends that one's freeze between `F_prep` and the first batch, a view moves, and the
iterators that survive from batch to batch (`ASTHUB.hpp:1302`) stand on what is no longer
there.  One failure and two collections, the bounds of the run, do not lead to that.

Disagreements: `DiskView::mTierType` is set by its constructor only (`ASTHUB.hpp:971`), so
`RemoveDiskView` finds no tier and every removal of a disk fails its assertion
(`ASTHUB.cpp:3778`).  `HubViews` has that as it is coded (`crashed`); `ConfigView` and
`HubMigration` take the lookup as it is meant, to study the rest of a removal.  A second
disk of a tier fails the assertion at 4348 (assertions are compiled out here); IO while
AST is off, or a SubPool not scheduled, is reported in the first cycle; IO that was
started under the old key of a migrated OBJ is not counted.

**Redirection** (`Redirects`).  The storage service's threads look into two tables for
OBJs whose migration the metadata service has not learned; the HUB's thread fills them.
Each access to a table has its own lock and is a step.  `FindUnsettled` (1 OBJ, 3 disks, 1
thread, 3 migrations) ends in a counterexample to "If one OBJ is migrated, it MUST be
added into both" (`ASTHUB.hpp:524`): after A to B, B to A and A to C the sources' table
keeps A to B and the targets' has C (`ASTHUB.cpp:2903` finds the key, the result is
ignored).  Also in the model: after A to B to A both keys are redirected to each other
and never settle; after A to B to C only one disk further is looked; a deletion leaves
its entries; IO is executed on the disk that it came to, only the counting goes to the
target (the `FIXME`s of `ASTIOModule.cpp`).

## 8. Turning AST on and off

`HubControl` has what `ASTCore` leaves out of the HUB: its start and stop, enabling and
disabling of single SubPools and of all (batch), the synchronous mode, and schedules.
`subPoolAst` is `mSubPoolASTStatus`, `queue` the events, `pc` where the HUB's thread is,
`status` the local variable of `Handle` that is kept from event to event, `stopper` who
waits in `Stop`; `last` and `wanted` are history.  AST's own part is a request that is
answered some time later.  A day has 4 seconds in the run, a SubPool up to three slices
of it, in any order and overlap; slices are merged by the code's cases one by one.

The run `HubControl` (2 SubPools, 3 asks, 2 starts): when all is done AST is given
exactly the SubPools last asked for, at the times of their schedules
(`InvolvedAsAsked`), and no SubPool is left enabled while AST is being disabled, nor
after a stop (`OffForAll`).  Both except callers that mix batch and single asks.

Disagreements, in the model unless stated: the loop over SubPools in a disable echo does
not advance (`ASTHUB.cpp:2128-2133`, `spinning`); a batch disable while enabling spins
(365); `Stop` with AST off is never signalled, with AST on in batch or enabling waits for
ever, and while disabling deadlocks (`blocked`); an enable echo overwrites HS_stopping; a
SubPool disabled while AST is being enabled leaves AST on for nobody; the synchronous
wait has no predicate (1437-1451); a slice inside a range that shares exactly one end
is refused and the later slices of the call with it (3204-3211, 3278); the comparator of
ranges uses `<=` (undefined for `std::sort`; the model orders strictly).  Without a
schedule a SubPool is never involved.

## 9. Time and IO statistics

`DecisionWindows` has the cycle number and the two windows with their shares; a tick
advances both.  `IOStatistics` has OBJs' averages (`io`), the sums and ranges of disks
(`diskIO`), the rounds the ticks asked for, and the generator, which resolves an answer
OBJ by OBJ while the timer's thread may start a cycle between any two.  `Word` is 2^32
in the code and 1,024 in the run, `Samples` two kinds of load.

`Statistics` (windows of 3 and 2, and of 1 and 3 cycles; 2 OBJs, 4 ticks, 1 failed round,
enabling anew): the type of each cycle follows from the shares (`TypesFollowShares`),
averages stay within what was measured as long as products fit a word
(`AveragesBetween`), OBJs reported often enough in a window are taken into account
(`MonitoredIsEffective`), and advice finds sums and ranges of exactly the OBJs that are
left (`SummaryFits`).  The instance's symmetry (OBJs) is sound, no liveness is checked.

Disagreements: an OBJ counts as monitored long enough also when the rounds of its first
cycles failed (against the 60 % of `ASTConstant.hpp:97`); `EMA::Calculate` overflows
for large volumes; `DiskIO::UpdateBWRange` has the ranges of single bandwidths commented
out (`ASTIO.cpp:605-608`, 620-658), so they stay empty (nothing reads them, `SummaryFits` is
of the others); the subtracting branch of `UpdateStatRT` (`ASTIO.cpp:494`); an empty
fragment makes `ResolveOBJIO` fail.

## 10. Heat

A tier's or disk's OBJs are partitioned into buckets by one statistic between its
smallest and largest value, the buckets on both sides of a boundary are sorted by a second
one, as many as are asked for (`CalculateTheoreticalAdviceNum` asks for the same number on
both), and walked from either end.  `heat` has the buckets per
unit and pair of bases; `walk` what both walks have handed out.  `HeatWalks` (3 OBJs, a
tier, its disk and an empty disk, 4 buckets; wide, narrow and equal ranges, new OBJs; 2
calls of `Setup` between the steps of the walks, 2 windows' statistics): a side has as
many sorted as asked for and not a bucket more (`SortedAsAsked`), a walk hands each out
once and in order (`WalkInOrder`).  The order inside a bucket is the comparator's, as it
is coded.

Disagreements: eight comparators for accumulated bases compare the long-term random IOs
(`ASTHeatDistribution.cpp:1382-1483`), so hot OBJs are walked in another order than the
rule's; `LessByShortTermEMASeqRT` compares raw IOs (1669); two raw sequential orders are
registered for IOs (5094, 5099); a hot OBJ of a narrow range may fall into the boundary's
bucket (3347); after a miss the walk from below may read bucket 0 unsorted; buckets are
not keyed by the advice type.

## 11. Advice

`Advising` generates advice for one SubPool by rules and filters, tier by tier or disk
by disk, from any order a heat distribution may give, and lets the planner walk the
lists with refusals and choices between.  `lists`, `cursor` and `flags` are the code's
sets of advice, their iterators, and the flags SPF_, TF_ and DF_no_advice.  `Advising`
(the run; 4 disks in 3 tiers, 4 OBJs, 7 configurations, windows of tiering, swapping and
filtering rules): walks are complete and free of repetition (`WalksAreComplete`), flags
say where advice is (`FlagsTell`), an advice leads to the next tier that has disks
(`AdviceLeadsNext`).

Disagreements: `DiskAdvise::AddAdvice` takes no reference (`ASTAdvice.cpp:278`) for what
`PutAdvice` (354) gives up; with three tiers a tier without hot OBJs ends the generation
for those below (2587); an early return keeps a reference of the SubPool (2319); an OBJ
of the middle tier may be advised up and down; where `ValidateRule` asks whether the sort
base names random or sequential IO next to their sum, it looks the two up in the
partition base (`ASTAdviceRule.cpp:122`).

## 12. The planner

`Planning` runs `PlanManager` on the executor's thread: at a window's start each SubPool
gets a first batch, each answer of a migration schedules more, and SubPools that found
nothing wait in four queues that each handler drains.  A handler is a list of calls
(`todo`) whose head is the next step, because the generator's thread may change the
configuration between two of them.  `avail` and `unavail` are `mAvailDisks` and
`mUnavailDisks`, `flying` what the arbitrator has, `key`, `ret` and `err` the locals that
the code carries from one call to the next (some of them stale, on purpose).

`Planning` (the run; a SubPool with three disks in two tiers and advice both ways, one
with two; 2 windows, 1 mishap: a change, a refusal or a lack of memory): no batch writes
to a disk twice (`BatchUsesTargetsOnce`), queues hold only SubPools that can be
scheduled and nothing is submitted twice (`QueuesAreSound`), every handler ends
(`HandlersEnd`, under weak fairness of the executor's thread).

Disagreements: the white list is shared by all SubPools and filled by answers only, so a
SubPool whose disks never migrated is told that there are no more plans
(`ASTPerformance.cpp:806`, against `ASTPlan.hpp:404` and 797); `Complete` reads an error
that a second `ScheduleDelayed` has overwritten (2812); an entry that has not timed out
counts as success and its old batch is submitted again (2032, 2117); disks of refused
plans stay unavailable for ever; queues keyed by time lose one of two equal keys; source
disks are never checked ("one disk in at most one plan", `ASTPlan.hpp:631`);
SPF_no_migration is never cleared.

## 13. Proofs

### The core

* `ASTCore_proofs!TypesHold`: `Spec => []TypeOK`.  `TypeOK` is inductive; the step
  that is not routine is that every action that forwards a record keeps it in its
  set.  One lemma per thread (`GenStepTyped`, ...), one step per action.
* `ASTCore_proofs!OneRequestHolds`: `Spec => []OneRequestAtATime`.  The invariant
  says where the one request or echo is: nowhere, in the message queue, or in the
  HUB's queue, and what both statuses are then.  It is the strengthening that
  makes the two statements below inductive.
* `ASTCore_proofs!HubKnows`: `Spec => []HubKnowsAst`, a consequence.
* `ASTCore_proofs!SwitchImplemented`: `Spec => SwitchSpec`, the refinement of the
  abstract switch under `hub <- hubAst, ast <- astState`: each step maps to a step
  of `ASTSwitch` or to a stutter.

The assumptions of the core are `BoundsAssumption` and `ChoicesAssumption` of
`ASTState`: bounds are natural numbers and the choices are sets of the right kind.

### Sessions

The second part of `ASTCore_proofs` is about what generator and executor put aside
(`genPending`, `exeDelayed`), for every number of sessions, cycles, changes and migrations.

* `NothingIsStrandedInOneSession`: `NothingIsStranded` if AST is enabled at most once,
  whatever fails.  `PendingInv` says that an event is put aside only while what it waits
  for is under way; `StallInv` follows the stall that the generator asks for and the
  advice that it is for (each is nowhere, queued or held, `OneAdvice`), and what ends a
  stall is always on its way (`PlanFollows`).
* `NeverOffUnlessFailure`, `NothingIsStrandedUnlessFailure`, `ReleasedUnlessFailure`,
  `EchoesInOrderUnlessFailure`, `ForgetsUnlessFailure`: under `NothingFails` (the HUB
  finds what it is asked for and memory suffices: `FALSE` is in neither `ConfigAnswers`
  nor `ResolveResults`), for any number of sessions.  `NeverOffUnlessFailure` is the one
  on which the others rest: no answer that refuses reaches the generator of a session
  (`Served`), so its status never becomes noop, so its threads have left their loops
  before the next ones are made (`LifeCycle`), so echoes stay in order (`OrderInv`) and
  nothing of a conversation is on its way (`Forgotten`: the echo of disabling is the last
  word of a session).  What the HUB has put aside belongs to the session only while it
  collects (`NothingAside`): no collection begins before the echo of enabling
  (`NotYetCollecting`), and nothing is of a session to come (`Young`).

The hypotheses are needed.  A refused configuration or a failed resolution turns the
generator off; `DisableAST` then joins a thread that still has work, or does not wait at
all, and TLC finds events stranded in a second session, and echoes handled in another
order.  `CoreCycles`, which has no failures, checks both in one session; the theorems say what
holds beyond it.

### Conversations

`ASTCore_proofs!HubServesAlways`: `Spec => []HubServesWhileEnabled`, without a
hypothesis.  The argument counts.  `Number` and `Total` count the messages of a type in a
queue, `Handling` the events that a generator has of one.  `Phase` adds up what is left
of a round of learning: views that are asked for or answered, collections that messages
on their way will begin less those that they will end, and the lock.  In the first
session it is never more than one, and nothing unless the generator learns (`OnePhase`);
the lock is never taken twice in whatever order the messages are delivered
(`TakenOnce`), and is held only by a HUB that collects (`OnlyCollecting`), so a HUB that
waits for the lock is one that will be told to give it up.

`Conversations_proofs`, under `NothingFails` and in the first session (`session <= 1`, at
any number of cycles, batches and changes, and at whatever moment AST is disabled):

* `LockedUnlessFailure`: `LockedWhileCollecting`.
* `ConversationUnlessFailure`: `OneConversation`, if the HUB has OBJs (`0 \notin
  ObjBatches`).  With none it answers that there is nothing; the generator sends the post
  and goes on learning, owed nothing (chapter 3, where the configuration shrinks instead).

Both rest on an account of every step.  `Views`, `Preps`, `Asks`, `Heard`, `Posts` and
`Reading` are the numbers of requests for a view, of prepares, requests for a batch,
answers and posts on their way, and of answers that a generator has and has not resolved.
`Moves` and `Works` say what a step adds to each of them; `GenCounts`, `HubCounts`,
`MsgCounts` and `ElseCounts` give the account of each thread: a HUB that prepares, for
example, takes one from `Preps` and one request becomes one answer.

`LockedWhileCollecting` needs `ConvInv`: no more OBJs are collected than were counted
(`Kept`), and as many as there are while the HUB collects (`Frozen`); there are no more
posts on their way, nor answers that the generator will send one for, than there are locks
(`Covered`); in both queues a prepare comes before the request for the first batch
(`Ordered`); an answer belongs to a lock, or follows the request to disable AST, after
which nobody resolves it (`Sound`); and the generator is owed no more than it waits for
(`Conversing`).

`ConvInv` gives half of `OneConversation`: at most one answer is owed, and none unless the
generator learns.  For the other half `Fitting` says that every answer that comes before
AST is disabled has a batch and says whether it is the last one (`Fits`: the flag agrees
with what the HUB has left), so none ends a round early or leaves it without an end; that
whoever asks for a batch finds one (`Promised`); that a learning generator is owed an
answer; and that no answer is put aside.  `OwedIs` relates the account, type by type, to
`Owed`, which counts sets of types and holders of events.

### The configuration

`Hub_proofs`, for all SubPools, disks, OBJs, tiers, numbers of changes
and failures, from `ConfigAssumption` alone:

* `TypesHold`, `TreeHolds`: `Typed`, types with the tree, is inductive by itself.
* `ReportsHold`: `StaleIsReported` is not inductive, since an answer on its way may
  bring a disk back.  `ReportInv` adds the conversation (at most one answer is under
  way, and no request with it), that only pinnable disks are delay-deleted, and that
  what an answer is about to teach is reported, too.
* `AdviceHolds`: while the advice is due what is suspicious is in the deleted sets
  (`SuspectsAreDeleted`).
* `KeptHolds`: the HUB has what is kept, neither reports nor deleted sets are about it,
  and complete answers contain it and clear it of suspicion (`KeptInv`).

`AgreesInTheEnd` is liveness and only model-checked.

### Windows and statistics

`IO_proofs`, for all OBJs, settings of the windows, loads and words:

* `TypesHold`, of the windows alone and every reset: the type of a window's cycle is the
  one its shares give (`TypesFollowShares`), by an invariant that relates the counter in
  the window to the number of the cycle; `DecidesHold`: a short-term window decides in
  exactly its last cycle.
* `ClockImplemented`: the rounds of learning, with their failures, summaries and
  re-enablings, implement the windows (each step ticks, resets or leaves them), which
  carries both over to `IOStatistics`.
* `MonitoredIsEffectiveHolds`: `CyclesFit` bounds, for each OBJ, the cycles of the
  present window in which it was reported by the counter the code keeps; a window that
  starts between two OBJs of an answer is the case that needs it.
* `AveragesBetweenWhileFitting`: `EmaInv` says that every average lies between values
  that were reported since the OBJ is known.  It needs `ValuesFit`: a reported value
  times the square of a window's length fits a word.  Without it `EMA::Calculate`
  overflows.  TLC evaluates the hypothesis in the run (`SamplesFit` in
  `MC_Statistics`).
* `SummaryFitsAlways`: `SummaryFits`, the action property, without that hypothesis, from
  `StatisticsAssumption` alone.  `SumInv` keeps every field of an average and of a report
  a number; `SummaryIs` then says of any set of OBJs what `SummarizeDiskIO` makes of it.
  Its sums are folds over sets: `SumsExist`, `SumsStep` and `SumsAgree` say by induction
  over finite sets that the function behind the fold exists, adds one element's value
  at a time, and depends on the values alone, so an OBJ's average that a removal of
  others leaves alone counts what it counted.

### The views

`IO_proofs`, for all SubPools, disks, OBJs, accesses, changes, collections and sizes of the
answers, from `ViewsAssumption` alone: `NothingIsForgottenUnlessFailed`,
`FragmentsAreAlwaysFilled` and `WalkIsAlwaysComplete`, all three while no resolution failed
(`failed = 0`; the last two say so themselves, and so does the half of the first that is
about IOs; the other half, about times, TLC also finds true after the one failure of the
run, and the section on the views says why no more than that can be true).

`HubInv` says that, unless one failed, five things hold (`Whole`):

* `ViewInv`: views have their types, are of known disks, and an OBJ has one at most.
* `TalkInv`: what generator and HUB say to one another is one request or one answer, and
  the answer that is resolved meanwhile is in the other buffer than the next will be.
* `CountInv`: what AST is owed of an OBJ is in its view or in those two answers.
* `WalkInv`, while collecting: what is sent and what is left of the SubPool the walk stands
  in are, in the order of the keys, the OBJs of the involved SubPools up to that one.
* `Filled`: an answer holds more than its fragments but one have room for.

Each step keeps each part (`CollectWalk`, `CollectCounts`, `ResolveTalk`, `MigrateViews`, ...).
The walk rests on what orders do: `InOrderIs` says that taking keys by rank yields all of
them, each once and in order, `SortedParts` when two pieces in a row are sorted, and
`SortedAll` that a sorted sequence as long as a set is large has all of the set, which is
why the batch that reaches `toCollect` is the last one.  `ToldByOne` reads the fold over the answers.

### Turning AST on and off

`Hub_proofs`, for all sets of SubPools: `OffForAllHolds` and
`InvolvedAsAskedHolds`.  `Inv` has one part for each way callers may ask: `Orderly` (the
one request to AST, who waits for it, and the HUB's status), `InBatch` (callers that ask
for all), `OneByOne` (callers that ask for one SubPool at a time: the statuses of the
SubPools follow the asks, AST's status follows them) and `Scheduled`.  The hypothesis
`SchedulesCover` says that adding slices one by one (`AddTimeRanges`, a fold over a
sequence) covers the seconds of the slices: TLC evaluates it for all lists of slices of
a short day (`ListsFit` in `MC_HubControl`).

### Advice

`Advising_proofs`, for all disks, tiers, OBJs, configurations and windows, from
`ConfigAssumption` alone: `AdviceLeadsNextHolds` and `FlagsTellHolds`.  Of the calls to
come each that is valid finds its lists empty, and of the present one the lists of the
units it has not done are (`Fresh`), since rules of one kind and scope are not
accepted twice; the flags of tiers and disks tell at every moment where advice is, that
of the SubPool after a tier-wise call only (`Told`).  A step of the planner changes marks
of advices, never their number, OBJs or tiers.

`WalksAreCompleteHolds`: `WalksAreComplete`, of every walk over advices.  `WalkInv` says
of the cursor of a walk of the tiers that everything behind it is chosen or was given,
and (`InTurn`) that of the tiers with advices left those up to the last one are one turn
ahead of the others and no tier is further.  One turn keeps it (`TurnFits`), in each of
the cases of `NextTier`; a search makes as many turns as advices are chosen in a row,
and `SearchFinds` says by induction over their number that it stops at an advice that is
not, or past the last one, before it has taken more advices than there are.

### Migrations

`Migration_proofs`, for all OBJs, disks, tiers, numbers of arbitratees, windows,
failures, expiries, losses and removals, from `SetsAssumption` and
`MigrationBoundsAssumption`:

* `TypesHold`: `TypeOK`, strengthened by what the migrator's queue names
  (`ContainerTyped`): arbitratees that were made.
* `OneMigrationHolds` and `InFlightIsKnownHolds`: `OneMigrationPerDisk` and
  `InFlightIsKnown`, under the hypothesis `NothingRetargets`: no plan wins over an
  arbitratee of its OBJ, or there is no third disk it could name (the run has two disks
  and plans that win).  `CheckConflict` (`ASTArb.cpp:515`) changes the target of an
  arbitratee wherever it is, also of one in flight, and its echo then frees another disk
  than the one that is written: without the hypothesis `OneMigrationPerDisk` is false,
  and the argument for the other one does not go through.

Neither is inductive.  `PipelineInv` says of every arbitratee in flight that it is IN
under its key, that its disk is busy and nobody else's target, and that it is at exactly
one of three places, each of which holds nothing else; of every one that waits for a
disk, that it is IN and not in flight; and of every one that is IN, that it is neither
deleted nor OUT.  The steps of migrator, HUB and service move an arbitratee from one
place to the next (`AnswerKeepsPlaces`, `DoMigrationInv`, `MigratorGivesUp`).  The
executor's steps end one and launch another in one step: `Busy`, `Lined` and `PlacesOf`
state the parts of the invariant for any tables, so that the end (`EndBusy`, `EndLines`,
`EndPlaces`) and the launch (`LaunchBusy`, `LaunchLines`, `LaunchOthers`,
`LaunchPlaces`) are proved one after the other and composed.

* `PinsHoldAlways` and `CompletionsFitAlways`: `PinsHold` and `CompletionsFit`, under the
  same hypothesis.  `HubFits` adds to `PipelineInv` where a migration is on the HUB's
  side: as long as none has expired (`NoneExpired`) every event, procedure and answer is
  about a migration in flight and about no other's (`StagesInv`); the pins of a disk are
  then its entries in `moving` (`PinsInv`), a removed disk's view stays as long as it is
  pinned (`DelayedWhilePinned`), and an OBJ that moves is on its source and not on its
  target (`HomesInv`).

### Reservations

`Rankings_proofs!BookedAsHeldAlways`: `Spec => []BookedAsHeld`, for any disks, OBJs,
profiles, loads and demands, from assumptions that give numbers their types only
(`AmountsAssumption`, `CycleAssumption`, `DevicesAssumption`); that a threshold is a word is
a lemma (`ThresholdIsWord`), whatever overflows on the way.  `Books` keeps, for every disk that has not
strayed, the account of both amounts: what the disk had left is left or booked, what is
reserved is what the arbitratees of this window need of it, and that was booked; so no
subtraction ever wraps.  `Ways` adds that an OBJ that moves is where its arbitratee says,
once, and that no plan leads to where its OBJ is.  A lemma each says what a reservation, a
consumption, both, or a return make of one account (`TakesMore`, `EndsOne`,
`TakesAndEnds`, `GivesBack`), and one for each operation on both ends that no third unit
is touched.

What is held is a sum over a set, computed by a fold.  The facts about sums (an element
more adds its value, in whatever order, `SumWithOneMore`) are inductions over finite sets:
a family of finite sets that is not empty has a smallest member (`SmallestExists`), which
rests on least elements of sets of natural numbers (`LeastExists`, from the library's
`WFMin`).

`ThresholdsWithinWhileFitting`: `ThresholdsWithin`, for any profiles, whatever sizes and
shares of reading were measured.  `LinearBetween` and `MeanIs` are the two formulas of the
code; `Closed` says of a set of values that interpolation stays in it, so that the walk over
sizes and shares (`AtSizeBetween`, `AtRatioBetween`, `MixedIs`) is argued once, for the
values between the least and the most as well as for all integers.  The hypothesis is
`ProfilesFit`: the square of a value, a hundred times it, it times a size of the profile, and
it over a whole cycle, fit a word.  Beyond that `WeightedInterpolation` and
`LinearInterpolation` wrap, as the FIXME at `ASTPerformance.cpp:270` says of the last of
these.  It holds of `diskprofile.xml` (50000 IOs, 650 MB/s, cycles of 30 seconds), and TLC
evaluates it in the run (`ProfilesFitHere` in `MC_Reservations`).

### Heat

`Rankings_proofs`, for any number of buckets, any boundary between them, any units, OBJs,
statistics and rules: `WalksAreInOrder`, `HeatSpec => []WalkInOrder`, and
`BucketsAreSortedAsAsked`, `HeatSpec => []SortedAsAsked`.  The assumptions are
`BucketAssumption` (there are buckets on both sides of the boundary) and
`RegistryAssumption` (rules have types and bases, what a unit yields is a sequence).

The code has every loop twice, from the hottest bucket down and from the coldest up.  The
proofs count buckets from the end of a side instead (`BucketAt`), so that both are one
argument; `Cum` has the number of OBJs up to each bucket, which never falls (`CumClimbs`),
and `SideCounts` says that what the code adds up are differences of it.

* Where a sweep ends: it goes through a bucket as long as fewer than wanted are reached, so
  it ends at the first one that reaches them or with the side (`LoopEnds`, on least elements
  of sets of numbers); what it adds is a difference of `Cum` (`SpanCounts`), and the index
  that it leaves is that bucket's or, when it found nothing to do, the one before it
  (`LastOfIs`).
* `HeatInv`, the inductive invariant, says of each side of a bucket that the first so many
  of its buckets are sorted, that this is what the largest demand takes, and that nothing
  beyond is counted (`SortedTo`).  Of a walk it says that the cursor is in a sorted bucket
  (`Amid`) or rests behind the last one (`AtRest`), that it has handed out as many OBJs as
  are before it, and that each of them still stands at its place (`Handed`).  A place is in
  one bucket only (`OnePlace`).  On the instance of `HeatWalks` TLC finds no state without it.
* What makes it inductive is that a sort under a walk's feet only adds: buckets that were
  sorted stay as they are, and no OBJ changes its bucket (`Deeper`, `SortKeeps`).  So what
  was handed out keeps its place, and a walk that had come to its end goes on with the first
  bucket that was added (`CarryKeeps`).
* `WalkOrder` says what stands at each place (`OrderIs`); a walk that rests has gone through
  all of them, which are the OBJs a filter rule of the same bases gets (`AllInOrder`).

Sorting a bucket is any arrangement of it that the comparator does not contradict
(`Sortings`), since `std::sort` may leave equal OBJs in any order.

### The planner

`Planning_proofs`, for any SubPools, disks, advices, windows and mishaps, from
`PlanAssumption` alone: `BatchUsesTargetsOnceHolds`, `QueuesAreSoundHolds` and
`CallsHavePlans`.  `Inv` is about the calls that a handler has left.  Each that is made for
a SubPool is made for one with plans, and what is being drained has more entries than tries
are left (`SoundCall`); a search is only at the head, and what is drained was tried just
before (`Placed`).  Hence a step of a search may add one call and nothing behind it is
disturbed (`SearchesOn`), and any other step has nothing behind it that drains
(`HandlesOn`).  As long as a first batch goes on, the targets of its plans are unavailable
(`BatchHeld`), and what is compared is not (`ComparableAre`, whether or not there is a white
list), so a new plan has a new target; a search without a successor ends the batch
(`NoBatchBehind`).  What a queue keeps of its entries (`KeptIs`, `KeptFrom`) and the first
advice that fits (`FirstFitIs`) rest on least elements of sets of numbers.

### What is only model-checked

* Everything under fairness: liveness is out of the prover's reach.
* Nothing is proved of `OneConversation` and `LockedWhileCollecting` beyond the first
  session or with failures, where both are false: a request for a view that the HUB has
  put aside is answered in the next session, which then has two conversations, and when
  a resolution fails while the next batch is on its way the lock is given back before the
  HUB collects again.
* `TimeIsRemembered` of `HubViews` after a failed resolution.
* `Redirects`, whose run shows a disagreement.

## 14. Not modelled, and why

* Thread creation that fails, out-of-memory paths of single allocations where nothing
  depends on them, spurious wake-ups: outside of the control the properties are about.
* Configuration file, logging, error codes, the text of the profile file: no state that
  the rest branches on.
* `WITH_INITIAL_PLACEMENT` (swap-out, selectors, storage policies, the directions
  swap_up and swap_down of the planner): nothing in the repository defines it.
* The special configuration of `ASTHUB.cpp:943-1073` (compiled out), unused operations
  (`GetFirstRWRatioLess`, `IsIOSizeFuzzyMatch`, ranking units that are removed).
* `MigratorSimulator`, unit tests and `Deprecated/`: stand-ins and dead code.
* The statistics that no decision reads (`DiskScheStat`, the arbitrator's counters).
* The inner workings of `Queue`, `Mutex`, `Cond`, `RWLock`: not in the repository.

## 15. What is left to do

* The message manager's targets, the reference counts of persistent messages, its stop.
* `ConfigSync` in several batches per collection with failures between them.
* Ranges and indices of the partitioning (`HeatRange`, `Indexes`): that every OBJ falls into
  the bucket its statistic deserves is not stated for all ranges.
