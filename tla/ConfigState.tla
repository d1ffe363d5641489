------------------------------ MODULE ConfigState ------------------------------
(***************************************************************************)
(* The configuration as the HUB has it (ConfigView, ASTHUB.cpp) and as AST *)
(* has learned it (LogicalConfig, ASTLogicalConfig.cpp), with what travels *)
(* between the HUB thread and the generator's thread.  AST is enabled all  *)
(* the time.                                                               *)
(***************************************************************************)
EXTENDS Naturals, Sequences, FiniteSets

CONSTANTS
    Pools,        \* SubPoolKeys
    Disks,        \* DiskKeys
    OBJs,         \* OBJs without their disk
    PoolOf,       \* the SubPool of each disk
    TierOf,       \* the tier of each disk
    Rank,         \* the place of each disk in the order of DiskKeyCmp
    InitialDisks, \* disks the HUB has to begin with
    InitialOBJs,  \* OBJKeys the HUB has to begin with
    Kept,         \* OBJKeys that nobody deletes, moves or takes the disk from
    Pinnable,     \* disks that may be removed while migrations use them
    AdviseEvery,  \* cycles of the short-term window; the last one advises
    MaxChanges,   \* bound: changes of the HUB's configuration and schedule
    MaxFailures   \* bound: resolutions that run out of memory

OBJKeys == OBJs \X Disks

ASSUME ConfigAssumption ==
    /\ IsFiniteSet(OBJKeys) /\ IsFiniteSet(Pools)
    /\ PoolOf \in [Disks -> Pools]
    /\ Rank \in [Disks -> Nat] /\ \A d, e \in Disks : Rank[d] = Rank[e] => d = e
    /\ InitialDisks \subseteq Disks
    /\ Kept \subseteq InitialOBJs /\ InitialOBJs \subseteq OBJs \X InitialDisks
    /\ AdviseEvery \in Nat \ {0} /\ MaxChanges \in Nat /\ MaxFailures \in Nat

VARIABLES
    hubDisks,    \* DiskViews: "present", "delayed" (delay-deleted) or "none"
    hubOBJs,     \* OBJViews
    scheduled,   \* SubPools for which CheckSubPoolIsScheduledNow
    frozen,      \* mHUBStatus is HS_collecting_IO
    toCollect,   \* mToBeCollectedOBJsNum
    collected,   \* mAlreadyCollectedOBJsNum
    toHub,       \* requests of the generator on their way to the HUB
    answers,     \* the HUB's answers on their way to the generator
    reports,     \* the HUB's reports of deletions, on their way or put aside
    cfgPools,    \* mSubPools
    cfgDisks,    \* disks of the tiers of mSubPools
    cfgOBJs,     \* OBJs of those disks
    diskIds,     \* mDiskId2Key
    suspicious,  \* SubPools, disks and OBJs with the flag SPF_, DF_, OF_suspicious
    deleted,     \* mDeletedSubPools, mDeletedDisks and mDeletedOBJs
    genStatus,   \* "idle" (noop and both done statuses), "learning", "advising"
    cycle,       \* number of this cycle in the short-term window
    advise,      \* mAdviceAfterLearning
    changes, failures  \* how much of MaxChanges and MaxFailures is used

viewVars   == <<hubDisks, hubOBJs, scheduled>>
hubVars    == <<viewVars, frozen, toCollect, collected>>
configVars == <<cfgPools, cfgDisks, cfgOBJs, diskIds>>
genVars    == <<configVars, suspicious, deleted, genStatus, cycle, advise, failures>>
vars       == <<hubVars, toHub, answers, reports, genVars, changes>>

\* The disk with which an OBJ begins its key, and the disks of a SubPool.
DiskOf(key) == key[2]
In(p, S)    == {d \in S : PoolOf[d] = p}
On(S, keys) == {k \in keys : DiskOf(k) \in S}

Requests == {"config", "prepare", "collect", "post"}

\* Answers about the configuration and about IO.
ConfigAnswer(ok, ps, ds) ==
    [type |-> "config", ok |-> ok, more |-> FALSE, pools |-> ps, disks |-> ds, objs |-> {}]
IOAnswer(ok, more, keys) ==
    [type |-> "io", ok |-> ok, more |-> more, pools |-> {}, disks |-> {}, objs |-> keys]
Answers == [type : {"config", "io"}, ok : BOOLEAN, more : BOOLEAN,
            pools : SUBSET Pools, disks : SUBSET Disks, objs : SUBSET OBJKeys]

\* Reports: a SubPool, a disk or an OBJ is gone.
Report(kind, what) == [kind |-> kind, what |-> what]

Sets == [pools : SUBSET Pools, disks : SUBSET Disks, objs : SUBSET OBJKeys]
NoSets == [pools |-> {}, disks |-> {}, objs |-> {}]
================================================================================
