------------------------------- MODULE ConfigSync -------------------------------
(***************************************************************************)
(* HUB and generator together: does AST know what the HUB has?             *)
(***************************************************************************)
EXTENDS ConfigView, LogicalConfig

\* AST was just enabled and knows nothing.
Init ==
    /\ hubDisks = [d \in Disks |-> IF d \in InitialDisks THEN "present" ELSE "none"]
    /\ hubOBJs = InitialOBJs /\ scheduled = Pools
    /\ frozen = FALSE /\ toCollect = 0 /\ collected = 0
    /\ toHub = <<>> /\ answers = <<>> /\ reports = <<>>
    /\ cfgPools = {} /\ cfgDisks = {} /\ cfgOBJs = {} /\ diskIds = {}
    /\ suspicious = NoSets /\ deleted = NoSets
    /\ genStatus = "idle" /\ cycle = 0 /\ advise = FALSE
    /\ changes = 0 /\ failures = 0

Next == ViewChanges \/ Serve \/ Learn

Spec == Init /\ [][Next]_vars

\* The HUB thread and the generator's thread go on; the timer starts a round
\* whenever the last one is over, and reports get their turn.
Fairness ==
    /\ WF_vars(Serve)
    /\ WF_vars(ResolveConfig \/ ResolveIO \/ Advise)
    /\ SF_vars(CollectConfig)
    /\ SF_vars(ResolveDeleted)

FairSpec == Spec /\ Fairness

TypeOK ==
    /\ hubDisks \in [Disks -> {"present", "delayed", "none"}]
    /\ hubOBJs \subseteq On(Viewed, OBJKeys) /\ scheduled \subseteq Pools
    /\ frozen \in BOOLEAN /\ toCollect \in Nat /\ collected \in Nat
    /\ toHub \in Seq(Requests) /\ answers \in Seq(Answers)
    /\ \A n \in DOMAIN reports :
          \/ reports[n] \in [kind : {"pool"}, what : Pools]
          \/ reports[n] \in [kind : {"disk"}, what : Disks]
          \/ reports[n] \in [kind : {"OBJ"}, what : OBJKeys]
    /\ cfgPools \subseteq Pools /\ cfgDisks \subseteq Disks /\ cfgOBJs \subseteq OBJKeys
    /\ diskIds \subseteq Disks
    /\ suspicious \in Sets /\ deleted \in Sets
    /\ genStatus \in {"idle", "learning", "advising"}
    /\ cycle \in 0 .. AdviseEvery - 1 /\ advise \in BOOLEAN
    /\ changes \in 0 .. MaxChanges /\ failures \in 0 .. MaxFailures

\* CheckSubPoolExistence and CheckDiskExistence: what plans may use.
Usable(d) ==
    /\ PoolOf[d] \in cfgPools \ deleted.pools
    /\ d \in cfgDisks \ deleted.disks

\* The id of a disk that AST does not have is still taken.
Orphaned(d) == d \in diskIds \ cfgDisks

(* Logical configuration, deleted sets and ids are one tree: an OBJ has    *)
(* its disk, a disk its SubPool and its id (AddOBJ, AddDisk, Consolidate). *)
ConfigIsATree ==
    /\ cfgOBJs \subseteq On(cfgDisks, OBJKeys)
    /\ \A d \in cfgDisks : PoolOf[d] \in cfgPools /\ d \in diskIds

(* AST uses no disk that the HUB has removed unless the report of it, or   *)
(* of its SubPool, is still to be handled: reports that are put aside or   *)
(* overtaken by answers are not lost on AST ("tell the AST about its       *)
(* deletion anyway!", ASTHUB.cpp:2208).                                    *)
StaleIsReported ==
    \A d \in Disks \ Pinnable :
        Usable(d) /\ hubDisks[d] = "none" =>
            \E n \in DOMAIN reports :
                reports[n] \in {Report("disk", d), Report("pool", PoolOf[d])}

(* An advice is given on what the round before it confirmed, and on nothing *)
(* that an earlier one did: RemoveUnConfirmedSuspect and Consolidate.       *)
AdviceIsConfirmed ==
    [][Advise => suspicious' = NoSets]_vars

(* What the HUB has had from the beginning AST never forgets, whatever      *)
(* rounds fail and whatever happens to other SubPools, disks and OBJs.      *)
KeptIsNotForgotten ==
    [][Kept \cap cfgOBJs \subseteq cfgOBJs']_vars

\* The generator waits for an answer that nobody owes (an answer said there is
\* nothing, since OBJs were counted that no involved SubPool has).
Stranded ==
    genStatus = "learning" /\ toHub = <<>> /\ answers = <<>>

(* When the HUB's configuration and schedule do not change any more AST     *)
(* comes to know exactly what is involved, but for disks with orphaned ids  *)
(* and unless the generator is stranded.                                    *)
Agreed ==
    /\ cfgPools = Involved
    /\ \A d \in Disks : d \in cfgDisks <=> d \in InvolvedDisks /\ ~Orphaned(d)
    /\ \A k \in OBJKeys : k \in cfgOBJs <=> k \in hubOBJs /\ DiskOf(k) \in InvolvedDisks
                                            /\ ~Orphaned(DiskOf(k))

AgreesInTheEnd == <>[](Agreed \/ Stranded)
================================================================================
