------------------------------ MODULE Hub_proofs ------------------------------
(******************************************************************************)
(* Proofs about the HUB.                                                       *)
(*                                                                             *)
(* ConfigSync: what AST knows of the configuration, for any number of SubPools,*)
(* disks, OBJs, changes and failures.                                          *)
(*                                                                             *)
(* HubControl: the HUB's statuses of AST and of the SubPools agree however the *)
(* asks, the answers and a stop come between one another.  Inv has a part for  *)
(* each way the callers may ask.  SchedulesCover is the one hypothesis: what   *)
(* AddTimeRanges computes from a list of slices is a fold, which is checked    *)
(* for the lists of a run.                                                     *)
(******************************************************************************)
EXTENDS ConfigSync, HubControl, FiniteSetTheorems, SequenceTheorems, TLAPS

--------------------------------------------------------------------------------
(* CONFIGURATION                                                               *)

\* What has been asked and answered: at most one answer is under way, none when
\* the generator does not learn.
Conversation ==
    /\ toHub \in {<<>>, <<"config">>, <<"prepare", "collect">>, <<"collect">>,
                  <<"post">>, <<"post", "config">>}
    /\ genStatus # "learning" => answers = <<>> /\ toHub \in {<<>>, <<"post">>}
    /\ answers # <<>> => toHub = <<>> /\ Len(answers) = 1

\* Only a disk that may be in use is delay-deleted.
DelayedArePinnable == \A d \in Disks : hubDisks[d] = "delayed" => d \in Pinnable

Reported(d) ==
    \E n \in DOMAIN reports :
        reports[n] \in {Report("disk", d), Report("pool", PoolOf[d])}

\* A disk that AST uses, or is about to learn, and that the HUB has not.
Learnt(d) == Usable(d) \/ (answers # <<>> /\ d \in Head(answers).disks)
StaleOrLearntIsReported ==
    \A d \in Disks \ Pinnable : Learnt(d) /\ hubDisks[d] = "none" => Reported(d)

\* What is suspicious when the advice is due is in the deleted sets.
SuspectsAreDeleted ==
    genStatus = "advising" =>
        /\ suspicious.pools \subseteq deleted.pools
        /\ \A d \in suspicious.disks : PoolOf[d] \in deleted.pools \/ d \in deleted.disks
        /\ \A k \in suspicious.objs : \/ PoolOf[DiskOf(k)] \in deleted.pools
                                      \/ DiskOf(k) \in deleted.disks
                                      \/ k \in deleted.objs

-----------------------------------------------------------------------------
(* Types and the tree.                                                     *)

Reports == [kind : {"pool"}, what : Pools] \cup [kind : {"disk"}, what : Disks]
           \cup [kind : {"OBJ"}, what : OBJKeys]

HubTyped ==
    /\ hubDisks \in [Disks -> {"present", "delayed", "none"}]
    /\ hubOBJs \subseteq On(Viewed, OBJKeys) /\ scheduled \subseteq Pools
    /\ frozen \in BOOLEAN /\ toCollect \in Nat /\ collected \in Nat
    /\ changes \in 0 .. MaxChanges
ChannelsTyped ==
    toHub \in Seq(Requests) /\ answers \in Seq(Answers) /\ reports \in Seq(Reports)
TreeTyped ==
    /\ cfgPools \subseteq Pools /\ cfgDisks \subseteq Disks /\ cfgOBJs \subseteq OBJKeys
    /\ diskIds \subseteq Disks
    /\ ConfigIsATree
FlagsTyped == suspicious \in Sets /\ deleted \in Sets
RoundTyped ==
    /\ genStatus \in {"idle", "learning", "advising"}
    /\ cycle \in 0 .. AdviseEvery - 1 /\ advise \in BOOLEAN
    /\ failures \in 0 .. MaxFailures

Typed == HubTyped /\ ChannelsTyped /\ TreeTyped /\ FlagsTyped /\ RoundTyped

LEMMA TypedParts == Typed => TypeOK /\ ConfigIsATree
<1> SUFFICES ASSUME Typed PROVE TypeOK /\ ConfigIsATree
  OBVIOUS
<1>1. \A n \in DOMAIN reports :
          \/ reports[n] \in [kind : {"pool"}, what : Pools]
          \/ reports[n] \in [kind : {"disk"}, what : Disks]
          \/ reports[n] \in [kind : {"OBJ"}, what : OBJKeys]
  <2>1. \A n \in DOMAIN reports : reports[n] \in Reports
    BY ElementOfSeq, LenProperties DEF Typed, ChannelsTyped
  <2> QED
    BY <2>1 DEF Reports
<1> QED
  BY <1>1 DEF Typed, HubTyped, ChannelsTyped, TreeTyped, FlagsTyped, RoundTyped, TypeOK

LEMMA InitTyped == Init => Typed
<1> SUFFICES ASSUME Init PROVE Typed
  OBVIOUS
<1>1. HubTyped
  <2>1. 0 \in 0 .. MaxChanges
    BY ConfigAssumption
  <2>2. hubOBJs \subseteq On(Viewed, OBJKeys)
    BY ConfigAssumption DEF Init, On, Viewed, DiskOf, OBJKeys
  <2> QED
    BY <2>1, <2>2 DEF Init, HubTyped
<1>2. ChannelsTyped
  BY DEF Init, ChannelsTyped
<1>3. TreeTyped
  BY DEF Init, TreeTyped, ConfigIsATree
<1>4. FlagsTyped
  BY DEF Init, FlagsTyped, Sets, NoSets
<1>5. RoundTyped
  <2>1. 0 \in 0 .. MaxFailures /\ 0 \in 0 .. AdviseEvery - 1
    BY ConfigAssumption
  <2> QED
    BY <2>1 DEF Init, RoundTyped
<1> QED
  BY <1>1, <1>2, <1>3, <1>4, <1>5 DEF Typed

\* Parts of the state that a step leaves alone stay typed.
LEMMA FramesTyped ==
    ASSUME Typed
    PROVE  /\ UNCHANGED <<hubVars, changes>> => HubTyped'
           /\ UNCHANGED <<toHub, answers, reports>> => ChannelsTyped'
           /\ UNCHANGED configVars => TreeTyped'
           /\ UNCHANGED <<suspicious, deleted>> => FlagsTyped'
           /\ UNCHANGED <<genStatus, cycle, advise, failures>> => RoundTyped'
           /\ UNCHANGED genVars => TreeTyped' /\ FlagsTyped' /\ RoundTyped'
  BY DEF Typed, HubTyped, ChannelsTyped, TreeTyped, FlagsTyped, RoundTyped, hubVars, viewVars,
         genVars, configVars, ConfigIsATree, Viewed

LEMMA AppendTyped ==
    ASSUME NEW S, NEW s \in Seq(S), NEW e \in S
    PROVE  Append(s, e) \in Seq(S)
  BY AppendProperties

LEMMA TailTyped ==
    ASSUME NEW S, NEW s \in Seq(S), s # <<>>
    PROVE  Head(s) \in S /\ Tail(s) \in Seq(S)
  BY HeadTailProperties

LEMMA ChangesTyped ==
    ASSUME Typed, ViewChanges
    PROVE  Typed'
<1>0. UNCHANGED genVars /\ UNCHANGED <<toHub, answers>>
  BY DEF ViewChanges, AddDisk, LastUnpin, RemoveDisk, AddOBJ, DeleteOBJ, MoveOBJ, Reschedule
<1>1. changes' \in 0 .. MaxChanges
  <2>1. UNCHANGED changes \/ Change
    BY DEF ViewChanges, AddDisk, LastUnpin, RemoveDisk, AddOBJ, DeleteOBJ, MoveOBJ, Reschedule,
       ChangeOfConfig
  <2>2. changes \in 0 .. MaxChanges
    BY DEF Typed, HubTyped
  <2> QED
    BY <2>1, <2>2, ConfigAssumption DEF Change
<1>2. HubTyped'
  <2>1. ASSUME NEW d \in Disks, AddDisk(d) PROVE HubTyped'
    BY <2>1, <1>1 DEF AddDisk, Typed, HubTyped, On, Viewed
  <2>2. ASSUME NEW d \in Disks, LastUnpin(d) PROVE HubTyped'
    BY <2>2, <1>1 DEF LastUnpin, Typed, HubTyped, On, Viewed
  <2>3. ASSUME NEW d \in Disks, NEW pinned \in BOOLEAN, RemoveDisk(d, pinned) PROVE HubTyped'
    BY <2>3, <1>1 DEF RemoveDisk, Typed, HubTyped, On, Viewed
  <2>4. ASSUME NEW key \in OBJKeys, AddOBJ(key) \/ DeleteOBJ(key) PROVE HubTyped'
    BY <2>4, <1>1 DEF AddOBJ, DeleteOBJ, Typed, HubTyped, On, Viewed
  <2>5. ASSUME NEW key \in OBJKeys, NEW d \in Disks, MoveOBJ(key, d) PROVE HubTyped'
    BY <2>5, <1>1 DEF MoveOBJ, Typed, HubTyped, On, Viewed, DiskOf, OBJKeys
  <2>6. ASSUME NEW p \in Pools, Reschedule(p) PROVE HubTyped'
    BY <2>6, <1>1 DEF Reschedule, Typed, HubTyped, On, Viewed
  <2> QED
    BY <2>1, <2>2, <2>3, <2>4, <2>5, <2>6 DEF ViewChanges
<1>3. ChannelsTyped'
  <2>1. ASSUME NEW r \in Reports, reports' = Append(reports, r) PROVE ChannelsTyped'
    BY <1>0, <2>1, AppendTyped DEF Typed, ChannelsTyped
  <2>2. ASSUME NEW d \in Disks, ReportRemoval(d) PROVE ChannelsTyped'
    BY <2>1, <2>2, ConfigAssumption DEF ReportRemoval, Report, Reports
  <2>3. ASSUME NEW key \in OBJKeys, DeleteOBJ(key) PROVE ChannelsTyped'
    <3>1. CASE UNCHANGED reports
      BY <1>0, <3>1 DEF Typed, ChannelsTyped
    <3>2. CASE reports' = Append(reports, Report("OBJ", key))
      BY <2>1, <3>2 DEF Report, Reports
    <3> QED
      BY <2>3, <3>1, <3>2 DEF DeleteOBJ
  <2>4. CASE UNCHANGED reports
    BY <1>0, <2>4 DEF Typed, ChannelsTyped
  <2> QED
    BY <2>2, <2>3, <2>4 DEF ViewChanges, AddDisk, LastUnpin, RemoveDisk, AddOBJ, MoveOBJ,
       Reschedule
<1> QED
  BY <1>0, <1>2, <1>3, FramesTyped DEF Typed

LEMMA ServeTyped ==
    ASSUME Typed, Serve
    PROVE  Typed'
<1>0. UNCHANGED genVars /\ UNCHANGED <<reports, viewVars, changes>>
  BY DEF Serve, CollectConfigView, PrepareIO, CollectIO, PostIO, hubVars
<1>1. toHub' \in Seq(Requests)
  BY TailTyped DEF Serve, CollectConfigView, PrepareIO, CollectIO, PostIO, Requested, Typed,
     ChannelsTyped
<1>2. IsFiniteSet(hubOBJs) /\ IsFiniteSet(On(InvolvedDisks, hubOBJs))
  <2>1. hubOBJs \subseteq OBJKeys /\ On(InvolvedDisks, hubOBJs) \subseteq OBJKeys
    BY DEF Typed, HubTyped, On
  <2> QED
    BY <2>1, FS_Subset, ConfigAssumption
<1>3. HubTyped'
  <2>1. frozen' \in BOOLEAN
    BY DEF Serve, CollectConfigView, PrepareIO, CollectIO, PostIO, Typed, HubTyped, hubVars
  <2>2. toCollect' \in Nat
    BY <1>2, FS_CardinalityType DEF Serve, CollectConfigView, PrepareIO, CollectIO, PostIO, Typed,
       HubTyped, hubVars
  <2>3. collected' \in Nat
    BY <1>2, FS_CardinalityType, FS_EmptySet DEF Serve, CollectConfigView, PrepareIO, CollectIO,
       PostIO, Typed, HubTyped, hubVars
  <2> QED
    BY <1>0, <2>1, <2>2, <2>3 DEF Typed, HubTyped, viewVars, Viewed
<1>4. answers' \in Seq(Answers)
  <2>1. CASE CollectConfigView
    <3>1. ConfigAnswer(InvolvedDisks # {}, Involved, InvolvedDisks) \in Answers
      BY DEF ConfigAnswer, Answers, Involved, InvolvedDisks, Viewed, Typed, HubTyped
    <3> QED
      BY <2>1, <3>1, AppendTyped DEF CollectConfigView, Typed, ChannelsTyped
  <2>2. CASE CollectIO
    <3>1. ASSUME NEW keys \in SUBSET OBJKeys, NEW ok \in BOOLEAN, NEW more \in BOOLEAN
          PROVE  IOAnswer(ok, more, keys) \in Answers
      BY DEF IOAnswer, Answers
    <3>2. PICK keys : /\ keys \in {{}, On(InvolvedDisks, hubOBJs)}
                      /\ answers' = Append(answers,
                            IOAnswer(keys # {}, keys # {} /\ collected' < toCollect, keys))
      BY <2>2 DEF CollectIO
    <3>3. keys \subseteq OBJKeys
      BY <3>2 DEF On, Typed, HubTyped
    <3>4. IOAnswer(keys # {}, keys # {} /\ collected' < toCollect, keys) \in Answers
      BY <3>1, <3>3
    <3> QED
      BY <3>2, <3>4, AppendTyped DEF Typed, ChannelsTyped
  <2>3. CASE UNCHANGED answers
    BY <2>3 DEF Typed, ChannelsTyped
  <2> QED
    BY <2>1, <2>2, <2>3 DEF Serve, PrepareIO, PostIO
<1> QED
  BY <1>0, <1>1, <1>3, <1>4, FramesTyped DEF Typed, ChannelsTyped

\* The deleted sets grow by SubPools, disks and OBJs only.
LEMMA WithDeletedTyped ==
    ASSUME Typed, NEW ps \in SUBSET Pools, NEW ds \in SUBSET Disks, NEW keys \in SUBSET OBJKeys
    PROVE  WithDeleted(ps, ds, keys) \in Sets
<1>1. /\ deleted.pools \subseteq Pools /\ deleted.disks \subseteq Disks
      /\ deleted.objs \subseteq OBJKeys
  BY DEF Typed, FlagsTyped, Sets
<1>2. \A p : FirstOfTiers(p) \subseteq Disks
  BY DEF FirstOfTiers, In, Typed, TreeTyped
<1>3. \A S : On(S, cfgOBJs) \subseteq OBJKeys
  BY DEF On, Typed, TreeTyped
<1> QED
  BY <1>1, <1>2, <1>3 DEF WithDeleted, Sets

LEMMA SuspectsTyped ==
    ASSUME Typed, NEW sus \in Sets
    PROVE  RemoveUnConfirmedSuspect(sus) \in Sets
<1>1. sus.pools \subseteq Pools /\ sus.disks \subseteq Disks /\ sus.objs \subseteq OBJKeys
  BY DEF Sets
<1> QED
  BY <1>1, WithDeletedTyped DEF RemoveUnConfirmedSuspect

LEMMA ConfirmConfigTyped ==
    ASSUME Typed, NEW a \in Answers, ConfirmConfig(a)
    PROVE  TreeTyped' /\ suspicious' \in Sets
<1>1. a.pools \subseteq Pools /\ a.disks \subseteq Disks
  BY DEF Answers
<1>2. TreeTyped'
  BY <1>1 DEF ConfirmConfig, Typed, TreeTyped, ConfigIsATree, On
<1>3. suspicious' \in Sets
  BY DEF ConfirmConfig, Typed, FlagsTyped, Sets
<1> QED
  BY <1>2, <1>3

LEMMA ConfirmOBJsTyped ==
    ASSUME Typed, NEW keys \in SUBSET OBJKeys, ConfirmOBJs(keys)
    PROVE  TreeTyped' /\ suspicious' \in Sets
<1>1. TreeTyped'
  BY DEF ConfirmOBJs, Typed, TreeTyped, ConfigIsATree, On
<1>2. suspicious' \in Sets
  BY DEF ConfirmOBJs, Typed, FlagsTyped, Sets
<1> QED
  BY <1>1, <1>2

LEMMA ConsolidateTyped ==
    ASSUME Typed, Consolidate
    PROVE  TreeTyped' /\ FlagsTyped'
<1>1. TreeTyped'
  BY DEF Consolidate, Typed, TreeTyped, ConfigIsATree, On
<1>2. FlagsTyped'
  <2>1. deleted' \in Sets
    BY DEF Consolidate, Sets, NoSets
  <2>2. suspicious' \in Sets
    BY DEF Consolidate, Typed, FlagsTyped, Sets
  <2> QED
    BY <2>1, <2>2 DEF FlagsTyped
<1> QED
  BY <1>1, <1>2

\* The answer that a phase takes, and what is left.
LEMMA AnsweredTyped ==
    ASSUME Typed, NEW type, Answered(type)
    PROVE  /\ genStatus = "learning" /\ answers # <<>>
           /\ Head(answers) \in Answers /\ answers' \in Seq(Answers)
           /\ Head(answers).pools \subseteq Pools /\ Head(answers).disks \subseteq Disks
           /\ Head(answers).objs \subseteq OBJKeys
<1>1. answers # <<>> /\ Head(answers) \in Answers /\ answers' \in Seq(Answers)
  BY TailTyped DEF Answered, Typed, ChannelsTyped
<1> QED
  BY <1>1 DEF Answered, Answers

\* Requests that the generator sends keep their queue typed.
LEMMA SentTyped ==
    ASSUME Typed
    PROVE  /\ \A r \in Requests : Append(toHub, r) \in Seq(Requests)
           /\ toHub \o <<"prepare", "collect">> \in Seq(Requests)
<1>1. toHub \in Seq(Requests)
  BY DEF Typed, ChannelsTyped
<1>2. <<"prepare", "collect">> \in Seq(Requests)
  BY DEF Requests
<1> QED
  BY <1>1, <1>2, AppendTyped, ConcatProperties

LEMMA LearnTyped ==
    ASSUME Typed, Learn
    PROVE  Typed'
<1>0. HubTyped'
  BY FramesTyped DEF Learn, CollectConfig, ResolveConfig, ResolveIO, FailToResolveIO,
     ResolveDeleted, Advise, learnerFrame
<1>1. CASE CollectConfig
  <2>1. ChannelsTyped'
    BY <1>1, SentTyped DEF CollectConfig, Requests, Typed, ChannelsTyped
  <2>2. TreeTyped'
    BY <1>1, FramesTyped DEF CollectConfig
  <2>3. FlagsTyped'
    BY <1>1 DEF CollectConfig, Typed, TreeTyped, FlagsTyped, Sets
  <2>4. RoundTyped'
    <3>1. (cycle + 1) % AdviseEvery \in 0 .. AdviseEvery - 1
      BY ConfigAssumption DEF Typed, RoundTyped
    <3> QED
      BY <1>1, <3>1 DEF CollectConfig, Typed, RoundTyped
  <2> QED
    BY <1>0, <2>1, <2>2, <2>3, <2>4 DEF Typed
<1>2. CASE ResolveConfig
  <2>1. Answered("config")
    BY <1>2 DEF ResolveConfig
  <2>2. ChannelsTyped'
    BY <1>2, <2>1, AnsweredTyped, SentTyped DEF ResolveConfig, Typed, ChannelsTyped
  <2>3. TreeTyped' /\ suspicious' \in Sets
    <3>1. CASE ConfirmConfig(Head(answers))
      BY <2>1, <3>1, AnsweredTyped, ConfirmConfigTyped
    <3>2. CASE UNCHANGED <<configVars, suspicious>>
      BY <3>2, FramesTyped DEF Typed, FlagsTyped
    <3> QED
      BY <1>2, <3>1, <3>2 DEF ResolveConfig
  <2>4. FlagsTyped'
    BY <1>2, <2>3 DEF ResolveConfig, Typed, FlagsTyped
  <2>5. RoundTyped'
    BY <1>2, <2>1 DEF ResolveConfig, Typed, RoundTyped
  <2> QED
    BY <1>0, <2>2, <2>3, <2>4, <2>5 DEF Typed
<1>3. CASE ResolveIO
  <2>1. Answered("io")
    BY <1>3 DEF ResolveIO
  <2>2. ChannelsTyped'
    BY <1>3, <2>1, AnsweredTyped, SentTyped DEF ResolveIO, Requests, Typed, ChannelsTyped
  <2>3. TreeTyped' /\ suspicious' \in Sets
    <3>1. CASE ConfirmOBJs(Head(answers).objs)
      BY <2>1, <3>1, AnsweredTyped, ConfirmOBJsTyped
    <3>2. CASE UNCHANGED <<configVars, suspicious>>
      BY <3>2, FramesTyped DEF Typed, FlagsTyped
    <3> QED
      BY <1>3, <3>1, <3>2 DEF ResolveIO
  <2>4. deleted' \in Sets
    BY <1>3, <2>3, SuspectsTyped DEF ResolveIO, Typed, FlagsTyped
  <2>5. RoundTyped'
    BY <1>3, <2>1 DEF ResolveIO, Typed, RoundTyped
  <2> QED
    BY <1>0, <2>2, <2>3, <2>4, <2>5 DEF Typed, FlagsTyped
<1>4. CASE FailToResolveIO
  <2>1. Answered("io")
    BY <1>4 DEF FailToResolveIO
  <2>2. ChannelsTyped'
    BY <1>4, <2>1, AnsweredTyped, SentTyped DEF FailToResolveIO, Requests, Typed, ChannelsTyped
  <2>3. TreeTyped' /\ suspicious' \in Sets
    <3>1. PICK done \in SUBSET Head(answers).objs : ConfirmOBJs(done)
      BY <1>4 DEF FailToResolveIO
    <3> QED
      BY <2>1, <3>1, AnsweredTyped, ConfirmOBJsTyped
  <2>4. RoundTyped'
    <3>1. failures' \in 0 .. MaxFailures
      BY <1>4, ConfigAssumption DEF FailToResolveIO, Typed, RoundTyped
    <3> QED
      BY <1>4, <3>1 DEF FailToResolveIO, Typed, RoundTyped
  <2> QED
    BY <1>0, <1>4, <2>2, <2>3, <2>4 DEF FailToResolveIO, Typed, FlagsTyped
<1>5. CASE ResolveDeleted
  <2>1. Head(reports) \in Reports /\ reports' \in Seq(Reports)
    BY <1>5, TailTyped DEF ResolveDeleted, Typed, ChannelsTyped
  <2>2. deleted' \in Sets
    <3>1. CASE Head(reports).kind = "pool"
      <4>1. Head(reports).what \in Pools
        BY <2>1, <3>1 DEF Reports
      <4> QED
        BY <1>5, <3>1, <4>1, WithDeletedTyped
           DEF ResolveDeleted, DeletedSubPool, DeletedDisk, DeletedOBJ
    <3>2. CASE Head(reports).kind = "disk"
      <4>1. Head(reports).what \in Disks
        BY <2>1, <3>2 DEF Reports
      <4> QED
        BY <1>5, <3>2, <4>1, WithDeletedTyped
           DEF ResolveDeleted, DeletedSubPool, DeletedDisk, DeletedOBJ
    <3>3. CASE Head(reports).kind \notin {"pool", "disk"}
      <4>1. Head(reports).what \in OBJKeys
        BY <2>1, <3>3 DEF Reports
      <4> QED
        BY <1>5, <3>3, <4>1, WithDeletedTyped
           DEF ResolveDeleted, DeletedSubPool, DeletedDisk, DeletedOBJ
    <3> QED
      BY <3>1, <3>2, <3>3
  <2>3. TreeTyped' /\ RoundTyped' /\ suspicious' \in Sets
    BY <1>5, FramesTyped DEF ResolveDeleted, Typed, FlagsTyped
  <2> QED
    BY <1>0, <1>5, <2>1, <2>2, <2>3 DEF ResolveDeleted, Typed, ChannelsTyped, FlagsTyped
<1>6. CASE Advise
  <2>1. TreeTyped' /\ FlagsTyped'
    BY <1>6, ConsolidateTyped DEF Advise
  <2>2. ChannelsTyped'
    BY <1>6, FramesTyped DEF Advise
  <2>3. RoundTyped'
    BY <1>6 DEF Advise, Typed, RoundTyped
  <2> QED
    BY <1>0, <2>1, <2>2, <2>3 DEF Typed
<1> QED
  BY <1>1, <1>2, <1>3, <1>4, <1>5, <1>6 DEF Learn

\* What both know is well typed, and AST's part of it is a tree.
LEMMA AlwaysTyped == Spec => []Typed
<1>1. Typed /\ [Next]_vars => Typed'
  <2> SUFFICES ASSUME Typed, [Next]_vars PROVE Typed'
    OBVIOUS
  <2>1. CASE UNCHANGED vars
    <3>1. UNCHANGED <<hubVars, changes>> /\ UNCHANGED <<toHub, answers, reports>> /\ UNCHANGED genVars
      BY <2>1 DEF vars
    <3> QED
      BY <3>1, FramesTyped DEF Typed
  <2> QED
    BY <2>1, ChangesTyped, ServeTyped, LearnTyped DEF Next
<1> QED
  BY <1>1, InitTyped, PTL DEF Spec

\* The state of ConfigSync is well typed: OBJs that the HUB has are on disks
\* that it has, every report names something that exists somewhere.
THEOREM TypesHold == Spec => []TypeOK
  BY AlwaysTyped, TypedParts, PTL

\* OBJs have their disk, disks their SubPool and their id, whatever is added,
\* removed or consolidated in whatever order.
THEOREM TreeHolds == Spec => []ConfigIsATree
  BY AlwaysTyped, TypedParts, PTL

-----------------------------------------------------------------------------
(* The conversation of the two threads.                                    *)

\* A request that is sent while the end of the last collection is under way.
LEMMA ConfigAfterPost == Append(<<"post">>, "config") = <<"post", "config">>
<1>1. <<"post">> \in Seq(Requests) /\ <<"post", "config">> \in Seq(Requests)
  BY DEF Requests
<1>2. Len(<<"post">>) = 1 /\ Len(<<"post", "config">>) = 2
  OBVIOUS
<1>3. Append(<<"post">>, "config") \in Seq(Requests)
  BY <1>1, AppendTyped DEF Requests
<1>4. \A n \in 1 .. 2 : Append(<<"post">>, "config")[n] = <<"post", "config">>[n]
  <2>1. /\ Append(<<"post">>, "config")[1] = <<"post">>[1]
        /\ Append(<<"post">>, "config")[2] = "config"
    BY <1>1, <1>2, AppendProperties DEF Requests
  <2>2. /\ <<"post">>[1] = "post" /\ <<"post", "config">>[1] = "post"
        /\ <<"post", "config">>[2] = "config"
    OBVIOUS
  <2>3. \A n \in 1 .. 2 : n = 1 \/ n = 2
    OBVIOUS
  <2> QED
    BY <2>1, <2>2, <2>3
<1>5. Len(Append(<<"post">>, "config")) = 2
  BY <1>1, <1>2, AppendProperties DEF Requests
<1> QED
  BY <1>1, <1>2, <1>3, <1>4, <1>5, SeqEqual

LEMMA ConversationInductive ==
    /\ Init => Conversation
    /\ Typed /\ Conversation /\ [Next]_vars => Conversation'
<1>1. Init => Conversation
  BY DEF Init, Conversation
<1>2. ASSUME Typed, Conversation, [Next]_vars PROVE Conversation'
  <2>1. CASE UNCHANGED <<toHub, answers, genStatus>>
    BY <1>2, <2>1 DEF Conversation
  <2>2. CASE ViewChanges
    BY <2>1, <2>2 DEF ViewChanges, AddDisk, LastUnpin, RemoveDisk, AddOBJ, DeleteOBJ, MoveOBJ,
       Reschedule, genVars
  <2>3. CASE CollectConfigView
    <3>1. toHub = <<"config">> /\ answers = <<>> /\ genStatus = "learning"
      BY <1>2, <2>3 DEF Conversation, CollectConfigView, Requested
    <3>2. toHub' = <<>> /\ genStatus' = "learning"
      BY <2>3, <3>1 DEF CollectConfigView, Requested, genVars
    <3>3. Len(answers') = 1
      BY <2>3, <3>1 DEF CollectConfigView
    <3> QED
      BY <3>2, <3>3 DEF Conversation
  <2>4. CASE PrepareIO
    <3>1. toHub = <<"prepare", "collect">> /\ genStatus = "learning" /\ answers = <<>>
      BY <1>2, <2>4 DEF Conversation, PrepareIO, Requested
    <3>2. toHub' = <<"collect">> /\ genStatus' = "learning" /\ answers' = <<>>
      BY <2>4, <3>1 DEF PrepareIO, Requested, genVars
    <3> QED
      BY <3>2 DEF Conversation
  <2>5. CASE CollectIO
    <3>1. toHub = <<"collect">> /\ answers = <<>> /\ genStatus = "learning"
      BY <1>2, <2>5 DEF Conversation, CollectIO, Requested
    <3>2. toHub' = <<>> /\ genStatus' = "learning"
      BY <2>5, <3>1 DEF CollectIO, Requested, genVars
    <3>3. Len(answers') = 1
      BY <2>5, <3>1 DEF CollectIO
    <3> QED
      BY <3>2, <3>3 DEF Conversation
  <2>6. CASE PostIO
    <3>1. /\ toHub \in {<<"post">>, <<"post", "config">>}
          /\ answers = <<>>
      BY <1>2, <2>6 DEF Conversation, PostIO, Requested
    <3>2. toHub' = Tail(toHub) /\ answers' = <<>> /\ genStatus' = genStatus
      BY <2>6, <3>1 DEF PostIO, Requested, genVars
    <3>3. CASE toHub = <<"post">>
      <4>1. toHub' = <<>>
        BY <3>2, <3>3
      <4> QED
        BY <3>2, <4>1 DEF Conversation
    <3>4. CASE toHub = <<"post", "config">>
      <4>1. toHub' = <<"config">>
        BY <3>2, <3>4
      <4>2. genStatus = "learning"
        BY <1>2, <3>4 DEF Conversation
      <4> QED
        BY <3>2, <4>1, <4>2 DEF Conversation
    <3> QED
      BY <3>1, <3>3, <3>4
  <2>7. CASE CollectConfig
    <3>1. toHub \in {<<>>, <<"post">>} /\ answers = <<>>
      BY <1>2, <2>7 DEF Conversation, CollectConfig
    <3>2. toHub' \in {<<"config">>, <<"post", "config">>}
      <4>1. toHub' = Append(toHub, "config")
        BY <2>7 DEF CollectConfig
      <4>2. Append(<<>>, "config") = <<"config">>
        OBVIOUS
      <4> QED
        BY <3>1, <4>1, <4>2, ConfigAfterPost
    <3> QED
      BY <2>7, <3>1, <3>2 DEF Conversation, CollectConfig
  <2>8. ASSUME NEW type, Answered(type)
        PROVE  toHub = <<>> /\ answers' = <<>>
    BY <1>2, <2>8 DEF Answered, Conversation, Typed, ChannelsTyped
  <2>9. CASE ResolveConfig
    <3>1. toHub = <<>> /\ answers' = <<>>
      BY <2>8, <2>9 DEF ResolveConfig
    <3>2. CASE toHub' = toHub \o <<"prepare", "collect">> /\ UNCHANGED genStatus
      <4>1. toHub' = <<"prepare", "collect">>
        BY <3>1, <3>2
      <4> QED
        BY <2>9, <3>1, <3>2, <4>1 DEF Conversation, ResolveConfig, Answered
    <3>3. CASE genStatus' = "idle" /\ UNCHANGED toHub
      BY <3>1, <3>3 DEF Conversation
    <3> QED
      BY <2>9, <3>2, <3>3 DEF ResolveConfig
  <2>10. CASE ResolveIO \/ FailToResolveIO
    <3>1. toHub = <<>> /\ answers' = <<>> /\ genStatus = "learning"
      BY <2>8, <2>10 DEF ResolveIO, FailToResolveIO, Answered
    <3>2. \/ toHub' = <<"collect">> /\ genStatus' = genStatus
          \/ toHub' = <<"post">>
      BY <2>10, <3>1 DEF ResolveIO, FailToResolveIO
    <3> QED
      BY <3>1, <3>2 DEF Conversation
  <2>11. CASE ResolveDeleted
    BY <2>1, <2>11 DEF ResolveDeleted
  <2>12. CASE Advise
    BY <1>2, <2>12 DEF Advise, Conversation
  <2> QED
    BY <1>2, <2>1, <2>2, <2>3, <2>4, <2>5, <2>6, <2>7, <2>9, <2>10, <2>11, <2>12
       DEF Next, Serve, Learn, vars, genVars
<1> QED
  BY <1>1, <1>2

-----------------------------------------------------------------------------
(* What AST uses and the HUB has removed is reported.                      *)

LEMMA DelayedInductive ==
    /\ Init => DelayedArePinnable
    /\ Typed /\ DelayedArePinnable /\ [Next]_vars => DelayedArePinnable'
<1>1. Init => DelayedArePinnable
  BY DEF Init, DelayedArePinnable
<1>2. ASSUME Typed, DelayedArePinnable, [Next]_vars PROVE DelayedArePinnable'
  <2>1. CASE UNCHANGED hubDisks
    BY <1>2, <2>1 DEF DelayedArePinnable
  <2>2. CASE ViewChanges
    <3>1. ASSUME NEW d \in Disks, AddDisk(d) \/ LastUnpin(d) PROVE DelayedArePinnable'
      BY <1>2, <3>1 DEF AddDisk, LastUnpin, DelayedArePinnable, Typed, HubTyped
    <3>2. ASSUME NEW d \in Disks, NEW pinned \in BOOLEAN, RemoveDisk(d, pinned)
          PROVE  DelayedArePinnable'
      BY <1>2, <3>2 DEF RemoveDisk, DelayedArePinnable, Typed, HubTyped
    <3> QED
      BY <2>1, <2>2, <3>1, <3>2 DEF ViewChanges, AddOBJ, DeleteOBJ, MoveOBJ, Reschedule
  <2>3. CASE Serve \/ Learn
    BY <2>1, <2>3 DEF Serve, CollectConfigView, PrepareIO, CollectIO, PostIO, Learn, CollectConfig,
       ResolveConfig, ResolveIO, FailToResolveIO, ResolveDeleted, Advise, learnerFrame, hubVars,
       viewVars
  <2> QED
    BY <1>2, <2>1, <2>2, <2>3 DEF Next, vars, hubVars, viewVars
<1> QED
  BY <1>1, <1>2

\* A report that is there stays there when another one follows.
LEMMA StillReported ==
    ASSUME Typed, NEW d,
           reports' = reports \/ (\E r : reports' = Append(reports, r))
    PROVE  Reported(d) => Reported(d)'
<1>1. reports \in Seq(Reports)
  BY DEF Typed, ChannelsTyped
<1>2. \A n \in DOMAIN reports : n \in DOMAIN reports' /\ reports'[n] = reports[n]
  BY <1>1
<1> QED
  BY <1>2 DEF Reported

\* What a removal says of the disk.
LEMMA RemovalReported ==
    ASSUME Typed, NEW d \in Disks, ReportRemoval(d)
    PROVE  Reported(d)'
<1>1. PICK r \in {Report("disk", d), Report("pool", PoolOf[d])} : reports' = Append(reports, r)
  BY DEF ReportRemoval
<1>2. Len(reports) + 1 \in DOMAIN reports' /\ reports'[Len(reports) + 1] = r
  BY <1>1 DEF Typed, ChannelsTyped
<1> QED
  BY <1>1, <1>2 DEF Reported

ReportInv == Conversation /\ DelayedArePinnable /\ StaleOrLearntIsReported

\* A step after which AST has learnt no disk more, no disk that is not reported
\* has gone and no report was handled.
LEMMA NothingNew ==
    ASSUME Typed, StaleOrLearntIsReported,
           reports' = reports \/ (\E r : reports' = Append(reports, r)),
           \A d \in Disks \ Pinnable :
               Learnt(d)' /\ hubDisks'[d] = "none" => Reported(d)' \/ (Learnt(d) /\ hubDisks[d] = "none")
    PROVE  StaleOrLearntIsReported'
  BY StillReported DEF StaleOrLearntIsReported

LEMMA ChangesReported ==
    ASSUME Typed, ReportInv, ViewChanges
    PROVE  StaleOrLearntIsReported'
<1>1. UNCHANGED <<genVars, answers>>
  BY DEF ViewChanges, AddDisk, LastUnpin, RemoveDisk, AddOBJ, DeleteOBJ, MoveOBJ, Reschedule
<1>2. \A d \in Disks : Learnt(d)' <=> Learnt(d)
  BY <1>1 DEF Learnt, Usable, genVars, configVars
<1>3. reports' = reports \/ \E r : reports' = Append(reports, r)
  BY DEF ViewChanges, AddDisk, LastUnpin, RemoveDisk, ReportRemoval, AddOBJ, DeleteOBJ, MoveOBJ,
     Reschedule
<1>4. ASSUME NEW d \in Disks \ Pinnable, hubDisks'[d] = "none", hubDisks[d] # "none"
      PROVE  Reported(d)'
  <2>1. ASSUME NEW e \in Disks, AddDisk(e) PROVE FALSE
    BY <1>4, <2>1 DEF AddDisk, Typed, HubTyped
  <2>2. ASSUME NEW e \in Disks, LastUnpin(e) PROVE FALSE
    BY <1>4, <2>2 DEF LastUnpin, Typed, HubTyped, ReportInv, DelayedArePinnable
  <2>3. ASSUME NEW e \in Disks, NEW pinned \in BOOLEAN, RemoveDisk(e, pinned) PROVE Reported(d)'
    <3>1. e = d
      BY <1>4, <2>3 DEF RemoveDisk, Typed, HubTyped
    <3> QED
      BY <2>3, <3>1, RemovalReported DEF RemoveDisk
  <2> QED
    BY <1>4, <2>1, <2>2, <2>3 DEF ViewChanges, AddOBJ, DeleteOBJ, MoveOBJ, Reschedule
<1> QED
  BY <1>2, <1>3, <1>4, NothingNew DEF ReportInv

LEMMA ServeReported ==
    ASSUME Typed, ReportInv, Serve
    PROVE  StaleOrLearntIsReported'
<1>1. UNCHANGED <<genVars, hubDisks, reports>>
  BY DEF Serve, CollectConfigView, PrepareIO, CollectIO, PostIO, hubVars, viewVars
<1>2. ASSUME NEW d \in Disks \ Pinnable, Learnt(d)', hubDisks'[d] = "none" PROVE Learnt(d)
  <2>1. CASE Usable(d)'
    BY <1>1, <2>1 DEF Usable, Learnt, genVars, configVars
  <2>2. CASE answers' # <<>> /\ d \in Head(answers').disks
    <3>1. CASE CollectConfigView
      <4>1. answers = <<>>
        BY <3>1 DEF ReportInv, Conversation, CollectConfigView, Requested
      <4>2. Head(answers') = ConfigAnswer(InvolvedDisks # {}, Involved, InvolvedDisks)
        BY <3>1, <4>1 DEF CollectConfigView
      <4>3. d \in InvolvedDisks
        BY <2>2, <4>2 DEF ConfigAnswer
      <4> QED
        BY <1>1, <1>2, <4>3 DEF InvolvedDisks, Viewed
    <3>2. CASE CollectIO
      <4>1. answers = <<>>
        BY <3>2 DEF ReportInv, Conversation, CollectIO, Requested
      <4>2. Head(answers').disks = {}
        BY <3>2, <4>1 DEF CollectIO, IOAnswer
      <4> QED
        BY <2>2, <4>2
    <3>3. CASE UNCHANGED answers
      BY <2>2, <3>3 DEF Learnt
    <3> QED
      BY <3>1, <3>2, <3>3 DEF Serve, PrepareIO, PostIO
  <2> QED
    BY <1>2, <2>1, <2>2 DEF Learnt
<1> QED
  BY <1>1, <1>2, NothingNew DEF ReportInv

\* The deleted sets only grow until they are consolidated.
LEMMA WithDeletedGrows ==
    ASSUME NEW ps, NEW ds, NEW keys
    PROVE  /\ deleted.pools \cup ps \subseteq WithDeleted(ps, ds, keys).pools
           /\ deleted.disks \cup ds \subseteq WithDeleted(ps, ds, keys).disks
           /\ deleted.objs \cup keys \subseteq WithDeleted(ps, ds, keys).objs
  BY DEF WithDeleted

\* A step after which AST uses no disk more.
LEMMA NoneMoreUsed ==
    ASSUME Typed, ReportInv, UNCHANGED <<hubVars, reports>>, answers' = <<>>,
           \A d \in Disks : Usable(d)' => Learnt(d)
    PROVE  StaleOrLearntIsReported'
<1>1. \A d \in Disks : Learnt(d)' => Learnt(d)
  BY DEF Learnt
<1> QED
  BY <1>1, NothingNew DEF ReportInv, hubVars, viewVars

LEMMA LearnReported ==
    ASSUME Typed, ReportInv, Learn
    PROVE  StaleOrLearntIsReported'
<1>0. UNCHANGED hubVars
  BY DEF Learn, CollectConfig, ResolveConfig, ResolveIO, FailToResolveIO, ResolveDeleted, Advise,
     learnerFrame
<1>1. ASSUME NEW type, Answered(type) PROVE answers' = <<>>
  BY <1>1 DEF Answered, ReportInv, Conversation, Typed, ChannelsTyped
<1>2. CASE CollectConfig
  <2>1. answers' = <<>>
    BY <1>2 DEF CollectConfig, ReportInv, Conversation
  <2>2. \A d \in Disks : Usable(d)' => Usable(d)
    BY <1>2 DEF CollectConfig, Usable, configVars
  <2> QED
    BY <1>0, <1>2, <2>1, <2>2, NoneMoreUsed DEF CollectConfig, Learnt
<1>3. CASE ResolveConfig
  <2>1. answers' = <<>> /\ answers # <<>>
    BY <1>1, <1>3 DEF ResolveConfig, Answered
  <2>2. CASE ConfirmConfig(Head(answers))
    <3>1. \A d \in Disks : Usable(d)' => Learnt(d)
      BY <1>3, <2>1, <2>2 DEF ResolveConfig, ConfirmConfig, Usable, Learnt, Typed, TreeTyped, ConfigIsATree
    <3> QED
      BY <1>0, <1>3, <2>1, <3>1, NoneMoreUsed DEF ResolveConfig
  <2>3. CASE UNCHANGED configVars
    <3>1. \A d \in Disks : Usable(d)' => Learnt(d)
      BY <1>3, <2>3 DEF ResolveConfig, Usable, Learnt, configVars
    <3> QED
      BY <1>0, <1>3, <2>1, <3>1, NoneMoreUsed DEF ResolveConfig
  <2> QED
    BY <1>3, <2>2, <2>3 DEF ResolveConfig
<1>4. CASE ResolveIO \/ FailToResolveIO
  <2>1. answers' = <<>>
    BY <1>1, <1>4 DEF ResolveIO, FailToResolveIO
  <2>2. UNCHANGED <<cfgPools, cfgDisks>>
    BY <1>4 DEF ResolveIO, FailToResolveIO, ConfirmOBJs, configVars
  <2>3. deleted.pools \subseteq deleted'.pools /\ deleted.disks \subseteq deleted'.disks
    BY <1>4, WithDeletedGrows DEF ResolveIO, FailToResolveIO, RemoveUnConfirmedSuspect
  <2>4. \A d \in Disks : Usable(d)' => Learnt(d)
    BY <2>2, <2>3 DEF Usable, Learnt
  <2> QED
    BY <1>0, <1>4, <2>1, <2>4, NoneMoreUsed DEF ResolveIO, FailToResolveIO
<1>5. CASE ResolveDeleted
  <2>1. answers = <<>> /\ answers' = <<>>
    BY <1>5 DEF ResolveDeleted, ReportInv, Conversation
  <2>2. reports \in Seq(Reports) /\ reports # <<>> /\ reports' = Tail(reports)
    BY <1>5 DEF ResolveDeleted, Typed, ChannelsTyped
  <2>3. ASSUME NEW d \in Disks \ Pinnable, Usable(d)', hubDisks'[d] = "none" PROVE Reported(d)'
    <3>1. /\ UNCHANGED <<cfgPools, cfgDisks>>
          /\ deleted.pools \subseteq deleted'.pools /\ deleted.disks \subseteq deleted'.disks
      BY <1>5, WithDeletedGrows
         DEF ResolveDeleted, DeletedSubPool, DeletedDisk, DeletedOBJ, configVars
    <3>2. Usable(d)
      BY <2>3, <3>1 DEF Usable
    <3>3. PICK n \in DOMAIN reports :
              reports[n] \in {Report("disk", d), Report("pool", PoolOf[d])}
      BY <1>0, <2>3, <3>2 DEF ReportInv, StaleOrLearntIsReported, Reported, Learnt, hubVars, viewVars
    <3>4. n # 1
      <4> SUFFICES ASSUME n = 1 PROVE FALSE
        OBVIOUS
      <4>1. Head(reports) = reports[n]
        BY <2>2
      <4>2. CASE reports[n] = Report("disk", d)
        <5>1. Head(reports).kind = "disk" /\ Head(reports).what = d
          BY <4>1, <4>2 DEF Report
        <5>2. deleted' = WithDeleted({}, {d}, {})
          BY <1>5, <5>1
             DEF ResolveDeleted, DeletedSubPool, DeletedDisk, DeletedOBJ
        <5> QED
          BY <2>3, <5>2, WithDeletedGrows DEF Usable
      <4>3. CASE reports[n] = Report("pool", PoolOf[d])
        <5>1. Head(reports).kind = "pool" /\ Head(reports).what = PoolOf[d]
          BY <4>1, <4>3 DEF Report
        <5>2. deleted' = WithDeleted({PoolOf[d]}, {}, {})
          BY <1>5, <5>1
             DEF ResolveDeleted, DeletedSubPool, DeletedDisk, DeletedOBJ
        <5> QED
          BY <2>3, <5>2, WithDeletedGrows DEF Usable
      <4> QED
        BY <3>3, <4>2, <4>3
    <3>5. n - 1 \in DOMAIN reports' /\ reports'[n - 1] = reports[n]
      BY <2>2, <3>4
    <3> QED
      BY <3>3, <3>5 DEF Reported
  <2> QED
    BY <2>1, <2>3 DEF StaleOrLearntIsReported, Learnt
<1>6. CASE Advise
  <2>1. answers' = <<>>
    BY <1>6 DEF Advise, ReportInv, Conversation
  <2>2. \A d \in Disks : Usable(d)' => Usable(d)
    BY <1>6 DEF Advise, Consolidate, Usable, Typed, TreeTyped, ConfigIsATree
  <2> QED
    BY <1>0, <1>6, <2>1, <2>2, NoneMoreUsed DEF Advise, Learnt
<1> QED
  BY <1>2, <1>3, <1>4, <1>5, <1>6 DEF Learn

LEMMA AlwaysReportInv == Spec => []ReportInv
<1>1. Init => ReportInv
  <2>1. Init => StaleOrLearntIsReported
    BY DEF Init, StaleOrLearntIsReported, Learnt, Usable
  <2> QED
    BY <2>1, ConversationInductive, DelayedInductive DEF ReportInv
<1>2. Typed /\ ReportInv /\ [Next]_vars => ReportInv'
  <2> SUFFICES ASSUME Typed, ReportInv, [Next]_vars PROVE StaleOrLearntIsReported'
    BY ConversationInductive, DelayedInductive DEF ReportInv
  <2>1. CASE UNCHANGED vars
    BY <2>1 DEF vars, genVars, configVars, hubVars, viewVars, ReportInv, StaleOrLearntIsReported,
       Learnt, Usable, Reported
  <2> QED
    BY <2>1, ChangesReported, ServeReported, LearnReported DEF Next
<1> QED
  BY <1>1, <1>2, AlwaysTyped, PTL DEF Spec

\* A disk that the HUB has removed is used by AST only while the report of the
\* removal is under way, however changes, answers and reports interleave.
THEOREM ReportsHold == Spec => []StaleIsReported
<1>1. ReportInv => StaleIsReported
  BY DEF ReportInv, StaleOrLearntIsReported, StaleIsReported, Learnt, Reported
<1> QED
  BY <1>1, AlwaysReportInv, PTL

-----------------------------------------------------------------------------
(* An advice is given on what was confirmed.                               *)

LEMMA SuspectsInductive ==
    /\ Init => SuspectsAreDeleted
    /\ Typed /\ SuspectsAreDeleted /\ [Next]_vars => SuspectsAreDeleted'
<1>1. Init => SuspectsAreDeleted
  BY DEF Init, SuspectsAreDeleted
<1>2. ASSUME Typed, SuspectsAreDeleted, [Next]_vars PROVE SuspectsAreDeleted'
  <2>1. CASE UNCHANGED <<suspicious, deleted, genStatus>>
    BY <1>2, <2>1 DEF SuspectsAreDeleted
  <2>2. CASE ViewChanges \/ Serve
    BY <2>1, <2>2 DEF ViewChanges, AddDisk, LastUnpin, RemoveDisk, AddOBJ, DeleteOBJ, MoveOBJ,
       Reschedule, Serve, CollectConfigView, PrepareIO, CollectIO, PostIO, genVars
  <2>3. CASE CollectConfig \/ ResolveConfig \/ FailToResolveIO \/ ResolveDeleted \/ Advise
    <3>1. genStatus' # "advising"
      BY <2>3 DEF CollectConfig, ResolveConfig, FailToResolveIO, ResolveDeleted, Advise, Answered
    <3> QED
      BY <3>1 DEF SuspectsAreDeleted
  <2>4. CASE ResolveIO
    <3>1. CASE deleted' = RemoveUnConfirmedSuspect(suspicious')
      BY <3>1, WithDeletedGrows DEF RemoveUnConfirmedSuspect, SuspectsAreDeleted
    <3>2. CASE genStatus' = genStatus
      BY <2>4, <3>2 DEF ResolveIO, Answered, SuspectsAreDeleted
    <3> QED
      BY <2>4, <3>1, <3>2 DEF ResolveIO
  <2> QED
    BY <1>2, <2>1, <2>2, <2>3, <2>4 DEF Next, Learn, vars, genVars
<1> QED
  BY <1>1, <1>2

\* What is suspicious is gone when the advice is given: nothing that the round
\* did not confirm, and nothing that was deleted, is advised on.
THEOREM AdviceHolds == Spec => AdviceIsConfirmed
<1>1. Typed /\ SuspectsAreDeleted /\ [Next]_vars => [Advise => suspicious' = NoSets]_vars
  <2> SUFFICES ASSUME Typed, SuspectsAreDeleted, Advise PROVE suspicious' = NoSets
    OBVIOUS
  <2>1. genStatus = "advising" /\ Consolidate
    BY DEF Advise
  <2>2. suspicious.pools \cap cfgPools' = {}
    BY <2>1 DEF SuspectsAreDeleted, Consolidate
  <2>3. suspicious.disks \cap cfgDisks' = {}
    BY <2>1 DEF SuspectsAreDeleted, Consolidate
  <2>4. suspicious.objs \cap cfgOBJs' = {}
    BY <2>1 DEF SuspectsAreDeleted, Consolidate
  <2> QED
    BY <2>1, <2>2, <2>3, <2>4 DEF Consolidate, NoSets
<1> QED
  BY <1>1, AlwaysTyped, SuspectsInductive, PTL DEF Spec, AdviceIsConfirmed

-----------------------------------------------------------------------------
(* What the HUB keeps AST does not forget.                                 *)

\* The HUB has it and AST is to learn it.
KeptIsThere ==
    /\ Kept \subseteq hubOBJs
    /\ \A d \in KeptDisks : hubDisks[d] = "present"
    /\ KeptPools \subseteq scheduled

AboutKept ==
    {Report("pool", p) : p \in KeptPools} \cup {Report("disk", d) : d \in KeptDisks}
    \cup {Report("OBJ", k) : k \in Kept}

\* No report and no deletion is about it.
KeptIsNotDeleted ==
    /\ \A n \in DOMAIN reports : reports[n] \notin AboutKept
    /\ deleted.pools \cap KeptPools = {} /\ deleted.disks \cap KeptDisks = {}
    /\ deleted.objs \cap Kept = {}

\* After the configuration was resolved, until the next round.
ConfigResolved ==
    \/ toHub \in {<<"prepare", "collect">>, <<"collect">>}
    \/ answers # <<>> /\ Head(answers).type = "io"

\* Answers that say they are complete have it, and clear it of suspicion.
KeptIsConfirmed ==
    /\ answers # <<>> /\ Head(answers).ok =>
          /\ Head(answers).type = "config" =>
                KeptPools \subseteq Head(answers).pools /\ KeptDisks \subseteq Head(answers).disks
          /\ Head(answers).type = "io" => Kept \subseteq Head(answers).objs
    /\ ConfigResolved =>
          suspicious.pools \cap KeptPools = {} /\ suspicious.disks \cap KeptDisks = {}

KeptInv == KeptIsThere /\ KeptIsNotDeleted /\ KeptIsConfirmed

LEMMA KeptDisksArePools ==
    /\ \A k \in Kept : DiskOf(k) \in KeptDisks
    /\ \A d \in KeptDisks : PoolOf[d] \in KeptPools
    /\ KeptDisks \subseteq Disks /\ Kept \subseteq OBJKeys
  BY ConfigAssumption DEF KeptDisks, KeptPools, DiskOf, OBJKeys

LEMMA KeptThere ==
    /\ Init => KeptIsThere
    /\ Typed /\ KeptIsThere /\ [Next]_vars => KeptIsThere'
<1>1. Init => KeptIsThere
  BY ConfigAssumption, KeptDisksArePools DEF Init, KeptIsThere, KeptDisks, KeptPools, DiskOf
<1>2. ASSUME Typed, KeptIsThere, [Next]_vars PROVE KeptIsThere'
  <2>1. CASE UNCHANGED viewVars
    BY <1>2, <2>1 DEF KeptIsThere, viewVars
  <2>2. ASSUME NEW d \in Disks, AddDisk(d) \/ LastUnpin(d) PROVE KeptIsThere'
    BY <1>2, <2>2, KeptDisksArePools DEF AddDisk, LastUnpin, KeptIsThere, Typed, HubTyped, On
  <2>3. ASSUME NEW d \in Disks, NEW pinned \in BOOLEAN, RemoveDisk(d, pinned) PROVE KeptIsThere'
    BY <1>2, <2>3, KeptDisksArePools DEF RemoveDisk, KeptIsThere, Typed, HubTyped, On
  <2>4. ASSUME NEW key \in OBJKeys, AddOBJ(key) \/ DeleteOBJ(key) PROVE KeptIsThere'
    BY <1>2, <2>4 DEF AddOBJ, DeleteOBJ, KeptIsThere
  <2>5. ASSUME NEW key \in OBJKeys, NEW d \in Disks, MoveOBJ(key, d) PROVE KeptIsThere'
    BY <1>2, <2>5 DEF MoveOBJ, KeptIsThere
  <2>6. ASSUME NEW p \in Pools, Reschedule(p) PROVE KeptIsThere'
    BY <1>2, <2>6 DEF Reschedule, KeptIsThere
  <2>7. CASE Serve \/ Learn
    BY <2>1, <2>7 DEF Serve, CollectConfigView, PrepareIO, CollectIO, PostIO, Learn, CollectConfig,
       ResolveConfig, ResolveIO, FailToResolveIO, ResolveDeleted, Advise, learnerFrame, hubVars
  <2> QED
    BY <1>2, <2>1, <2>2, <2>3, <2>4, <2>5, <2>6, <2>7 DEF Next, ViewChanges, vars, hubVars
<1> QED
  BY <1>1, <1>2

\* Deleting what is not kept deletes nothing that is.
LEMMA WithDeletedKeeps ==
    ASSUME Typed, KeptIsNotDeleted, NEW ps, NEW ds, NEW keys,
           ps \cap KeptPools = {}, ds \cap KeptDisks = {}, keys \cap Kept = {}
    PROVE  /\ WithDeleted(ps, ds, keys).pools \cap KeptPools = {}
           /\ WithDeleted(ps, ds, keys).disks \cap KeptDisks = {}
           /\ WithDeleted(ps, ds, keys).objs \cap Kept = {}
<1>1. \A p \in ps : FirstOfTiers(p) \cap KeptDisks = {}
  BY KeptDisksArePools DEF FirstOfTiers, In
<1>2. On(ds \cup {d \in cfgDisks : PoolOf[d] \in ps}, cfgOBJs) \cap Kept = {}
  BY KeptDisksArePools DEF On
<1> QED
  BY <1>1, <1>2 DEF WithDeleted, KeptIsNotDeleted

LEMMA SuspectsKeep ==
    ASSUME Typed, KeptIsNotDeleted, NEW sus,
           sus.pools \cap KeptPools = {}, sus.disks \cap KeptDisks = {}, sus.objs \cap Kept = {}
    PROVE  /\ RemoveUnConfirmedSuspect(sus).pools \cap KeptPools = {}
           /\ RemoveUnConfirmedSuspect(sus).disks \cap KeptDisks = {}
           /\ RemoveUnConfirmedSuspect(sus).objs \cap Kept = {}
<1>1. {d \in sus.disks : PoolOf[d] \notin sus.pools} \cap KeptDisks = {}
  OBVIOUS
<1>2. {k \in sus.objs : /\ DiskOf(k) \notin sus.disks
                        /\ PoolOf[DiskOf(k)] \notin sus.pools} \cap Kept = {}
  OBVIOUS
<1> QED
  BY <1>1, <1>2, WithDeletedKeeps DEF RemoveUnConfirmedSuspect

\* Reports: those that are there, and a new one about something that is not kept.
LEMMA ChangesKeep ==
    ASSUME Typed, KeptInv, ViewChanges
    PROVE  KeptIsNotDeleted' /\ KeptIsConfirmed'
<1>0. UNCHANGED <<genVars, toHub, answers>>
  BY DEF ViewChanges, AddDisk, LastUnpin, RemoveDisk, AddOBJ, DeleteOBJ, MoveOBJ, Reschedule
<1>1. KeptIsConfirmed'
  BY <1>0 DEF KeptInv, KeptIsConfirmed, ConfigResolved, genVars
<1>2. \/ UNCHANGED reports
      \/ \E r : r \notin AboutKept /\ reports' = Append(reports, r)
  <2>1. ASSUME NEW d \in Disks, NEW pinned \in BOOLEAN, RemoveDisk(d, pinned)
        PROVE  \E r : r \notin AboutKept /\ reports' = Append(reports, r)
    <3>1. Report("disk", d) \notin AboutKept
      BY <2>1 DEF RemoveDisk, AboutKept, Report
    <3>2. CASE \A e \in In(PoolOf[d], Disks) : hubDisks'[e] # "present"
      <4>1. PoolOf[d] \notin KeptPools
        <5> SUFFICES ASSUME PoolOf[d] \in KeptPools PROVE FALSE
          OBVIOUS
        <5>1. PICK e \in KeptDisks : PoolOf[e] = PoolOf[d]
          BY DEF KeptPools
        <5>2. e # d /\ hubDisks[e] = "present"
          BY <2>1, <5>1 DEF RemoveDisk, KeptInv, KeptIsThere
        <5>3. hubDisks'[e] = "present" /\ e \in In(PoolOf[d], Disks)
          BY <2>1, <5>1, <5>2, KeptDisksArePools DEF RemoveDisk, In, Typed, HubTyped
        <5> QED
          BY <3>2, <5>3
      <4>2. Report("pool", PoolOf[d]) \notin AboutKept
        BY <4>1 DEF AboutKept, Report
      <4> QED
        BY <2>1, <3>2, <4>2 DEF RemoveDisk, ReportRemoval
    <3> QED
      BY <2>1, <3>1, <3>2 DEF RemoveDisk, ReportRemoval
  <2>2. ASSUME NEW key \in OBJKeys, DeleteOBJ(key)
        PROVE  \/ UNCHANGED reports
               \/ \E r : r \notin AboutKept /\ reports' = Append(reports, r)
    <3>1. Report("OBJ", key) \notin AboutKept
      BY <2>2 DEF DeleteOBJ, AboutKept, Report
    <3> QED
      BY <2>2, <3>1 DEF DeleteOBJ
  <2> QED
    BY <2>1, <2>2 DEF ViewChanges, AddDisk, LastUnpin, AddOBJ, MoveOBJ, Reschedule
<1>3. \A n \in DOMAIN reports' : reports'[n] \notin AboutKept
  <2>1. reports \in Seq(Reports)
    BY DEF Typed, ChannelsTyped
  <2>2. CASE UNCHANGED reports
    BY <2>2 DEF KeptInv, KeptIsNotDeleted
  <2>3. ASSUME NEW r, r \notin AboutKept, reports' = Append(reports, r)
        PROVE  \A n \in DOMAIN reports' : reports'[n] \notin AboutKept
    BY <2>1, <2>3 DEF KeptInv, KeptIsNotDeleted
  <2> QED
    BY <1>2, <2>2, <2>3
<1>4. AboutKept' = AboutKept /\ UNCHANGED deleted
  BY <1>0 DEF AboutKept, KeptDisks, KeptPools, genVars
<1> QED
  BY <1>1, <1>3, <1>4 DEF KeptInv, KeptIsNotDeleted

LEMMA ServeKeeps ==
    ASSUME Typed, Conversation, KeptInv, Serve
    PROVE  KeptIsNotDeleted' /\ KeptIsConfirmed'
<1>0. UNCHANGED <<genVars, reports>>
  BY DEF Serve, CollectConfigView, PrepareIO, CollectIO, PostIO
<1>1. KeptIsNotDeleted'
  BY <1>0 DEF KeptInv, KeptIsNotDeleted, AboutKept, genVars
<1>2. KeptPools \subseteq Involved /\ KeptDisks \subseteq InvolvedDisks
  BY KeptDisksArePools DEF KeptInv, KeptIsThere, Involved, InvolvedDisks, Viewed, In, KeptPools
<1>3. CASE CollectConfigView
  <2>1. answers = <<>> /\ toHub' = <<>>
    BY <1>3 DEF Conversation, CollectConfigView, Requested
  <2>2. Head(answers') = ConfigAnswer(InvolvedDisks # {}, Involved, InvolvedDisks)
    BY <1>3, <2>1 DEF CollectConfigView
  <2>3. ~ConfigResolved'
    BY <2>1, <2>2 DEF ConfigResolved, ConfigAnswer
  <2> QED
    BY <1>1, <1>2, <2>2, <2>3 DEF KeptIsConfirmed, ConfigAnswer
<1>4. CASE PrepareIO
  <2>1. toHub = <<"prepare", "collect">> /\ answers = <<>> /\ answers' = <<>>
    BY <1>4 DEF Conversation, PrepareIO, Requested
  <2> QED
    BY <1>0, <1>1, <2>1 DEF KeptInv, KeptIsConfirmed, ConfigResolved, genVars
<1>5. CASE CollectIO
  <2>1. toHub = <<"collect">> /\ answers = <<>>
    BY <1>5 DEF Conversation, CollectIO, Requested
  <2>2. PICK keys : /\ keys \in {{}, On(InvolvedDisks, hubOBJs)}
                    /\ answers' = Append(answers,
                          IOAnswer(keys # {}, keys # {} /\ collected' < toCollect, keys))
    BY <1>5 DEF CollectIO
  <2>3. Head(answers') = IOAnswer(keys # {}, keys # {} /\ collected' < toCollect, keys)
    BY <2>1, <2>2
  <2>4. keys # {} => Kept \subseteq keys
    BY <1>2, <2>2, KeptDisksArePools DEF On, KeptInv, KeptIsThere
  <2>5. suspicious'.pools \cap KeptPools = {} /\ suspicious'.disks \cap KeptDisks = {}
    BY <1>0, <2>1 DEF KeptInv, KeptIsConfirmed, ConfigResolved, genVars
  <2>6. /\ Head(answers').ok = (keys # {}) /\ Head(answers').type = "io"
        /\ Head(answers').objs = keys
    BY <2>3 DEF IOAnswer
  <2>7. UNCHANGED <<KeptPools, KeptDisks>>
    BY DEF KeptPools, KeptDisks
  <2> QED
    BY <1>1, <2>4, <2>5, <2>6, <2>7 DEF KeptIsConfirmed
<1>6. CASE PostIO
  <2>1. toHub \in {<<"post">>, <<"post", "config">>} /\ answers' = <<>>
    BY <1>6 DEF Conversation, PostIO, Requested
  <2>2. toHub' = Tail(toHub)
    BY <1>6 DEF PostIO, Requested
  <2>3. toHub' \in {<<>>, <<"config">>}
    <3>1. Tail(<<"post">>) = <<>> /\ Tail(<<"post", "config">>) = <<"config">>
      OBVIOUS
    <3> QED
      BY <2>1, <2>2, <3>1
  <2>4. ~ConfigResolved'
    BY <2>1, <2>3 DEF ConfigResolved
  <2> QED
    BY <1>1, <2>1, <2>4 DEF KeptIsConfirmed
<1> QED
  BY <1>3, <1>4, <1>5, <1>6 DEF Serve

LEMMA LearnKeeps ==
    ASSUME Typed, Conversation, KeptInv, Learn
    PROVE  KeptIsNotDeleted' /\ KeptIsConfirmed'
<1>0. UNCHANGED AboutKept
  BY DEF AboutKept, KeptDisks, KeptPools
<1>1. ASSUME NEW type, Answered(type)
      PROVE  /\ genStatus = "learning" /\ answers # <<>> /\ Head(answers).type = type
             /\ answers' = <<>> /\ toHub = <<>>
  BY <1>1 DEF Answered, Conversation, Typed, ChannelsTyped
<1>2. CASE CollectConfig
  <2>1. answers' = <<>> /\ toHub' = Append(toHub, "config") /\ toHub \in {<<>>, <<"post">>}
    BY <1>2 DEF CollectConfig, Conversation
  <2>2. toHub' \in {<<"config">>, <<"post", "config">>}
    <3>1. Append(<<>>, "config") = <<"config">>
      OBVIOUS
    <3> QED
      BY <2>1, <3>1, ConfigAfterPost
  <2>3. KeptIsConfirmed'
    BY <2>1, <2>2 DEF KeptIsConfirmed, ConfigResolved
  <2> QED
    BY <1>0, <1>2, <2>3 DEF CollectConfig, KeptInv, KeptIsNotDeleted
<1>3. CASE ResolveConfig
  <2>1. answers' = <<>> /\ answers # <<>> /\ Head(answers).type = "config" /\ toHub = <<>>
    BY <1>1, <1>3 DEF ResolveConfig
  <2>2. KeptIsConfirmed'
    <3>1. CASE Head(answers).ok
      <4>1. KeptPools \subseteq Head(answers).pools /\ KeptDisks \subseteq Head(answers).disks
        BY <2>1, <3>1 DEF KeptInv, KeptIsConfirmed
      <4>2. suspicious'.pools = suspicious.pools \ Head(answers).pools
        BY <1>3, <3>1 DEF ResolveConfig, ConfirmConfig, Typed, FlagsTyped, Sets
      <4>3. suspicious'.disks =
                suspicious.disks \ {d \in Head(answers).disks : PoolOf[d] \in Head(answers).pools}
        BY <1>3, <3>1 DEF ResolveConfig, ConfirmConfig, Typed, FlagsTyped, Sets
      <4> QED
        BY <2>1, <4>1, <4>2, <4>3, KeptDisksArePools DEF KeptIsConfirmed
    <3>2. CASE ~Head(answers).ok
      BY <1>3, <2>1, <3>2 DEF ResolveConfig, KeptIsConfirmed, ConfigResolved
    <3> QED
      BY <3>1, <3>2
  <2> QED
    BY <1>0, <1>3, <2>2 DEF ResolveConfig, KeptInv, KeptIsNotDeleted
<1>4. CASE ResolveIO
  <2>1. /\ answers' = <<>> /\ answers # <<>> /\ Head(answers).type = "io" /\ toHub = <<>>
        /\ ConfigResolved
    BY <1>1, <1>4 DEF ResolveIO, ConfigResolved
  <2>2. suspicious.pools \cap KeptPools = {} /\ suspicious.disks \cap KeptDisks = {}
    BY <2>1 DEF KeptInv, KeptIsConfirmed
  <2>3. /\ suspicious'.pools = suspicious.pools /\ suspicious'.disks = suspicious.disks
        /\ Head(answers).ok => suspicious'.objs = suspicious.objs \ Head(answers).objs
    BY <1>4 DEF ResolveIO, ConfirmOBJs, Typed, FlagsTyped, Sets
  <2>4. KeptIsConfirmed'
    BY <2>1, <2>2, <2>3 DEF KeptIsConfirmed
  <2>5. CASE UNCHANGED deleted
    BY <1>0, <1>4, <2>4, <2>5 DEF ResolveIO, KeptInv, KeptIsNotDeleted
  <2>6. CASE Head(answers).ok /\ deleted' = RemoveUnConfirmedSuspect(suspicious')
    <3>1. Kept \subseteq Head(answers).objs
      BY <2>1, <2>6 DEF KeptInv, KeptIsConfirmed
    <3>2. /\ deleted'.pools \cap KeptPools = {} /\ deleted'.disks \cap KeptDisks = {}
          /\ deleted'.objs \cap Kept = {}
      BY <2>2, <2>3, <2>6, <3>1, SuspectsKeep DEF KeptInv
    <3> QED
      BY <1>0, <1>4, <2>4, <3>2 DEF ResolveIO, KeptInv, KeptIsNotDeleted
  <2> QED
    BY <1>4, <2>5, <2>6 DEF ResolveIO
<1>5. CASE FailToResolveIO
  <2>1. answers' = <<>> /\ toHub = <<>>
    BY <1>1, <1>5 DEF FailToResolveIO
  <2>2. toHub' = <<"post">>
    BY <1>5, <2>1 DEF FailToResolveIO
  <2>3. KeptIsConfirmed'
    BY <2>1, <2>2 DEF KeptIsConfirmed, ConfigResolved
  <2> QED
    BY <1>0, <1>5, <2>3 DEF FailToResolveIO, KeptInv, KeptIsNotDeleted
<1>6. CASE ResolveDeleted
  <2>1. reports \in Seq(Reports) /\ reports # <<>> /\ reports' = Tail(reports)
    BY <1>6 DEF ResolveDeleted, Typed, ChannelsTyped
  <2>2. Head(reports) \in Reports /\ Head(reports) \notin AboutKept
    <3>1. Head(reports) = reports[1] /\ 1 \in DOMAIN reports
      BY <2>1
    <3> QED
      BY <2>1, <3>1, TailTyped DEF KeptInv, KeptIsNotDeleted
  <2>3. \A n \in DOMAIN reports' : reports'[n] \notin AboutKept
    BY <2>1 DEF KeptInv, KeptIsNotDeleted
  <2>4. /\ deleted'.pools \cap KeptPools = {} /\ deleted'.disks \cap KeptDisks = {}
        /\ deleted'.objs \cap Kept = {}
    <3>1. CASE Head(reports).kind = "pool"
      <4>1. Head(reports) = Report("pool", Head(reports).what)
        BY <2>2, <3>1 DEF Reports, Report
      <4>2. Head(reports).what \notin KeptPools
        BY <2>2, <4>1 DEF AboutKept
      <4> QED
        BY <1>6, <3>1, <4>2, WithDeletedKeeps
           DEF ResolveDeleted, DeletedSubPool, DeletedDisk, DeletedOBJ, KeptInv
    <3>2. CASE Head(reports).kind = "disk"
      <4>1. Head(reports) = Report("disk", Head(reports).what)
        BY <2>2, <3>2 DEF Reports, Report
      <4>2. Head(reports).what \notin KeptDisks
        BY <2>2, <4>1 DEF AboutKept
      <4> QED
        BY <1>6, <3>2, <4>2, WithDeletedKeeps
           DEF ResolveDeleted, DeletedSubPool, DeletedDisk, DeletedOBJ, KeptInv
    <3>3. CASE Head(reports).kind \notin {"pool", "disk"}
      <4>1. Head(reports) = Report("OBJ", Head(reports).what)
        BY <2>2, <3>3 DEF Reports, Report
      <4>2. Head(reports).what \notin Kept
        BY <2>2, <4>1 DEF AboutKept
      <4> QED
        BY <1>6, <3>3, <4>2, WithDeletedKeeps
           DEF ResolveDeleted, DeletedSubPool, DeletedDisk, DeletedOBJ, KeptInv
    <3> QED
      BY <3>1, <3>2, <3>3
  <2>5. KeptIsConfirmed'
    BY <1>6 DEF ResolveDeleted, KeptInv, KeptIsConfirmed, ConfigResolved
  <2> QED
    BY <1>0, <2>3, <2>4, <2>5 DEF KeptIsNotDeleted
<1>7. CASE Advise
  <2>1. answers' = <<>> /\ toHub' \in {<<>>, <<"post">>}
    BY <1>7 DEF Advise, Conversation
  <2>2. KeptIsConfirmed'
    BY <2>1 DEF KeptIsConfirmed, ConfigResolved
  <2>3. deleted' = NoSets
    BY <1>7 DEF Advise, Consolidate
  <2> QED
    BY <1>0, <1>7, <2>2, <2>3 DEF Advise, KeptInv, KeptIsNotDeleted, NoSets
<1> QED
  BY <1>2, <1>3, <1>4, <1>5, <1>6, <1>7 DEF Learn

LEMMA AlwaysKeptInv == Spec => [](Typed /\ KeptInv)
<1>1. Init => KeptInv
  <2>1. Init => KeptIsNotDeleted /\ KeptIsConfirmed
    BY DEF Init, KeptIsNotDeleted, KeptIsConfirmed, ConfigResolved, NoSets
  <2> QED
    BY <2>1, KeptThere DEF KeptInv
<1>2. Typed /\ Conversation /\ KeptInv /\ [Next]_vars => KeptInv'
  <2> SUFFICES ASSUME Typed, Conversation, KeptInv, [Next]_vars
               PROVE  KeptIsNotDeleted' /\ KeptIsConfirmed'
    BY KeptThere DEF KeptInv
  <2>1. CASE UNCHANGED vars
    BY <2>1 DEF vars, genVars, KeptInv, KeptIsNotDeleted, KeptIsConfirmed, ConfigResolved, AboutKept
  <2> QED
    BY <2>1, ChangesKeep, ServeKeeps, LearnKeeps DEF Next
<1> QED
  BY <1>1, <1>2, AlwaysTyped, ConversationInductive, PTL DEF Spec

\* What the HUB never gives up AST does not forget once it knows it: rounds that
\* fail, other SubPools that go and reports out of date do not matter.
THEOREM KeptHolds == Spec => KeptIsNotForgotten
<1>1. Typed /\ KeptInv /\ [Next]_vars => [Kept \cap cfgOBJs \subseteq cfgOBJs']_vars
  <2> SUFFICES ASSUME Typed, KeptInv, Next PROVE Kept \cap cfgOBJs \subseteq cfgOBJs'
    OBVIOUS
  <2>1. CASE UNCHANGED cfgOBJs
    BY <2>1
  <2>2. CASE ViewChanges \/ Serve
    BY <2>1, <2>2 DEF ViewChanges, AddDisk, LastUnpin, RemoveDisk, AddOBJ, DeleteOBJ, MoveOBJ,
       Reschedule, Serve, CollectConfigView, PrepareIO, CollectIO, PostIO, genVars, configVars
  <2>3. CASE CollectConfig \/ ResolveConfig \/ ResolveIO \/ FailToResolveIO \/ ResolveDeleted
    BY <2>3 DEF CollectConfig, ResolveConfig, ConfirmConfig, ResolveIO, FailToResolveIO,
       ConfirmOBJs, ResolveDeleted, configVars
  <2>4. CASE Advise
    BY <2>4, KeptDisksArePools DEF Advise, Consolidate, KeptInv, KeptIsNotDeleted
  <2> QED
    BY <2>2, <2>3, <2>4 DEF Next, Learn
<1> QED
  BY <1>1, AlwaysKeptInv, PTL DEF Spec, KeptIsNotForgotten
--------------------------------------------------------------------------------
(* CONTROL OF AST AND OF THE SUBPOOLS                                          *)
(*                                                                             *)
(* Queues                                                                      *)

IsEcho(e) == e.type \in {"enable_echo", "disable_echo"}

\* A queue holds the answer to one request at most.
OneEcho(q) == \A i, j \in 1 .. Len(q) : IsEcho(q[i]) /\ IsEcho(q[j]) => i = j

LEMMA SeqWider == ASSUME NEW S, NEW T, S \subseteq T, NEW q \in Seq(S) PROVE q \in Seq(T)
  OBVIOUS

LEMMA SeqJoined ==
    ASSUME NEW S, NEW s \in Seq(S), NEW q \in Seq(S) PROVE s \o q \in Seq(S)
  OBVIOUS

LEMMA SeqFirst ==
    ASSUME NEW S, NEW e \in S, NEW q \in Seq(S) PROVE <<e>> \o q \in Seq(S)
<1>1. <<e>> \in Seq(S)
  OBVIOUS
<1> QED BY <1>1, SeqJoined

LEMMA SeqOne == ASSUME NEW S, NEW e \in S PROVE <<e>> \in Seq(S)
  OBVIOUS

LEMMA SeqAppended ==
    ASSUME NEW S, NEW e \in S, NEW q \in Seq(S) PROVE Append(q, e) \in Seq(S)
  OBVIOUS

LEMMA SeqListed ==
    ASSUME NEW S, NEW n \in Nat, NEW f, f = [i \in 1 .. n |-> f[i]], \A i \in 1 .. n : f[i] \in S
    PROVE  f \in Seq(S)
  OBVIOUS

\* Events that are no answers; one SubPool or all, as the callers ask.
Plain(c) ==
    {e \in Events : /\ ~IsEcho(e)
                    /\ e.type \in {"enable", "disable"} => (e.pool = All <=> c = "batch")}

\* The events of a queue while AST's status is a: an answer has its request.
Held(c, a) ==
    {e \in Events : /\ e.type = "enable_echo" => a = "enabling"
                    /\ e.type = "disable_echo" => a = "disabling"
                    /\ e.type \in {"enable", "disable"} => (e.pool = All <=> c = "batch")}

QueueFits(q, c, a) == q \in Seq(Held(c, a)) /\ OneEcho(q)

LEMMA AppendPlain ==
    ASSUME NEW q \in Seq(Events), NEW e \in Events, ~IsEcho(e), OneEcho(q)
    PROVE  OneEcho(Append(q, e))
<1> DEFINE r == Append(q, e)
<1>1. Len(r) = Len(q) + 1 /\ Len(q) \in Nat /\ r[Len(q) + 1] = e
  OBVIOUS
<1>2. \A i \in 1 .. Len(q) : r[i] = q[i]
  OBVIOUS
<1> HIDE DEF r
<1>3. \A i \in 1 .. Len(r) : IsEcho(r[i]) => i \in 1 .. Len(q) /\ IsEcho(q[i])
  BY <1>1, <1>2
<1>4. OneEcho(r)
  BY <1>3 DEF OneEcho
<1> QED BY <1>4 DEF r

LEMMA AppendEcho ==
    ASSUME NEW c, NEW q \in Seq(Plain(c)), NEW e \in Events
    PROVE  OneEcho(Append(q, e))
<1> DEFINE r == Append(q, e)
<1>1. Len(r) = Len(q) + 1 /\ Len(q) \in Nat /\ r[Len(q) + 1] = e
  OBVIOUS
<1>2. \A i \in 1 .. Len(q) : r[i] = q[i] /\ ~IsEcho(q[i])
  BY DEF Plain
<1> HIDE DEF r
<1>3. \A i \in 1 .. Len(r) : IsEcho(r[i]) => i = Len(q) + 1
  BY <1>1, <1>2
<1>4. OneEcho(r)
  BY <1>3 DEF OneEcho
<1> QED BY <1>4 DEF r

LEMMA PrefixPlain ==
    ASSUME NEW c, NEW s \in Seq(Plain(c)), NEW q \in Seq(Events), OneEcho(q)
    PROVE  OneEcho(s \o q)
<1> DEFINE r == s \o q
<1>1. Len(r) = Len(s) + Len(q) /\ Len(s) \in Nat /\ Len(q) \in Nat
  OBVIOUS
<1>2. \A i \in 1 .. Len(s) : r[i] = s[i] /\ ~IsEcho(s[i])
  BY DEF Plain
<1>3. \A i \in 1 .. Len(q) : r[Len(s) + i] = q[i]
  OBVIOUS
<1> HIDE DEF r
<1>4. \A i \in 1 .. Len(r) : IsEcho(r[i]) => i - Len(s) \in 1 .. Len(q) /\ IsEcho(q[i - Len(s)])
  <2> SUFFICES ASSUME NEW i \in 1 .. Len(r), IsEcho(r[i])
               PROVE  i - Len(s) \in 1 .. Len(q) /\ IsEcho(q[i - Len(s)])
    OBVIOUS
  <2>1. ~ (i \in 1 .. Len(s))
    BY <1>2
  <2>2. i - Len(s) \in 1 .. Len(q) /\ Len(s) + (i - Len(s)) = i
    BY <1>1, <2>1
  <2>3. r[Len(s) + (i - Len(s))] = q[i - Len(s)]
    BY <1>3, <2>2
  <2> QED BY <2>2, <2>3
<1>5. OneEcho(r)
  <2> SUFFICES ASSUME NEW i \in 1 .. Len(r), NEW j \in 1 .. Len(r), IsEcho(r[i]), IsEcho(r[j])
               PROVE  i = j
    BY DEF OneEcho
  <2>1. i - Len(s) = j - Len(s)
    BY <1>4 DEF OneEcho
  <2> QED BY <2>1, <1>1
<1> QED BY <1>5 DEF r

LEMMA TailOne ==
    ASSUME NEW S, NEW q \in Seq(S), q # <<>>, OneEcho(q)
    PROVE  /\ OneEcho(Tail(q))
           /\ IsEcho(Head(q)) => \A i \in 1 .. Len(Tail(q)) : ~IsEcho(Tail(q)[i])
<1> DEFINE r == Tail(q)
<1>1. Len(r) = Len(q) - 1 /\ Len(q) \in Nat /\ Len(q) >= 1 /\ Head(q) = q[1]
  OBVIOUS
<1>2. \A i \in 1 .. Len(r) : r[i] = q[i + 1]
  OBVIOUS
<1> HIDE DEF r
<1>3. \A i \in 1 .. Len(r) : i + 1 \in 1 .. Len(q) /\ i + 1 # 1
  BY <1>1
<1>4. OneEcho(r)
  <2> SUFFICES ASSUME NEW i \in 1 .. Len(r), NEW j \in 1 .. Len(r), IsEcho(r[i]), IsEcho(r[j])
               PROVE  i = j
    BY DEF OneEcho
  <2>1. i + 1 = j + 1
    BY <1>2, <1>3 DEF OneEcho
  <2> QED BY <2>1
<1>5. IsEcho(Head(q)) => \A i \in 1 .. Len(r) : ~IsEcho(r[i])
  <2> SUFFICES ASSUME IsEcho(Head(q)), NEW i \in 1 .. Len(r), IsEcho(r[i]) PROVE FALSE
    OBVIOUS
  <2>1. i + 1 = 1
    BY <1>1, <1>2, <1>3 DEF OneEcho
  <2> QED BY <2>1, <1>3
<1> QED BY <1>4, <1>5 DEF r


LEMMA PlainFits ==
    ASSUME NEW c, NEW a, NEW q \in Seq(Plain(c)) PROVE QueueFits(q, c, a)
<1>1. Plain(c) \subseteq Held(c, a)
  BY DEF Plain, Held, IsEcho
<1>2. q \in Seq(Held(c, a))
  BY <1>1, SeqWider
<1>3. \A i \in 1 .. Len(q) : ~IsEcho(q[i])
  BY DEF Plain
<1> QED BY <1>2, <1>3 DEF QueueFits, OneEcho

LEMMA FitsPlain ==
    ASSUME NEW c, NEW a \in {"disabled", "enabled"}, NEW q, QueueFits(q, c, a)
    PROVE  q \in Seq(Plain(c))
<1>1. Held(c, a) \subseteq Plain(c)
  BY DEF Plain, Held, IsEcho
<1> QED BY <1>1, SeqWider DEF QueueFits

LEMMA FitsEvents == ASSUME NEW c, NEW a, NEW q, QueueFits(q, c, a) PROVE q \in Seq(Events)
<1>1. Held(c, a) \subseteq Events
  BY DEF Held
<1> QED BY <1>1, SeqWider DEF QueueFits

LEMMA PlainHeld == ASSUME NEW c, NEW a PROVE Plain(c) \subseteq Held(c, a) /\ Plain(c) \subseteq Events
  BY DEF Plain, Held, IsEcho

LEMMA Added ==
    ASSUME NEW c, NEW a, NEW q, QueueFits(q, c, a), NEW e \in Plain(c)
    PROVE  /\ QueueFits(Append(q, e), c, a)
           /\ q \in Seq(Plain(c)) => Append(q, e) \in Seq(Plain(c))
<1>1. e \in Held(c, a) /\ e \in Events /\ ~IsEcho(e)
  BY PlainHeld DEF Plain
<1>2. Append(q, e) \in Seq(Held(c, a))
  BY <1>1, SeqAppended DEF QueueFits
<1>3. OneEcho(Append(q, e))
  BY <1>1, FitsEvents, AppendPlain DEF QueueFits
<1>4. q \in Seq(Plain(c)) => Append(q, e) \in Seq(Plain(c))
  BY SeqAppended
<1> QED BY <1>2, <1>3, <1>4 DEF QueueFits

LEMMA Prefixed ==
    ASSUME NEW c, NEW a, NEW q, QueueFits(q, c, a), NEW s \in Seq(Plain(c))
    PROVE  /\ QueueFits(s \o q, c, a)
           /\ q \in Seq(Plain(c)) => s \o q \in Seq(Plain(c))
<1>1. s \in Seq(Held(c, a))
  BY PlainHeld, SeqWider
<1>2. s \o q \in Seq(Held(c, a))
  BY <1>1, SeqJoined DEF QueueFits
<1>3. OneEcho(s \o q)
  BY FitsEvents, PrefixPlain DEF QueueFits
<1>4. q \in Seq(Plain(c)) => s \o q \in Seq(Plain(c))
  BY SeqJoined
<1> QED BY <1>2, <1>3, <1>4 DEF QueueFits

LEMMA EchoAdded ==
    ASSUME NEW c, NEW a, NEW q \in Seq(Plain(c)), NEW e \in Held(c, a)
    PROVE  QueueFits(Append(q, e), c, a)
<1>1. q \in Seq(Held(c, a))
  BY PlainHeld, SeqWider
<1>2. e \in Events
  BY DEF Held
<1>3. OneEcho(Append(q, e))
  BY <1>2, AppendEcho
<1> QED BY <1>1, <1>3, SeqAppended DEF QueueFits

LEMMA Taken ==
    ASSUME NEW c, NEW a, NEW q, QueueFits(q, c, a), q # <<>>
    PROVE  /\ QueueFits(Tail(q), c, a)
           /\ q \in Seq(Plain(c)) => Tail(q) \in Seq(Plain(c))
           /\ IsEcho(Head(q)) => Tail(q) \in Seq(Plain(c))
           /\ Head(q) \in Held(c, a)
<1> DEFINE r == Tail(q)
<1>1. q \in Seq(Held(c, a)) /\ OneEcho(q)
  BY DEF QueueFits
<1>2. r \in Seq(Held(c, a)) /\ Head(q) \in Held(c, a)
  BY <1>1
<1>3. OneEcho(r)
  BY <1>1, TailOne
<1>4. q \in Seq(Plain(c)) => r \in Seq(Plain(c))
  OBVIOUS
<1>5. ASSUME IsEcho(Head(q)) PROVE r \in Seq(Plain(c))
  <2>1. \A i \in 1 .. Len(r) : ~IsEcho(r[i])
    BY <1>1, <1>5, TailOne
  <2>2. r = [i \in 1 .. Len(r) |-> r[i]] /\ Len(r) \in Nat /\ \A i \in 1 .. Len(r) : r[i] \in Held(c, a)
    <3> HIDE DEF r
    <3> QED BY <1>2
  <2> HIDE DEF r
  <2>3. \A i \in 1 .. Len(r) : r[i] \in Plain(c)
    BY <2>1, <2>2 DEF Plain, Held
  <2> QED BY <2>2, <2>3, SeqListed
<1> QED BY <1>2, <1>3, <1>4, <1>5 DEF QueueFits

--------------------------------------------------------------------------------
(* Types                                                                       *)

LEMMA EventIs ==
    ASSUME NEW t \in {"enable", "disable", "enable_echo", "disable_echo", "stop"},
           NEW p \in SubPools \cup {All}, NEW ok \in BOOLEAN
    PROVE  /\ Event(t, p, ok) \in Events /\ Event(t, p, ok).type = t
           /\ Event(t, p, ok).pool = p /\ Event(t, p, ok).ok = ok
  BY DEF Event, Events

LEMMA InitType == ControlInit => ControlTypeOK
  BY DEF ControlInit, ControlTypeOK, HubStatuses, Statuses

LEMMA FoundType == ASSUME ControlTypeOK, NEW p \in SubPools PROVE Found(p) \in Statuses
  BY DEF Found, StatusOf, ControlTypeOK

LEMMA HeadType == ASSUME ControlTypeOK, queue # <<>> PROVE Head(queue) \in Events /\ Tail(queue) \in Seq(Events)
  BY DEF ControlTypeOK

LEMMA EnabledType == ASSUME ControlTypeOK, NEW ok \in BOOLEAN, Enabled(ok)
    PROVE /\ hubAst' \in Statuses /\ hubStatus' \in HubStatuses /\ pc' = "handling"
          /\ subPoolAst' \in [SubPools -> Statuses \cup {"none"}]
  BY DEF Enabled, ControlTypeOK, Statuses, HubStatuses

LEMMA DisabledType == ASSUME ControlTypeOK, Disabled
    PROVE /\ hubAst' = "disabled" /\ hubStatus' \in HubStatuses
          /\ pc' \in {"spinning", "blocked", "exited", "handling"}
          /\ subPoolAst' \in [SubPools -> Statuses \cup {"none"}]
          /\ enableInBatch' \in BOOLEAN /\ stopper' \in {"idle", "waiting", "joining"}
<1>1. hubStatus' \in HubStatuses /\ stopper' \in {"idle", "waiting", "joining"}
      /\ pc' \in {"spinning", "blocked", "exited", "handling"}
  BY DEF Disabled, ControlTypeOK, HubStatuses, Signalled
<1>2. subPoolAst' \in [SubPools -> Statuses \cup {"none"}]
  BY DEF Disabled, ControlTypeOK, Statuses
<1> QED BY <1>1, <1>2 DEF Disabled, ControlTypeOK

LEMMA RequestType == ASSUME ControlTypeOK, NEW what \in {"enable", "disable"}, Request(what)
    PROVE hubAst' \in Statuses /\ asked' \in {"enable", "disable"} /\ pc' \in {"asking", "handling"}
          /\ result' = result
  BY DEF Request, Asking, Statuses

\* A HUB that stops puts an event for each SubPool that is on in front.
LEMMA StopQueue ==
    ASSUME ControlTypeOK, StopEvent
    PROVE  \E s \in Seq({e \in Events : /\ e.type = "disable" /\ e.pool \in SubPools
                                        /\ IsOn(subPoolAst[e.pool])}) :
              queue' = s \o Tail(queue)
<1> DEFINE on == {p \in SubPools : IsOn(subPoolAst[p])}
           S == {e \in Events : e.type = "disable" /\ e.pool \in SubPools /\ IsOn(subPoolAst[e.pool])}
<1>1. CASE IsOn(hubAst)
  <2>1. PICK off \in [1 .. Cardinality(on) -> on] :
            queue' = [i \in DOMAIN off |-> Event("disable", off[i], TRUE)] \o Tail(queue)
    BY <1>1 DEF StopEvent
  <2> DEFINE s == [i \in DOMAIN off |-> Event("disable", off[i], TRUE)]
  <2>2. Cardinality(on) \in Nat
    <3>1. IsFiniteSet(on)
      BY SubPoolsAssumption, FS_Subset
    <3> QED BY <3>1, FS_CardinalityType
  <2>3. ASSUME NEW i \in 1 .. Cardinality(on) PROVE s[i] \in S
    <3>1. i \in DOMAIN off /\ off[i] \in SubPools /\ IsOn(subPoolAst[off[i]])
      BY <2>3
    <3>2. s[i] = Event("disable", off[i], TRUE)
      BY <3>1
    <3>3. /\ s[i] \in Events /\ s[i].type = "disable" /\ s[i].pool = off[i]
      <4> HIDE DEF s, on
      <4> QED BY <3>1, <3>2 DEF Event, Events
    <3>4. s[i] \in Events /\ s[i].type = "disable" /\ s[i].pool \in SubPools /\ IsOn(subPoolAst[s[i].pool])
      BY <3>1, <3>3
    <3> HIDE DEF s, on
    <3> QED BY <3>4
  <2>4. s = [i \in 1 .. Cardinality(on) |-> s[i]]
    OBVIOUS
  <2>5. s \in Seq(S)
    <3> HIDE DEF s, S, on
    <3> QED BY <2>2, <2>3, <2>4, SeqListed
  <2> QED BY <2>1, <2>5
<1>2. CASE ~ IsOn(hubAst)
  <2>1. queue' = Tail(queue)
    BY <1>2 DEF StopEvent
  <2>2. Tail(queue) \in Seq(Events)
    BY HeadType DEF StopEvent, Takes
  <2>3. Tail(queue) = <<>> \o Tail(queue) /\ <<>> \in Seq(S)
    BY <2>2
  <2> QED BY <2>1, <2>3
<1> QED BY <1>1, <1>2

LEMMA TypeStep == ASSUME SchedulesCover, ControlTypeOK, [ControlNext]_controlVars PROVE ControlTypeOK'
<1> USE DEF timeVars, modes, astVars, poolVars, stopVars
<1>1. CASE Start
  BY <1>1 DEF Start, ControlTypeOK, HubStatuses, Statuses
<1>2. CASE Ask
  <2>1. PICK p \in SubPools \cup {All} :
          \/ queue' = Append(queue, Event("enable", p, TRUE))
          \/ queue' = Append(queue, Event("disable", p, TRUE))
          \/ queue' = <<Event("disable", p, TRUE)>> \o queue
    BY <1>2 DEF Ask
  <2>2. Event("enable", p, TRUE) \in Events /\ Event("disable", p, TRUE) \in Events
    BY EventIs
  <2>3. queue' \in Seq(Events)
    <3>1. Append(queue, Event("enable", p, TRUE)) \in Seq(Events)
      BY <2>2, SeqAppended DEF ControlTypeOK
    <3>2. Append(queue, Event("disable", p, TRUE)) \in Seq(Events)
      BY <2>2, SeqAppended DEF ControlTypeOK
    <3>3. <<Event("disable", p, TRUE)>> \o queue \in Seq(Events)
      BY <2>2, SeqFirst DEF ControlTypeOK
    <3> QED BY <2>1, <3>1, <3>2, <3>3
  <2> QED BY <1>2, <2>3 DEF Ask, ControlTypeOK
<1>3. CASE Stop
  <2>1. Event("stop", All, TRUE) \in Events
    BY EventIs
  <2>2. queue' \in Seq(Events)
    <3>1. Append(queue, Event("stop", All, TRUE)) \in Seq(Events)
      BY <2>1, SeqAppended DEF ControlTypeOK
    <3>2. <<Event("stop", All, TRUE)>> \o queue \in Seq(Events)
      BY <2>1, SeqFirst DEF ControlTypeOK
    <3> QED BY <1>3, <3>1, <3>2 DEF Stop
  <2> QED BY <1>3, <2>2 DEF Stop, ControlTypeOK, HubStatuses
<1>4. CASE Join
  BY <1>4 DEF Join, ControlTypeOK, HubStatuses
<1>5. CASE Schedule
  <2>1. PICK p \in SubPools : \E slices \in SliceLists[p] :
            schedules' = [schedules EXCEPT ![p] = AddTimeRanges(<<FullDay>>, slices)]
    BY <1>5 DEF Schedule
  <2>2. PICK slices \in SliceLists[p] :
            schedules' = [schedules EXCEPT ![p] = AddTimeRanges(<<FullDay>>, slices)]
    BY <2>1
  <2>3. AddTimeRanges(<<FullDay>>, slices) \in Seq(Ranges)
    BY SchedulesCover DEF SchedulesCover
  <2>4. schedules' \in [SubPools -> Seq(Ranges)]
    BY <2>2, <2>3 DEF ControlTypeOK
  <2> QED BY <1>5, <2>4 DEF Schedule, ControlTypeOK
<1>6. CASE Answer
  <2>1. PICK ok \in BOOLEAN :
          IF sync
          THEN /\ result' = ok
               /\ pc' = IF pc = "waiting" THEN "woken" ELSE pc
               /\ UNCHANGED queue
          ELSE /\ queue' = Append(queue, Event(Echo, All, ok))
               /\ UNCHANGED <<result, pc>>
    BY <1>6 DEF Answer
  <2>2. Event(Echo, All, ok) \in Events
    BY EventIs DEF Echo
  <2>3. queue' \in Seq(Events) /\ result' \in BOOLEAN
    BY <2>1, <2>2 DEF ControlTypeOK
  <2>4. pc' \in {pc, "woken"}
    BY <2>1
  <2> QED BY <1>6, <2>3, <2>4 DEF Answer, ControlTypeOK
<1>7. CASE EnableOne
  <2>1. queue' \in Seq(Events)
    BY <1>7, HeadType DEF EnableOne, Takes
  <2>2. subPoolAst' \in [SubPools -> Statuses \cup {"none"}]
    BY <1>7 DEF EnableOne, ControlTypeOK, Statuses
  <2>3. CASE hubAst = "disabled"
    BY <1>7, <2>1, <2>2, <2>3, RequestType DEF EnableOne, handleFrame, ControlTypeOK
  <2>4. CASE hubAst # "disabled"
    BY <1>7, <2>1, <2>2, <2>4 DEF EnableOne, handleFrame, NoRequest, ControlTypeOK
  <2> QED BY <2>3, <2>4
<1>8. CASE EnableAll
  <2>1. queue' \in Seq(Events)
    BY <1>8, HeadType DEF EnableAll, Takes
  <2>2. CASE hubAst = "disabled"
    BY <1>8, <2>1, <2>2, RequestType DEF EnableAll, handleFrame, ControlTypeOK
  <2>3. CASE hubAst # "disabled"
    BY <1>8, <2>1, <2>3 DEF EnableAll, handleFrame, NoRequest, ControlTypeOK
  <2> QED BY <2>2, <2>3
<1>9. CASE DisableOne
  <2>1. queue' \in Seq(Events) /\ P \in SubPools
    BY <1>9, HeadType DEF DisableOne, Takes, P, Events
  <2>2. status' \in Statuses
    BY <1>9, <2>1, FoundType DEF DisableOne
  <2>3. subPoolAst' \in [SubPools -> Statuses \cup {"none"}]
    BY <1>9, <2>1 DEF DisableOne, ControlTypeOK, Statuses
  <2>4. CASE Request("disable") /\ disableInBatch' = FALSE
    BY <1>9, <2>1, <2>2, <2>3, <2>4, RequestType DEF DisableOne, handleFrame, ControlTypeOK
  <2>5. CASE NoRequest /\ UNCHANGED disableInBatch
    BY <1>9, <2>1, <2>2, <2>3, <2>5 DEF DisableOne, handleFrame, NoRequest, ControlTypeOK
  <2> QED BY <1>9, <2>4, <2>5 DEF DisableOne
<1>10. CASE DisableAll
  <2>1. queue' \in Seq(Events)
    BY <1>10, HeadType DEF DisableAll, Takes, ControlTypeOK
  <2>2. CASE hubAst = "enabled"
    BY <1>10, <2>1, <2>2, RequestType DEF DisableAll, handleFrame, ControlTypeOK
  <2>3. CASE hubAst # "enabled"
    BY <1>10, <2>1, <2>3 DEF DisableAll, handleFrame, NoRequest, ControlTypeOK
  <2> QED BY <2>2, <2>3
<1>11. CASE EnableEcho
  <2>1. queue' \in Seq(Events) /\ Head(queue).ok \in BOOLEAN
    BY <1>11, HeadType DEF EnableEcho, Takes, Events
  <2> QED BY <1>11, <2>1, EnabledType DEF EnableEcho, echoFrame, ControlTypeOK
<1>12. CASE DisableEcho
  <2>1. queue' \in Seq(Events)
    BY <1>12, HeadType DEF DisableEcho, Takes
  <2> QED BY <1>12, <2>1, DisabledType DEF DisableEcho, echoFrame, ControlTypeOK, Statuses
<1>13. CASE Wait
  BY <1>13 DEF Wait, poolVars, ControlTypeOK
<1>14. CASE Wake
  <2>1. CASE hubAst = "enabling"
    BY <1>14, <2>1, EnabledType DEF Wake, echoFrame, ControlTypeOK
  <2>2. CASE hubAst # "enabling"
    BY <1>14, <2>2, DisabledType DEF Wake, echoFrame, ControlTypeOK, Statuses
  <2> QED BY <2>1, <2>2
<1>15. CASE StopEvent
  <2>1. Tail(queue) \in Seq(Events)
    BY <1>15, HeadType DEF StopEvent, Takes
  <2>2. queue' \in Seq(Events)
    <3>1. PICK s \in Seq({e \in Events : /\ e.type = "disable" /\ e.pool \in SubPools
                                        /\ IsOn(subPoolAst[e.pool])}) :
              queue' = s \o Tail(queue)
      BY <1>15, StopQueue
    <3>2. s \in Seq(Events)
      BY SeqWider
    <3> QED BY <2>1, <3>1, <3>2, SeqJoined
  <2>3. stopper' \in {"idle", "waiting", "joining"} /\ pc' \in {pc, "blocked"}
    BY <1>15 DEF StopEvent, Signalled, ControlTypeOK
  <2> QED BY <1>15, <2>2, <2>3 DEF StopEvent, poolVars, ControlTypeOK
<1>16. CASE UNCHANGED controlVars
  BY <1>16 DEF controlVars, poolVars, ControlTypeOK
<1> QED BY <1>1, <1>2, <1>3, <1>4, <1>5, <1>6, <1>7, <1>8, <1>9, <1>10, <1>11, <1>12,
           <1>13, <1>14, <1>15, <1>16 DEF ControlNext, HubStep

--------------------------------------------------------------------------------
(* The invariant                                                               *)

Switching == hubAst \in {"enabling", "disabling"}

\* One request to AST at a time, answered once; a HUB whose thread is gone has
\* AST off.
Orderly ==
    /\ QueueFits(queue, callers, hubAst)
    /\ asked # "none" => queue \in Seq(Plain(callers)) /\ hubAst = Asking(asked)
    /\ pc \in {"asking", "waiting", "woken"} => sync /\ Switching
    /\ sync => queue \in Seq(Plain(callers))
    /\ sync /\ asked # "none" => pc \in {"asking", "waiting"}
    /\ pc \in {"none", "exited"} => hubAst = "disabled"
    /\ hubStatus = "stopped" => pc \in {"none", "exited"}

\* Callers that ask for all SubPools at once leave no status of one.
InBatch ==
    /\ enableInBatch /\ disableInBatch
    /\ \A p \in SubPools : subPoolAst[p] = "none"
    /\ \A p \in SubPools : last[p] = "enable" <=> IsOn(hubAst)

\* Callers that ask for one SubPool at a time: the statuses follow the asks, and
\* AST's status follows them.
OneByOne ==
    /\ \A p \in SubPools : last[p] = "enable" <=> IsOn(subPoolAst[p])
    /\ \A p \in SubPools : subPoolAst[p] = "enabled" => hubAst = "enabled"
    /\ hubAst = "enabled" => \A p \in SubPools : subPoolAst[p] # "enabling"
    /\ hubAst = "disabled" /\ pc # "spinning" => \A p \in SubPools : ~IsOn(subPoolAst[p])
    /\ hubAst = "disabling" => ~disableInBatch
    /\ enableInBatch => hubAst = "disabled" /\ \A p \in SubPools : subPoolAst[p] = "none"

\* A schedule covers the seconds that were wanted.
Scheduled ==
    /\ wanted = [p \in SubPools |-> wanted[p]]
    /\ \A p \in SubPools, second \in 0 .. DayEnd - 1 :
          TimeIsScheduled(schedules[p], second) <=> second \in wanted[p]

Inv ==
    /\ ControlTypeOK /\ Scheduled
    /\ callers # "both" => Orderly
    /\ callers = "batch" => InBatch
    /\ callers = "single" => OneByOne

LEMMA ModesStay == ASSUME [ControlNext]_controlVars PROVE sync' = sync /\ callers' = callers
<1>1. CASE HubStep
  BY <1>1 DEF HubStep, EnableOne, EnableAll, DisableOne, DisableAll, EnableEcho, DisableEcho,
             Wait, Wake, StopEvent, handleFrame, echoFrame, modes
<1>2. CASE Start \/ Ask \/ Stop \/ Join \/ Schedule \/ Answer
  BY <1>2 DEF Start, Ask, Stop, Join, Schedule, Answer, modes
<1>3. CASE UNCHANGED controlVars
  BY <1>3 DEF controlVars, modes
<1> QED BY <1>1, <1>2, <1>3 DEF ControlNext

LEMMA InitInv == ControlInit => Inv
<1> SUFFICES ASSUME ControlInit PROVE Inv
  OBVIOUS
<1>1. ControlTypeOK
  BY InitType
<1>2. Scheduled
  BY DEF ControlInit, Scheduled, TimeIsScheduled
<1>3. Orderly
  <2>1. queue = <<>> /\ queue \in Seq(Plain(callers))
    BY DEF ControlInit
  <2>2. QueueFits(queue, callers, hubAst)
    BY <2>1, PlainFits
  <2> QED BY <2>1, <2>2 DEF ControlInit, Orderly
<1>4. InBatch /\ OneByOne
  BY DEF ControlInit, InBatch, OneByOne, IsOn
<1> QED BY <1>1, <1>2, <1>3, <1>4 DEF Inv

LEMMA ScheduledStep == ASSUME SchedulesCover, ControlTypeOK, Scheduled, [ControlNext]_controlVars PROVE Scheduled'
<1>1. CASE Schedule
  <2>1. PICK p \in SubPools : \E slices \in SliceLists[p] :
            /\ schedules' = [schedules EXCEPT ![p] = AddTimeRanges(<<FullDay>>, slices)]
            /\ wanted' = [wanted EXCEPT ![p] = Wanted(slices)]
    BY <1>1 DEF Schedule
  <2>2. PICK slices \in SliceLists[p] :
            /\ schedules' = [schedules EXCEPT ![p] = AddTimeRanges(<<FullDay>>, slices)]
            /\ wanted' = [wanted EXCEPT ![p] = Wanted(slices)]
    BY <2>1
  <2>3. \A second \in 0 .. DayEnd - 1 :
            TimeIsScheduled(AddTimeRanges(<<FullDay>>, slices), second) <=> second \in Wanted(slices)
    BY SchedulesCover DEF SchedulesCover
  <2> DEFINE list == AddTimeRanges(<<FullDay>>, slices)
             secs == Wanted(slices)
  <2>4. schedules' = [schedules EXCEPT ![p] = list] /\ wanted' = [wanted EXCEPT ![p] = secs]
    BY <2>2
  <2>5. \A second \in 0 .. DayEnd - 1 : TimeIsScheduled(list, second) <=> second \in secs
    BY <2>3
  <2> HIDE DEF list, secs
  <2>6. /\ wanted' = [r \in SubPools |-> wanted'[r]]
        /\ schedules'[p] = list /\ wanted'[p] = secs
        /\ \A r \in SubPools \ {p} : schedules'[r] = schedules[r] /\ wanted'[r] = wanted[r]
    BY <2>4 DEF Scheduled, ControlTypeOK
  <2>7. ASSUME NEW r \in SubPools, NEW second \in 0 .. DayEnd - 1
        PROVE  TimeIsScheduled(schedules'[r], second) <=> second \in wanted'[r]
    <3>1. CASE r = p
      BY <2>5, <2>6, <3>1
    <3>2. CASE r # p
      <4>1. schedules'[r] = schedules[r] /\ wanted'[r] = wanted[r]
        BY <2>6, <3>2
      <4> QED BY <4>1 DEF Scheduled
    <3> QED BY <3>1, <3>2
  <2>8. (\A r \in SubPools, second \in 0 .. DayEnd - 1 :
            TimeIsScheduled(schedules[r], second) <=> second \in wanted[r])'
    BY <2>7
  <2> QED BY <2>6, <2>8 DEF Scheduled
<1>2. CASE UNCHANGED timeVars
  <2>1. schedules' = schedules /\ wanted' = wanted
    BY <1>2 DEF timeVars
  <2> QED BY <2>1 DEF Scheduled, TimeIsScheduled
<1>3. HubStep => UNCHANGED timeVars
  BY DEF HubStep, EnableOne, EnableAll, DisableOne, DisableAll, EnableEcho, DisableEcho,
         Wait, Wake, StopEvent, handleFrame, echoFrame
<1>4. Start \/ Ask \/ Stop \/ Join \/ Answer \/ UNCHANGED controlVars => UNCHANGED timeVars
  BY DEF Start, Ask, Stop, Join, Answer, controlVars
<1> QED BY <1>1, <1>2, <1>3, <1>4 DEF ControlNext

\* What the event at the head is, for the callers' way of asking.
LEMMA HeadFits ==
    ASSUME Orderly, queue # <<>>
    PROVE  /\ Head(queue) \in Held(callers, hubAst)
           /\ QueueFits(Tail(queue), callers, hubAst)
           /\ queue \in Seq(Plain(callers)) => Tail(queue) \in Seq(Plain(callers))
           /\ IsEcho(Head(queue)) => Tail(queue) \in Seq(Plain(callers))
  BY Taken DEF Orderly

LEMMA EchoFits ==
    ASSUME Orderly, queue # <<>>, IsEcho(Head(queue))
    PROVE  /\ ~sync /\ asked = "none"
           /\ Head(queue).type = "enable_echo" => hubAst = "enabling"
           /\ Head(queue).type = "disable_echo" => hubAst = "disabling"
<1>1. Head(queue) \in Held(callers, hubAst)
  BY HeadFits
<1>2. ~ (queue \in Seq(Plain(callers)))
  BY DEF Plain
<1> QED BY <1>1, <1>2 DEF Held, Orderly

LEMMA OrderlyQueue ==
    ASSUME Orderly, sync' = sync, callers' = callers, hubAst' = hubAst, asked' = asked,
           pc' = pc, hubStatus' = "stopped" => hubStatus = "stopped",
           QueueFits(queue', callers, hubAst),
           queue \in Seq(Plain(callers)) => queue' \in Seq(Plain(callers))
    PROVE  Orderly'
  BY DEF Orderly, Switching

\* A request is sent while the queue holds no answer.
LEMMA OrderlyRequest ==
    ASSUME Orderly, sync' = sync, callers' = callers, NEW what \in {"enable", "disable"},
           Request(what), queue' \in Seq(Plain(callers)), hubStatus # "stopped",
           hubStatus' = hubStatus
    PROVE  Orderly'
<1>1. QueueFits(queue', callers, hubAst')
  BY PlainFits
<1>2. hubAst' = Asking(what) /\ asked' = what /\ pc' = IF sync THEN "asking" ELSE "handling"
  BY DEF Request
<1>3. hubAst' \in {"enabling", "disabling"} /\ what # "none"
  BY <1>2 DEF Asking
<1> QED BY <1>1, <1>2, <1>3 DEF Orderly, Switching, Asking

\* An answer is taken and the queue holds none.
LEMMA OrderlyEnabled ==
    ASSUME Orderly, sync' = sync, callers' = callers, NEW ok, Enabled(ok),
           queue' \in Seq(Plain(callers)), hubStatus # "stopped", asked' = "none"
    PROVE  Orderly'
<1>1. QueueFits(queue', callers, hubAst')
  BY PlainFits
<1> QED BY <1>1 DEF Orderly, Switching, Enabled

LEMMA OrderlyDisabled ==
    ASSUME Orderly, sync' = sync, callers' = callers, Disabled,
           queue' \in Seq(Plain(callers)), hubStatus # "stopped", asked' = "none"
    PROVE  Orderly'
<1>1. QueueFits(queue', callers, hubAst')
  BY PlainFits
<1>2. hubAst' = "disabled" /\ pc' \in {"spinning", "blocked", "exited", "handling"} /\ hubStatus' # "stopped"
  BY DEF Disabled
<1> QED BY <1>1, <1>2 DEF Orderly, Switching

\* AST is asked to be disabled when it is enabled, and P is the last that is on.
LEMMA DisableEnds ==
    ASSUME ControlTypeOK, OneByOne, P \in SubPools, Found(P) = "enabled", ShouldDisableAST(P)
    PROVE  /\ subPoolAst[P] = "enabled" /\ hubAst = "enabled" /\ ~enableInBatch
           /\ \A q \in SubPools : q # P => ~IsOn(subPoolAst[q])
<1> DEFINE on == {q \in SubPools : IsOn(subPoolAst[q])}
<1>1. StatusOf(P) = "enabled"
  BY DEF Found, ShouldDisableAST, IsOn
<1>2. subPoolAst[P] = "enabled" /\ hubAst = "enabled" /\ ~enableInBatch
  BY <1>1 DEF StatusOf, OneByOne
<1>3. Cardinality(on) = 1 /\ IsFiniteSet(on) /\ P \in on
  BY <1>2, SubPoolsAssumption, FS_Subset DEF ShouldDisableAST, IsOn
<1>4. PICK q : on = {q}
  BY <1>3, FS_Singleton
<1>5. on = {P}
  BY <1>3, <1>4
<1> QED BY <1>2, <1>5

LEMMA OrderlyStep ==
    ASSUME ControlTypeOK, Orderly, callers \in {"single", "batch"}, callers = "batch" => InBatch,
           callers = "single" => OneByOne, [ControlNext]_controlVars
    PROVE  Orderly'
<1> USE DEF timeVars, modes, astVars, poolVars, stopVars
<1>0. sync' = sync /\ callers' = callers
  BY ModesStay
<1>0a. pc = "handling" => hubStatus # "stopped"
  BY DEF Orderly
<1>1. CASE Start
  BY <1>0, <1>1 DEF Start, Orderly, Switching
<1>2. CASE Ask
  <2>1. PICK p \in (IF callers = "batch" THEN {} ELSE SubPools)
                 \cup (IF callers = "single" THEN {} ELSE {All}) :
          \/ queue' = Append(queue, Event("enable", p, TRUE))
          \/ queue' = Append(queue, Event("disable", p, TRUE))
          \/ queue' = <<Event("disable", p, TRUE)>> \o queue
    BY <1>2 DEF Ask
  <2>2. p \in SubPools \cup {All} /\ (p = All <=> callers = "batch")
    BY SubPoolsAssumption DEF All
  <2>3. Event("enable", p, TRUE) \in Plain(callers) /\ Event("disable", p, TRUE) \in Plain(callers)
    <3>1. /\ Event("enable", p, TRUE) \in Events /\ Event("enable", p, TRUE).type = "enable"
          /\ Event("enable", p, TRUE).pool = p
      BY <2>2 DEF Event, Events
    <3>2. /\ Event("disable", p, TRUE) \in Events /\ Event("disable", p, TRUE).type = "disable"
          /\ Event("disable", p, TRUE).pool = p
      BY <2>2 DEF Event, Events
    <3> QED BY <2>2, <3>1, <3>2 DEF Plain, IsEcho
  <2>4. <<Event("disable", p, TRUE)>> \in Seq(Plain(callers))
    BY <2>3, SeqOne
  <2>5. QueueFits(queue, callers, hubAst)
    BY DEF Orderly
  <2>6. /\ QueueFits(queue', callers, hubAst)
        /\ queue \in Seq(Plain(callers)) => queue' \in Seq(Plain(callers))
    BY <2>1, <2>3, <2>4, <2>5, Added, Prefixed
  <2> QED BY <1>0, <1>2, <2>6, OrderlyQueue DEF Ask
<1>3. CASE Stop
  <2>1. Event("stop", All, TRUE) \in Plain(callers)
    BY EventIs DEF Plain, IsEcho
  <2>2. <<Event("stop", All, TRUE)>> \in Seq(Plain(callers))
    BY <2>1, SeqOne
  <2>3. QueueFits(queue, callers, hubAst)
    BY DEF Orderly
  <2>4. queue' = <<Event("stop", All, TRUE)>> \o queue \/ queue' = Append(queue, Event("stop", All, TRUE))
    BY <1>3 DEF Stop
  <2>5. /\ QueueFits(queue', callers, hubAst)
        /\ queue \in Seq(Plain(callers)) => queue' \in Seq(Plain(callers))
    BY <2>1, <2>2, <2>3, <2>4, Added, Prefixed
  <2> QED BY <1>0, <1>3, <2>5, OrderlyQueue DEF Stop
<1>4. CASE Join
  BY <1>0, <1>4 DEF Join, Orderly, Switching
<1>5. CASE Schedule
  BY <1>0, <1>5 DEF Schedule, Orderly, Switching
<1>6. CASE Answer
  <2>1. PICK ok \in BOOLEAN :
          IF sync
          THEN /\ result' = ok
               /\ pc' = IF pc = "waiting" THEN "woken" ELSE pc
               /\ UNCHANGED queue
          ELSE /\ queue' = Append(queue, Event(Echo, All, ok))
               /\ UNCHANGED <<result, pc>>
    BY <1>6 DEF Answer
  <2>2. asked # "none" /\ asked' = "none" /\ hubAst' = hubAst /\ hubStatus' = hubStatus
    BY <1>6 DEF Answer
  <2>3. queue \in Seq(Plain(callers)) /\ hubAst = Asking(asked)
    BY <2>2 DEF Orderly
  <2>4. CASE sync
    BY <1>0, <2>1, <2>2, <2>3, <2>4 DEF Orderly, Switching
  <2>5. CASE ~sync
    <3>1. Event(Echo, All, ok) \in Held(callers, hubAst)
      <4>1. Echo \in {"enable_echo", "disable_echo"}
        BY DEF Echo
      <4>2. Event(Echo, All, ok) \in Events /\ Event(Echo, All, ok).type = Echo
        BY <4>1, EventIs
      <4>3. (Echo = "enable_echo" => hubAst = "enabling") /\ (Echo = "disable_echo" => hubAst = "disabling")
        BY <2>3 DEF Echo, Asking
      <4> QED BY <4>1, <4>2, <4>3 DEF Held
    <3>2. QueueFits(queue', callers, hubAst)
      BY <2>1, <2>3, <2>5, <3>1, EchoAdded
    <3> QED BY <1>0, <2>1, <2>2, <2>5, <3>2 DEF Orderly, Switching
  <2> QED BY <2>4, <2>5
<1>7. CASE EnableOne \/ EnableAll \/ DisableOne \/ DisableAll
  <2> USE DEF handleFrame
  <2>1. queue # <<>> /\ pc = "handling" /\ hubStatus' = hubStatus /\ hubStatus # "stopped"
        /\ ~ IsEcho(Head(queue)) /\ Head(queue).type \in {"enable", "disable"}
    BY <1>0a, <1>7 DEF EnableOne, EnableAll, DisableOne, DisableAll, Takes, IsEcho
  <2>2. Head(queue) \in Plain(callers) /\ QueueFits(Tail(queue), callers, hubAst)
        /\ (queue \in Seq(Plain(callers)) => Tail(queue) \in Seq(Plain(callers)))
    BY <2>1, HeadFits DEF Held, Plain
  <2>3. hubAst \in {"disabled", "enabled"} => queue \in Seq(Plain(callers))
    BY FitsPlain DEF Orderly
  <2>4. queue' \in {queue, Tail(queue), Append(Tail(queue), Head(queue))}
    BY <1>7 DEF EnableOne, EnableAll, DisableOne, DisableAll
  <2>5. /\ QueueFits(queue', callers, hubAst)
        /\ queue \in Seq(Plain(callers)) => queue' \in Seq(Plain(callers))
    BY <2>2, <2>4, Added DEF Orderly
  <2>6. CASE NoRequest
    BY <1>0, <2>1, <2>5, <2>6, OrderlyQueue DEF NoRequest
  <2>7. CASE Request("enable") /\ hubAst = "disabled"
    BY <1>0, <2>1, <2>3, <2>5, <2>7, OrderlyRequest
  <2>8. CASE Request("disable") /\ hubAst = "enabled"
    BY <1>0, <2>1, <2>3, <2>5, <2>8, OrderlyRequest
  <2>9. NoRequest \/ (Request("enable") /\ hubAst = "disabled") \/ (Request("disable") /\ hubAst = "enabled")
    <3>1. CASE DisableOne
      <4>1. P \in SubPools /\ callers = "single"
        BY <2>1, <2>2, <3>1 DEF DisableOne, Plain, P, Events
      <4>2. CASE Found(P) = "enabled" /\ ShouldDisableAST(P)
        BY <3>1, <4>1, <4>2, DisableEnds DEF DisableOne
      <4>3. CASE ~ (Found(P) = "enabled" /\ ShouldDisableAST(P))
        BY <3>1, <4>3 DEF DisableOne
      <4> QED BY <4>2, <4>3
    <3>2. CASE EnableOne \/ EnableAll \/ DisableAll
      BY <3>2 DEF EnableOne, EnableAll, DisableAll
    <3> QED BY <1>7, <3>1, <3>2
  <2> QED BY <2>6, <2>7, <2>8, <2>9
<1>11. CASE EnableEcho
  <2>1. queue # <<>> /\ IsEcho(Head(queue)) /\ hubStatus # "stopped"
    BY <1>0a, <1>11 DEF EnableEcho, Takes, IsEcho
  <2>2. queue' \in Seq(Plain(callers)) /\ asked' = "none"
    BY <1>11, <2>1, HeadFits, EchoFits DEF EnableEcho, echoFrame
  <2> QED BY <1>0, <1>11, <2>1, <2>2, OrderlyEnabled DEF EnableEcho
<1>12. CASE DisableEcho
  <2>1. queue # <<>> /\ IsEcho(Head(queue)) /\ hubStatus # "stopped"
    BY <1>0a, <1>12 DEF DisableEcho, Takes, IsEcho
  <2>2. queue' \in Seq(Plain(callers)) /\ asked' = "none"
    BY <1>12, <2>1, HeadFits, EchoFits DEF DisableEcho, echoFrame
  <2> QED BY <1>0, <1>12, <2>1, <2>2, OrderlyDisabled DEF DisableEcho
<1>13. CASE Wait
  BY <1>0, <1>13 DEF Wait, Orderly, Switching
<1>14. CASE Wake
  <2>1. hubStatus # "stopped" /\ queue' \in Seq(Plain(callers)) /\ asked' = "none"
    BY <1>14 DEF Wake, echoFrame, Orderly
  <2> QED BY <1>0, <1>14, <2>1, OrderlyEnabled, OrderlyDisabled DEF Wake
<1>15. CASE StopEvent
  <2>1. PICK s \in Seq({e \in Events : /\ e.type = "disable" /\ e.pool \in SubPools
                                      /\ IsOn(subPoolAst[e.pool])}) :
              queue' = s \o Tail(queue)
    BY <1>15, StopQueue
  <2>2. {e \in Events : e.type = "disable" /\ e.pool \in SubPools /\ IsOn(subPoolAst[e.pool])}
            \subseteq Plain(callers)
    BY SubPoolsAssumption DEF Plain, IsEcho, InBatch, IsOn, All
  <2>3. s \in Seq(Plain(callers))
    BY <2>2, SeqWider
  <2>4. queue # <<>> /\ pc = "handling" /\ hubStatus' = hubStatus /\ hubStatus # "stopped"
    BY <1>0a, <1>15 DEF StopEvent, Takes
  <2>5. /\ QueueFits(queue', callers, hubAst)
        /\ queue \in Seq(Plain(callers)) => queue' \in Seq(Plain(callers))
    BY <2>1, <2>3, <2>4, HeadFits, Prefixed
  <2>6. hubAst' = hubAst /\ asked' = asked /\ pc' \in {"handling", "blocked"}
    BY <1>15, <2>4 DEF StopEvent
  <2> QED BY <1>0, <2>4, <2>5, <2>6 DEF Orderly, Switching
<1>16. CASE UNCHANGED controlVars
  BY <1>16 DEF controlVars, Orderly, Switching
<1> QED BY <1>1, <1>2, <1>3, <1>4, <1>5, <1>6, <1>7, <1>11, <1>12,
           <1>13, <1>14, <1>15, <1>16 DEF ControlNext, HubStep

\* Callers that ask for all: a step is made for all or for none.
LEMMA InBatchStep ==
    ASSUME ControlTypeOK, Orderly, callers = "batch", InBatch, [ControlNext]_controlVars
    PROVE  InBatch'
<1> USE DEF timeVars, modes, astVars, poolVars, stopVars, handleFrame, echoFrame
<1>1. CASE EnableOne \/ DisableOne
  <2>1. queue # <<>> /\ Head(queue).type \in {"enable", "disable"} /\ Head(queue).pool # All
    BY <1>1 DEF EnableOne, DisableOne, Takes, P
  <2> QED BY <2>1, HeadFits DEF Held
<1>2. CASE EnableAll
  <2>1. CASE hubAst = "disabling"
    BY <1>2, <2>1 DEF EnableAll, NoRequest, InBatch
  <2>2. CASE hubAst # "disabling"
    <3>1. \A p \in SubPools : last'[p] = "enable"
      BY <1>2, <2>2 DEF EnableAll, LastIs
    <3>2. IsOn(hubAst')
      BY <1>2, <2>2 DEF EnableAll, NoRequest, Request, Asking, IsOn, ControlTypeOK, Statuses
    <3>3. enableInBatch' /\ disableInBatch' /\ subPoolAst' = subPoolAst
      BY <1>2, <2>2 DEF EnableAll, InBatch
    <3> QED BY <3>1, <3>2, <3>3 DEF InBatch, IsOn
  <2> QED BY <2>1, <2>2
<1>3. CASE DisableAll
  <2>1. CASE hubAst = "enabling"
    BY <1>3, <2>1 DEF DisableAll, NoRequest, InBatch
  <2>2. CASE hubAst # "enabling"
    <3>1. \A p \in SubPools : last'[p] = "disable"
      BY <1>3, <2>2 DEF DisableAll, LastIs
    <3>2. ~ IsOn(hubAst')
      BY <1>3, <2>2 DEF DisableAll, NoRequest, Request, Asking, IsOn, ControlTypeOK, Statuses
    <3>3. enableInBatch' /\ disableInBatch' /\ subPoolAst' = subPoolAst
      BY <1>3, <2>2 DEF DisableAll, InBatch
    <3> QED BY <3>1, <3>2, <3>3 DEF InBatch, IsOn
  <2> QED BY <2>1, <2>2
<1>4. ASSUME NEW ok, Enabled(ok), hubAst = "enabling", UNCHANGED <<enableInBatch, disableInBatch, last>>
      PROVE  InBatch'
  BY <1>4 DEF Enabled, InBatch, IsOn
<1>5. ASSUME Disabled, hubAst = "disabling", UNCHANGED <<disableInBatch, last>>
      PROVE  InBatch'
  BY <1>5 DEF Disabled, InBatch, IsOn
<1>6. CASE EnableEcho
  <2>1. hubAst = "enabling"
    BY <1>6, EchoFits DEF EnableEcho, Takes, IsEcho
  <2> QED BY <1>4, <1>6, <2>1 DEF EnableEcho
<1>7. CASE DisableEcho
  <2>1. hubAst = "disabling"
    BY <1>7, EchoFits DEF DisableEcho, Takes, IsEcho
  <2> QED BY <1>5, <1>7, <2>1 DEF DisableEcho
<1>8. CASE Wake
  <2>1. hubAst \in {"enabling", "disabling"}
    BY <1>8 DEF Wake, Orderly, Switching
  <2> QED BY <1>4, <1>5, <1>8, <2>1 DEF Wake
<1>9. CASE Start \/ Ask \/ Stop \/ Join \/ Schedule \/ Answer \/ Wait \/ StopEvent \/ UNCHANGED controlVars
  BY <1>9 DEF Start, Ask, Stop, Join, Schedule, Answer, Wait, StopEvent, controlVars, InBatch
<1> QED BY <1>1, <1>2, <1>3, <1>6, <1>7, <1>8, <1>9 DEF ControlNext, HubStep

\* Callers that ask for one: AST follows the first and the last that is on.
LEMMA OneByOneStep ==
    ASSUME ControlTypeOK, Orderly, callers = "single", OneByOne, [ControlNext]_controlVars
    PROVE  OneByOne'
<1> USE DEF timeVars, modes, astVars, poolVars, stopVars, handleFrame, echoFrame
<1>1. CASE EnableAll \/ DisableAll
  <2>1. queue # <<>> /\ Head(queue).type \in {"enable", "disable"} /\ Head(queue).pool = All
    BY <1>1 DEF EnableAll, DisableAll, Takes, P
  <2> QED BY <2>1, HeadFits DEF Held
<1>2. CASE EnableOne
  <2>1. P \in SubPools /\ pc = "handling"
    BY <1>2, HeadType DEF EnableOne, Takes, P, Events
  <2>2. /\ last'[P] = "enable" /\ subPoolAst'[P] = IF hubAst = "enabled" THEN "enabled" ELSE "enabling"
        /\ \A q \in SubPools : q # P => last'[q] = last[q] /\ subPoolAst'[q] = subPoolAst[q]
    BY <1>2, <2>1 DEF EnableOne, LastIs, ControlTypeOK
  <2>3. CASE hubAst = "disabled"
    <3>1. hubAst' = "enabling" /\ ~enableInBatch'
      BY <1>2, <2>3 DEF EnableOne, Request, Asking
    <3> QED BY <2>2, <2>3, <3>1 DEF OneByOne, IsOn
  <2>4. CASE hubAst # "disabled"
    <3>1. hubAst' = hubAst /\ enableInBatch' = enableInBatch /\ disableInBatch' = disableInBatch /\ ~enableInBatch
      BY <1>2, <2>4 DEF EnableOne, NoRequest, OneByOne
    <3> QED BY <2>2, <2>4, <3>1 DEF OneByOne, IsOn
  <2> QED BY <2>3, <2>4
<1>3. CASE DisableOne
  <2>1. P \in SubPools /\ pc = "handling" /\ P # All
    BY <1>3, HeadType DEF DisableOne, Takes, P, Events
  <2>2. \A q \in SubPools : last'[q] = IF q = P THEN "disable" ELSE last[q]
    BY <1>3, <2>1 DEF DisableOne, LastIs
  <2>3. \A q \in SubPools : q # P => subPoolAst'[q] = subPoolAst[q]
    BY <1>3, <2>1 DEF DisableOne, ControlTypeOK
  <2>4. /\ Found(P) = "enabled" => subPoolAst'[P] \in {"disabling", "disabled"}
        /\ Found(P) = "enabling" => subPoolAst'[P] = "disabled"
        /\ Found(P) \notin {"enabled", "enabling"} => subPoolAst'[P] = subPoolAst[P]
    BY <1>3, <2>1, FoundType DEF DisableOne, ControlTypeOK
  <2>5. ~ IsOn(subPoolAst'[P])
    <3>1. CASE Found(P) \in {"enabled", "enabling"}
      BY <2>4, <3>1 DEF IsOn
    <3>2. CASE Found(P) \notin {"enabled", "enabling"}
      BY <2>1, <2>4, <3>2 DEF Found, StatusOf, OneByOne, IsOn
    <3> QED BY <3>1, <3>2
  <2>6. CASE Found(P) = "enabled" /\ ShouldDisableAST(P)
    <3>1. hubAst' = "disabling" /\ ~disableInBatch' /\ enableInBatch' = enableInBatch
      BY <1>3, <2>6 DEF DisableOne, Request, Asking
    <3>2. ~enableInBatch /\ \A q \in SubPools : q # P => ~IsOn(subPoolAst[q])
      BY <2>1, <2>6, DisableEnds
    <3> QED BY <2>2, <2>3, <2>5, <3>1, <3>2 DEF OneByOne, IsOn
  <2>7. CASE ~ (Found(P) = "enabled" /\ ShouldDisableAST(P))
    <3>1. /\ hubAst' = hubAst /\ enableInBatch' = enableInBatch /\ disableInBatch' = disableInBatch /\ pc' = pc
      BY <1>3, <2>7 DEF DisableOne, NoRequest
    <3>2. enableInBatch => subPoolAst'[P] = "none"
      BY <2>1, <2>4 DEF OneByOne, Found, StatusOf
    <3> QED BY <2>2, <2>3, <2>5, <3>1, <3>2 DEF OneByOne, IsOn
  <2> QED BY <2>6, <2>7
<1>4. ASSUME NEW ok, Enabled(ok), hubAst = "enabling", UNCHANGED <<enableInBatch, disableInBatch, last>>
      PROVE  OneByOne'
  <2>1. ~enableInBatch
    BY <1>4 DEF OneByOne
  <2>2. \A p \in SubPools : subPoolAst'[p] = IF ok /\ subPoolAst[p] = "enabling" THEN "enabled" ELSE subPoolAst[p]
    BY <1>4, <2>1 DEF Enabled
  <2>3. hubAst' = IF ok THEN "enabled" ELSE "enabling"
    BY <1>4 DEF Enabled
  <2> QED BY <1>4, <2>1, <2>2, <2>3 DEF OneByOne, IsOn
<1>5. ASSUME Disabled, hubAst = "disabling", UNCHANGED <<disableInBatch, last>>
      PROVE  OneByOne'
  <2>1. ~disableInBatch /\ hubAst' = "disabled" /\ ~enableInBatch'
    BY <1>5 DEF OneByOne, Disabled
  <2>2. \A p \in SubPools : subPoolAst'[p] = IF subPoolAst[p] = "disabling" THEN "disabled" ELSE subPoolAst[p]
    BY <1>5, <2>1 DEF Disabled
  <2>3. pc' # "spinning" => \A p \in SubPools : subPoolAst[p] # "enabling"
    BY <1>5, <2>1 DEF Disabled, Spins
  <2> QED BY <1>5, <2>1, <2>2, <2>3 DEF OneByOne, IsOn
<1>6. CASE EnableEcho
  <2>1. hubAst = "enabling"
    BY <1>6, EchoFits DEF EnableEcho, Takes, IsEcho
  <2> QED BY <1>4, <1>6, <2>1 DEF EnableEcho
<1>7. CASE DisableEcho
  <2>1. hubAst = "disabling"
    BY <1>7, EchoFits DEF DisableEcho, Takes, IsEcho
  <2> QED BY <1>5, <1>7, <2>1 DEF DisableEcho
<1>8. CASE Wake
  <2>1. hubAst \in {"enabling", "disabling"}
    BY <1>8 DEF Wake, Orderly, Switching
  <2> QED BY <1>4, <1>5, <1>8, <2>1 DEF Wake
<1>9. CASE Start \/ Ask \/ Stop \/ Join \/ Schedule \/ Answer \/ Wait \/ StopEvent \/ UNCHANGED controlVars
  <2>1. UNCHANGED <<hubAst, subPoolAst, enableInBatch, disableInBatch, last>>
    BY <1>9 DEF Start, Ask, Stop, Join, Schedule, Answer, Wait, StopEvent, controlVars
  <2>2. pc = "spinning" => pc' = "spinning" \/ hubAst # "disabled"
    BY <1>9 DEF Start, Ask, Stop, Join, Schedule, Answer, Wait, StopEvent, controlVars, Takes, Orderly
  <2> QED BY <2>1, <2>2 DEF OneByOne
<1> QED BY <1>1, <1>2, <1>3, <1>6, <1>7, <1>8, <1>9 DEF ControlNext, HubStep

LEMMA InvStep == ASSUME SchedulesCover, Inv, [ControlNext]_controlVars PROVE Inv'
<1>1. ControlTypeOK' /\ Scheduled'
  BY TypeStep, ScheduledStep DEF Inv
<1>2. callers' = callers /\ callers \in {"single", "batch", "both"}
  BY ModesStay DEF Inv, ControlTypeOK
<1>3. CASE callers = "both"
  BY <1>1, <1>2, <1>3 DEF Inv
<1>4. CASE callers = "batch"
  BY <1>1, <1>2, <1>4, OrderlyStep, InBatchStep DEF Inv
<1>5. CASE callers = "single"
  BY <1>1, <1>2, <1>5, OrderlyStep, OneByOneStep DEF Inv
<1> QED BY <1>2, <1>3, <1>4, <1>5

LEMMA InvOff == Inv => OffForAll
<1> SUFFICES ASSUME Inv PROVE OffForAll
  OBVIOUS
<1>1. NoneEnabledWhileDisabling
  BY DEF Inv, NoneEnabledWhileDisabling, OneByOne
<1>2. ASSUME hubStatus = "stopped", callers # "both"
      PROVE  /\ hubAst = "disabled" /\ asked = "none"
             /\ \A p \in SubPools : ~IsOn(subPoolAst[p])
  <2>1. hubAst = "disabled" /\ pc # "spinning"
    BY <1>2 DEF Inv, Orderly
  <2>2. asked = "none"
    BY <1>2, <2>1 DEF Inv, Orderly, Asking
  <2>3. CASE callers = "single"
    BY <2>1, <2>2, <2>3 DEF Inv, OneByOne
  <2>4. CASE callers = "batch"
    BY <2>1, <2>2, <2>4 DEF Inv, InBatch, IsOn
  <2> QED BY <1>2, <2>3, <2>4 DEF Inv, ControlTypeOK
<1> QED BY <1>1, <1>2 DEF OffForAll, StoppedMeansOff, Inv

LEMMA InvInvolved == Inv => InvolvedAsAsked
<1> SUFFICES ASSUME Inv, Settled, callers # "both", NEW p \in SubPools, NEW second \in 0 .. DayEnd - 1
             PROVE  IsInvolved(p, second) <=> last[p] = "enable" /\ second \in wanted[p]
  BY DEF InvolvedAsAsked
<1>1. TimeIsScheduled(schedules[p], second) <=> second \in wanted[p]
  BY DEF Inv, Scheduled
<1>2. pc = "handling" /\ hubAst \in {"disabled", "enabled"}
  BY DEF Settled
<1>3. CASE callers = "batch"
  <2>1. enableInBatch /\ (last[p] = "enable" <=> IsOn(hubAst))
    BY <1>3 DEF Inv, InBatch
  <2> QED BY <1>1, <1>2, <2>1 DEF IsInvolved, IsOn
<1>4. CASE callers = "single"
  <2>1. OneByOne
    BY <1>4 DEF Inv
  <2>2. last[p] = "enable" <=> IsOn(subPoolAst[p])
    BY <2>1 DEF OneByOne
  <2>3. IsOn(subPoolAst[p]) <=> IF enableInBatch THEN hubAst = "enabled" ELSE subPoolAst[p] = "enabled"
    BY <1>2, <2>1 DEF OneByOne, IsOn
  <2> QED BY <1>1, <2>2, <2>3 DEF IsInvolved
<1> QED BY <1>3, <1>4 DEF Inv, ControlTypeOK

--------------------------------------------------------------------------------

(* AST is on or off for all SubPools: whatever is asked while it switches, by  *)
(* HandleEnableAST and HandleDisableAST for one SubPool or all, none is        *)
(* enabled while it is being disabled, and a HUB that has stopped leaves it    *)
(* off; for every set of SubPools.                                             *)
THEOREM OffForAllHolds == ASSUME SchedulesCover PROVE ControlSpec => []OffForAll
<1>1. Inv /\ [ControlNext]_controlVars => Inv'
  BY InvStep
<1> QED BY InitInv, <1>1, InvOff, PTL DEF ControlSpec

(* When the HUB thread has nothing left to do, ShouldSubPoolBeInvolved holds   *)
(* for the SubPools last asked for, in the seconds of their slices, and for no *)
(* other; for every set of SubPools, and any lists of slices that add up.      *)
THEOREM InvolvedAsAskedHolds == ASSUME SchedulesCover PROVE ControlSpec => []InvolvedAsAsked
<1>1. Inv /\ [ControlNext]_controlVars => Inv'
  BY InvStep
<1> QED BY InitInv, <1>1, InvInvolved, PTL DEF ControlSpec
================================================================================
