---------------------------- MODULE ASTCore_proofs ----------------------------
(***************************************************************************)
(* Theorems about ASTCore for every value of its constants: types, the one *)
(* request, the abstract switch; then the sessions (a session is what lies *)
(* between enabling and disabling AST), whose threads work, that nothing   *)
(* put aside is stranded, that echoes keep their order; at last the        *)
(* conversation of the generator with the HUB, by counting messages.       *)
(***************************************************************************)
EXTENDS ASTCore, FiniteSetTheorems, TLAPS

-----------------------------------------------------------------------------
(* Facts about queues.                                                     *)

LEMMA TailOfSeq ==
    ASSUME NEW S, NEW q \in Seq(S), q # <<>>
    PROVE  Head(q) \in S /\ Tail(q) \in Seq(S)
OBVIOUS

LEMMA AppendToSeq ==
    ASSUME NEW S, NEW q \in Seq(S), NEW e \in S
    PROVE  Append(q, e) \in Seq(S)
OBVIOUS

LEMMA ConcatSeqs ==
    ASSUME NEW S, NEW p \in Seq(S), NEW q \in Seq(S)
    PROVE  p \o q \in Seq(S)
OBVIOUS

LEMMA SmallSeqs ==
    ASSUME NEW S
    PROVE  /\ <<>> \in Seq(S)
           /\ \A e \in S : <<e>> \in Seq(S)
           /\ \A e, f \in S : <<e, f>> \in Seq(S)
OBVIOUS

(* Facts about records and constants.                                      *)

LEMMA ZeroSession == 0 \in Sessions
BY BoundsAssumption DEF BoundsAssumption, Sessions

LEMMA RecordTyped ==
    ASSUME NEW types, NEW type \in types, NEW ok \in BOOLEAN, NEW flag \in BOOLEAN,
           NEW sn \in Sessions
    PROVE  Record(type, ok, flag, sn) \in RecordOf(types)
BY DEF Record, RecordOf

LEMMA RecordFields ==
    ASSUME NEW types, NEW r \in RecordOf(types)
    PROVE  /\ r.type \in types /\ r.ok \in BOOLEAN /\ r.flag \in BOOLEAN
           /\ r.sn \in Sessions
           /\ \A others : \A type \in others : [r EXCEPT !.type = type] \in RecordOf(others)
BY DEF RecordOf

LEMMA ExeEventTyped ==
    ASSUME NEW type \in {"planning", "stall", "stop"}
    PROVE  ExeEvent(type) \in ExeEvents
BY BoundsAssumption DEF BoundsAssumption, ExeEvent, ExeEvents

-----------------------------------------------------------------------------
(* Types.                                                                  *)

LEMMA InitTyped == Init => TypeOK
<1> SUFFICES ASSUME Init PROVE TypeOK
  OBVIOUS
<1>1. MsgTypeOK
  <2>1. msgQueue \in Seq(Messages)
    BY SmallSeqs DEF Init
  <2>2. session \in Sessions
    BY ZeroSession DEF Init
  <2> QED BY <2>1, <2>2 DEF Init, MsgTypeOK, AstStates
<1>2. GenTypeOK
  <2>1. NoGenEvent \in GenEvents
    BY RecordTyped, ZeroSession DEF NoGenEvent, GenEvents
  <2>2. genQueue \in Seq(GenEvents) /\ genPending \in Seq(GenEvents)
    BY SmallSeqs DEF Init
  <2>3. genEv \in [Threads -> GenEvents]
    BY <2>1 DEF Init
  <2> QED BY <2>2, <2>3 DEF Init, GenTypeOK, GenStatuses
<1>3. ExeTypeOK
  <2>1. exeEv \in [Threads -> ExeEvents]
    BY ExeEventTyped DEF Init, NoExeEvent
  <2>2. exeQueue \in Seq(ExeEvents) /\ exeDelayed \in Seq(ExeEvents)
    BY SmallSeqs DEF Init
  <2> QED BY <2>1, <2>2 DEF Init, ExeTypeOK, ExeStatuses
<1>4. HubTypeOK
  <2>1. hubQueue \in Seq(HubEvents) /\ hubPending \in Seq(HubEvents)
    BY SmallSeqs DEF Init
  <2>2. objs \in Nat
    BY ChoicesAssumption DEF Init, ChoicesAssumption
  <2> QED BY <2>1, <2>2 DEF Init, HubTypeOK, HubAstStates, HubStatuses
<1>5. CountsOK
  <2>1. used \in [Bounds -> Nat] /\ used["migrations"] = 0
    BY DEF Init, Bounds
  <2>2. asserted = {} /\ inflight + echoes = 0
    BY DEF Init
  <2> QED BY <2>1, <2>2, BoundsAssumption DEF CountsOK, BoundsAssumption
<1> QED
  BY <1>1, <1>2, <1>3, <1>4, <1>5 DEF TypeOK

\* A component that a step leaves alone keeps its types.
LEMMA FramesTyped ==
    /\ MsgTypeOK /\ UNCHANGED msgVars => MsgTypeOK'
    /\ GenTypeOK /\ UNCHANGED genVars => GenTypeOK'
    /\ ExeTypeOK /\ UNCHANGED exeVars => ExeTypeOK'
    /\ HubTypeOK /\ UNCHANGED hubVars => HubTypeOK'
    /\ CountsOK /\ UNCHANGED <<asserted, used, inflight, echoes>> => CountsOK'
BY DEF MsgTypeOK, msgVars, GenTypeOK, genVars, ExeTypeOK, exeVars, HubTypeOK,
       hubVars, CountsOK

LEMMA SentTyped ==
    ASSUME MsgTypeOK
    PROVE  /\ \A type \in {"collect_config_req", "collect_OBJ_prepare",
                           "collect_OBJ_normal", "collect_OBJ_post",
                           "enable_ast", "disable_ast"} : Sent(type) \in Messages
           /\ Sent("advise") \in GenEvents
           /\ Sent("stop") \in GenEvents
BY RecordTyped DEF MsgTypeOK, Sent, Messages, GenEvents

-----------------------------------------------------------------------------
LEMMA GenStepTyped ==
    ASSUME TypeOK, NEW t \in Threads, GenStep(t)
    PROVE  TypeOK'
<1> USE DEF TypeOK, GenGoes, GenActs
<1>1. CASE GenDequeue(t)
  <2>1. Head(genQueue) \in GenEvents /\ Tail(genQueue) \in Seq(GenEvents)
    BY <1>1, TailOfSeq DEF GenDequeue, GenTypeOK
  <2>2. GenTypeOK'
    BY <1>1, <2>1 DEF GenDequeue, GenTypeOK
  <2> QED BY <1>1, <2>2, FramesTyped DEF GenDequeue, genFrame, exeVars, msgVars
<1>2. CASE GenCheck(t)
  <2>1. Append(genPending, genEv[t]) \in Seq(GenEvents)
    BY AppendToSeq DEF GenTypeOK
  <2>2. GenTypeOK'
    BY <1>2, <2>1 DEF GenCheck, GenTypeOK
  <2> QED BY <1>2, <2>2, FramesTyped DEF GenCheck, genFrame, exeVars, msgVars
<1>3. CASE GenAssert(t)
  <2>1. GenTypeOK'
    BY <1>3 DEF GenAssert, GenTypeOK
  <2>2. asserted' \subseteq asserted \cup {"resolve_config", "resolve_OBJ_io"}
    <3>1. genEv[t].type \in {"resolve_config", "resolve_OBJ_io"}
      BY <1>3 DEF GenAssert, GenTypeOK, IsAnswer
    <3> QED BY <1>3, <3>1 DEF GenAssert
  <2>3. CountsOK'
    BY <1>3, <2>2 DEF GenAssert, CountsOK, genFrame, exeVars
  <2> QED BY <1>3, <2>1, <2>3, FramesTyped DEF GenAssert, genFrame, exeVars, msgVars
<1>4. CASE GenCollectConfig(t)
  <2>1. msgQueue' \in Seq(Messages)
    BY <1>4, AppendToSeq, SentTyped DEF GenCollectConfig, MsgTypeOK
  <2>2. MsgTypeOK'
    BY <1>4, <2>1 DEF GenCollectConfig, MsgTypeOK, genFrame
  <2>3. genEv[t] \in GenEvents
    BY DEF GenTypeOK
  <2>4. genEv[t].flag \in BOOLEAN
    BY <2>3, RecordFields DEF GenEvents
  <2>5. GenTypeOK'
    BY <1>4, <2>4 DEF GenCollectConfig, GenTypeOK, GenStatuses
  <2> QED BY <1>4, <2>2, <2>5, FramesTyped DEF GenCollectConfig, genFrame, exeVars
<1>5. CASE GenResolveConfig(t)
  <2>1. msgQueue' \in Seq(Messages)
    <3> DEFINE requests == <<Sent("collect_OBJ_prepare"), Sent("collect_OBJ_normal")>>
    <3>1. msgQueue \in Seq(Messages)
      BY DEF MsgTypeOK
    <3>2. requests \in Seq(Messages)
      BY SmallSeqs, SentTyped
    <3>3. msgQueue \o requests \in Seq(Messages)
      BY <3>1, <3>2, ConcatSeqs
    <3>4. msgQueue' \in {msgQueue, msgQueue \o requests}
      BY <1>5 DEF GenResolveConfig
    <3> QED BY <3>1, <3>3, <3>4
  <2>2. MsgTypeOK'
    BY <1>5, <2>1 DEF GenResolveConfig, MsgTypeOK, genFrame
  <2>3. GenTypeOK'
    BY <1>5 DEF GenResolveConfig, BothNoop, GenTypeOK, GenStatuses
  <2>4. ExeTypeOK'
    BY <1>5 DEF GenResolveConfig, BothNoop, ExeTypeOK, ExeStatuses
  <2> QED BY <1>5, <2>2, <2>3, <2>4, FramesTyped DEF GenResolveConfig, genFrame
<1>6. CASE GenResolveIO(t)
  <2>1. msgQueue' \in Seq(Messages)
    <3> DEFINE post == <<Sent("collect_OBJ_post")>>
    <3>1. msgQueue \in Seq(Messages)
      BY DEF MsgTypeOK
    <3>2. post \in Seq(Messages) /\ NextBatch(t) \in Seq(Messages)
      BY SmallSeqs, SentTyped DEF NextBatch
    <3>3. /\ msgQueue \o post \in Seq(Messages)
          /\ msgQueue \o NextBatch(t) \in Seq(Messages)
          /\ msgQueue \o NextBatch(t) \o post \in Seq(Messages)
      BY <3>1, <3>2, ConcatSeqs
    <3>4. msgQueue' \in {msgQueue, msgQueue \o post, msgQueue \o NextBatch(t),
                         msgQueue \o NextBatch(t) \o post}
      BY <1>6 DEF GenResolveIO, GenFinishLearning
    <3> QED BY <3>1, <3>3, <3>4
  <2>2. MsgTypeOK'
    BY <1>6, <2>1 DEF GenResolveIO, MsgTypeOK, genFrame
  <2>3. GenTypeOK'
    BY <1>6 DEF GenResolveIO, GenFinishLearning, BothNoop, GenTypeOK, GenStatuses
  <2>4. exeQueue' \in Seq(ExeEvents)
    <3>1. exeQueue \in Seq(ExeEvents) /\ WithStall(exeQueue) \in Seq(ExeEvents)
      BY ExeEventTyped, ConcatSeqs, SmallSeqs DEF WithStall, ExeTypeOK
    <3>2. exeQueue' \in {exeQueue, WithStall(exeQueue)}
      BY <1>6 DEF GenResolveIO, GenFinishLearning
    <3> QED BY <3>1, <3>2
  <2>5. ExeTypeOK'
    BY <1>6, <2>4 DEF GenResolveIO, GenFinishLearning, BothNoop, ExeTypeOK, ExeStatuses
  <2> QED BY <1>6, <2>2, <2>3, <2>5, FramesTyped DEF GenResolveIO, genFrame
<1>7. CASE GenResolveDeleted(t)
  <2>1. GenTypeOK'
    BY <1>7 DEF GenResolveDeleted, GenTypeOK
  <2> QED BY <1>7, <2>1, FramesTyped DEF GenResolveDeleted, genFrame, exeVars, msgVars
<1>8. CASE GenAdvise(t)
  <2>1. GenTypeOK'
    BY <1>8 DEF GenAdvise, GenTypeOK, GenStatuses
  <2> QED BY <1>8, <2>1, FramesTyped DEF GenAdvise, genFrame, exeVars, msgVars
<1>9. CASE GenDrain(t)
  <2>1. genQueue' \in Seq(GenEvents) /\ genPending' \in Seq(GenEvents)
    BY <1>9, ConcatSeqs, SmallSeqs DEF GenDrain, GenTypeOK
  <2>2. GenTypeOK'
    BY <1>9, <2>1 DEF GenDrain, GenTypeOK
  <2>3. exeQueue' \in Seq(ExeEvents)
    BY <1>9, ExeEventTyped, AppendToSeq DEF GenDrain, WithPlan, ExeTypeOK
  <2>4. ExeTypeOK'
    BY <1>9, <2>3 DEF GenDrain, ExeTypeOK
  <2> QED BY <1>9, <2>2, <2>4, FramesTyped DEF GenDrain, genFrame, msgVars
<1>10. CASE GenStop(t)
  <2>1. MsgTypeOK'
    BY <1>10 DEF GenStop, MsgTypeOK
  <2>2. GenTypeOK'
    BY <1>10 DEF GenStop, GenTypeOK
  <2> QED BY <1>10, <2>1, <2>2, FramesTyped DEF GenStop, exeVars
<1> QED
  BY <1>1, <1>2, <1>3, <1>4, <1>5, <1>6, <1>7, <1>8, <1>9, <1>10 DEF GenStep

-----------------------------------------------------------------------------
LEMMA SubmitTyped ==
    ASSUME CountsOK, inflight \in Nat, echoes \in Nat, SubmitMigration,
           UNCHANGED <<asserted, echoes>>
    PROVE  CountsOK' /\ inflight' \in Nat
BY BoundsAssumption
DEF BoundsAssumption, CountsOK, SubmitMigration, Bounds

LEMMA ExeStepTyped ==
    ASSUME TypeOK, NEW t \in Threads, ExeStep(t)
    PROVE  TypeOK'
<1> USE DEF TypeOK, ExeGoes, ExeActs
<1>0. inflight \in Nat /\ echoes \in Nat
  BY DEF ExeTypeOK
<1>1. CASE ExeDequeue(t)
  <2>1. Head(exeQueue) \in ExeEvents /\ Tail(exeQueue) \in Seq(ExeEvents)
    BY <1>1, TailOfSeq DEF ExeDequeue, ExeTypeOK
  <2>2. ExeTypeOK'
    BY <1>1, <2>1 DEF ExeDequeue, ExeTypeOK
  <2> QED BY <1>1, <2>2, FramesTyped DEF ExeDequeue, exeFrame, genVars, msgVars
<1>2. CASE ExeCheck(t)
  <2>1. Append(exeDelayed, exeEv[t]) \in Seq(ExeEvents)
    BY AppendToSeq DEF ExeTypeOK
  <2>2. ExeTypeOK'
    BY <1>2, <2>1 DEF ExeCheck, ExeTypeOK
  <2> QED BY <1>2, <2>2, FramesTyped DEF ExeCheck, exeFrame, genVars, msgVars
<1>3. CASE ExePlan(t)
  <2>1. exeQueue' \in Seq(ExeEvents) /\ exeDelayed' \in Seq(ExeEvents)
    BY <1>3, ConcatSeqs, SmallSeqs DEF ExePlan, ExeTypeOK
  <2>2. CountsOK' /\ inflight' \in Nat
    BY <1>0, <1>3, SubmitTyped DEF ExePlan, exeFrame
  <2>3. ExeTypeOK'
    BY <1>3, <2>1, <2>2 DEF ExePlan, ExeTypeOK, ExeStatuses
  <2> QED BY <1>3, <2>2, <2>3, FramesTyped DEF ExePlan, exeFrame, genVars, msgVars
<1>4. CASE ExeEcho(t)
  <2>1. CountsOK' /\ inflight' \in Nat
    BY <1>0, <1>4, SubmitTyped, FramesTyped DEF ExeEcho, exeFrame
  <2>2. ExeTypeOK'
    BY <1>4, <2>1 DEF ExeEcho, ExeTypeOK
  <2> QED BY <1>4, <2>1, <2>2, FramesTyped DEF ExeEcho, exeFrame, genVars, msgVars
<1>5. CASE ExeStall(t)
  <2>1. genQueue' \in Seq(GenEvents)
    BY <1>5, AppendToSeq, SentTyped DEF ExeStall, GenTypeOK
  <2>2. GenTypeOK'
    BY <1>5, <2>1 DEF ExeStall, exeFrame, GenTypeOK
  <2>3. ExeTypeOK'
    BY <1>5 DEF ExeStall, ExeTypeOK, ExeStatuses
  <2> QED BY <1>5, <2>2, <2>3, FramesTyped DEF ExeStall, exeFrame, msgVars
<1>6. CASE ExeStop(t)
  <2>1. MsgTypeOK'
    BY <1>6 DEF ExeStop, exeFrame, MsgTypeOK
  <2>2. ExeTypeOK'
    BY <1>6 DEF ExeStop, ExeTypeOK
  <2> QED BY <1>6, <2>1, <2>2, FramesTyped DEF ExeStop, exeFrame, genVars
<1> QED
  BY <1>1, <1>2, <1>3, <1>4, <1>5, <1>6 DEF ExeStep

LEMMA MigratorTyped ==
    ASSUME TypeOK, MigratorEcho
    PROVE  TypeOK'
<1> USE DEF TypeOK
<1>1. echoes + 1 \in 0 .. MaxMigrations
  BY BoundsAssumption
  DEF BoundsAssumption, MigratorEcho, CountsOK, ExeTypeOK, Bounds
<1>2. \A type \in {"completed", "expired"}, ok \in BOOLEAN :
          [type |-> type, no |-> echoes + 1, ok |-> ok] \in ExeEvents
  BY <1>1 DEF ExeEvents
<1>3. exeQueue' \in Seq(ExeEvents)
  BY <1>2, AppendToSeq DEF MigratorEcho, ExeTypeOK
<1>4. ExeTypeOK'
  BY <1>3 DEF MigratorEcho, ExeTypeOK
<1>5. CountsOK'
  BY DEF MigratorEcho, exeFrame, CountsOK, ExeTypeOK
<1> QED
  BY <1>4, <1>5, FramesTyped DEF MigratorEcho, exeFrame, genVars, msgVars

-----------------------------------------------------------------------------
LEMMA HubStepTyped ==
    ASSUME TypeOK, HubStep
    PROVE  TypeOK'
<1> USE DEF TypeOK
<1>1. hubQueue # <<>>
  BY DEF HubStep, HubPend, HubEnable, HubDisable, HubEnableEcho, HubDisableEcho,
         HubConfigView, HubPrepare, HubCollect, HubPost, HubChange, HubHandles
<1>2. HubEvent \in HubEvents /\ Tail(hubQueue) \in Seq(HubEvents)
  BY <1>1, TailOfSeq DEF HubEvent, HubTypeOK
<1>3. /\ Append(Tail(hubQueue), HubEvent) \in Seq(HubEvents)
      /\ Append(hubPending, HubEvent) \in Seq(HubEvents)
      /\ hubPending \o Tail(hubQueue) \in Seq(HubEvents)
  BY <1>2, AppendToSeq, ConcatSeqs DEF HubTypeOK
<1>4. HubEvent.sn \in Sessions
  BY <1>2, RecordFields DEF HubEvents
<1>5. \A ok, flag \in BOOLEAN :
          \A type \in {"collect_config_resp", "collect_OBJ_resp"} :
              Append(msgQueue, Answer(type, ok, flag)) \in Seq(Messages)
  BY <1>4, RecordTyped, AppendToSeq DEF Answer, Messages, MsgTypeOK
<1>6. UNCHANGED <<astState, msgPc, session, motor, genVars, exeVars, asserted, used>>
  BY DEF HubStep, HubPend, HubEnable, HubDisable, HubEnableEcho, HubDisableEcho,
         HubConfigView, HubPrepare, HubCollect, HubPost, HubChange, hubFrame
<1>7. msgQueue' \in Seq(Messages)
  <2>1. CASE HubPend \/ HubEnableEcho \/ HubDisableEcho \/ HubPrepare \/ HubPost
    BY <2>1 DEF HubPend, HubEnableEcho, HubDisableEcho, HubPrepare, HubPost, MsgTypeOK
  <2>2. CASE HubEnable
    BY <2>2, SmallSeqs, SentTyped DEF HubEnable, MsgTypeOK
  <2>3. CASE HubDisable
    BY <2>3, AppendToSeq, SentTyped DEF HubDisable, MsgTypeOK
  <2>4. CASE HubConfigView
    BY <2>4, <1>5, ChoicesAssumption DEF HubConfigView, ChoicesAssumption
  <2>5. CASE HubCollect
    BY <2>5, <1>5 DEF HubCollect
  <2>6. CASE HubChange
    <3>1. Record("report_delete", FALSE, FALSE, 0) \in Messages
      BY RecordTyped, ZeroSession DEF Messages
    <3> QED BY <2>6, <3>1, AppendToSeq DEF HubChange, MsgTypeOK
  <2> QED BY <2>1, <2>2, <2>3, <2>4, <2>5, <2>6 DEF HubStep
<1>8. HubTypeOK'
  <2>1. CASE HubPend
    BY <2>1, <1>2, <1>3 DEF HubPend, HubTypeOK
  <2>2. CASE HubEnable
    BY <2>2, <1>2, <1>3 DEF HubEnable, HubTypeOK, HubAstStates
  <2>3. CASE HubDisable
    BY <2>3, <1>2, <1>3 DEF HubDisable, HubTypeOK, HubAstStates
  <2>4. CASE HubEnableEcho
    BY <2>4, <1>2 DEF HubEnableEcho, HubTypeOK, HubAstStates, HubStatuses
  <2>5. CASE HubDisableEcho
    BY <2>5, <1>2 DEF HubDisableEcho, HubTypeOK, HubAstStates, HubStatuses
  <2>6. CASE HubConfigView
    BY <2>6, <1>2 DEF HubConfigView, HubTypeOK
  <2>7. CASE HubPrepare
    BY <2>7, <1>2 DEF HubPrepare, HubTypeOK, HubStatuses
  <2>8. CASE HubCollect
    <3>1. collected' = collected \/ collected' = collected + 1
      BY <2>8, Zenon DEF HubCollect
    <3>2. collected' \in Nat
      BY <3>1 DEF HubTypeOK
    <3> QED BY <2>8, <3>2, <1>2 DEF HubCollect, HubTypeOK
  <2>9. CASE HubPost
    BY <2>9, <1>3, SmallSeqs DEF HubPost, HubTypeOK, HubStatuses
  <2>10. CASE HubChange
    BY <2>10, <1>2, ChoicesAssumption DEF HubChange, HubTypeOK, ChoicesAssumption
  <2> QED BY <2>1, <2>2, <2>3, <2>4, <2>5, <2>6, <2>7, <2>8, <2>9, <2>10 DEF HubStep
<1>9. MsgTypeOK'
  BY <1>6, <1>7 DEF MsgTypeOK
<1> QED
  BY <1>6, <1>8, <1>9, FramesTyped DEF exeVars

LEMMA LaunchTyped ==
    ASSUME TypeOK, NEW bound \in Bounds \ {"migrations"},
           NEW type \in {"enable_ast", "disable_ast", "change"},
           NEW flag \in BOOLEAN, Launch(bound, type, flag)
    PROVE  TypeOK'
<1> USE DEF TypeOK
<1>1. Record(type, FALSE, flag, 0) \in HubEvents
  BY RecordTyped, ZeroSession DEF HubEvents
<1>2. hubQueue' \in Seq(HubEvents)
  BY <1>1, AppendToSeq DEF Launch, HubTypeOK
<1>3. HubTypeOK'
  BY <1>2 DEF Launch, HubTypeOK
<1>4. CountsOK'
  BY DEF Launch, Use, CountsOK, exeVars, Bounds
<1> QED
  BY <1>3, <1>4, FramesTyped DEF Launch

-----------------------------------------------------------------------------
LEMMA ResetTyped ==
    ASSUME GenTypeOK, ExeTypeOK, CountsOK, NEW status \in GenStatuses \cap ExeStatuses,
           NEW events \in Seq(GenEvents), ResetThreads(status, events),
           UNCHANGED <<genEv, adviceAfter, exeEv, echoes, asserted, used>>,
           genPc' = genPc \/ \E t \in Threads : genPc' = [genPc EXCEPT ![t] = "idle"],
           exePc' = exePc \/ \E t \in Threads : exePc' = [exePc EXCEPT ![t] = "idle"]
    PROVE  GenTypeOK' /\ ExeTypeOK' /\ CountsOK'
<1>1. genQueue' \in Seq(GenEvents) /\ genPending' \in Seq(GenEvents)
  BY SmallSeqs, ConcatSeqs DEF ResetThreads, Emptied
<1>2. GenTypeOK'
  BY <1>1 DEF ResetThreads, GenTypeOK
<1>3. exeQueue' \in Seq(ExeEvents) /\ exeDelayed' \in Seq(ExeEvents)
  BY SmallSeqs DEF ResetThreads, Emptied
<1>4. ExeTypeOK'
  BY <1>3 DEF ResetThreads, ExeTypeOK
<1>5. CountsOK'
  BY DEF ResetThreads, CountsOK, ExeTypeOK, Bounds
<1> QED BY <1>2, <1>4, <1>5

LEMMA MsgStepTyped ==
    ASSUME TypeOK, MsgStep
    PROVE  TypeOK'
<1> USE DEF TypeOK
<1>1. session \in Sessions /\ msgQueue \in Seq(Messages)
  BY DEF MsgTypeOK
<1>2. ASSUME NEW types, MsgHandles(types)
      PROVE  Msg \in Messages /\ Msg.type \in types /\ Tail(msgQueue) \in Seq(Messages)
  BY <1>1, <1>2, TailOfSeq DEF MsgHandles, Msg
<1>3. ASSUME NEW type \in {"ast_enabled", "ast_disabled"}, NEW ok \in BOOLEAN,
             NEW sn \in Sessions, NEW q \in Seq(Messages)
      PROVE  Append(q, Record(type, ok, FALSE, sn)) \in Seq(Messages)
  BY <1>3, RecordTyped, AppendToSeq DEF Messages
<1>4. CASE ForwardToHub
  <2>1. Msg \in Messages /\ Msg.type \in DOMAIN ToHub
    BY <1>2, <1>4 DEF ForwardToHub
  <2>2. ToHub[Msg.type] \in {"enable_ast_echo", "disable_ast_echo", "config_view",
                             "io_prepare", "io_normal", "io_post"}
    BY <2>1 DEF ToHub
  <2>3. [Msg EXCEPT !.type = ToHub[Msg.type]] \in HubEvents
    BY <2>1, <2>2 DEF Messages, HubEvents, RecordOf
  <2>4. hubQueue' \in Seq(HubEvents)
    BY <1>4, <2>3, AppendToSeq DEF ForwardToHub, HubTypeOK
  <2>5. HubTypeOK'
    BY <1>4, <2>4 DEF ForwardToHub, HubTypeOK
  <2>6. MsgTypeOK'
    BY <1>2, <1>4 DEF ForwardToHub, MsgTypeOK
  <2> QED BY <1>4, <2>5, <2>6, FramesTyped DEF ForwardToHub, exeVars
<1>5. CASE ForwardToGen
  <2>1. Msg \in Messages /\ Msg.type \in DOMAIN ToGen
    BY <1>2, <1>5 DEF ForwardToGen
  <2>2. ToGen[Msg.type] \in {"resolve_config", "resolve_OBJ_io", "resolve_deleted"}
    BY <2>1 DEF ToGen
  <2>3. [Msg EXCEPT !.type = ToGen[Msg.type]] \in GenEvents
    BY <2>1, <2>2 DEF Messages, GenEvents, RecordOf
  <2>4. genQueue' \in Seq(GenEvents)
    BY <1>5, <2>3, AppendToSeq DEF ForwardToGen, GenTypeOK
  <2>5. GenTypeOK'
    BY <1>5, <2>4 DEF ForwardToGen, GenTypeOK
  <2>6. MsgTypeOK'
    BY <1>2, <1>5 DEF ForwardToGen, MsgTypeOK
  <2> QED BY <1>5, <2>5, <2>6, FramesTyped DEF ForwardToGen, exeVars
<1>6. CASE EnableFails
  <2>1. MsgTypeOK'
    BY <1>1, <1>2, <1>3, <1>6 DEF EnableFails, MsgTypeOK, AstStates
  <2>2. CASE UNCHANGED <<genVars, exeVars>>
    BY <1>6, <2>1, <2>2, FramesTyped DEF EnableFails, exeVars
  <2>3. CASE ResetThreads("stopped", <<>>) /\ UNCHANGED <<genPc, genEv, adviceAfter,
                                                          exePc, exeEv, echoes>>
    BY <1>6, <2>1, <2>3, ResetTyped, FramesTyped, SmallSeqs
    DEF EnableFails, GenStatuses, ExeStatuses
  <2> QED BY <1>6, <2>2, <2>3 DEF EnableFails
<1>7. CASE EnableSucceeds
  <2>1. session + 1 \in Threads /\ session + 1 \in Sessions
    BY <1>7, <1>1, BoundsAssumption
    DEF EnableSucceeds, BoundsAssumption, Threads, Sessions
  <2>2. MsgTypeOK'
    BY <1>2, <1>3, <1>7, <2>1 DEF EnableSucceeds, MsgTypeOK, AstStates
  <2>3. <<Record("collect_config", FALSE, FALSE, session + 1)>> \in Seq(GenEvents)
    BY <2>1, RecordTyped, SmallSeqs DEF GenEvents
  <2>4. GenTypeOK' /\ ExeTypeOK' /\ CountsOK'
    BY <1>7, <2>1, <2>3, ResetTyped DEF EnableSucceeds, GenStatuses, ExeStatuses
  <2> QED BY <1>7, <2>2, <2>4, FramesTyped DEF EnableSucceeds
<1>8. CASE DisableBegin
  <2>1. MsgTypeOK'
    BY <1>1, <1>2, <1>3, <1>8 DEF DisableBegin, MsgTypeOK, AstStates
  <2> QED BY <1>8, <2>1, FramesTyped DEF DisableBegin, exeVars
<1>9. CASE GenStopBegin
  <2>1. StopGenEvent \in GenEvents
    BY <1>1, RecordTyped DEF StopGenEvent, GenEvents
  <2>2. genQueue' \in Seq(GenEvents) /\ genPending' \in Seq(GenEvents)
    BY <1>9, <2>1, SmallSeqs, ConcatSeqs DEF GenStopBegin, GenTypeOK
  <2>3. GenTypeOK'
    BY <1>9, <2>2 DEF GenStopBegin, GenTypeOK, GenStatuses
  <2>4. MsgTypeOK'
    BY <1>9 DEF GenStopBegin, MsgTypeOK
  <2> QED BY <1>9, <2>3, <2>4, FramesTyped DEF GenStopBegin, exeVars
<1>10. CASE GenStopEnd
  <2>1. GenTypeOK' /\ MsgTypeOK'
    BY <1>10 DEF GenStopEnd, GenTypeOK, GenStatuses, MsgTypeOK
  <2> QED BY <1>10, <2>1, FramesTyped DEF GenStopEnd, exeVars
<1>11. CASE ExeStopBegin
  <2>0. <<ExeEvent("stop")>> \in Seq(ExeEvents)
    BY ExeEventTyped, SmallSeqs
  <2>1. exeQueue' \in Seq(ExeEvents) /\ exeDelayed' \in Seq(ExeEvents)
    <3>1. exeQueue \in Seq(ExeEvents) /\ exeDelayed \in Seq(ExeEvents)
      BY DEF ExeTypeOK
    <3>2. /\ <<ExeEvent("stop")>> \o exeQueue \in Seq(ExeEvents)
          /\ <<ExeEvent("stop")>> \o exeDelayed \in Seq(ExeEvents)
      BY <2>0, <3>1, ConcatSeqs
    <3> QED BY <1>11, <3>1, <3>2 DEF ExeStopBegin
  <2>2. ExeTypeOK' /\ MsgTypeOK'
    BY <1>11, <2>1 DEF ExeStopBegin, ExeTypeOK, ExeStatuses, MsgTypeOK
  <2> QED BY <1>11, <2>2, FramesTyped DEF ExeStopBegin
<1>12. CASE ExeStopEnd
  <2>1. ExeTypeOK' /\ MsgTypeOK'
    BY <1>12 DEF ExeStopEnd, ExeTypeOK, ExeStatuses, MsgTypeOK
  <2> QED BY <1>12, <2>1, FramesTyped DEF ExeStopEnd
<1>13. CASE DisableEnd
  <2>1. MsgTypeOK'
    BY <1>1, <1>3, <1>13 DEF DisableEnd, MsgTypeOK, AstStates
  <2>2. ExeTypeOK'
    BY <1>13 DEF DisableEnd, ExeTypeOK
  <2>3. CountsOK'
    BY <1>13 DEF DisableEnd, CountsOK, ExeTypeOK, Bounds
  <2> QED BY <1>13, <2>1, <2>2, <2>3, FramesTyped DEF DisableEnd
<1> QED
  BY <1>4, <1>5, <1>6, <1>7, <1>8, <1>9, <1>10, <1>11, <1>12, <1>13 DEF MsgStep

LEMMA TickTyped ==
    ASSUME TypeOK, Tick
    PROVE  TypeOK'
<1> USE DEF TypeOK
<1>1. PICK advice \in AdviceChoices :
          genQueue' = Append(genQueue, Record("collect_config", FALSE, advice, session))
  BY DEF Tick
<1>2. genQueue' \in Seq(GenEvents)
  BY <1>1, RecordTyped, AppendToSeq, ChoicesAssumption
  DEF ChoicesAssumption, GenTypeOK, MsgTypeOK, GenEvents
<1>3. GenTypeOK'
  BY <1>2 DEF Tick, GenTypeOK
<1>4. CountsOK'
  BY DEF Tick, Use, CountsOK, exeVars, Bounds
<1> QED
  BY <1>3, <1>4, FramesTyped DEF Tick

(* Every variable keeps the type of the member it stands for, whatever the *)
(* threads of AST.cpp, ASTHUB.cpp and MessageExpress.cpp do; in particular *)
(* no migration is echoed more often than it was submitted.                *)
THEOREM TypesHold == Spec => []TypeOK
<1>1. TypeOK /\ [Next]_vars => TypeOK'
  <2> SUFFICES ASSUME TypeOK, [Next]_vars PROVE TypeOK'
    OBVIOUS
  <2>1. CASE MsgStep
    BY <2>1, MsgStepTyped
  <2>2. CASE \E t \in Threads : GenStep(t) \/ ExeStep(t)
    BY <2>2, GenStepTyped, ExeStepTyped
  <2>3. CASE HubStep
    BY <2>3, HubStepTyped
  <2>4. CASE MigratorEcho \/ Tick
    BY <2>4, MigratorTyped, TickTyped
  <2>5. CASE LaunchEnable \/ LaunchDisable \/ LaunchChange
    BY <2>5, LaunchTyped DEF LaunchEnable, LaunchDisable, LaunchChange, Bounds
  <2>6. CASE UNCHANGED vars
    BY <2>6, FramesTyped DEF TypeOK, vars, exeVars
  <2> QED BY <2>1, <2>2, <2>3, <2>4, <2>5, <2>6 DEF Next
<1> QED
  BY InitTyped, <1>1, PTL DEF Spec

-----------------------------------------------------------------------------
(* The HUB and AST agree on whether AST is on: ASTCore implements          *)
(* ASTSwitch.  The argument follows the one request or echo that is under  *)
(* way between the two (OneRequestAtATime).                                *)

(* Queues that hold no, or exactly one, element of some types.             *)

LEMMA WithoutConcat ==
    ASSUME NEW S, NEW p \in Seq(S), NEW q \in Seq(S), NEW types,
           Without(p, types), Without(q, types)
    PROVE  Without(p \o q, types)
BY DEF Without

LEMMA SmallWithout ==
    ASSUME NEW types
    PROVE  /\ Without(<<>>, types)
           /\ \A e : e.type \notin types => Without(<<e>>, types)
           /\ \A e, f : e.type \notin types /\ f.type \notin types
                           => Without(<<e, f>>, types)
BY DEF Without

LEMMA OneOfConcatLeft ==
    ASSUME NEW S, NEW p \in Seq(S), NEW q \in Seq(S), NEW types, NEW type, NEW ok,
           OneOf(p, types, type, ok), Without(q, types)
    PROVE  OneOf(p \o q, types, type, ok)
<1>1. PICK i \in DOMAIN p : /\ p[i].type = type /\ p[i].ok = ok
                            /\ \A j \in DOMAIN p : p[j].type \in types => j = i
  BY DEF OneOf
<1>2. i \in DOMAIN (p \o q) /\ (p \o q)[i] = p[i]
  OBVIOUS
<1>3. ASSUME NEW j \in DOMAIN (p \o q), (p \o q)[j].type \in types
      PROVE  j = i
  <2>1. j \in DOMAIN p
    <3> SUFFICES ASSUME j \notin DOMAIN p PROVE FALSE
      OBVIOUS
    <3>1. j - Len(p) \in DOMAIN q /\ (p \o q)[j] = q[j - Len(p)]
      OBVIOUS
    <3> QED BY <1>3, <3>1 DEF Without
  <2>2. (p \o q)[j] = p[j]
    BY <2>1
  <2> QED BY <1>1, <1>3, <2>1, <2>2
<1> QED BY <1>1, <1>2, <1>3 DEF OneOf

LEMMA OneOfConcatRight ==
    ASSUME NEW S, NEW p \in Seq(S), NEW q \in Seq(S), NEW types, NEW type, NEW ok,
           Without(p, types), OneOf(q, types, type, ok)
    PROVE  OneOf(p \o q, types, type, ok)
<1>1. PICK i \in DOMAIN q : /\ q[i].type = type /\ q[i].ok = ok
                            /\ \A j \in DOMAIN q : q[j].type \in types => j = i
  BY DEF OneOf
<1>2. i + Len(p) \in DOMAIN (p \o q) /\ (p \o q)[i + Len(p)] = q[i]
  OBVIOUS
<1>3. ASSUME NEW j \in DOMAIN (p \o q), (p \o q)[j].type \in types
      PROVE  j = i + Len(p)
  <2>1. j \notin DOMAIN p
    <3> SUFFICES ASSUME j \in DOMAIN p PROVE FALSE
      OBVIOUS
    <3>1. (p \o q)[j] = p[j]
      OBVIOUS
    <3> QED BY <1>3, <3>1 DEF Without
  <2>2. j - Len(p) \in DOMAIN q /\ (p \o q)[j] = q[j - Len(p)]
    BY <2>1
  <2>3. j - Len(p) = i
    BY <1>1, <1>3, <2>2
  <2> QED BY <2>3
<1> QED BY <1>1, <1>2, <1>3 DEF OneOf

LEMMA AppendOther ==
    ASSUME NEW S, NEW q \in Seq(S), NEW e \in S, NEW types, e.type \notin types
    PROVE  /\ Without(q, types) => Without(Append(q, e), types)
           /\ \A type, ok : OneOf(q, types, type, ok) => OneOf(Append(q, e), types, type, ok)
<1>1. Append(q, e) = q \o <<e>> /\ <<e>> \in Seq(S)
  OBVIOUS
<1>2. Without(<<e>>, types)
  BY DEF Without
<1> QED BY <1>1, <1>2, WithoutConcat, OneOfConcatLeft

LEMMA AppendOne ==
    ASSUME NEW S, NEW q \in Seq(S), NEW e \in S, NEW types, e.type \in types,
           Without(q, types)
    PROVE  OneOf(Append(q, e), types, e.type, e.ok)
<1>1. Append(q, e) = q \o <<e>> /\ <<e>> \in Seq(S)
  OBVIOUS
<1>2. OneOf(<<e>>, types, e.type, e.ok)
  BY DEF OneOf
<1> QED BY <1>1, <1>2, OneOfConcatRight

LEMMA SingleOne ==
    ASSUME NEW types, NEW e, e.type \in types
    PROVE  OneOf(<<e>>, types, e.type, e.ok)
BY DEF OneOf

LEMMA TailOther ==
    ASSUME NEW S, NEW q \in Seq(S), q # <<>>, NEW types
    PROVE  /\ Without(q, types) => Without(Tail(q), types)
           /\ Head(q).type \notin types =>
                \A type \in types : \A ok :
                    OneOf(q, types, type, ok) => OneOf(Tail(q), types, type, ok)
<1>1. \A i \in DOMAIN Tail(q) : i + 1 \in DOMAIN q /\ Tail(q)[i] = q[i + 1]
  OBVIOUS
<1>2. Without(q, types) => Without(Tail(q), types)
  BY <1>1 DEF Without
<1>3. ASSUME Head(q).type \notin types, NEW type \in types, NEW ok,
             OneOf(q, types, type, ok)
      PROVE  OneOf(Tail(q), types, type, ok)
  <2>1. PICK i \in DOMAIN q : /\ q[i].type = type /\ q[i].ok = ok
                              /\ \A j \in DOMAIN q : q[j].type \in types => j = i
    BY <1>3 DEF OneOf
  <2>2. i # 1
    BY <1>3, <2>1
  <2>3. i - 1 \in DOMAIN Tail(q) /\ Tail(q)[i - 1] = q[i]
    BY <2>2
  <2>4. ASSUME NEW j \in DOMAIN Tail(q), Tail(q)[j].type \in types
        PROVE  j = i - 1
    <3>1. j + 1 = i
      BY <1>1, <2>1, <2>4
    <3> QED BY <3>1
  <2> QED BY <2>1, <2>3, <2>4 DEF OneOf
<1> QED BY <1>2, <1>3

LEMMA TailOne ==
    ASSUME NEW S, NEW q \in Seq(S), q # <<>>, NEW types, NEW type, NEW ok,
           OneOf(q, types, type, ok), Head(q).type \in types
    PROVE  Head(q).type = type /\ Head(q).ok = ok /\ Without(Tail(q), types)
<1>1. PICK i \in DOMAIN q : /\ q[i].type = type /\ q[i].ok = ok
                            /\ \A j \in DOMAIN q : q[j].type \in types => j = i
  BY DEF OneOf
<1>2. 1 \in DOMAIN q /\ q[1] = Head(q)
  OBVIOUS
<1>3. i = 1
  BY <1>1, <1>2
<1>4. \A j \in DOMAIN Tail(q) : j + 1 \in DOMAIN q /\ Tail(q)[j] = q[j + 1] /\ j + 1 # 1
  OBVIOUS
<1> QED BY <1>1, <1>2, <1>3, <1>4 DEF Without

LEMMA HeadCounts ==
    ASSUME NEW q, q # <<>>, 1 \in DOMAIN q, NEW types, Head(q).type \in types
    PROVE  ~Without(q, types)
BY DEF Without

LEMMA RecordIs ==
    ASSUME NEW type, NEW ok, NEW flag, NEW sn
    PROVE  Record(type, ok, flag, sn).type = type /\ Record(type, ok, flag, sn).ok = ok
BY Zenon DEF Record

-----------------------------------------------------------------------------
(* What a message or an echo at the head of its queue says.                *)

LEMMA MsgSaysStatus ==
    ASSUME TypeOK, OneRequestAtATime, msgQueue # <<>>, Msg.type \in ControlMsgs
    PROVE  /\ Without(Tail(msgQueue), ControlMsgs) /\ Without(hubQueue, EchoEvents)
           /\ Without(hubPending, EchoEvents) /\ msgPc = "idle"
           /\ Msg.type = "enable_ast" =>
                  hubAst = "enabling" /\ astState \in {"none", "disabled"}
           /\ Msg.type = "ast_enabled" =>
                  hubAst = "enabling" /\ \/ Msg.ok = TRUE /\ astState = "enabled"
                                         \/ Msg.ok = FALSE /\ astState = "enabling"
           /\ Msg.type = "disable_ast" => hubAst = "disabling" /\ astState = "enabled"
           /\ Msg.type = "ast_disabled" =>
                  hubAst = "disabling" /\ Msg.ok = TRUE /\ astState = "disabled"
<1>1. msgQueue \in Seq(Messages)
  BY DEF TypeOK, MsgTypeOK
<1>2. ~Without(msgQueue, ControlMsgs)
  BY <1>1, HeadCounts DEF Msg
<1>3. ~Quiet /\ \A type, ok : ~AsEcho(type, ok)
  BY <1>2 DEF Quiet, AsEcho
<1>4. ASSUME NEW type, NEW ok, AsMsg(type, ok)
      PROVE  /\ Msg.type = type /\ Msg.ok = ok /\ Without(Tail(msgQueue), ControlMsgs)
             /\ Without(hubQueue, EchoEvents)
  BY <1>1, <1>4, TailOne DEF Msg, AsMsg
<1>5. /\ AsMsg("enable_ast", FALSE) => Msg.type = "enable_ast"
      /\ AsMsg("ast_enabled", TRUE) => Msg.type = "ast_enabled" /\ Msg.ok = TRUE
      /\ AsMsg("ast_enabled", FALSE) => Msg.type = "ast_enabled" /\ Msg.ok = FALSE
      /\ AsMsg("disable_ast", FALSE) => Msg.type = "disable_ast"
      /\ AsMsg("ast_disabled", TRUE) => Msg.type = "ast_disabled" /\ Msg.ok = TRUE
  BY <1>4, Zenon
<1>6. \/ AsMsg("enable_ast", FALSE) \/ AsMsg("ast_enabled", TRUE)
      \/ AsMsg("ast_enabled", FALSE) \/ AsMsg("disable_ast", FALSE)
      \/ AsMsg("ast_disabled", TRUE)
  BY <1>3, Zenon DEF OneRequestAtATime
<1>7. Without(Tail(msgQueue), ControlMsgs) /\ Without(hubQueue, EchoEvents)
  BY <1>4, <1>6, Zenon
<1> QED
  BY <1>3, <1>5, <1>7 DEF OneRequestAtATime

LEMMA EchoSaysStatus ==
    ASSUME TypeOK, OneRequestAtATime, hubQueue # <<>>, HubEvent.type \in EchoEvents
    PROVE  /\ Without(msgQueue, ControlMsgs) /\ Without(Tail(hubQueue), EchoEvents)
           /\ Without(hubPending, EchoEvents) /\ msgPc = "idle"
           /\ HubEvent.type = "enable_ast_echo" =>
                  hubAst = "enabling" /\ \/ HubEvent.ok = TRUE /\ astState = "enabled"
                                         \/ HubEvent.ok = FALSE /\ astState = "enabling"
           /\ HubEvent.type = "disable_ast_echo" =>
                  hubAst = "disabling" /\ HubEvent.ok = TRUE /\ astState = "disabled"
<1>1. hubQueue \in Seq(HubEvents)
  BY DEF TypeOK, HubTypeOK
<1>2. ~Without(hubQueue, EchoEvents)
  BY <1>1, HeadCounts DEF HubEvent
<1>3. ~Quiet /\ \A type, ok : ~AsMsg(type, ok)
  BY <1>2 DEF Quiet, AsMsg
<1>4. ASSUME NEW type, NEW ok, AsEcho(type, ok)
      PROVE  /\ HubEvent.type = type /\ HubEvent.ok = ok
             /\ Without(Tail(hubQueue), EchoEvents) /\ Without(msgQueue, ControlMsgs)
  BY <1>1, <1>4, TailOne DEF HubEvent, AsEcho
<1>5. /\ AsEcho("enable_ast_echo", TRUE) =>
             HubEvent.type = "enable_ast_echo" /\ HubEvent.ok = TRUE
      /\ AsEcho("enable_ast_echo", FALSE) =>
             HubEvent.type = "enable_ast_echo" /\ HubEvent.ok = FALSE
      /\ AsEcho("disable_ast_echo", TRUE) =>
             HubEvent.type = "disable_ast_echo" /\ HubEvent.ok = TRUE
  BY <1>4, Zenon
<1>6. \/ AsEcho("enable_ast_echo", TRUE) \/ AsEcho("enable_ast_echo", FALSE)
      \/ AsEcho("disable_ast_echo", TRUE)
  BY <1>3, Zenon DEF OneRequestAtATime
<1>7. Without(Tail(hubQueue), EchoEvents) /\ Without(msgQueue, ControlMsgs)
  BY <1>4, <1>6, Zenon
<1> QED
  BY <1>3, <1>5, <1>7 DEF OneRequestAtATime

-----------------------------------------------------------------------------
(* Steps that have nothing to do with the switch.                          *)

Keeps(p, q, types) ==
    /\ Without(p, types) => Without(q, types)
    /\ \A type \in types : \A ok : OneOf(p, types, type, ok) => OneOf(q, types, type, ok)

LEMMA KeepsSelf == ASSUME NEW q, NEW types PROVE Keeps(q, q, types)
BY DEF Keeps

LEMMA QuietStep ==
    ASSUME OneRequestAtATime,
           Keeps(msgQueue, msgQueue', ControlMsgs), Keeps(hubQueue, hubQueue', EchoEvents),
           Without(hubPending', EchoEvents), UNCHANGED <<hubAst, astState>>,
           (msgPc' = "idle") <=> (msgPc = "idle")
    PROVE  OneRequestAtATime' /\ [Switch!Next]_<<hubAst, astState>>
<1>1. /\ Quiet => Quiet'
      /\ \A type \in ControlMsgs : \A ok : AsMsg(type, ok) => AsMsg(type, ok)'
      /\ \A type \in EchoEvents : \A ok : AsEcho(type, ok) => AsEcho(type, ok)'
  BY DEF Keeps, Quiet, AsMsg, AsEcho
<1>2. OneRequestAtATime'
  BY <1>1 DEF OneRequestAtATime, ControlMsgs, EchoEvents
<1> QED BY <1>2

LEMMA GenSwitches ==
    ASSUME TypeOK, OneRequestAtATime, NEW t \in Threads, GenStep(t)
    PROVE  OneRequestAtATime' /\ [Switch!Next]_<<hubAst, astState>>
<1>1. msgQueue \in Seq(Messages)
  BY DEF TypeOK, MsgTypeOK
<1>2. PICK new \in Seq(Messages) :
          msgQueue' = msgQueue \o new /\ Without(new, ControlMsgs)
  <2> DEFINE Said == {"collect_config_req", "collect_OBJ_prepare",
                      "collect_OBJ_normal", "collect_OBJ_post"}
  <2>1. \A type \in Said : Sent(type) \in Messages /\ Sent(type).type \notin ControlMsgs
    BY SentTyped, RecordIs DEF TypeOK, Sent, ControlMsgs
  <2>2. CASE UNCHANGED msgQueue
    <3>1. msgQueue' = msgQueue \o <<>> /\ <<>> \in Seq(Messages)
      BY <1>1, <2>2
    <3> QED BY <3>1, SmallWithout
  <2>3. CASE GenCollectConfig(t)
    <3> DEFINE e == Sent("collect_config_req")
    <3>1. e \in Messages /\ e.type \notin ControlMsgs
      BY <2>1
    <3>2. msgQueue' = Append(msgQueue, e)
      BY <2>3 DEF GenCollectConfig
    <3> HIDE DEF e
    <3>3. msgQueue' = msgQueue \o <<e>> /\ <<e>> \in Seq(Messages)
      BY <1>1, <3>1, <3>2
    <3> QED BY <3>1, <3>3, SmallWithout
  <2>4. CASE GenResolveConfig(t)
    <3> DEFINE both == <<Sent("collect_OBJ_prepare"), Sent("collect_OBJ_normal")>>
    <3>1. both \in Seq(Messages) /\ Without(both, ControlMsgs)
      BY <2>1, SmallSeqs, SmallWithout
    <3>2. UNCHANGED msgQueue \/ msgQueue' = msgQueue \o both
      BY <2>4 DEF GenResolveConfig
    <3> QED BY <2>2, <3>1, <3>2
  <2>5. CASE GenResolveIO(t)
    <3> DEFINE post == <<Sent("collect_OBJ_post")>>
    <3>1. post \in Seq(Messages) /\ NextBatch(t) \in Seq(Messages)
      BY <2>1, SmallSeqs DEF NextBatch
    <3>2. Without(post, ControlMsgs) /\ Without(NextBatch(t), ControlMsgs)
      BY <2>1, SmallWithout DEF NextBatch
    <3>3. /\ NextBatch(t) \o post \in Seq(Messages)
          /\ Without(NextBatch(t) \o post, ControlMsgs)
      BY <3>1, <3>2, WithoutConcat, ConcatSeqs
    <3>4. (msgQueue \o NextBatch(t)) \o post = msgQueue \o (NextBatch(t) \o post)
      BY <1>1, <3>1
    <3>5. msgQueue' \in {msgQueue, msgQueue \o post, msgQueue \o NextBatch(t),
                         msgQueue \o NextBatch(t) \o post}
      BY <2>5 DEF GenResolveIO, GenFinishLearning
    <3> QED BY <2>2, <3>1, <3>2, <3>3, <3>4, <3>5
  <2> QED
    BY <2>2, <2>3, <2>4, <2>5
    DEF GenStep, GenDequeue, GenCheck, GenAssert, GenResolveDeleted, GenAdvise,
        GenDrain, GenStop
<1>3. Keeps(msgQueue, msgQueue', ControlMsgs)
  BY <1>1, <1>2, WithoutConcat, OneOfConcatLeft DEF Keeps
<1>4. UNCHANGED <<hubQueue, hubPending, hubAst, astState>>
      /\ ((msgPc' = "idle") <=> (msgPc = "idle"))
  BY DEF GenStep, GenDequeue, GenCheck, GenAssert, GenCollectConfig, GenResolveConfig,
         GenResolveIO, GenResolveDeleted, GenAdvise, GenDrain, GenStop, genFrame, hubVars
<1> QED
  BY <1>3, <1>4, KeepsSelf, QuietStep DEF OneRequestAtATime

\* The executor, the migrator, the timer and the threads' stops.
LEMMA OthersSwitch ==
    ASSUME OneRequestAtATime,
           UNCHANGED <<msgQueue, hubQueue, hubPending, hubAst, astState>>,
           (msgPc' = "idle") <=> (msgPc = "idle")
    PROVE  OneRequestAtATime' /\ [Switch!Next]_<<hubAst, astState>>
BY KeepsSelf, QuietStep DEF OneRequestAtATime

-----------------------------------------------------------------------------
LEMMA HubSwitches ==
    ASSUME TypeOK, OneRequestAtATime, HubStep
    PROVE  OneRequestAtATime' /\ [Switch!Next]_<<hubAst, astState>>
<1> DEFINE e == HubEvent
           rest == Tail(hubQueue)
<1>1. /\ msgQueue \in Seq(Messages) /\ hubQueue \in Seq(HubEvents) /\ hubQueue # <<>>
      /\ hubPending \in Seq(HubEvents)
  BY DEF TypeOK, MsgTypeOK, HubTypeOK, HubStep, HubPend, HubEnable, HubDisable,
         HubEnableEcho, HubDisableEcho, HubConfigView, HubPrepare, HubCollect,
         HubPost, HubChange, HubHandles
<1>2. e \in HubEvents /\ rest \in Seq(HubEvents)
  BY <1>1, TailOfSeq DEF HubEvent
<1>3. UNCHANGED <<astState, msgPc>>
  BY DEF HubStep, HubPend, HubEnable, HubDisable, HubEnableEcho, HubDisableEcho,
         HubConfigView, HubPrepare, HubCollect, HubPost, HubChange, hubFrame
<1>4. Without(hubPending, EchoEvents)
  BY DEF OneRequestAtATime
<1>5. ASSUME e.type \notin EchoEvents
      PROVE  Keeps(hubQueue, rest, EchoEvents)
             /\ Keeps(hubQueue, Append(rest, e), EchoEvents)
             /\ Keeps(hubQueue, hubPending \o rest, EchoEvents)
  <2>1. Keeps(hubQueue, rest, EchoEvents)
    BY <1>1, <1>5, TailOther DEF Keeps, HubEvent
  <2>2. Keeps(hubQueue, Append(rest, e), EchoEvents)
    BY <1>2, <1>5, <2>1, AppendOther DEF Keeps
  <2>3. Keeps(hubQueue, hubPending \o rest, EchoEvents)
    BY <1>1, <1>2, <1>4, <2>1, WithoutConcat, OneOfConcatRight DEF Keeps
  <2> QED BY <2>1, <2>2, <2>3
<1>6. CASE HubPend
  <2>1. e.type \notin EchoEvents
    BY <1>6 DEF HubPend, HubShouldPend, EchoEvents
  <2>2. Without(hubPending', EchoEvents)
    BY <1>1, <1>2, <1>4, <1>6, <2>1, AppendOther DEF HubPend
  <2> QED
    BY <1>3, <1>5, <1>6, <2>1, <2>2, KeepsSelf, QuietStep DEF HubPend
<1>7. CASE HubEnable
  <2>1. e.type \notin EchoEvents
    BY <1>7 DEF HubEnable, HubHandles, HubEvent, EchoEvents
  <2>2. CASE hubAst # "disabled"
    BY <1>3, <1>4, <1>5, <1>7, <2>1, <2>2, KeepsSelf, QuietStep DEF HubEnable
  <2>3. CASE hubAst = "disabled"
    <3>1. msgPc = "idle" /\ Without(hubQueue, EchoEvents) /\ astState \in {"none", "disabled"}
      BY <2>3 DEF OneRequestAtATime, Quiet
    <3>2. OneOf(<<Sent("enable_ast")>>, ControlMsgs, "enable_ast", FALSE)
      <4>1. Sent("enable_ast").type = "enable_ast" /\ Sent("enable_ast").ok = FALSE
        BY RecordIs, Zenon DEF Sent
      <4>2. Sent("enable_ast").type \in ControlMsgs
        BY <4>1 DEF ControlMsgs
      <4>3. OneOf(<<Sent("enable_ast")>>, ControlMsgs, Sent("enable_ast").type,
                  Sent("enable_ast").ok)
        BY <4>2, SingleOne, Zenon
      <4> QED BY <4>1, <4>3, Zenon
    <3>3. AsMsg("enable_ast", FALSE)'
      BY <1>5, <1>7, <2>1, <2>3, <3>1, <3>2 DEF AsMsg, HubEnable, Keeps
    <3>4. hubAst' = "enabling" /\ UNCHANGED hubPending
      BY <1>7, <2>3 DEF HubEnable
    <3>5. OneRequestAtATime'
      BY <1>3, <1>4, <3>1, <3>3, <3>4 DEF OneRequestAtATime
    <3>6. Switch!Next
      BY <1>3, <2>3, <3>1, <3>4 DEF Switch!Next, Switch!RequestEnable, Switch!Off
    <3> QED BY <3>5, <3>6
  <2> QED BY <2>2, <2>3
<1>8. CASE HubDisable
  <2>1. e.type \notin EchoEvents
    BY <1>8 DEF HubDisable, HubHandles, HubEvent, EchoEvents
  <2>2. CASE hubAst # "enabled"
    BY <1>3, <1>4, <1>5, <1>8, <2>1, <2>2, KeepsSelf, QuietStep DEF HubDisable
  <2>3. CASE hubAst = "enabled"
    <3>1. /\ msgPc = "idle" /\ Without(hubQueue, EchoEvents) /\ astState = "enabled"
          /\ Without(msgQueue, ControlMsgs)
      BY <2>3 DEF OneRequestAtATime, Quiet
    <3>2. OneOf(Append(msgQueue, Sent("disable_ast")), ControlMsgs, "disable_ast", FALSE)
      <4>1. Sent("disable_ast").type = "disable_ast" /\ Sent("disable_ast").ok = FALSE
        BY RecordIs, Zenon DEF Sent
      <4>2. Sent("disable_ast") \in Messages
        BY SentTyped DEF TypeOK
      <4> QED BY <1>1, <3>1, <4>1, <4>2, AppendOne, Zenon DEF ControlMsgs
    <3>3. AsMsg("disable_ast", FALSE)'
      BY <1>5, <1>8, <2>1, <2>3, <3>1, <3>2 DEF AsMsg, HubDisable, Keeps
    <3>4. hubAst' = "disabling" /\ UNCHANGED hubPending
      BY <1>8, <2>3 DEF HubDisable
    <3>5. OneRequestAtATime'
      BY <1>3, <1>4, <3>1, <3>3, <3>4 DEF OneRequestAtATime
    <3>6. Switch!Next
      BY <1>3, <2>3, <3>1, <3>4 DEF Switch!Next, Switch!RequestDisable
    <3> QED BY <3>5, <3>6
  <2> QED BY <2>2, <2>3
<1>9. CASE HubEnableEcho
  <2>1. e.type = "enable_ast_echo" /\ e.type \in EchoEvents
    BY <1>9 DEF HubEnableEcho, HubHandles, HubEvent, EchoEvents
  <2>2. /\ hubAst = "enabling" /\ msgPc = "idle"
        /\ Without(msgQueue, ControlMsgs) /\ Without(rest, EchoEvents)
        /\ \/ e.ok = TRUE /\ astState = "enabled"
           \/ e.ok = FALSE /\ astState = "enabling"
    BY <1>1, <2>1, EchoSaysStatus
  <2>3. Quiet' /\ Without(hubPending', EchoEvents)
    BY <1>4, <1>9, <2>2 DEF Quiet, HubEnableEcho
  <2>4. CASE e.ok = TRUE
    <3>1. hubAst' = "enabled" /\ astState = "enabled"
      BY <1>9, <2>2, <2>4 DEF HubEnableEcho
    <3> QED
      BY <1>3, <2>2, <2>3, <3>1
      DEF OneRequestAtATime, Switch!Next, Switch!ConfirmEnable
  <2>5. CASE e.ok = FALSE
    <3>1. hubAst' = "enabling" /\ astState = "enabling"
      BY <1>9, <2>2, <2>5 DEF HubEnableEcho
    <3> QED BY <1>3, <2>2, <2>3, <3>1 DEF OneRequestAtATime
  <2> QED BY <2>2, <2>4, <2>5
<1>10. CASE HubDisableEcho
  <2>1. e.type = "disable_ast_echo" /\ e.type \in EchoEvents
    BY <1>10 DEF HubDisableEcho, HubHandles, HubEvent, EchoEvents
  <2>2. /\ hubAst = "disabling" /\ msgPc = "idle" /\ e.ok = TRUE /\ astState = "disabled"
        /\ Without(msgQueue, ControlMsgs) /\ Without(rest, EchoEvents)
    BY <1>1, <2>1, EchoSaysStatus
  <2>3. Quiet' /\ Without(hubPending', EchoEvents)
    BY <1>4, <1>10, <2>2 DEF Quiet, HubDisableEcho
  <2>4. hubAst' = "disabled"
    BY <1>10, <2>2 DEF HubDisableEcho
  <2> QED
    BY <1>3, <2>2, <2>3, <2>4 DEF OneRequestAtATime, Switch!Next, Switch!ConfirmDisable
<1>11. CASE HubConfigView \/ HubCollect
  <2>1. e.type \notin EchoEvents
    BY <1>11 DEF HubConfigView, HubCollect, HubHandles, HubEvent, EchoEvents
  <2>2. PICK type \in {"collect_config_resp", "collect_OBJ_resp"}, ok, flag \in BOOLEAN :
            msgQueue' = Append(msgQueue, Answer(type, ok, flag))
    BY <1>11, ChoicesAssumption DEF HubConfigView, HubCollect, ChoicesAssumption
  <2>3. Answer(type, ok, flag) \in Messages
    BY <1>2, RecordFields, RecordTyped DEF Answer, Messages, HubEvents
  <2>4. Answer(type, ok, flag).type \notin ControlMsgs
    BY RecordIs DEF Answer, ControlMsgs
  <2>5. Keeps(msgQueue, msgQueue', ControlMsgs)
    BY <1>1, <2>2, <2>3, <2>4, AppendOther DEF Keeps
  <2> QED
    BY <1>3, <1>4, <1>5, <1>11, <2>1, <2>5, QuietStep DEF HubConfigView, HubCollect
<1>12. CASE HubPrepare
  <2>1. e.type \notin EchoEvents
    BY <1>12 DEF HubPrepare, HubHandles, HubEvent, EchoEvents
  <2> QED
    BY <1>3, <1>4, <1>5, <1>12, <2>1, KeepsSelf, QuietStep DEF HubPrepare
<1>13. CASE HubPost
  <2>1. e.type \notin EchoEvents
    BY <1>13 DEF HubPost, HubHandles, HubEvent, EchoEvents
  <2> QED
    BY <1>3, <1>5, <1>13, <2>1, KeepsSelf, SmallWithout, QuietStep DEF HubPost
<1>14. CASE HubChange
  <2>1. e.type \notin EchoEvents
    BY <1>14 DEF HubChange, HubHandles, HubEvent, EchoEvents
  <2> DEFINE r == Record("report_delete", FALSE, FALSE, 0)
  <2>2. r \in Messages /\ r.type \notin ControlMsgs
    <3>1. r \in Messages
      BY RecordTyped, ZeroSession DEF Messages
    <3>2. r.type = "report_delete"
      BY DEF Record
    <3> QED BY <3>1, <3>2 DEF ControlMsgs
  <2>3. Keeps(msgQueue, msgQueue', ControlMsgs)
    BY <1>1, <1>14, <2>2, AppendOther, KeepsSelf DEF Keeps, HubChange
  <2> QED
    BY <1>3, <1>4, <1>5, <1>14, <2>1, <2>3, QuietStep DEF HubChange
<1> QED
  BY <1>6, <1>7, <1>8, <1>9, <1>10, <1>11, <1>12, <1>13, <1>14 DEF HubStep

-----------------------------------------------------------------------------
LEMMA MsgSwitches ==
    ASSUME TypeOK, OneRequestAtATime, MsgStep
    PROVE  OneRequestAtATime' /\ [Switch!Next]_<<hubAst, astState>>
<1> DEFINE rest == Tail(msgQueue)
<1>1. /\ msgQueue \in Seq(Messages) /\ hubQueue \in Seq(HubEvents)
      /\ session \in Sessions
  BY DEF TypeOK, MsgTypeOK, HubTypeOK
<1>2. UNCHANGED <<hubPending, hubAst>> /\ Without(hubPending, EchoEvents)
  BY DEF MsgStep, ForwardToHub, ForwardToGen, EnableFails, EnableSucceeds, DisableBegin,
         GenStopBegin, GenStopEnd, ExeStopBegin, ExeStopEnd, DisableEnd, hubVars,
         OneRequestAtATime
<1>3. ASSUME NEW types, MsgHandles(types)
      PROVE  /\ msgQueue # <<>> /\ msgPc = "idle" /\ Msg.type \in types
             /\ Msg \in Messages /\ rest \in Seq(Messages)
             /\ Msg.type \notin ControlMsgs => Keeps(msgQueue, rest, ControlMsgs)
  BY <1>1, <1>3, TailOfSeq, TailOther DEF MsgHandles, Msg, Keeps
\* An answer about the switch that follows a message about the switch.
<1>4. ASSUME NEW type \in {"ast_enabled", "ast_disabled"}, NEW ok \in BOOLEAN,
             NEW sn \in Sessions, NEW q \in Seq(Messages), Without(q, ControlMsgs),
             msgQueue' = Append(q, Record(type, ok, FALSE, sn)),
             UNCHANGED hubQueue, Without(hubQueue, EchoEvents)
      PROVE  AsMsg(type, ok)'
  <2> DEFINE r == Record(type, ok, FALSE, sn)
  <2>1. r \in Messages
    BY RecordTyped DEF Messages
  <2>2. r.type = type /\ r.ok = ok
    BY Zenon DEF Record
  <2>3. r.type \in ControlMsgs
    BY <2>2 DEF ControlMsgs
  <2>4. OneOf(Append(q, r), ControlMsgs, r.type, r.ok)
    BY <1>4, <2>1, <2>3, AppendOne, Zenon
  <2>5. OneOf(msgQueue', ControlMsgs, type, ok)
    BY <1>4, <2>2, <2>4, Zenon
  <2> QED BY <1>4, <2>5, Zenon DEF AsMsg
<1>5. CASE ForwardToHub
  <2> DEFINE e == [Msg EXCEPT !.type = ToHub[Msg.type]]
  <2>1. /\ Msg.type \in DOMAIN ToHub /\ msgQueue # <<>> /\ Msg \in Messages
        /\ rest \in Seq(Messages) /\ msgPc = "idle"
    BY <1>3, <1>5 DEF ForwardToHub
  <2>2. msgQueue' = rest /\ hubQueue' = Append(hubQueue, e) /\ UNCHANGED <<astState, msgPc>>
    BY <1>5 DEF ForwardToHub
  <2>3. e.type = ToHub[Msg.type] /\ e.ok = Msg.ok
    BY <2>1 DEF Messages, RecordOf
  <2>4. e \in HubEvents
    <3>1. ToHub[Msg.type] \in {"enable_ast_echo", "disable_ast_echo", "config_view",
                               "io_prepare", "io_normal", "io_post"}
      BY <2>1 DEF ToHub
    <3> QED BY <2>1, <3>1 DEF Messages, HubEvents, RecordOf
  <2> HIDE DEF e
  <2>5. CASE Msg.type \notin ControlMsgs
    <3>1. Keeps(msgQueue, msgQueue', ControlMsgs)
      BY <1>3, <1>5, <2>2, <2>5 DEF ForwardToHub
    <3>2. e.type \notin EchoEvents
      BY <2>1, <2>3, <2>5 DEF ToHub, EchoEvents, ControlMsgs
    <3>3. Keeps(hubQueue, hubQueue', EchoEvents)
      BY <1>1, <2>2, <2>4, <3>2, AppendOther DEF Keeps
    <3> QED BY <1>2, <2>2, <3>1, <3>3, QuietStep
  <2>6. CASE Msg.type \in ControlMsgs
    <3>1. Msg.type \in {"ast_enabled", "ast_disabled"}
      BY <2>1, <2>6 DEF ToHub, ControlMsgs
    <3>2. /\ Without(rest, ControlMsgs) /\ Without(hubQueue, EchoEvents)
          /\ Msg.type = "ast_enabled" =>
                  hubAst = "enabling" /\ \/ Msg.ok = TRUE /\ astState = "enabled"
                                         \/ Msg.ok = FALSE /\ astState = "enabling"
          /\ Msg.type = "ast_disabled" =>
                  hubAst = "disabling" /\ Msg.ok = TRUE /\ astState = "disabled"
      BY <2>1, <2>6, MsgSaysStatus
    <3>3. /\ Msg.type = "ast_enabled"  => e.type = "enable_ast_echo"
          /\ Msg.type = "ast_disabled" => e.type = "disable_ast_echo"
      BY <2>3 DEF ToHub
    <3>4. e.type \in EchoEvents
      BY <3>1, <3>3 DEF EchoEvents
    <3>5. OneOf(Append(hubQueue, e), EchoEvents, e.type, e.ok)
      BY <1>1, <2>4, <3>2, <3>4, AppendOne, Zenon
    <3>6. ASSUME NEW CONSTANT type, NEW CONSTANT ok, e.type = type, e.ok = ok
          PROVE  AsEcho(type, ok)'
      <4>1. OneOf(hubQueue', EchoEvents, type, ok)
        BY <2>2, <3>5, <3>6, Zenon
      <4> QED BY <2>2, <3>2, <4>1, Zenon DEF AsEcho
    <3>7. /\ Msg.type = "ast_enabled" /\ Msg.ok = TRUE => AsEcho("enable_ast_echo", TRUE)'
          /\ Msg.type = "ast_enabled" /\ Msg.ok = FALSE => AsEcho("enable_ast_echo", FALSE)'
          /\ Msg.type = "ast_disabled" /\ Msg.ok = TRUE => AsEcho("disable_ast_echo", TRUE)'
      BY <2>3, <3>3, <3>6, Zenon
    <3>8. OneRequestAtATime'
      BY <1>2, <2>1, <2>2, <3>1, <3>2, <3>7 DEF OneRequestAtATime
    <3> QED BY <1>2, <2>2, <3>8
  <2> QED BY <2>5, <2>6
<1>6. CASE ForwardToGen
  <2>1. Msg.type \in DOMAIN ToGen
    BY <1>3, <1>6 DEF ForwardToGen
  <2>2. Msg.type \notin ControlMsgs
    BY <2>1 DEF ToGen, ControlMsgs
  <2>3. Keeps(msgQueue, msgQueue', ControlMsgs)
    BY <1>3, <1>6, <2>2 DEF ForwardToGen
  <2> QED
    BY <1>2, <1>6, <2>3, KeepsSelf, QuietStep DEF ForwardToGen, hubVars
<1>7. CASE EnableFails
  <2>1. Msg.type = "enable_ast" /\ Msg.type \in ControlMsgs /\ msgQueue # <<>>
        /\ rest \in Seq(Messages)
    BY <1>3, <1>7 DEF EnableFails, ControlMsgs
  <2>2. /\ Without(rest, ControlMsgs) /\ Without(hubQueue, EchoEvents)
        /\ msgPc = "idle" /\ hubAst = "enabling" /\ astState \in {"none", "disabled"}
    BY <2>1, MsgSaysStatus
  <2>3. AsMsg("ast_enabled", FALSE)'
    BY <1>1, <1>4, <1>7, <2>1, <2>2 DEF EnableFails, hubVars
  <2>4. astState' = "enabling" /\ msgPc' = "idle"
    BY <1>7, <2>2 DEF EnableFails
  <2> QED
    BY <1>2, <2>2, <2>3, <2>4
    DEF OneRequestAtATime, Switch!Next, Switch!FailToEnable, Switch!Off
<1>8. CASE EnableSucceeds
  <2>1. Msg.type = "enable_ast" /\ Msg.type \in ControlMsgs /\ msgQueue # <<>>
        /\ rest \in Seq(Messages)
    BY <1>3, <1>8 DEF EnableSucceeds, ControlMsgs
  <2>2. /\ Without(rest, ControlMsgs) /\ Without(hubQueue, EchoEvents)
        /\ msgPc = "idle" /\ hubAst = "enabling" /\ astState \in {"none", "disabled"}
    BY <2>1, MsgSaysStatus
  <2>3. session + 1 \in Sessions
    BY <1>1, <1>8, BoundsAssumption DEF EnableSucceeds, BoundsAssumption, Sessions
  <2>4. AsMsg("ast_enabled", TRUE)'
    BY <1>1, <1>4, <1>8, <2>1, <2>2, <2>3 DEF EnableSucceeds, hubVars
  <2>5. astState' = "enabled" /\ msgPc' = "idle"
    BY <1>8, <2>2 DEF EnableSucceeds
  <2> QED
    BY <1>2, <2>2, <2>4, <2>5
    DEF OneRequestAtATime, Switch!Next, Switch!Enable, Switch!Off
<1>9. CASE DisableBegin
  <2>1. Msg.type = "disable_ast" /\ Msg.type \in ControlMsgs /\ msgQueue # <<>>
        /\ rest \in Seq(Messages)
    BY <1>3, <1>9 DEF DisableBegin, ControlMsgs
  <2>2. /\ Without(rest, ControlMsgs) /\ Without(hubQueue, EchoEvents)
        /\ hubAst = "disabling" /\ astState = "enabled"
    BY <2>1, MsgSaysStatus
  <2>3. /\ msgQueue' = rest /\ astState' = "disabling" /\ msgPc' # "idle"
        /\ UNCHANGED hubQueue
    BY <1>9, <2>2 DEF DisableBegin, hubVars
  <2>4. Quiet'
    BY <2>2, <2>3 DEF Quiet
  <2> QED
    BY <1>2, <2>2, <2>3, <2>4 DEF OneRequestAtATime, Switch!Next, Switch!BeginDisable
<1>10. CASE GenStopBegin \/ GenStopEnd \/ ExeStopBegin \/ ExeStopEnd
  <2>1. UNCHANGED <<astState, msgQueue, hubQueue>> /\ msgPc # "idle" /\ msgPc' # "idle"
    BY <1>10 DEF GenStopBegin, GenStopEnd, ExeStopBegin, ExeStopEnd, hubVars
  <2> QED BY <1>2, <2>1, KeepsSelf, QuietStep
<1>11. CASE DisableEnd
  <2>1. /\ hubAst = "disabling" /\ astState = "disabling"
        /\ Without(msgQueue, ControlMsgs) /\ Without(hubQueue, EchoEvents)
    BY <1>11 DEF DisableEnd, OneRequestAtATime, Quiet
  <2>2. AsMsg("ast_disabled", TRUE)'
    BY <1>1, <1>4, <1>11, <2>1 DEF DisableEnd, hubVars
  <2>3. astState' = "disabled" /\ msgPc' = "idle"
    BY <1>11 DEF DisableEnd
  <2> QED
    BY <1>2, <2>1, <2>2, <2>3 DEF OneRequestAtATime, Switch!Next, Switch!EndDisable
<1> QED
  BY <1>5, <1>6, <1>7, <1>8, <1>9, <1>10, <1>11 DEF MsgStep

-----------------------------------------------------------------------------
LEMMA SwitchStep ==
    ASSUME TypeOK, OneRequestAtATime, [Next]_vars
    PROVE  OneRequestAtATime' /\ [Switch!Next]_<<hubAst, astState>>
<1>1. CASE MsgStep
  BY <1>1, MsgSwitches
<1>2. CASE \E t \in Threads : GenStep(t)
  BY <1>2, GenSwitches
<1>3. ASSUME NEW t \in Threads, ExeStep(t)
      PROVE  OneRequestAtATime' /\ [Switch!Next]_<<hubAst, astState>>
  <2>1. UNCHANGED <<msgQueue, hubQueue, hubPending, hubAst, astState>>
        /\ ((msgPc' = "idle") <=> (msgPc = "idle"))
    BY <1>3 DEF ExeStep, ExeDequeue, ExeCheck, ExePlan, ExeEcho, ExeStall, ExeStop,
                exeFrame, hubVars
  <2> QED BY <2>1, OthersSwitch
<1>4. CASE HubStep
  BY <1>4, HubSwitches
<1>5. CASE MigratorEcho \/ Tick \/ UNCHANGED vars
  <2>1. UNCHANGED <<msgQueue, hubQueue, hubPending, hubAst, astState, msgPc>>
    BY <1>5 DEF MigratorEcho, Tick, exeFrame, msgVars, hubVars, vars
  <2> QED BY <2>1, OthersSwitch
<1>6. ASSUME NEW bound, NEW type \in {"enable_ast", "disable_ast", "change"},
             NEW flag \in BOOLEAN, Launch(bound, type, flag)
      PROVE  OneRequestAtATime' /\ [Switch!Next]_<<hubAst, astState>>
  <2> DEFINE e == Record(type, FALSE, flag, 0)
  <2>1. hubQueue \in Seq(HubEvents) /\ e \in HubEvents
    BY RecordTyped, ZeroSession DEF HubEvents, TypeOK, HubTypeOK
  <2>2. e.type = type
    BY DEF Record
  <2>3. e.type \notin EchoEvents
    BY <2>2 DEF EchoEvents
  <2>4. Keeps(hubQueue, hubQueue', EchoEvents)
    BY <1>6, <2>1, <2>3, AppendOther DEF Launch, Keeps
  <2>5. UNCHANGED <<msgQueue, hubPending, hubAst, astState, msgPc>>
    BY <1>6 DEF Launch, msgVars
  <2> QED BY <2>4, <2>5, KeepsSelf, QuietStep DEF OneRequestAtATime
<1>7. CASE LaunchEnable \/ LaunchDisable \/ LaunchChange
  BY <1>6, <1>7 DEF LaunchEnable, LaunchDisable, LaunchChange
<1> QED
  BY <1>1, <1>2, <1>3, <1>4, <1>5, <1>7 DEF Next

LEMMA InitSwitch == Init => OneRequestAtATime /\ Switch!Init
BY SmallWithout DEF Init, OneRequestAtATime, Quiet, Switch!Init

(* At most one request to enable or disable AST, or echo of one, is under  *)
(* way between HUB and AST, and the two statuses say which.                *)
THEOREM OneRequestHolds == Spec => []OneRequestAtATime
BY InitSwitch, SwitchStep, TypesHold, PTL DEF Spec

(* What the HUB (HUB::mASTStatus) believes of AST (AST::mState) is true,   *)
(* so that AST::EnableAST and AST::DisableAST never refuse a request.      *)
THEOREM HubKnows == Spec => []HubKnowsAst
<1>1. TypeOK /\ OneRequestAtATime => HubKnowsAst
  <2> SUFFICES ASSUME TypeOK, OneRequestAtATime PROVE HubKnowsAst
    OBVIOUS
  <2>1. /\ hubAst = "enabled"  => astState = "enabled"
        /\ hubAst = "disabled" => astState \in {"none", "disabled"}
    BY DEF OneRequestAtATime
  <2>2. MsgHandles({"enable_ast"}) => astState \in {"none", "disabled"}
    BY MsgSaysStatus DEF MsgHandles, Msg, ControlMsgs
  <2>3. MsgHandles({"disable_ast"}) => astState = "enabled"
    BY MsgSaysStatus DEF MsgHandles, Msg, ControlMsgs
  <2> QED BY <2>1, <2>2, <2>3 DEF HubKnowsAst
<1> QED
  BY <1>1, TypesHold, OneRequestHolds, PTL

(* The four threads implement the handshake of ASTSwitch: whatever happens *)
(* in between, HUB and AST go through request, work and echo in turn.      *)
THEOREM SwitchImplemented == Spec => SwitchSpec
<1>1. TypeOK /\ OneRequestAtATime /\ [Next]_vars => [Switch!Next]_<<hubAst, astState>>
  BY SwitchStep
<1> QED
  BY <1>1, InitSwitch, TypesHold, OneRequestHolds, PTL DEF Spec, SwitchSpec, Switch!Spec

-----------------------------------------------------------------------------
(* What the generator puts aside.                                          *)

Draining == \E t \in Threads : genPc[t] = "drain"
PendingInv ==
    genPending # <<>> =>
        Draining \/ genStatus \in {"learning", "advising", "stopping", "stopped"}

LEMMA PendingStep ==
    ASSUME TypeOK, PendingInv, [Next]_vars
    PROVE  PendingInv'
<1>0. genPc \in [Threads -> {"none", "idle", "check", "assert", "act", "drain", "exited"}]
      /\ genPending \in Seq(GenEvents)
  BY DEF TypeOK, GenTypeOK
<1>1. ASSUME NEW t \in Threads, GenStep(t)
      PROVE  PendingInv'
  <2>1. CASE GenDequeue(t) \/ GenAssert(t) \/ GenResolveDeleted(t) \/ GenStop(t)
    BY <1>0, <2>1 DEF PendingInv, Draining, GenDequeue, GenAssert, GenResolveDeleted,
                      GenStop, GenGoes, GenActs
  <2>2. CASE GenCheck(t)
    BY <1>0, <2>2 DEF PendingInv, Draining, GenCheck, GenGoes, GenShouldPend
  <2>3. CASE GenCollectConfig(t)
    BY <2>3 DEF PendingInv, GenCollectConfig
  <2>4. CASE GenResolveConfig(t)
    BY <1>0, <2>4 DEF PendingInv, Draining, GenResolveConfig, GenGoes, GenActs, BothNoop
  <2>5. CASE GenResolveIO(t)
    BY <1>0, <2>5 DEF PendingInv, Draining, GenResolveIO, GenFinishLearning, GenGoes,
                      GenActs, BothNoop
  <2>6. CASE GenAdvise(t)
    BY <1>0, <2>6 DEF PendingInv, Draining, GenAdvise, GenGoes
  <2>7. CASE GenDrain(t)
    BY <2>7 DEF PendingInv, GenDrain
  <2> QED BY <1>1, <2>1, <2>2, <2>3, <2>4, <2>5, <2>6, <2>7 DEF GenStep
<1>2. CASE MsgStep
  <2>1. CASE EnableFails \/ EnableSucceeds
    BY <2>1 DEF PendingInv, Draining, EnableFails, EnableSucceeds, ResetThreads, Emptied,
                genVars
  <2>2. CASE GenStopBegin
    BY <2>2 DEF PendingInv, Draining, GenStopBegin
  <2>3. CASE GenStopEnd
    BY <2>3 DEF PendingInv, GenStopEnd
  <2>4. CASE UNCHANGED <<genPending, genPc, genStatus>>
    BY <2>4 DEF PendingInv, Draining
  <2> QED
    BY <1>2, <2>1, <2>2, <2>3, <2>4
    DEF MsgStep, ForwardToHub, ForwardToGen, DisableBegin, ExeStopBegin, ExeStopEnd,
        DisableEnd, genVars
<1>3. CASE UNCHANGED <<genPending, genPc, genStatus>>
  BY <1>3 DEF PendingInv, Draining
<1>4. ASSUME NEW t \in Threads, ExeStep(t)
      PROVE  UNCHANGED <<genPending, genPc, genStatus>>
  BY <1>4 DEF ExeStep, ExeDequeue, ExeCheck, ExePlan, ExeEcho, ExeStall, ExeStop, exeFrame
<1>5. ASSUME HubStep \/ MigratorEcho \/ Tick \/ LaunchEnable \/ LaunchDisable
                 \/ LaunchChange \/ UNCHANGED vars
      PROVE  UNCHANGED <<genPending, genPc, genStatus>>
  BY <1>5 DEF HubStep, HubPend, HubEnable, HubDisable, HubEnableEcho, HubDisableEcho,
         HubConfigView, HubPrepare, HubCollect, HubPost, HubChange, hubFrame, genVars,
         MigratorEcho, exeFrame, Tick, LaunchEnable, LaunchDisable, LaunchChange, Launch,
         vars
<1> QED
  BY <1>1, <1>2, <1>3, <1>4, <1>5 DEF Next

LEMMA PendingHolds == Spec => []PendingOnlyWhileBusy
<1>1. Init => PendingInv
  BY DEF Init, PendingInv
<1>2. PendingInv => PendingOnlyWhileBusy
  BY DEF PendingInv, Draining, PendingOnlyWhileBusy, GenBusy
<1> QED
  BY <1>1, <1>2, PendingStep, TypesHold, PTL DEF Spec

-----------------------------------------------------------------------------
(* One generator and one executor.                                         *)

Gone == {"none", "exited"}

\* Threads of sessions to come, and of sessions that are over.
NotYetMade == \A t \in Threads : t > session => genPc[t] = "none" /\ exePc[t] = "none"
ThreadsReplaced ==
    \A t \in Threads : t # session => genPc[t] \in Gone /\ exePc[t] \in Gone

\* Nothing fails in a way that turns generator and executor off for good.
NeverNoop == genStatus # "noop" /\ exeStatus # "noop"

\* Where generator and executor are while AST is enabled, while it is disabled,
\* step by step, and afterwards.
GenAtWork == astState = "enabled" \/ msgPc = "gen_stop"
ExeAtWork == astState = "enabled" \/ msgPc \in {"gen_stop", "gen_wait", "gen_join", "exe_stop"}
ExeReleased == astState \in {"none", "enabling", "disabled"} \/ msgPc = "finish"
GenReleased == ExeReleased \/ msgPc \in {"exe_stop", "exe_wait", "exe_join"}
LifeCycle ==
    /\ astState = "enabled" \/ msgPc # "idle" => session \in Threads
    /\ GenAtWork => genStatus \in {"running", "learning", "learning_done", "advising",
                                   "advising_done"}
    /\ ExeAtWork => exeStatus \in {"running", "stall"}
    /\ GenReleased /\ session \in Threads => genPc[session] = "exited"
    /\ ExeReleased /\ session \in Threads => exePc[session] = "exited"

\* A thread moves only where its loop lets it.
GenMoves(t) == genPc[t] \notin Gone /\ \A u \in Threads : u # t => genPc'[u] = genPc[u]
ExeMoves(t) == exePc[t] \notin Gone /\ \A u \in Threads : u # t => exePc'[u] = exePc[u]

LEMMA GenMove ==
    ASSUME TypeOK, NEW t \in Threads, GenStep(t)
    PROVE  GenMoves(t) /\ UNCHANGED <<exePc, session, astState>>
<1>1. UNCHANGED <<exePc, session, astState>>
  BY DEF GenStep, GenDequeue, GenCheck, GenAssert, GenCollectConfig, GenResolveConfig,
         GenResolveIO, GenResolveDeleted, GenAdvise, GenDrain, GenStop, genFrame, exeVars
<1>2. /\ genPc[t] \in {"idle", "check", "assert", "act", "drain"}
      /\ \E pc : genPc' = [genPc EXCEPT ![t] = pc]
  BY DEF GenStep, GenDequeue, GenCheck, GenAssert, GenCollectConfig, GenResolveConfig,
         GenFinishLearning, GenResolveIO, GenResolveDeleted, GenAdvise, GenDrain, GenStop,
         GenGoes, GenActs
<1>3. genPc \in [Threads -> {"none", "idle", "check", "assert", "act", "drain", "exited"}]
  BY DEF TypeOK, GenTypeOK
<1> QED
  BY <1>1, <1>2, <1>3 DEF GenMoves, Gone

LEMMA ExeMove ==
    ASSUME TypeOK, NEW t \in Threads, ExeStep(t)
    PROVE  ExeMoves(t) /\ UNCHANGED <<genPc, session, astState>>
BY DEF TypeOK, ExeTypeOK, ExeMoves, Gone, ExeStep, ExeDequeue, ExeCheck, ExePlan, ExeEcho,
       ExeStall, ExeStop, ExeGoes, ExeActs, exeFrame

\* Steps of the HUB, the migrator, the timer and the service.
Elsewhere ==
    \/ HubStep \/ MigratorEcho \/ Tick \/ LaunchEnable \/ LaunchDisable \/ LaunchChange
    \/ UNCHANGED vars

LEMMA ElsewhereKeeps ==
    ASSUME Elsewhere
    PROVE  UNCHANGED <<genStatus, genPending, genPc, genEv, adviceAfter, exeStatus,
                       exeDelayed, exePc, exeEv, session, astState, msgPc>>
BY DEF Elsewhere, HubStep, HubPend, HubEnable, HubDisable, HubEnableEcho, HubDisableEcho,
       HubConfigView, HubPrepare, HubCollect, HubPost, HubChange, hubFrame, genVars, exeVars,
       MigratorEcho, exeFrame, Tick, LaunchEnable, LaunchDisable, LaunchChange, Launch,
       vars, msgVars

LEMMA StatesKnown ==
    ASSUME TypeOK, OneRequestAtATime
    PROVE  /\ genPc \in [Threads -> {"none", "idle", "check", "assert", "act", "drain",
                                     "exited"}]
           /\ exePc \in [Threads -> {"none", "idle", "check", "act", "exited"}]
           /\ session \in Nat /\ Threads \subseteq Nat /\ session <= MaxEnables
           /\ session = 0 \/ session \in Threads
           /\ astState \in AstStates
           /\ astState = "disabling" <=> msgPc # "idle"
           /\ msgPc \in {"idle", "gen_stop", "gen_wait", "gen_join", "exe_stop",
                         "exe_wait", "exe_join", "finish"}
<1>1. astState = "disabling" <=> msgPc # "idle"
  BY DEF OneRequestAtATime
<1>2. session \in 0 .. MaxEnables /\ MaxEnables \in Nat
  BY BoundsAssumption DEF TypeOK, MsgTypeOK, BoundsAssumption, Sessions
<1> QED
  BY <1>1, <1>2 DEF TypeOK, GenTypeOK, ExeTypeOK, MsgTypeOK, Threads

LEMMA NotYetMadeStep ==
    ASSUME TypeOK, OneRequestAtATime, NotYetMade, [Next]_vars
    PROVE  NotYetMade'
<1>0. /\ genPc \in [Threads -> {"none", "idle", "check", "assert", "act", "drain", "exited"}]
      /\ exePc \in [Threads -> {"none", "idle", "check", "act", "exited"}]
      /\ session \in Nat /\ Threads \subseteq Nat
  BY StatesKnown
<1>1. ASSUME NEW t \in Threads, GenStep(t)
      PROVE  NotYetMade'
  BY <1>0, <1>1, GenMove DEF GenMoves, Gone, NotYetMade
<1>2. ASSUME NEW t \in Threads, ExeStep(t)
      PROVE  NotYetMade'
  BY <1>0, <1>2, ExeMove DEF ExeMoves, Gone, NotYetMade
<1>3. CASE Elsewhere
  BY <1>3, ElsewhereKeeps DEF NotYetMade
<1>4. CASE EnableSucceeds
  BY <1>0, <1>4 DEF EnableSucceeds, NotYetMade
<1>5. CASE MsgStep /\ ~EnableSucceeds
  <2>1. UNCHANGED <<genPc, exePc, session>>
    BY <1>5 DEF MsgStep, ForwardToHub, ForwardToGen, EnableFails, DisableBegin,
       GenStopBegin, GenStopEnd, ExeStopBegin, ExeStopEnd, DisableEnd, genVars, exeVars
  <2> QED BY <2>1 DEF NotYetMade
<1> QED
  BY <1>1, <1>2, <1>3, <1>4, <1>5 DEF Next, Elsewhere

LEMMA LifeCycleStep ==
    ASSUME TypeOK, OneRequestAtATime, NotYetMade, NeverNoop, NeverNoop', LifeCycle,
           ThreadsReplaced, [Next]_vars, OneRequestAtATime', TypeOK'
    PROVE  LifeCycle' /\ ThreadsReplaced'
<1> DEFINE Goal == LifeCycle' /\ ThreadsReplaced'
<1>0. /\ genPc \in [Threads -> {"none", "idle", "check", "assert", "act", "drain", "exited"}]
      /\ exePc \in [Threads -> {"none", "idle", "check", "act", "exited"}]
      /\ session \in Nat /\ Threads \subseteq Nat
      /\ session = 0 \/ session \in Threads
      /\ astState \in AstStates
      /\ astState = "disabling" <=> msgPc # "idle"
      /\ astState' = "disabling" <=> msgPc' # "idle"
  <2>1. astState' = "disabling" <=> msgPc' # "idle"
    BY DEF OneRequestAtATime
  <2> QED BY <2>1, StatesKnown
<1> HIDE DEF Goal
<1>1. ASSUME NEW t \in Threads, GenStep(t)
      PROVE  Goal
  <2>1. GenMoves(t) /\ UNCHANGED <<exePc, session, astState>>
    BY <1>1, GenMove
  <2>2. ThreadsReplaced'
    BY <1>0, <2>1 DEF ThreadsReplaced, GenMoves
  <2>3. t = session /\ ~GenReleased
    BY <1>0, <2>1 DEF ThreadsReplaced, GenMoves, LifeCycle, Gone
  <2>4. \/ UNCHANGED msgPc
        \/ msgPc = "gen_wait" /\ msgPc' = "gen_join"
    BY <1>1 DEF GenStep, GenDequeue, GenCheck, GenAssert, GenCollectConfig,
         GenResolveConfig, GenResolveIO, GenResolveDeleted, GenAdvise, GenDrain, GenStop,
         genFrame
  <2>5. /\ genStatus' = genStatus \/ genStatus' \in {"learning", "learning_done",
                                                    "advising", "advising_done"}
        /\ UNCHANGED exeStatus
    BY <1>1
    DEF GenStep, GenDequeue, GenCheck, GenAssert, GenCollectConfig, GenFinishLearning,
        GenResolveConfig, GenResolveIO, GenResolveDeleted, GenAdvise, GenDrain, GenStop,
        exeVars, BothNoop, NeverNoop
  <2>6. LifeCycle'
    BY <1>0, <2>1, <2>3, <2>4, <2>5
    DEF LifeCycle, GenAtWork, ExeAtWork, ExeReleased, GenReleased
  <2> QED BY <2>2, <2>6 DEF Goal
<1>2. ASSUME NEW t \in Threads, ExeStep(t)
      PROVE  Goal
  <2>1. ExeMoves(t) /\ UNCHANGED <<genPc, session, astState>>
    BY <1>2, ExeMove
  <2>2. ThreadsReplaced'
    BY <1>0, <2>1 DEF ThreadsReplaced, ExeMoves
  <2>3. t = session /\ ~ExeReleased
    BY <1>0, <2>1 DEF ThreadsReplaced, ExeMoves, LifeCycle, Gone
  <2>4. \/ UNCHANGED msgPc
        \/ msgPc = "exe_wait" /\ msgPc' = "exe_join"
    BY <1>2 DEF ExeStep, ExeDequeue, ExeCheck, ExePlan, ExeEcho, ExeStall, ExeStop
  <2>5. /\ exeStatus' = exeStatus \/ exeStatus' \in {"running", "stall"}
        /\ UNCHANGED genStatus
    BY <1>2 DEF ExeStep, ExeDequeue, ExeCheck, ExePlan, ExeEcho, ExeStall, ExeStop, exeFrame
  <2>6. LifeCycle'
    BY <1>0, <2>1, <2>3, <2>4, <2>5
    DEF LifeCycle, GenAtWork, ExeAtWork, ExeReleased, GenReleased
  <2> QED BY <2>2, <2>6 DEF Goal
<1>3. CASE Elsewhere
  BY <1>3, ElsewhereKeeps
  DEF Goal, LifeCycle, GenAtWork, ExeAtWork, ExeReleased, GenReleased, ThreadsReplaced
<1>4. CASE EnableSucceeds
  <2>1. /\ session' = session + 1 /\ session' \in Threads /\ astState \in {"none", "disabled"}
        /\ astState' = "enabled" /\ msgPc = "idle" /\ msgPc' = "idle"
        /\ genStatus' = "running" /\ exeStatus' = "running"
        /\ \A t \in Threads : t # session + 1 => genPc'[t] = genPc[t] /\ exePc'[t] = exePc[t]
    <3>1. session' = session + 1 /\ session' \in Threads
      BY <1>0, <1>4, BoundsAssumption DEF EnableSucceeds, Threads, BoundsAssumption
    <3>2. /\ astState \in {"none", "disabled"} /\ astState' = "enabled" /\ msgPc = "idle"
          /\ msgPc' = "idle" /\ genStatus' = "running" /\ exeStatus' = "running"
      BY <1>4 DEF EnableSucceeds, MsgHandles, ResetThreads
    <3>3. \A t \in Threads : t # session + 1 => genPc'[t] = genPc[t] /\ exePc'[t] = exePc[t]
      BY <1>0, <1>4 DEF EnableSucceeds
    <3> QED BY <3>1, <3>2, <3>3
  <2>2. ThreadsReplaced'
    BY <1>0, <2>1
    DEF ThreadsReplaced, LifeCycle, ExeReleased, GenReleased, NotYetMade, Gone
  <2>3. LifeCycle'
    BY <1>0, <2>1 DEF LifeCycle, GenAtWork, ExeAtWork, ExeReleased, GenReleased
  <2> QED BY <2>2, <2>3 DEF Goal
<1>5. CASE MsgStep /\ ~EnableSucceeds
  <2>1. UNCHANGED <<genPc, exePc, session>>
    BY <1>5 DEF MsgStep, ForwardToHub, ForwardToGen, EnableFails, DisableBegin,
       GenStopBegin, GenStopEnd, ExeStopBegin, ExeStopEnd, DisableEnd, genVars, exeVars
  <2>2. ThreadsReplaced'
    BY <2>1 DEF ThreadsReplaced
  <2>3. CASE ForwardToHub \/ ForwardToGen
    <3>1. UNCHANGED <<astState, msgPc, genStatus, exeStatus>>
      BY <2>3 DEF ForwardToHub, ForwardToGen, exeVars, genVars
    <3> QED
      BY <2>1, <2>2, <3>1
      DEF Goal, LifeCycle, GenAtWork, ExeAtWork, ExeReleased, GenReleased
  <2>4. CASE EnableFails
    <3>1. \/ UNCHANGED <<astState, msgPc, genStatus, exeStatus>>
          \/ /\ astState \in {"none", "disabled"} /\ astState' = "enabling"
             /\ msgPc = "idle" /\ msgPc' = "idle"
      BY <2>4 DEF EnableFails, MsgHandles, exeVars, genVars
    <3> QED
      BY <2>1, <2>2, <3>1
      DEF Goal, LifeCycle, GenAtWork, ExeAtWork, ExeReleased, GenReleased
  <2>5. CASE DisableBegin
    <3>1. astState = "enabled"
      <4>1. msgQueue # <<>> /\ Msg.type \in ControlMsgs /\ Msg.type = "disable_ast"
        BY <2>5 DEF DisableBegin, MsgHandles, Msg, ControlMsgs
      <4> QED BY <4>1, MsgSaysStatus
    <3>2. /\ astState' = "disabling" /\ msgPc' = "gen_stop"
          /\ UNCHANGED <<genStatus, exeStatus>>
      BY <2>5, <3>1 DEF DisableBegin, exeVars, genVars
    <3> QED
      BY <2>1, <2>2, <3>1, <3>2
      DEF Goal, LifeCycle, GenAtWork, ExeAtWork, ExeReleased, GenReleased
  <2>6. CASE GenStopBegin
    <3>1. /\ msgPc = "gen_stop" /\ msgPc' = "gen_wait" /\ UNCHANGED <<astState, exeStatus>>
      BY <2>6 DEF GenStopBegin, exeVars, LifeCycle, GenAtWork
    <3> QED
      BY <1>0, <2>1, <2>2, <3>1
      DEF Goal, LifeCycle, GenAtWork, ExeAtWork, ExeReleased, GenReleased
  <2>7. CASE GenStopEnd
    <3>1. /\ msgPc = "gen_join" /\ msgPc' = "exe_stop" /\ UNCHANGED <<astState, exeStatus>>
          /\ genPc[session] = "exited"
      BY <2>7 DEF GenStopEnd, exeVars
    <3> QED
      BY <1>0, <2>1, <2>2, <3>1
      DEF Goal, LifeCycle, GenAtWork, ExeAtWork, ExeReleased, GenReleased
  <2>8. CASE ExeStopBegin
    <3>1. /\ msgPc = "exe_stop" /\ msgPc' = "exe_wait" /\ UNCHANGED <<astState, genStatus>>
      BY <2>8 DEF ExeStopBegin, genVars, LifeCycle, ExeAtWork
    <3> QED
      BY <1>0, <2>1, <2>2, <3>1
      DEF Goal, LifeCycle, GenAtWork, ExeAtWork, ExeReleased, GenReleased
  <2>9. CASE ExeStopEnd
    <3>1. /\ msgPc = "exe_join" /\ msgPc' = "finish" /\ UNCHANGED <<astState, genStatus>>
          /\ exePc[session] = "exited"
      BY <2>9 DEF ExeStopEnd, genVars
    <3> QED
      BY <1>0, <2>1, <2>2, <3>1
      DEF Goal, LifeCycle, GenAtWork, ExeAtWork, ExeReleased, GenReleased
  <2>10. CASE DisableEnd
    <3>1. /\ msgPc = "finish" /\ msgPc' = "idle" /\ astState' = "disabled"
      BY <2>10 DEF DisableEnd
    <3> QED
      BY <1>0, <2>1, <2>2, <3>1
      DEF Goal, LifeCycle, GenAtWork, ExeAtWork, ExeReleased, GenReleased
  <2> QED
    BY <1>5, <2>3, <2>4, <2>5, <2>6, <2>7, <2>8, <2>9, <2>10 DEF MsgStep
<1> QED
  BY <1>1, <1>2, <1>3, <1>4, <1>5 DEF Next, Elsewhere, Goal

\* Threads of sessions to come are not made yet.
LEMMA NotYetMadeHolds == Spec => []NotYetMade
<1>1. Init => NotYetMade
  BY DEF Init, NotYetMade
<1> QED
  BY <1>1, NotYetMadeStep, TypesHold, OneRequestHolds, PTL DEF Spec

\* Without a failure that ends in noop, or in the only session, disabling
\* releases both threads before AST can be enabled again.
LEMMA ReplacedUnlessNoop == Spec /\ []NeverNoop => [](LifeCycle /\ ThreadsReplaced)
<1>1. Init => LifeCycle /\ ThreadsReplaced
  BY DEF Init, LifeCycle, ThreadsReplaced, GenAtWork, ExeAtWork, Gone, Threads
<1> QED
  BY <1>1, LifeCycleStep, NotYetMadeHolds, TypesHold, OneRequestHolds, PTL DEF Spec

LEMMA ReplacedInOneSession ==
    ASSUME MaxEnables <= 1
    PROVE  Spec => []ThreadsReplaced
<1>1. TypeOK /\ OneRequestAtATime /\ NotYetMade => ThreadsReplaced
  <2> SUFFICES ASSUME TypeOK, OneRequestAtATime, NotYetMade, NEW t \in Threads, t # session
               PROVE  genPc[t] \in Gone /\ exePc[t] \in Gone
    BY DEF ThreadsReplaced
  <2>1. t > session
    BY StatesKnown, BoundsAssumption DEF Threads, BoundsAssumption
  <2> QED BY <2>1 DEF NotYetMade, Gone
<1> QED
  BY <1>1, NotYetMadeHolds, TypesHold, OneRequestHolds, PTL

-----------------------------------------------------------------------------
(* The executor stalls, the generator advises, the executor plans.         *)

\* What the threads of this session have in their hands.
GenOn(types) ==
    session \in Threads /\ genPc[session] \in {"check", "assert", "act"}
        /\ genEv[session].type \in types
ExeOn(types) ==
    session \in Threads /\ exePc[session] \in {"check", "act"}
        /\ exeEv[session].type \in types

\* The stall that the generator asked for, and the advice that it is for.
NoStall     == Without(exeQueue, {"stall"}) /\ ~ExeOn({"stall"})
StallQueued == OneOf(exeQueue, {"stall"}, "stall", FALSE) /\ ~ExeOn({"stall"})
StallHeld   == Without(exeQueue, {"stall"}) /\ ExeOn({"stall"})
NoAdvise     == Without(genQueue, {"advise"}) /\ ~GenOn({"advise"})
AdviseQueued == OneOf(genQueue, {"advise"}, "advise", FALSE) /\ ~GenOn({"advise"})
AdviseHeld   == Without(genQueue, {"advise"}) /\ GenOn({"advise"})

\* A generator that is advising waits for the executor to stall, or works; no
\* other has asked for it.
OneAdvice ==
    \/ genStatus # "advising" /\ NoStall /\ NoAdvise
    \/ genStatus = "advising" /\ StallQueued /\ NoAdvise
    \/ genStatus = "advising" /\ StallHeld /\ NoAdvise
    \/ genStatus = "advising" /\ NoStall /\ AdviseQueued
    \/ genStatus = "advising" /\ NoStall /\ AdviseHeld

PlanFollows ==
    \/ ~Without(exeQueue, {"planning"}) \/ ExeOn({"planning"})
    \/ ~Without(genQueue, {"advise"}) \/ GenOn({"advise"})
    \/ session \in Threads /\ genPc[session] = "drain" /\ genEv[session].type = "advise"

\* A thread that passed the check of an advising generator had no other event.
AdvisingActs ==
    genStatus = "advising" /\ session \in Threads /\ genPc[session] \in {"assert", "act"}
        => genEv[session].type \in {"advise", "stop"}

StallInv ==
    astState = "enabled" =>
        /\ Without(genPending, {"advise"}) /\ Without(exeDelayed, {"stall"})
        /\ OneAdvice /\ AdvisingActs
        /\ exeStatus = "stall" \/ exeDelayed # <<>> => PlanFollows

LEMMA HasGrows ==
    ASSUME NEW S, NEW p \in Seq(S), NEW q \in Seq(S), NEW types,
           ~Without(p, types) \/ ~Without(q, types)
    PROVE  ~Without(p \o q, types)
<1>1. \A i \in DOMAIN p : i \in DOMAIN (p \o q) /\ (p \o q)[i] = p[i]
  OBVIOUS
<1>2. \A i \in DOMAIN q : Len(p) + i \in DOMAIN (p \o q) /\ (p \o q)[Len(p) + i] = q[i]
  OBVIOUS
<1> QED BY <1>1, <1>2 DEF Without

LEMMA HasAppend ==
    ASSUME NEW S, NEW q \in Seq(S), NEW e \in S, NEW types
    PROVE  /\ ~Without(q, types) => ~Without(Append(q, e), types)
           /\ e.type \in types => ~Without(Append(q, e), types)
<1>1. Append(q, e) = q \o <<e>> /\ <<e>> \in Seq(S)
  OBVIOUS
<1>2. e.type \in types => ~Without(<<e>>, types)
  BY DEF Without
<1> QED BY <1>1, <1>2, HasGrows

LEMMA HasTail ==
    ASSUME NEW S, NEW q \in Seq(S), q # <<>>, NEW types, Head(q).type \notin types,
           ~Without(q, types)
    PROVE  ~Without(Tail(q), types)
<1>1. PICK i \in DOMAIN q : q[i].type \in types
  BY DEF Without
<1>2. i # 1
  BY <1>1
<1>3. i - 1 \in DOMAIN Tail(q) /\ Tail(q)[i - 1] = q[i]
  BY <1>2
<1> QED BY <1>1, <1>3 DEF Without

\* A queue that grows by other events.
Grows(p, q, types) ==
    Keeps(p, q, types) /\ (~Without(p, types) => ~Without(q, types))

LEMMA GrowsAppend ==
    ASSUME NEW S, NEW q \in Seq(S), NEW e \in S, NEW types, e.type \notin types
    PROVE  Grows(q, Append(q, e), types)
BY AppendOther, HasAppend DEF Grows, Keeps

LEMMA GrowsTail ==
    ASSUME NEW S, NEW q \in Seq(S), q # <<>>, NEW types, Head(q).type \notin types
    PROVE  Grows(q, Tail(q), types)
BY TailOther, HasTail DEF Grows, Keeps

LEMMA GrowsFront ==
    ASSUME NEW S, NEW p \in Seq(S), NEW q \in Seq(S), NEW types, Without(p, types)
    PROVE  Grows(q, p \o q, types)
BY WithoutConcat, OneOfConcatRight, HasGrows DEF Grows, Keeps

LEMMA GrowsSelf == ASSUME NEW q, NEW types PROVE Grows(q, q, types)
BY KeepsSelf DEF Grows

LEMMA AdviceKeeps ==
    ASSUME OneAdvice, Keeps(exeQueue, exeQueue', {"stall"}),
           Keeps(genQueue, genQueue', {"advise"}),
           GenOn({"advise"})' <=> GenOn({"advise"}), ExeOn({"stall"})' <=> ExeOn({"stall"}),
           genStatus' = "advising" <=> genStatus = "advising"
    PROVE  OneAdvice'
BY DEF OneAdvice, NoStall, StallQueued, StallHeld, NoAdvise, AdviseQueued, AdviseHeld, Keeps

\* The thread t of the generator takes a step.
GenTurn(t) ==
    /\ TypeOK /\ StallInv /\ t \in Threads /\ t = session /\ astState = "enabled"
    /\ GenStep(t)

LEMMA GenTurnFacts ==
    ASSUME NEW t, GenTurn(t)
    PROVE  /\ TypeOK /\ OneAdvice /\ AdvisingActs /\ t = session /\ t \in Threads
           /\ genQueue \in Seq(GenEvents) /\ genPending \in Seq(GenEvents)
           /\ exeQueue \in Seq(ExeEvents)
           /\ genPc \in [Threads -> {"none", "idle", "check", "assert", "act", "drain",
                                     "exited"}]
           /\ genEv \in [Threads -> GenEvents]
           /\ Without(genPending, {"advise"}) /\ Without(exeDelayed, {"stall"})
           /\ exeStatus = "stall" \/ exeDelayed # <<>> => PlanFollows
           /\ UNCHANGED <<astState, exeDelayed, exePc, exeEv, session>>
BY GenMove DEF GenTurn, StallInv, TypeOK, GenTypeOK, ExeTypeOK, GenStep, GenDequeue, GenCheck,
       GenAssert, GenCollectConfig, GenResolveConfig, GenResolveIO, GenFinishLearning,
       GenResolveDeleted, GenAdvise, GenDrain, GenStop, genFrame, exeVars

StallGoal ==
    /\ Without(genPending, {"advise"})' /\ Without(exeDelayed, {"stall"})'
    /\ OneAdvice' /\ AdvisingActs'
    /\ exeStatus' = "stall" \/ exeDelayed' # <<>> => PlanFollows'

LEMMA LoneStall ==
    ASSUME NEW e, e.type = "stall", e.ok = FALSE
    PROVE  OneOf(<<e>>, {"stall"}, "stall", FALSE)
<1>1. Len(<<e>>) = 1 /\ <<e>>[1] = e /\ DOMAIN <<e>> = {1}
  OBVIOUS
<1> QED BY <1>1 DEF OneOf

LEMMA GenStalls ==
    ASSUME NEW t, GenTurn(t)
    PROVE  StallGoal
<1>0. /\ TypeOK /\ OneAdvice /\ AdvisingActs /\ t = session /\ t \in Threads
      /\ genQueue \in Seq(GenEvents) /\ genPending \in Seq(GenEvents)
      /\ exeQueue \in Seq(ExeEvents)
      /\ genPc \in [Threads -> {"none", "idle", "check", "assert", "act", "drain", "exited"}]
      /\ genEv \in [Threads -> GenEvents]
      /\ Without(genPending, {"advise"}) /\ Without(exeDelayed, {"stall"})
      /\ exeStatus = "stall" \/ exeDelayed # <<>> => PlanFollows
      /\ UNCHANGED <<astState, exeDelayed, exePc, exeEv, session>>
  BY GenTurnFacts
<1>1. GenStep(t)
  BY DEF GenTurn
<1>2. /\ ExeOn({"stall"})' <=> ExeOn({"stall"})
      /\ ExeOn({"planning"})' <=> ExeOn({"planning"})
      /\ Without(exeDelayed, {"stall"})'
  BY <1>0 DEF ExeOn
<1>3. CASE GenDequeue(t)
  <2> DEFINE e == Head(genQueue)
  <2>1. /\ genQueue # <<>> /\ genQueue' = Tail(genQueue) /\ genPc[t] = "idle"
        /\ genPc'[t] = "check" /\ genEv'[t] = e
        /\ UNCHANGED <<genStatus, genPending, exeQueue, exeStatus>>
    BY <1>0, <1>3 DEF GenDequeue, GenGoes, exeVars
  <2>2. ~GenOn({"advise"}) /\ (GenOn({"advise"})' <=> e.type = "advise")
    BY <1>0, <2>1 DEF GenOn
  <2>3. CASE e.type # "advise"
    <3>1. Grows(genQueue, genQueue', {"advise"})
      BY <1>0, <2>1, <2>3, GrowsTail
    <3>2. OneAdvice'
      BY <1>0, <1>2, <2>1, <2>2, <2>3, <3>1, AdviceKeeps, KeepsSelf DEF Grows
    <3>3. PlanFollows => PlanFollows'
      BY <1>0, <1>2, <2>1, <2>2, <3>1 DEF PlanFollows, Grows
    <3> QED BY <1>0, <1>2, <2>1, <3>2, <3>3 DEF StallGoal, AdvisingActs
  <2>4. CASE e.type = "advise"
    <3>1. ~Without(genQueue, {"advise"})
      BY <1>0, <2>1, <2>4, HeadCounts
    <3>2. genStatus = "advising" /\ NoStall /\ AdviseQueued
      BY <1>0, <2>2, <3>1 DEF OneAdvice, NoAdvise, AdviseHeld
    <3>3. Without(Tail(genQueue), {"advise"})
      BY <1>0, <2>1, <2>4, <3>2, TailOne DEF AdviseQueued
    <3>4. AdviseHeld' /\ NoStall'
      BY <1>2, <2>1, <2>2, <2>4, <3>2, <3>3 DEF AdviseHeld, NoStall
    <3>5. OneAdvice' /\ PlanFollows'
      BY <2>1, <2>2, <2>4, <3>2, <3>4 DEF OneAdvice, PlanFollows
    <3> QED BY <1>0, <1>2, <2>1, <3>5 DEF StallGoal, AdvisingActs
  <2> QED BY <2>3, <2>4
<1>4. CASE GenCheck(t)
  <2> DEFINE e == genEv[t]
  <2>1. /\ genPc[t] = "check" /\ UNCHANGED <<genStatus, genQueue, genEv, exeQueue, exeStatus>>
        /\ \/ /\ GenShouldPend(e.type) /\ genPending' = Append(genPending, e)
              /\ genPc'[t] = "idle"
           \/ /\ ~GenShouldPend(e.type) /\ genPc'[t] \in {"assert", "act"}
              /\ UNCHANGED genPending
    BY <1>0, <1>4 DEF GenCheck, GenGoes, exeVars
  <2>2. GenOn({"advise"}) <=> e.type = "advise"
    BY <1>0, <2>1 DEF GenOn
  <2>3. e.type = "advise" => genStatus = "advising"
    BY <1>0, <2>2 DEF OneAdvice, NoAdvise
  <2>4. e.type = "advise" => ~GenShouldPend(e.type)
    BY <2>3 DEF GenShouldPend
  <2>5. Without(genPending, {"advise"})'
    <3>1. e.type # "advise" => Without(Append(genPending, e), {"advise"})
      BY <1>0, AppendOther
    <3> QED BY <1>0, <2>1, <2>4, <3>1
  <2>6. GenOn({"advise"})' <=> GenOn({"advise"})
    BY <1>0, <2>1, <2>2, <2>4 DEF GenOn
  <2>7. OneAdvice' /\ (PlanFollows => PlanFollows')
    BY <1>0, <1>2, <2>1, <2>6, AdviceKeeps, KeepsSelf DEF PlanFollows
  <2>8. AdvisingActs'
    BY <1>0, <2>1 DEF AdvisingActs, GenShouldPend
  <2> QED BY <1>0, <1>2, <2>1, <2>5, <2>7, <2>8 DEF StallGoal
<1>5. CASE GenAssert(t)
  <2>1. /\ genPc[t] = "assert" /\ genPc'[t] = "act"
        /\ UNCHANGED <<genStatus, genQueue, genPending, genEv, exeQueue, exeStatus>>
    BY <1>0, <1>5 DEF GenAssert, GenGoes, exeVars
  <2>2. GenOn({"advise"})' <=> GenOn({"advise"})
    BY <1>0, <2>1 DEF GenOn
  <2>3. OneAdvice' /\ AdvisingActs' /\ (PlanFollows => PlanFollows')
    BY <1>0, <1>2, <2>1, <2>2, AdviceKeeps, KeepsSelf DEF PlanFollows, AdvisingActs
  <2> QED BY <1>0, <1>2, <2>1, <2>3 DEF StallGoal
\* An event that is not about advising leaves the hands of the thread.
<1>6. ASSUME genPc[t] = "act", genEv[t].type \notin {"advise", "stop"},
             genPc'[t] \in {"idle", "drain"}, genStatus' # "advising",
             exeStatus' = "stall" => exeStatus = "stall",
             UNCHANGED <<genQueue, genPending, genEv, exeQueue>>
      PROVE  StallGoal
  <2>1. genStatus # "advising"
    BY <1>0, <1>6 DEF AdvisingActs
  <2>2. ~GenOn({"advise"}) /\ ~GenOn({"advise"})'
    BY <1>0, <1>6 DEF GenOn
  <2>3. OneAdvice' /\ AdvisingActs' /\ (PlanFollows => PlanFollows')
    BY <1>0, <1>2, <1>6, <2>1, <2>2, AdviceKeeps, KeepsSelf DEF PlanFollows, AdvisingActs
  <2> QED BY <1>0, <1>2, <1>6, <2>3 DEF StallGoal
<1>7. CASE GenCollectConfig(t)
  BY <1>0, <1>6, <1>7 DEF GenCollectConfig, GenGoes, GenActs, exeVars
<1>8. CASE GenResolveConfig(t)
  <2>1. genEv[t].type \notin {"advise", "stop"} /\ genPc[t] = "act"
    BY <1>8 DEF GenResolveConfig, GenActs
  <2>2. genStatus # "advising"
    BY <1>0, <2>1 DEF AdvisingActs
  <2> QED BY <1>0, <1>6, <1>8, <2>1, <2>2 DEF GenResolveConfig, GenGoes, BothNoop
<1>9. CASE GenResolveDeleted(t)
  <2>1. genEv[t].type \notin {"advise", "stop"} /\ genPc[t] = "act"
    BY <1>9 DEF GenResolveDeleted, GenActs
  <2>2. genStatus # "advising"
    BY <1>0, <2>1 DEF AdvisingActs
  <2> QED BY <1>0, <1>6, <1>9, <2>1, <2>2 DEF GenResolveDeleted, GenGoes, exeVars
<1>10. CASE GenResolveIO(t)
  <2>1. genEv[t].type \notin {"advise", "stop"} /\ genPc[t] = "act"
    BY <1>10 DEF GenResolveIO, GenActs
  <2>2. genStatus # "advising"
    BY <1>0, <2>1 DEF AdvisingActs
  <2>3. \/ genStatus' # "advising" /\ UNCHANGED exeQueue
        \/ genStatus' = "advising" /\ exeQueue' = WithStall(exeQueue) /\ UNCHANGED exeStatus
    BY <1>10, <2>2 DEF GenResolveIO, GenFinishLearning, BothNoop
  <2>4. /\ UNCHANGED <<genQueue, genPending, genEv>> /\ genPc'[t] \in {"idle", "drain"}
        /\ exeStatus' = "stall" => exeStatus = "stall"
    BY <1>0, <1>10 DEF GenResolveIO, GenFinishLearning, BothNoop, GenGoes
  <2>5. CASE genStatus' # "advising"
    BY <1>6, <2>1, <2>3, <2>4, <2>5
  <2>6. CASE genStatus' = "advising"
    <3>1. NoStall /\ NoAdvise
      BY <1>0, <2>2 DEF OneAdvice
    <3>2. NoAdvise'
      BY <1>0, <2>1, <2>4, <3>1 DEF NoAdvise, GenOn
    <3>3. /\ exeQueue' = <<ExeEvent("stall")>> \o exeQueue
          /\ <<ExeEvent("stall")>> \in Seq(ExeEvents)
      BY <2>3, <2>6, ExeEventTyped, SmallSeqs DEF WithStall
    <3>4. OneOf(<<ExeEvent("stall")>>, {"stall"}, "stall", FALSE)
      <4>1. ExeEvent("stall").type = "stall" /\ ExeEvent("stall").ok = FALSE
        BY DEF ExeEvent
      <4> QED BY <4>1, LoneStall
    <3>5. OneOf(exeQueue', {"stall"}, "stall", FALSE)
      BY <1>0, <3>1, <3>3, <3>4, OneOfConcatLeft DEF NoStall
    <3>6. StallQueued'
      BY <1>2, <3>1, <3>5 DEF StallQueued, NoStall
    <3>7. PlanFollows => PlanFollows'
      <4>1. ~Without(exeQueue, {"planning"}) => ~Without(exeQueue', {"planning"})
        BY <1>0, <3>3, HasGrows
      <4>2. GenOn({"advise"})' <=> GenOn({"advise"})
        BY <3>1, <3>2 DEF NoAdvise
      <4> QED BY <1>0, <1>2, <2>1, <2>4, <4>1, <4>2 DEF PlanFollows
    <3>8. OneAdvice' /\ AdvisingActs'
      BY <1>0, <2>1, <2>4, <2>6, <3>2, <3>6 DEF OneAdvice, AdvisingActs
    <3>9. UNCHANGED exeStatus
      BY <2>3, <2>6
    <3> QED BY <1>0, <1>2, <2>4, <3>7, <3>8, <3>9 DEF StallGoal
  <2> QED BY <2>5, <2>6
<1>11. CASE GenAdvise(t)
  <2>1. /\ genPc[t] = "act" /\ genEv[t].type = "advise" /\ genPc'[t] = "drain"
        /\ genStatus' = "advising_done"
        /\ UNCHANGED <<genQueue, genPending, genEv, exeQueue, exeStatus>>
    BY <1>0, <1>11 DEF GenAdvise, GenGoes, GenActs, exeVars
  <2>2. GenOn({"advise"}) /\ ~GenOn({"advise"})'
    BY <1>0, <2>1 DEF GenOn
  <2>3. NoStall /\ AdviseHeld
    BY <1>0, <2>2 DEF OneAdvice, NoAdvise, AdviseQueued
  <2>4. OneAdvice' /\ AdvisingActs' /\ PlanFollows'
    BY <1>0, <1>2, <2>1, <2>2, <2>3
    DEF OneAdvice, NoStall, NoAdvise, AdviseHeld, AdvisingActs, PlanFollows
  <2> QED BY <1>0, <1>2, <2>1, <2>4 DEF StallGoal
<1>12. CASE GenDrain(t)
  <2>1. /\ genPc[t] = "drain" /\ genPc'[t] = "idle" /\ genQueue' = genPending \o genQueue
        /\ genPending' = <<>> /\ UNCHANGED <<genStatus, genEv, exeStatus>>
        /\ exeQueue' = IF genEv[t].type = "advise" THEN WithPlan(exeQueue) ELSE exeQueue
    BY <1>0, <1>12 DEF GenDrain, GenGoes
  <2>2. Grows(genQueue, genQueue', {"advise"})
    BY <1>0, <2>1, GrowsFront
  <2>3. /\ Grows(exeQueue, exeQueue', {"stall"})
        /\ ~Without(exeQueue, {"planning"}) => ~Without(exeQueue', {"planning"})
        /\ genEv[t].type = "advise" => ~Without(exeQueue', {"planning"})
    <3>1. ExeEvent("planning") \in ExeEvents /\ ExeEvent("planning").type = "planning"
      BY ExeEventTyped DEF ExeEvent
    <3> QED BY <1>0, <2>1, <3>1, GrowsAppend, GrowsSelf, HasAppend DEF WithPlan
  <2>4. ~GenOn({"advise"}) /\ ~GenOn({"advise"})'
    BY <1>0, <2>1 DEF GenOn
  <2>5. OneAdvice' /\ AdvisingActs'
    BY <1>0, <1>2, <2>1, <2>2, <2>3, <2>4, AdviceKeeps DEF AdvisingActs, Grows
  <2>6. PlanFollows => PlanFollows'
    BY <1>0, <1>2, <2>1, <2>2, <2>3, <2>4 DEF PlanFollows, Grows
  <2> QED BY <1>0, <1>2, <2>1, <2>5, <2>6, SmallWithout DEF StallGoal
<1>13. CASE GenStop(t)
  <2>1. /\ genPc[t] = "act" /\ genEv[t].type = "stop" /\ genPc'[t] = "exited"
        /\ UNCHANGED <<genStatus, genQueue, genPending, genEv, exeQueue, exeStatus>>
    BY <1>0, <1>13 DEF GenStop, GenGoes, GenActs, exeVars
  <2>2. ~GenOn({"advise"}) /\ ~GenOn({"advise"})'
    BY <1>0, <2>1 DEF GenOn
  <2>3. OneAdvice' /\ AdvisingActs' /\ (PlanFollows => PlanFollows')
    BY <1>0, <1>2, <2>1, <2>2, AdviceKeeps, KeepsSelf DEF PlanFollows, AdvisingActs
  <2> QED BY <1>0, <1>2, <2>1, <2>3 DEF StallGoal
<1> QED
  BY <1>1, <1>3, <1>4, <1>5, <1>7, <1>8, <1>9, <1>10, <1>11, <1>12, <1>13 DEF GenStep

\* The executor's thread takes a step.
LEMMA ExeStalls ==
    ASSUME TypeOK, StallInv, NEW t \in Threads, t = session, astState = "enabled", ExeStep(t)
    PROVE  StallGoal
<1>0. /\ OneAdvice /\ AdvisingActs
      /\ genQueue \in Seq(GenEvents)
      /\ exeQueue \in Seq(ExeEvents) /\ exeDelayed \in Seq(ExeEvents)
      /\ exePc \in [Threads -> {"none", "idle", "check", "act", "exited"}]
      /\ exeEv \in [Threads -> ExeEvents]
      /\ Without(genPending, {"advise"}) /\ Without(exeDelayed, {"stall"})
      /\ exeStatus = "stall" \/ exeDelayed # <<>> => PlanFollows
  BY DEF StallInv, TypeOK, GenTypeOK, ExeTypeOK
<1>1. UNCHANGED <<genStatus, genPending, genPc, genEv, session>>
  BY DEF ExeStep, ExeDequeue, ExeCheck, ExePlan, ExeEcho, ExeStall, ExeStop, exeFrame
<1>2. /\ GenOn({"advise"})' <=> GenOn({"advise"})
      /\ Without(genPending, {"advise"})' /\ AdvisingActs'
  BY <1>0, <1>1 DEF GenOn, AdvisingActs
<1>3. CASE ExeDequeue(t)
  <2> DEFINE e == Head(exeQueue)
  <2>1. /\ exeQueue # <<>> /\ exeQueue' = Tail(exeQueue) /\ exePc[t] = "idle"
        /\ exePc'[t] = "check" /\ exeEv'[t] = e
        /\ UNCHANGED <<exeStatus, exeDelayed, genQueue>>
    BY <1>0, <1>3 DEF ExeDequeue, ExeGoes
  <2>2. /\ \A types : ~ExeOn(types)
        /\ ExeOn({"stall"})' <=> e.type = "stall"
        /\ ExeOn({"planning"})' <=> e.type = "planning"
    BY <1>1, <2>1 DEF ExeOn
  <2>3. PlanFollows => PlanFollows'
    <3>1. e.type # "planning" /\ ~Without(exeQueue, {"planning"})
             => ~Without(exeQueue', {"planning"})
      BY <1>0, <2>1, HasTail
    <3> QED BY <1>1, <1>2, <2>1, <2>2, <3>1 DEF PlanFollows
  <2>4. CASE e.type # "stall"
    <3>1. Keeps(exeQueue, exeQueue', {"stall"})
      BY <1>0, <2>1, <2>4, GrowsTail DEF Grows
    <3>2. OneAdvice'
      BY <1>0, <1>1, <1>2, <2>1, <2>2, <2>4, <3>1, AdviceKeeps, KeepsSelf
    <3> QED BY <1>0, <1>2, <2>1, <2>3, <3>2 DEF StallGoal
  <2>5. CASE e.type = "stall"
    <3>1. ~Without(exeQueue, {"stall"})
      BY <1>0, <2>1, <2>5, HeadCounts
    <3>2. genStatus = "advising" /\ StallQueued /\ NoAdvise
      BY <1>0, <2>2, <3>1 DEF OneAdvice, NoStall, StallHeld
    <3>3. Without(Tail(exeQueue), {"stall"})
      BY <1>0, <2>1, <2>5, <3>2, TailOne DEF StallQueued
    <3>4. StallHeld' /\ NoAdvise'
      BY <1>2, <2>1, <2>2, <2>5, <3>2, <3>3 DEF StallHeld, NoAdvise
    <3>5. OneAdvice'
      BY <1>1, <3>2, <3>4 DEF OneAdvice
    <3> QED BY <1>0, <1>2, <2>1, <2>3, <3>5 DEF StallGoal
  <2> QED BY <2>4, <2>5
<1>4. CASE ExeCheck(t)
  <2> DEFINE e == exeEv[t]
  <2>1. /\ exePc[t] = "check" /\ UNCHANGED <<exeStatus, exeQueue, exeEv, genQueue>>
        /\ \/ /\ exeStatus = "stall" /\ IsEcho(e) /\ exeDelayed' = Append(exeDelayed, e)
              /\ exePc'[t] = "idle"
           \/ exePc'[t] = "act" /\ UNCHANGED exeDelayed
    BY <1>0, <1>4 DEF ExeCheck, ExeGoes, ExeShouldDelay
  <2>2. /\ ExeOn({"stall"})' <=> ExeOn({"stall"})
        /\ ExeOn({"planning"})' <=> ExeOn({"planning"})
    BY <1>1, <2>1 DEF ExeOn, IsEcho
  <2>3. Without(exeDelayed, {"stall"})'
    <3>1. IsEcho(e) => Without(Append(exeDelayed, e), {"stall"})
      BY <1>0, AppendOther DEF IsEcho
    <3> QED BY <1>0, <2>1, <3>1
  <2>4. OneAdvice' /\ (PlanFollows => PlanFollows')
    BY <1>0, <1>1, <1>2, <2>1, <2>2, AdviceKeeps, KeepsSelf DEF PlanFollows
  <2> QED BY <1>0, <1>2, <2>1, <2>3, <2>4 DEF StallGoal
<1>5. CASE ExePlan(t)
  <2>1. /\ exePc[t] = "act" /\ exeEv[t].type = "planning" /\ exePc'[t] = "idle"
        /\ exeStatus' = "running" /\ exeQueue' = exeDelayed \o exeQueue
        /\ exeDelayed' = <<>> /\ UNCHANGED <<exeEv, genQueue>>
    BY <1>0, <1>5 DEF ExePlan, ExeGoes, ExeActs
  <2>2. ~ExeOn({"stall"}) /\ ~ExeOn({"stall"})'
    BY <1>1, <2>1 DEF ExeOn
  <2>3. Keeps(exeQueue, exeQueue', {"stall"})
    BY <1>0, <2>1, GrowsFront DEF Grows
  <2>4. OneAdvice'
    BY <1>0, <1>1, <1>2, <2>1, <2>2, <2>3, AdviceKeeps, KeepsSelf
  <2>5. Without(exeDelayed, {"stall"})'
    BY <2>1, SmallWithout
  <2> QED BY <1>2, <2>1, <2>4, <2>5 DEF StallGoal
\* The executor is done with an event that has nothing to do with stalling.
<1>6. ASSUME exePc[t] = "act", exeEv[t].type \notin {"stall", "planning"},
             exePc'[t] \in {"idle", "exited"},
             UNCHANGED <<exeStatus, exeQueue, exeDelayed, exeEv, genQueue>>
      PROVE  StallGoal
  <2>1. /\ ~ExeOn({"stall"}) /\ ~ExeOn({"stall"})'
        /\ ~ExeOn({"planning"}) /\ ~ExeOn({"planning"})'
    BY <1>1, <1>6 DEF ExeOn
  <2>2. OneAdvice' /\ (PlanFollows => PlanFollows')
    BY <1>0, <1>1, <1>2, <1>6, <2>1, AdviceKeeps, KeepsSelf DEF PlanFollows
  <2> QED BY <1>0, <1>2, <1>6, <2>2 DEF StallGoal
<1>7. CASE ExeEcho(t) \/ ExeStop(t)
  BY <1>0, <1>6, <1>7 DEF ExeEcho, ExeStop, ExeGoes, ExeActs
<1>8. CASE ExeStall(t)
  <2>1. /\ exePc[t] = "act" /\ exeEv[t].type = "stall" /\ exePc'[t] = "idle"
        /\ exeStatus' = "stall" /\ genQueue' = Append(genQueue, Sent("advise"))
        /\ UNCHANGED <<exeQueue, exeDelayed, exeEv>>
    BY <1>0, <1>8 DEF ExeStall, ExeGoes, ExeActs
  <2>2. ExeOn({"stall"}) /\ ~ExeOn({"stall"})'
    BY <1>1, <2>1 DEF ExeOn
  <2>3. genStatus = "advising" /\ StallHeld /\ NoAdvise
    BY <1>0, <2>2 DEF OneAdvice, NoStall, StallQueued
  <2>4. Sent("advise") \in GenEvents
    BY SentTyped DEF TypeOK
  <2>5. /\ Sent("advise").type = "advise" /\ Sent("advise").ok = FALSE
        /\ Sent("advise").type \in {"advise"}
    <3>1. Sent("advise").type = "advise" /\ Sent("advise").ok = FALSE
      BY RecordIs, Zenon DEF Sent
    <3> QED BY <3>1
  <2>6. OneOf(Append(genQueue, Sent("advise")), {"advise"}, "advise", FALSE)
    <3>1. OneOf(Append(genQueue, Sent("advise")), {"advise"}, Sent("advise").type,
                Sent("advise").ok)
      BY <1>0, <2>3, <2>4, <2>5, AppendOne DEF NoAdvise
    <3> QED BY <2>5, <3>1, Zenon
  <2>7. ~Without(genQueue', {"advise"})
    BY <1>0, <2>1, <2>4, <2>5, HasAppend
  <2>8. NoStall' /\ AdviseQueued'
    BY <1>2, <2>1, <2>2, <2>3, <2>6 DEF NoStall, AdviseQueued, StallHeld, NoAdvise
  <2>9. OneAdvice' /\ PlanFollows'
    BY <1>1, <2>3, <2>7, <2>8 DEF OneAdvice, PlanFollows
  <2> QED BY <1>0, <1>2, <2>1, <2>9 DEF StallGoal
<1> QED
  BY <1>3, <1>4, <1>5, <1>7, <1>8 DEF ExeStep

\* The queues get an event of the migrator, of the timer or of the HUB.
LEMMA QueuesGrow ==
    ASSUME OneAdvice, AdvisingActs, exeStatus = "stall" \/ exeDelayed # <<>> => PlanFollows,
           Grows(exeQueue, exeQueue', {"stall"}), Grows(genQueue, genQueue', {"advise"}),
           ~Without(exeQueue, {"planning"}) => ~Without(exeQueue', {"planning"}),
           UNCHANGED <<genStatus, genPc, genEv, exeStatus, exeDelayed, exePc, exeEv, session>>
    PROVE  /\ OneAdvice' /\ AdvisingActs'
           /\ exeStatus' = "stall" \/ exeDelayed' # <<>> => PlanFollows'
<1>1. /\ ExeOn({"stall"})' <=> ExeOn({"stall"})
      /\ ExeOn({"planning"})' <=> ExeOn({"planning"})
      /\ GenOn({"advise"})' <=> GenOn({"advise"})
  BY DEF ExeOn, GenOn
<1> QED
  BY <1>1, AdviceKeeps DEF AdvisingActs, PlanFollows, Grows

LEMMA StallStep ==
    ASSUME TypeOK, OneRequestAtATime, StallInv, ThreadsReplaced, [Next]_vars
    PROVE  StallInv'
<1>0. /\ genQueue \in Seq(GenEvents) /\ exeQueue \in Seq(ExeEvents)
      /\ msgQueue \in Seq(Messages) /\ session \in Sessions
  BY DEF TypeOK, GenTypeOK, ExeTypeOK, MsgTypeOK
<1>1. ASSUME NEW t \in Threads, GenStep(t)
      PROVE  StallInv'
  <2>1. t = session /\ UNCHANGED astState
    BY <1>1, GenMove DEF ThreadsReplaced, GenMoves
  <2> QED BY <1>1, <2>1, GenStalls DEF GenTurn, StallGoal, StallInv
<1>2. ASSUME NEW t \in Threads, ExeStep(t)
      PROVE  StallInv'
  <2>1. t = session /\ UNCHANGED astState
    BY <1>2, ExeMove DEF ThreadsReplaced, ExeMoves
  <2> QED BY <1>2, <2>1, ExeStalls DEF StallGoal, StallInv
\* Nothing but the queues changes, and these grow by events of other types.
<1>3. ASSUME Grows(exeQueue, exeQueue', {"stall"}), Grows(genQueue, genQueue', {"advise"}),
             ~Without(exeQueue, {"planning"}) => ~Without(exeQueue', {"planning"}),
             UNCHANGED <<genStatus, genPending, genPc, genEv, exeStatus, exeDelayed, exePc,
                         exeEv, session>>,
             astState' = "enabled" => astState = "enabled"
      PROVE  StallInv'
  <2> SUFFICES ASSUME astState' = "enabled" PROVE StallInv'
    BY DEF StallInv
  <2>1. /\ OneAdvice /\ AdvisingActs
        /\ Without(genPending, {"advise"}) /\ Without(exeDelayed, {"stall"})
        /\ exeStatus = "stall" \/ exeDelayed # <<>> => PlanFollows
    BY <1>3 DEF StallInv
  <2>2. /\ OneAdvice' /\ AdvisingActs'
        /\ exeStatus' = "stall" \/ exeDelayed' # <<>> => PlanFollows'
    BY <1>3, <2>1, QueuesGrow
  <2> QED BY <1>3, <2>1, <2>2 DEF StallInv
<1>4. CASE Elsewhere
  <2>1. UNCHANGED <<genStatus, genPending, genPc, genEv, exeStatus, exeDelayed, exePc,
                    exeEv, session, astState>>
    BY <1>4, ElsewhereKeeps
  <2>2. CASE UNCHANGED <<genQueue, exeQueue>>
    BY <1>3, <2>1, <2>2, GrowsSelf
  <2>3. CASE Tick
    <3>1. PICK advice \in BOOLEAN :
              genQueue' = Append(genQueue, Record("collect_config", FALSE, advice, session))
      BY <2>3, ChoicesAssumption DEF Tick, ChoicesAssumption
    <3> DEFINE e == Record("collect_config", FALSE, advice, session)
    <3>2. e \in GenEvents
      BY <1>0, RecordTyped DEF GenEvents
    <3>3. e.type \notin {"advise"}
      BY DEF Record
    <3>4. Grows(genQueue, genQueue', {"advise"})
      BY <1>0, <3>1, <3>2, <3>3, GrowsAppend
    <3>5. UNCHANGED exeQueue
      BY <2>3 DEF Tick, exeVars
    <3> QED BY <1>3, <2>1, <3>4, <3>5, GrowsSelf
  <2>4. CASE MigratorEcho
    <3>1. PICK type \in {"completed", "expired"}, ok \in BOOLEAN :
              exeQueue' = Append(exeQueue, [type |-> type, no |-> echoes + 1, ok |-> ok])
      BY <2>4 DEF MigratorEcho
    <3> DEFINE e == [type |-> type, no |-> echoes + 1, ok |-> ok]
    <3>2. exeQueue \in Seq(ExeEvents \cup {e}) /\ e \in ExeEvents \cup {e}
      BY <1>0
    <3>3. e.type = type /\ e.type \notin {"stall"}
      OBVIOUS
    <3>4. exeQueue' = Append(exeQueue, e)
      BY <3>1
    <3> HIDE DEF e
    <3>5. /\ Grows(exeQueue, exeQueue', {"stall"})
          /\ ~Without(exeQueue, {"planning"}) => ~Without(exeQueue', {"planning"})
      BY <3>2, <3>3, <3>4, GrowsAppend, HasAppend
    <3>6. UNCHANGED genQueue
      BY <2>4 DEF MigratorEcho, exeFrame
    <3> QED BY <1>3, <2>1, <3>5, <3>6, GrowsSelf
  <2> QED
    BY <1>4, <2>2, <2>3, <2>4
    DEF Elsewhere, HubStep, HubPend, HubEnable, HubDisable, HubEnableEcho, HubDisableEcho,
        HubConfigView, HubPrepare, HubCollect, HubPost, HubChange, hubFrame, genVars,
        exeVars, LaunchEnable, LaunchDisable, LaunchChange, Launch, vars
<1>5. CASE MsgStep
  <2> SUFFICES ASSUME astState' = "enabled" PROVE StallInv'
    BY DEF StallInv
  <2>1. CASE ForwardToGen
    <3> DEFINE e == [Msg EXCEPT !.type = ToGen[Msg.type]]
    <3>1. /\ msgQueue # <<>> /\ Msg.type \in DOMAIN ToGen /\ genQueue' = Append(genQueue, e)
          /\ UNCHANGED <<astState, session, genStatus, genPending, genPc, genEv>>
          /\ UNCHANGED exeVars
      BY <2>1 DEF ForwardToGen, MsgHandles, Msg
    <3>2. Msg \in Messages
      BY <1>0, <3>1, TailOfSeq DEF Msg
    <3>3. e.type = ToGen[Msg.type] /\ ToGen[Msg.type] # "advise"
      BY <3>1, <3>2 DEF Messages, RecordOf, ToGen
    <3>4. genQueue \in Seq(GenEvents \cup {e}) /\ e \in GenEvents \cup {e}
      BY <1>0
    <3>5. e.type \notin {"advise"}
      BY <3>3
    <3>6. genQueue' = Append(genQueue, e)
      BY <3>1
    <3> HIDE DEF e
    <3>7. Grows(genQueue, genQueue', {"advise"})
      BY <3>4, <3>5, <3>6, GrowsAppend
    <3> QED BY <1>3, <3>1, <3>7, GrowsSelf DEF exeVars
  <2>2. CASE ForwardToHub \/ EnableFails
    <3>1. UNCHANGED <<astState, session>> /\ UNCHANGED <<genVars, exeVars>>
      BY <2>2 DEF ForwardToHub, EnableFails
    <3> QED BY <1>3, <3>1, GrowsSelf DEF genVars, exeVars
  <2>3. CASE EnableSucceeds
    <3>1. /\ genStatus' = "running" /\ exeStatus' = "running"
          /\ genPending' = <<>> /\ exeQueue' = <<>> /\ exeDelayed' = <<>>
          /\ genQueue' = <<>> \o <<Record("collect_config", FALSE, FALSE, session + 1)>>
          /\ session' = session + 1
      BY <2>3 DEF EnableSucceeds, ResetThreads, Emptied
    <3>2. session' \in Threads => genPc'[session'] = "idle" /\ exePc'[session'] = "idle"
      BY <2>3, <3>1 DEF EnableSucceeds, TypeOK, GenTypeOK, ExeTypeOK
    <3>3. NoStall' /\ NoAdvise'
      <4>1. genQueue' = <<Record("collect_config", FALSE, FALSE, session + 1)>>
        BY <3>1
      <4>2. Record("collect_config", FALSE, FALSE, session + 1).type \notin {"advise"}
        BY DEF Record
      <4>3. Without(genQueue', {"advise"}) /\ Without(exeQueue', {"stall"})
        BY <3>1, <4>1, <4>2, SmallWithout
      <4> QED BY <3>2, <4>3 DEF NoStall, NoAdvise, GenOn, ExeOn
    <3>4. OneAdvice' /\ AdvisingActs'
      BY <3>1, <3>3 DEF OneAdvice, AdvisingActs
    <3>5. Without(genPending', {"advise"}) /\ Without(exeDelayed', {"stall"})
      BY <3>1, SmallWithout
    <3> QED BY <3>1, <3>4, <3>5 DEF StallInv
  <2>4. CASE DisableBegin
    <3>1. msgQueue # <<>> /\ Msg.type \in ControlMsgs /\ Msg.type = "disable_ast"
      BY <2>4 DEF DisableBegin, MsgHandles, Msg, ControlMsgs
    <3>2. astState = "enabled"
      BY <3>1, MsgSaysStatus
    <3> QED BY <2>4, <3>2 DEF DisableBegin
  <2>5. CASE GenStopBegin \/ GenStopEnd \/ ExeStopBegin \/ ExeStopEnd \/ DisableEnd
    <3>1. msgPc # "idle" /\ (UNCHANGED astState \/ astState' = "disabled")
      BY <2>5 DEF GenStopBegin, GenStopEnd, ExeStopBegin, ExeStopEnd, DisableEnd
    <3> QED BY <3>1 DEF OneRequestAtATime
  <2> QED BY <1>5, <2>1, <2>2, <2>3, <2>4, <2>5 DEF MsgStep
<1> QED
  BY <1>1, <1>2, <1>4, <1>5 DEF Next, Elsewhere

-----------------------------------------------------------------------------
\* Sums of cardinalities in PlanIsComing are positive if one part is.
LEMMA CountPositive ==
    ASSUME NEW H, IsFiniteSet(H)
    PROVE  Cardinality(H) \in Nat /\ (H # {} => Cardinality(H) > 0)
BY FS_CardinalityType, FS_EmptySet

LEMMA CountOf ==
    ASSUME NEW S, NEW q \in Seq(S), NEW types
    PROVE  Count(q, types) \in Nat /\ (~Without(q, types) => Count(q, types) > 0)
<1> DEFINE hits == {i \in 1 .. Len(q) : q[i].type \in types}
<1>1. IsFiniteSet(1 .. Len(q)) /\ hits \subseteq 1 .. Len(q)
  BY FS_Interval
<1>2. IsFiniteSet(hits)
  BY <1>1, FS_Subset
<1>3. ~Without(q, types) => hits # {}
  BY DEF Without
<1>4. Cardinality(hits) \in Nat /\ (hits # {} => Cardinality(hits) > 0)
  BY <1>2, CountPositive
<1> QED BY <1>3, <1>4 DEF Count

LEMMA HoldersCount ==
    ASSUME NEW H \in SUBSET Threads
    PROVE  Cardinality(H) \in Nat /\ (H # {} => Cardinality(H) > 0)
<1>1. IsFiniteSet(Threads)
  BY BoundsAssumption, FS_Interval DEF Threads, BoundsAssumption
<1>2. IsFiniteSet(H)
  BY <1>1, FS_Subset
<1> QED BY <1>2, FS_CardinalityType, FS_EmptySet

LEMMA PlanComes ==
    ASSUME TypeOK, PlanFollows
    PROVE  PlanIsComing
<1>1. exeQueue \in Seq(ExeEvents) /\ genQueue \in Seq(GenEvents)
  BY DEF TypeOK, ExeTypeOK, GenTypeOK
<1> DEFINE plans   == Count(exeQueue, {"planning"})
           advices == Count(genQueue, {"advise"})
           exes    == Cardinality(ExeHolders({"planning"}))
           gens    == Cardinality(GenHolders({"advise"}))
<1>2. /\ plans \in Nat /\ (~Without(exeQueue, {"planning"}) => plans > 0)
      /\ advices \in Nat /\ (~Without(genQueue, {"advise"}) => advices > 0)
  BY <1>1, CountOf
<1>3. exes \in Nat /\ (ExeOn({"planning"}) => exes > 0)
  <2>1. ExeOn({"planning"}) => ExeHolders({"planning"}) # {}
    BY DEF ExeOn, ExeHolders
  <2> QED BY <2>1, HoldersCount DEF ExeHolders
<1>4. gens \in Nat /\ (GenOn({"advise"}) => gens > 0)
  <2>1. GenOn({"advise"}) => GenHolders({"advise"}) # {}
    BY DEF GenOn, GenHolders
  <2> QED BY <2>1, HoldersCount DEF GenHolders
<1>5. \/ plans + exes > 0 \/ advices + gens > 0
      \/ \E t \in Threads : genPc[t] = "drain" /\ genEv[t].type = "advise"
  <2> HIDE DEF plans, advices, exes, gens
  <2> QED BY <1>2, <1>3, <1>4 DEF PlanFollows
<1> QED BY <1>5 DEF PlanIsComing

(* No event is put aside for good, if every thread of an earlier session   *)
(* has gone: what the generator defers (Generator::EnqueuePending) waits   *)
(* for a phase that ends, and an executor that stalls or delays echoes     *)
(* (Executor::ShouldEventDelayed) will be told to plan again.              *)
THEOREM NothingIsStrandedAlways == Spec /\ []ThreadsReplaced => []NothingIsStranded
<1>1. Init => StallInv
  BY DEF Init, StallInv
<1>2. TypeOK /\ StallInv => StallIsTemporary
  BY PlanComes DEF StallInv, StallIsTemporary
<1>3. PendingOnlyWhileBusy /\ StallIsTemporary => NothingIsStranded
  BY DEF NothingIsStranded
<1> QED
  BY <1>1, <1>2, <1>3, StallStep, PendingHolds, TypesHold, OneRequestHolds, PTL DEF Spec

(* No event is put aside for good in the first session of AST.             *)
THEOREM NothingIsStrandedInOneSession ==
    ASSUME MaxEnables <= 1 PROVE Spec => []NothingIsStranded
BY NothingIsStrandedAlways, ReplacedInOneSession, PTL

-----------------------------------------------------------------------------
(* The order of echoes.                                                    *)

InOrder(q) ==
    \A i, j \in DOMAIN q : i < j /\ IsEcho(q[i]) /\ IsEcho(q[j]) => q[i].no < q[j].no
\* Every echo of p is older than every echo of q, than one with the number n.
OlderThan(p, q) ==
    \A i \in DOMAIN p, j \in DOMAIN q : IsEcho(p[i]) /\ IsEcho(q[j]) => p[i].no < q[j].no
NoEchoes(q) == \A i \in DOMAIN q : ~IsEcho(q[i])
UpTo(q, n) == \A i \in DOMAIN q : IsEcho(q[i]) => q[i].no <= n

LEMMA EchoConcat ==
    ASSUME NEW S, NEW p \in Seq(S), NEW q \in Seq(S)
    PROVE  /\ InOrder(p \o q) <=> InOrder(p) /\ InOrder(q) /\ OlderThan(p, q)
           /\ NoEchoes(p \o q) <=> NoEchoes(p) /\ NoEchoes(q)
           /\ \A n : UpTo(p \o q, n) <=> UpTo(p, n) /\ UpTo(q, n)
<1>0. /\ Len(p) \in Nat /\ Len(q) \in Nat
      /\ DOMAIN p = 1 .. Len(p) /\ DOMAIN q = 1 .. Len(q)
      /\ DOMAIN (p \o q) = 1 .. Len(p) + Len(q)
  OBVIOUS
<1>1. \A i \in DOMAIN p : i \in DOMAIN (p \o q) /\ (p \o q)[i] = p[i]
  OBVIOUS
<1>2. \A i \in DOMAIN q : Len(p) + i \in DOMAIN (p \o q) /\ (p \o q)[Len(p) + i] = q[i]
  OBVIOUS
<1>3. \A i \in DOMAIN (p \o q) : i \in DOMAIN p \/ \E j \in DOMAIN q : i = Len(p) + j
  <2> SUFFICES ASSUME NEW i \in DOMAIN (p \o q), i \notin DOMAIN p
               PROVE  \E j \in DOMAIN q : i = Len(p) + j
    OBVIOUS
  <2>1. i - Len(p) \in DOMAIN q
    BY <1>0
  <2> QED BY <1>0, <2>1
<1> DEFINE pq == p \o q
<1> HIDE DEF pq
<1>4. /\ \A i \in DOMAIN p : i \in DOMAIN pq /\ pq[i] = p[i]
      /\ \A i \in DOMAIN q : Len(p) + i \in DOMAIN pq /\ pq[Len(p) + i] = q[i]
      /\ \A i \in DOMAIN pq : i \in DOMAIN p \/ \E j \in DOMAIN q : i = Len(p) + j
      /\ DOMAIN pq = 1 .. Len(p) + Len(q)
  BY <1>0, <1>1, <1>2, <1>3 DEF pq
<1>5. InOrder(pq) => InOrder(p) /\ InOrder(q) /\ OlderThan(p, q)
  <2> SUFFICES ASSUME InOrder(pq)
               PROVE  InOrder(p) /\ InOrder(q) /\ OlderThan(p, q)
    OBVIOUS
  <2>1. InOrder(p)
    BY <1>4 DEF InOrder
  <2>2. InOrder(q)
    <3> SUFFICES ASSUME NEW i \in DOMAIN q, NEW j \in DOMAIN q, i < j, IsEcho(q[i]),
                        IsEcho(q[j])
                 PROVE  q[i].no < q[j].no
      BY DEF InOrder
    <3>1. Len(p) + i < Len(p) + j
      BY <1>0
    <3> QED BY <1>4, <3>1 DEF InOrder
  <2>3. OlderThan(p, q)
    <3> SUFFICES ASSUME NEW i \in DOMAIN p, NEW j \in DOMAIN q, IsEcho(p[i]), IsEcho(q[j])
                 PROVE  p[i].no < q[j].no
      BY DEF OlderThan
    <3>1. i < Len(p) + j
      BY <1>0
    <3> QED BY <1>4, <3>1 DEF InOrder
  <2> QED BY <2>1, <2>2, <2>3
<1>6. InOrder(p) /\ InOrder(q) /\ OlderThan(p, q) => InOrder(pq)
  <2> SUFFICES ASSUME InOrder(p), InOrder(q), OlderThan(p, q), NEW i \in DOMAIN pq,
                      NEW j \in DOMAIN pq, i < j, IsEcho(pq[i]), IsEcho(pq[j])
               PROVE  pq[i].no < pq[j].no
    BY DEF InOrder
  <2>1. CASE i \in DOMAIN p /\ j \in DOMAIN p
    BY <1>4, <2>1 DEF InOrder
  <2>2. CASE i \in DOMAIN p /\ \E k \in DOMAIN q : j = Len(p) + k
    BY <1>4, <2>2 DEF OlderThan
  <2>3. CASE \E k \in DOMAIN q : i = Len(p) + k
    <3>1. PICK k \in DOMAIN q : i = Len(p) + k
      BY <2>3
    <3>2. PICK l \in DOMAIN q : j = Len(p) + l
      BY <1>0, <1>4, <3>1
    <3>3. k < l
      BY <1>0, <3>1, <3>2
    <3> QED BY <1>4, <3>1, <3>2, <3>3 DEF InOrder
  <2> QED BY <1>4, <2>1, <2>2, <2>3
<1>7. NoEchoes(pq) <=> NoEchoes(p) /\ NoEchoes(q)
  BY <1>4 DEF NoEchoes
<1>8. \A n : UpTo(pq, n) <=> UpTo(p, n) /\ UpTo(q, n)
  BY <1>4 DEF UpTo
<1> QED BY <1>5, <1>6, <1>7, <1>8 DEF pq

LEMMA EchoSmall ==
    /\ InOrder(<<>>) /\ NoEchoes(<<>>) /\ \A n : UpTo(<<>>, n)
    /\ \A q : OlderThan(<<>>, q) /\ OlderThan(q, <<>>)
    /\ \A e : /\ InOrder(<<e>>)
              /\ NoEchoes(<<e>>) <=> ~IsEcho(e)
              /\ \A n : UpTo(<<e>>, n) <=> (IsEcho(e) => e.no <= n)
<1>1. InOrder(<<>>) /\ NoEchoes(<<>>) /\ \A n : UpTo(<<>>, n)
  BY DEF InOrder, NoEchoes, UpTo
<1>2. \A q : OlderThan(<<>>, q) /\ OlderThan(q, <<>>)
  BY DEF OlderThan
<1>3. ASSUME NEW e PROVE  InOrder(<<e>>)
  <2>1. DOMAIN <<e>> = {1} /\ <<e>>[1] = e
    OBVIOUS
  <2> QED BY <2>1 DEF InOrder
<1>4. ASSUME NEW e PROVE  NoEchoes(<<e>>) <=> ~IsEcho(e)
  <2>1. DOMAIN <<e>> = {1} /\ <<e>>[1] = e
    OBVIOUS
  <2>2. NoEchoes(<<e>>) <=> \A i \in {1} : ~IsEcho(<<e>>[i])
    BY <2>1, Zenon DEF NoEchoes
  <2> QED BY <2>1, <2>2 DEF IsEcho
<1>5. ASSUME NEW e, NEW n PROVE  UpTo(<<e>>, n) <=> (IsEcho(e) => e.no <= n)
  <2>1. DOMAIN <<e>> = {1} /\ <<e>>[1] = e
    OBVIOUS
  <2>2. UpTo(<<e>>, n) <=> \A i \in {1} : IsEcho(<<e>>[i]) => <<e>>[i].no <= n
    BY <2>1, Zenon DEF UpTo
  <2> QED BY <2>1, <2>2 DEF IsEcho
<1> QED BY <1>1, <1>2, <1>3, <1>4, <1>5, Zenon

\* Echoes of one event and of a queue.
LEMMA EchoOne ==
    ASSUME NEW S, NEW q \in Seq(S), NEW e \in S
    PROVE  /\ OlderThan(<<e>>, q) <=>
                  (IsEcho(e) => \A j \in DOMAIN q : IsEcho(q[j]) => e.no < q[j].no)
           /\ OlderThan(q, <<e>>) <=>
                  (IsEcho(e) => \A j \in DOMAIN q : IsEcho(q[j]) => q[j].no < e.no)
<1> DEFINE s == <<e>>
<1>1. DOMAIN s = {1} /\ s[1] = e
  OBVIOUS
<1> HIDE DEF s
<1> QED BY <1>1 DEF OlderThan, s

LEMMA OlderNoEchoes ==
    ASSUME NEW p, NEW q, NoEchoes(p) \/ NoEchoes(q)
    PROVE  OlderThan(p, q)
BY DEF NoEchoes, OlderThan

LEMMA OlderConcat ==
    ASSUME NEW S, NEW p \in Seq(S), NEW q \in Seq(S), NEW r \in Seq(S)
    PROVE  /\ OlderThan(p \o q, r) <=> OlderThan(p, r) /\ OlderThan(q, r)
           /\ OlderThan(r, p \o q) <=> OlderThan(r, p) /\ OlderThan(r, q)
<1>0. /\ Len(p) \in Nat /\ Len(q) \in Nat
      /\ DOMAIN p = 1 .. Len(p) /\ DOMAIN q = 1 .. Len(q)
      /\ DOMAIN (p \o q) = 1 .. Len(p) + Len(q)
  OBVIOUS
<1> DEFINE pq == p \o q
<1>1. \A i \in DOMAIN p : i \in DOMAIN pq /\ pq[i] = p[i]
  OBVIOUS
<1>2. \A i \in DOMAIN q : Len(p) + i \in DOMAIN pq /\ pq[Len(p) + i] = q[i]
  OBVIOUS
<1>3. \A i \in DOMAIN pq : i \in DOMAIN p \/ \E j \in DOMAIN q : i = Len(p) + j
  <2> SUFFICES ASSUME NEW i \in DOMAIN pq, i \notin DOMAIN p
               PROVE  \E j \in DOMAIN q : i = Len(p) + j
    OBVIOUS
  <2>1. i - Len(p) \in DOMAIN q
    BY <1>0
  <2> QED BY <1>0, <2>1
<1>4. /\ \A i \in DOMAIN pq : \/ \E j \in DOMAIN p : pq[i] = p[j]
                              \/ \E j \in DOMAIN q : pq[i] = q[j]
      /\ \A j \in DOMAIN p : \E i \in DOMAIN pq : pq[i] = p[j]
      /\ \A j \in DOMAIN q : \E i \in DOMAIN pq : pq[i] = q[j]
  BY <1>1, <1>2, <1>3
<1> HIDE DEF pq
<1>5. OlderThan(pq, r) <=> OlderThan(p, r) /\ OlderThan(q, r)
  BY <1>4 DEF OlderThan
<1>6. OlderThan(r, pq) <=> OlderThan(r, p) /\ OlderThan(r, q)
  BY <1>4 DEF OlderThan
<1> QED BY <1>5, <1>6 DEF pq

\* What the executor's queues keep when events that are no echoes join them.
Alike(q, r) ==
    /\ r \in Seq(ExeEvents)
    /\ InOrder(q) => InOrder(r)
    /\ NoEchoes(q) => NoEchoes(r)
    /\ \A n : UpTo(q, n) => UpTo(r, n)
    /\ \A p \in Seq(ExeEvents) :
          /\ OlderThan(p, q) => OlderThan(p, r)
          /\ OlderThan(q, p) => OlderThan(r, p)

LEMMA AlikeSelf == ASSUME NEW q \in Seq(ExeEvents) PROVE Alike(q, q)
BY DEF Alike

LEMMA AlikeFront ==
    ASSUME NEW p \in Seq(ExeEvents), NEW q \in Seq(ExeEvents), NoEchoes(p)
    PROVE  Alike(q, p \o q)
<1>1. InOrder(p) /\ \A n : UpTo(p, n)
  BY DEF NoEchoes, InOrder, UpTo
<1>2. \A r : OlderThan(p, r) /\ OlderThan(r, p)
  BY OlderNoEchoes
<1>3. InOrder(q) => InOrder(p \o q)
  BY <1>1, <1>2, EchoConcat
<1>4. NoEchoes(q) => NoEchoes(p \o q)
  BY EchoConcat
<1>5. \A n : UpTo(q, n) => UpTo(p \o q, n)
  BY <1>1, EchoConcat
<1>6. ASSUME NEW r \in Seq(ExeEvents)
      PROVE  /\ OlderThan(r, q) => OlderThan(r, p \o q)
             /\ OlderThan(q, r) => OlderThan(p \o q, r)
  <2>1. OlderThan(r, p \o q) <=> OlderThan(r, p) /\ OlderThan(r, q)
    BY OlderConcat
  <2>2. OlderThan(p \o q, r) <=> OlderThan(p, r) /\ OlderThan(q, r)
    BY OlderConcat
  <2> QED BY <1>2, <2>1, <2>2
<1> QED BY <1>3, <1>4, <1>5, <1>6, ConcatSeqs DEF Alike

LEMMA AlikeBack ==
    ASSUME NEW q \in Seq(ExeEvents), NEW e \in ExeEvents, ~IsEcho(e)
    PROVE  Alike(q, Append(q, e))
<1> DEFINE p == <<e>>
<1>0. p \in Seq(ExeEvents) /\ Append(q, e) = q \o p
  OBVIOUS
<1>1. NoEchoes(p)
  BY EchoSmall
<1> HIDE DEF p
<1>2. InOrder(p) /\ \A n : UpTo(p, n)
  BY <1>1 DEF NoEchoes, InOrder, UpTo
<1>3. \A r : OlderThan(p, r) /\ OlderThan(r, p)
  BY <1>1, OlderNoEchoes
<1>4. InOrder(q) => InOrder(q \o p)
  BY <1>0, <1>2, <1>3, EchoConcat
<1>5. NoEchoes(q) => NoEchoes(q \o p)
  BY <1>0, <1>1, EchoConcat
<1>6. \A n : UpTo(q, n) => UpTo(q \o p, n)
  BY <1>0, <1>2, EchoConcat
<1>7. ASSUME NEW r \in Seq(ExeEvents)
      PROVE  /\ OlderThan(r, q) => OlderThan(r, q \o p)
             /\ OlderThan(q, r) => OlderThan(q \o p, r)
  <2>1. OlderThan(r, q \o p) <=> OlderThan(r, q) /\ OlderThan(r, p)
    BY <1>0, OlderConcat
  <2>2. OlderThan(q \o p, r) <=> OlderThan(q, r) /\ OlderThan(p, r)
    BY <1>0, OlderConcat
  <2> QED BY <1>3, <2>1, <2>2
<1> QED BY <1>0, <1>4, <1>5, <1>6, <1>7, ConcatSeqs DEF Alike

\* Where the executor of this session is, and with which event.
ExeIs(pc) == session \in Threads /\ exePc[session] = pc
Hand == <<exeEv[session]>>

(* The delayed echoes are older than the queued ones; an echo that was     *)
(* taken is older than the queued ones, and its check puts it behind all   *)
(* that are delayed, or hands it over when none is.                        *)
OrderInv ==
    /\ InOrder(exeDelayed) /\ InOrder(exeQueue) /\ OlderThan(exeDelayed, exeQueue)
    /\ UpTo(exeDelayed, echoes) /\ UpTo(exeQueue, echoes)
    /\ ExeIs("check") \/ ExeIs("act") => UpTo(Hand, echoes)
    /\ ExeIs("check") /\ exeStatus # "stopping" =>
          OlderThan(exeDelayed, Hand) /\ OlderThan(Hand, exeQueue)
    /\ ExeIs("act") /\ exeStatus # "stopping" =>
          OlderThan(Hand, exeDelayed) /\ OlderThan(Hand, exeQueue)
    /\ exeStatus = "running" => NoEchoes(exeDelayed)
    /\ ExeIs("idle") \/ ExeIs("check") \/ ExeIs("act") =>
          exeStatus \in {"running", "stall", "stopping"}

LEMMA OrderKeeps ==
    ASSUME TypeOK, OrderInv, Alike(exeQueue, exeQueue'), Alike(exeDelayed, exeDelayed'),
           exeStatus' = exeStatus \/ exeStatus' = "stopping",
           UNCHANGED <<exePc, exeEv, session, echoes>>
    PROVE  OrderInv'
<1>1. /\ exeQueue \in Seq(ExeEvents) /\ exeDelayed \in Seq(ExeEvents)
      /\ exeQueue' \in Seq(ExeEvents) /\ exeDelayed' \in Seq(ExeEvents)
      /\ exeEv \in [Threads -> ExeEvents]
  BY DEF TypeOK, ExeTypeOK, Alike
<1>2. (Hand = Hand') /\ (session \in Threads => Hand \in Seq(ExeEvents))
  BY <1>1, SmallSeqs DEF Hand
<1>3. \A pc : ExeIs(pc)' <=> ExeIs(pc)
  BY DEF ExeIs
<1>4. InOrder(exeDelayed)' /\ InOrder(exeQueue)' /\ UpTo(exeDelayed, echoes)'
      /\ UpTo(exeQueue, echoes)' /\ (NoEchoes(exeDelayed) => NoEchoes(exeDelayed)')
  BY DEF Alike, OrderInv
<1>5. OlderThan(exeDelayed, exeQueue)'
  <2>1. OlderThan(exeDelayed, exeQueue')
    BY <1>1 DEF Alike, OrderInv
  <2> QED BY <1>1, <2>1 DEF Alike
<1>6. /\ ExeIs("check") /\ exeStatus # "stopping" =>
            OlderThan(exeDelayed, Hand)' /\ OlderThan(Hand, exeQueue)'
      /\ ExeIs("act") /\ exeStatus # "stopping" =>
            OlderThan(Hand, exeDelayed)' /\ OlderThan(Hand, exeQueue)'
  BY <1>1, <1>2 DEF Alike, OrderInv, ExeIs
<1>7. ExeIs("check") \/ ExeIs("act") => UpTo(Hand, echoes)'
  BY <1>2 DEF OrderInv
<1>8. exeStatus' = "running" => exeStatus = "running"
  OBVIOUS
<1>9. ExeIs("idle") \/ ExeIs("check") \/ ExeIs("act") =>
          exeStatus' \in {"running", "stall", "stopping"}
  BY DEF OrderInv
<1> QED BY <1>3, <1>4, <1>5, <1>6, <1>7, <1>8, <1>9 DEF OrderInv


LEMMA HeadFirst ==
    ASSUME NEW S, NEW q \in Seq(S), q # <<>>
    PROVE  q = <<Head(q)>> \o Tail(q) /\ Head(q) \in S /\ Tail(q) \in Seq(S)
OBVIOUS

LEMMA AppendIsConcat ==
    ASSUME NEW S, NEW q \in Seq(S), NEW e \in S
    PROVE  Append(q, e) = q \o <<e>> /\ <<e>> \in Seq(S)
OBVIOUS

\* What EchoConcat and OlderConcat say of an event in front of a queue.
LEMMA EchoFront ==
    ASSUME NEW q \in Seq(ExeEvents), NEW e \in ExeEvents, NEW p \in Seq(ExeEvents), NEW n
    PROVE  /\ InOrder(<<e>> \o q) => InOrder(q) /\ OlderThan(<<e>>, q)
           /\ UpTo(<<e>> \o q, n) => UpTo(<<e>>, n) /\ UpTo(q, n)
           /\ OlderThan(p, <<e>> \o q) => OlderThan(p, <<e>>) /\ OlderThan(p, q)
<1> DEFINE s == <<e>>
<1>1. s \in Seq(ExeEvents)
  OBVIOUS
<1> HIDE DEF s
<1>2. InOrder(s \o q) => InOrder(q) /\ OlderThan(s, q)
  BY <1>1, EchoConcat
<1>3. UpTo(s \o q, n) => UpTo(s, n) /\ UpTo(q, n)
  BY <1>1, EchoConcat
<1>4. OlderThan(p, s \o q) => OlderThan(p, s) /\ OlderThan(p, q)
  BY <1>1, OlderConcat
<1> QED BY <1>2, <1>3, <1>4 DEF s

LEMMA ExeOrders ==
    ASSUME TypeOK, OrderInv, NEW t \in Threads, t = session, ExeStep(t)
    PROVE  OrderInv'
<1>0. /\ exeQueue \in Seq(ExeEvents) /\ exeDelayed \in Seq(ExeEvents)
      /\ exePc \in [Threads -> {"none", "idle", "check", "act", "exited"}]
      /\ exeEv \in [Threads -> ExeEvents]
      /\ session \in Threads /\ Hand \in Seq(ExeEvents)
      /\ InOrder(exeDelayed) /\ InOrder(exeQueue) /\ OlderThan(exeDelayed, exeQueue)
      /\ UpTo(exeDelayed, echoes) /\ UpTo(exeQueue, echoes)
  BY SmallSeqs DEF OrderInv, TypeOK, ExeTypeOK, Hand
<1>1. UNCHANGED <<session, echoes>>
  BY DEF ExeStep, ExeDequeue, ExeCheck, ExePlan, ExeEcho, ExeStall, ExeStop, exeFrame
<1>2. CASE ExeDequeue(t)
  <2>1. /\ exeQueue # <<>> /\ exeQueue' = Tail(exeQueue) /\ exePc[t] = "idle"
        /\ exePc'[t] = "check" /\ exeEv'[t] = Head(exeQueue)
        /\ UNCHANGED <<exeStatus, exeDelayed>>
    BY <1>0, <1>2 DEF ExeDequeue, ExeGoes
  <2>2. PICK e \in ExeEvents, r \in Seq(ExeEvents) :
             e = Head(exeQueue) /\ r = Tail(exeQueue) /\ exeQueue = <<e>> \o r
    <3>1. /\ exeQueue = <<Head(exeQueue)>> \o Tail(exeQueue)
          /\ Head(exeQueue) \in ExeEvents /\ Tail(exeQueue) \in Seq(ExeEvents)
      BY <1>0, <2>1, HeadFirst
    <3> QED BY <3>1, Zenon
  <2>3. InOrder(<<e>> \o r) /\ UpTo(<<e>> \o r, echoes) /\ OlderThan(exeDelayed, <<e>> \o r)
    BY <1>0, <2>2, Zenon
  <2>4. InOrder(r) /\ OlderThan(<<e>>, r)
    BY <1>0, <2>3, EchoFront
  <2>5. UpTo(<<e>>, echoes) /\ UpTo(r, echoes)
    BY <1>0, <2>3, EchoFront
  <2>6. OlderThan(exeDelayed, <<e>>) /\ OlderThan(exeDelayed, r)
    BY <1>0, <2>3, EchoFront
  <2>7. Hand' = <<e>> /\ exeQueue' = r
    BY <1>1, <2>1, <2>2 DEF Hand
  <2>8. (exeStatus = "running" => NoEchoes(exeDelayed))
        /\ exeStatus \in {"running", "stall", "stopping"}
    BY <2>1 DEF OrderInv, ExeIs
  <2>9. ExeIs("check")' /\ ~ExeIs("act")'
    BY <1>0, <1>1, <2>1 DEF ExeIs
  <2> HIDE DEF Hand, ExeIs
  <2> QED
    BY <1>0, <1>1, <2>1, <2>4, <2>5, <2>6, <2>7, <2>8, <2>9 DEF OrderInv
<1>3. CASE ExeCheck(t)
  <2>1. /\ ExeIs("check") /\ UNCHANGED <<exeStatus, exeQueue, exeEv>>
        /\ \/ /\ exeStatus = "stall" /\ exeDelayed' = Append(exeDelayed, exeEv[t])
              /\ exePc'[t] = "idle"
           \/ /\ ~(exeStatus = "stall" /\ IsEcho(exeEv[t]))
              /\ exePc'[t] = "act" /\ UNCHANGED exeDelayed
    BY <1>0, <1>3 DEF ExeCheck, ExeGoes, ExeShouldDelay, ExeIs
  <2>2. /\ Hand' = Hand /\ UpTo(Hand, echoes)
        /\ exeStatus \in {"running", "stall", "stopping"}
        /\ exeStatus # "stopping" => OlderThan(exeDelayed, Hand) /\ OlderThan(Hand, exeQueue)
        /\ exeStatus = "running" => NoEchoes(exeDelayed)
    <3>1. Hand' = Hand
      BY <1>1, <2>1 DEF Hand
    <3> QED BY <2>1, <3>1 DEF OrderInv
  <2>3. CASE exePc'[t] = "idle"
    <3>1. exeStatus = "stall" /\ exeDelayed' = exeDelayed \o Hand
      <4>1. exeStatus = "stall" /\ exeDelayed' = Append(exeDelayed, exeEv[t])
      BY <2>1, <2>3
    <4>2. Append(exeDelayed, exeEv[t]) = exeDelayed \o <<exeEv[t]>>
      BY <1>0, AppendIsConcat
    <4> QED BY <4>1, <4>2 DEF Hand
    <3>2. InOrder(Hand)
      BY EchoSmall DEF Hand
    <3>3. InOrder(exeDelayed \o Hand) /\ UpTo(exeDelayed \o Hand, echoes)
      BY <1>0, <2>2, <3>1, <3>2, EchoConcat
    <3>4. OlderThan(exeDelayed \o Hand, exeQueue)
      BY <1>0, <2>2, <3>1, OlderConcat
    <3>5. ~ExeIs("check")' /\ ~ExeIs("act")'
      BY <1>0, <1>1, <2>3 DEF ExeIs
    <3> HIDE DEF Hand, ExeIs
    <3> QED BY <1>0, <1>1, <2>1, <2>2, <3>1, <3>3, <3>4, <3>5 DEF OrderInv
  <2>4. CASE exePc'[t] = "act"
    <3>1. UNCHANGED exeDelayed /\ ~(exeStatus = "stall" /\ IsEcho(exeEv[t]))
      BY <2>1, <2>4
    <3>2. exeStatus # "stopping" => OlderThan(Hand, exeDelayed)
      <4>1. IsEcho(exeEv[t]) \/ NoEchoes(Hand)
        BY <1>0, EchoSmall DEF Hand
      <4> QED BY <2>2, <3>1, <4>1, OlderNoEchoes
    <3>3. ~ExeIs("check")' /\ ExeIs("act")'
      BY <1>0, <1>1, <2>4 DEF ExeIs
    <3> HIDE DEF Hand, ExeIs
    <3> QED BY <1>0, <1>1, <2>1, <2>2, <3>1, <3>2, <3>3 DEF OrderInv
  <2> QED BY <2>1, <2>3, <2>4
<1>4. CASE ExePlan(t)
  <2>1. /\ exePc'[t] = "idle" /\ exeStatus' = "running"
        /\ exeQueue' = exeDelayed \o exeQueue /\ exeDelayed' = <<>>
    BY <1>0, <1>4 DEF ExePlan, ExeGoes
  <2>2. InOrder(exeDelayed \o exeQueue) /\ UpTo(exeDelayed \o exeQueue, echoes)
    BY <1>0, EchoConcat
  <2>3. ~ExeIs("check")' /\ ~ExeIs("act")'
    BY <1>0, <1>1, <2>1 DEF ExeIs
  <2>4. InOrder(exeDelayed') /\ NoEchoes(exeDelayed') /\ UpTo(exeDelayed', echoes)
        /\ OlderThan(exeDelayed', exeQueue')
    BY <2>1, EchoSmall
  <2> QED BY <1>1, <2>1, <2>2, <2>3, <2>4 DEF OrderInv
<1>5. CASE ExeEcho(t) \/ ExeStop(t) \/ ExeStall(t)
  <2>1. /\ ExeIs("act") /\ exePc'[t] \in {"idle", "exited"}
        /\ exeStatus' = exeStatus \/ exeStatus' = "stall"
        /\ UNCHANGED <<exeQueue, exeDelayed>>
    BY <1>0, <1>5 DEF ExeEcho, ExeStop, ExeStall, ExeGoes, ExeActs, ExeIs
  <2>2. ~ExeIs("check")' /\ ~ExeIs("act")'
    BY <1>0, <1>1, <2>1 DEF ExeIs
  <2>3. /\ exeStatus \in {"running", "stall", "stopping"}
        /\ exeStatus = "running" => NoEchoes(exeDelayed)
    BY <2>1 DEF OrderInv
  <2> QED BY <1>0, <1>1, <2>1, <2>2, <2>3 DEF OrderInv
<1> QED BY <1>2, <1>3, <1>4, <1>5 DEF ExeStep

LEMMA OrderStep ==
    ASSUME TypeOK, TypeOK', LifeCycle, ThreadsReplaced, NotYetMade, OneRequestAtATime,
           NeverNoop', OrderInv, [Next]_vars
    PROVE  OrderInv'
<1>0. /\ exeQueue \in Seq(ExeEvents) /\ exeDelayed \in Seq(ExeEvents)
      /\ exeQueue' \in Seq(ExeEvents) /\ exeDelayed' \in Seq(ExeEvents)
  BY DEF TypeOK, ExeTypeOK
<1>1. ASSUME NEW t \in Threads, ExeStep(t)
      PROVE  OrderInv'
  <2>1. t = session
    BY <1>1, ExeMove DEF ExeMoves, ThreadsReplaced
  <2> QED BY <1>1, <2>1, ExeOrders
\* Whoever else changes the queue adds an event that is no echo, at one end.
<1>2. ASSUME \/ UNCHANGED exeQueue
             \/ \E e \in ExeEvents : ~IsEcho(e) /\ exeQueue' = <<e>> \o exeQueue
             \/ \E e \in ExeEvents : ~IsEcho(e) /\ exeQueue' = Append(exeQueue, e),
             \/ UNCHANGED exeDelayed
             \/ \E e \in ExeEvents : ~IsEcho(e) /\ exeDelayed' = <<e>> \o exeDelayed,
             exeStatus' = exeStatus \/ exeStatus' = "stopping",
             UNCHANGED <<exePc, exeEv, session, echoes>>
      PROVE  OrderInv'
  <2>1. \A e \in ExeEvents : ~IsEcho(e) => <<e>> \in Seq(ExeEvents) /\ NoEchoes(<<e>>)
    BY SmallSeqs, EchoSmall
  <2>2. Alike(exeQueue, exeQueue')
    BY <1>0, <1>2, <2>1, AlikeSelf, AlikeFront, AlikeBack
  <2>3. Alike(exeDelayed, exeDelayed')
    BY <1>0, <1>2, <2>1, AlikeSelf, AlikeFront
  <2> QED BY <1>2, <2>2, <2>3, OrderKeeps
<1>3. \A type \in {"stall", "stop", "planning"} :
         ExeEvent(type) \in ExeEvents /\ ~IsEcho(ExeEvent(type))
  <2> SUFFICES ASSUME NEW type \in {"stall", "stop", "planning"}
               PROVE  ExeEvent(type) \in ExeEvents /\ ~IsEcho(ExeEvent(type))
    OBVIOUS
  <2>1. ExeEvent(type) \in ExeEvents
    BY ExeEventTyped
  <2> QED BY <2>1 DEF ExeEvent, IsEcho
<1>4. ASSUME NEW t \in Threads, GenStep(t)
      PROVE  OrderInv'
  <2>1. \/ UNCHANGED exeQueue
        \/ exeQueue' = <<ExeEvent("stall")>> \o exeQueue
        \/ exeQueue' = Append(exeQueue, ExeEvent("planning"))
    BY <1>4
    DEF GenStep, GenDequeue, GenCheck, GenAssert, GenCollectConfig, GenResolveConfig,
        GenFinishLearning, GenResolveIO, GenResolveDeleted, GenAdvise, GenDrain, GenStop,
        exeVars, WithStall, WithPlan
  <2>2. UNCHANGED <<exeStatus, exeDelayed, exePc, exeEv, session, echoes>>
    BY <1>4
    DEF GenStep, GenDequeue, GenCheck, GenAssert, GenCollectConfig, GenResolveConfig,
        GenFinishLearning, GenResolveIO, GenResolveDeleted, GenAdvise, GenDrain, GenStop,
        exeVars, BothNoop, NeverNoop, genFrame
  <2> QED BY <1>2, <1>3, <2>1, <2>2
<1>5. CASE MigratorEcho
  <2>1. PICK e \in ExeEvents : e.no = echoes + 1 /\ exeQueue' = Append(exeQueue, e)
    <3>1. PICK type \in {"completed", "expired"}, ok \in BOOLEAN :
             exeQueue' = Append(exeQueue, [type |-> type, no |-> echoes + 1, ok |-> ok])
      BY <1>5 DEF MigratorEcho
    <3>2. [type |-> type, no |-> echoes + 1, ok |-> ok] \in ExeEvents
      <4>1. used["migrations"] \in Nat
        BY DEF TypeOK, CountsOK, Bounds
      <4>2. echoes + 1 \in 0 .. MaxMigrations
        BY <1>5, <4>1, BoundsAssumption
        DEF MigratorEcho, TypeOK, ExeTypeOK, CountsOK, BoundsAssumption
      <4> QED BY <4>2 DEF ExeEvents
    <3> QED BY <3>1, <3>2
  <2>2. /\ echoes \in Nat /\ echoes' = echoes + 1
        /\ UNCHANGED <<exeStatus, exeDelayed, exePc, exeEv, session>>
    BY <1>5 DEF MigratorEcho, exeFrame, TypeOK, ExeTypeOK
  <2>3. <<e>> \in Seq(ExeEvents) /\ exeQueue' = exeQueue \o <<e>>
    BY <1>0, <2>1, AppendIsConcat
  \* The new echo is the youngest.
  <2>4. ASSUME NEW q \in Seq(ExeEvents), UpTo(q, echoes)
        PROVE  OlderThan(q, <<e>>) /\ UpTo(q, echoes + 1)
    <3>1. \A i \in DOMAIN q : q[i].no \in Nat
      <4>1. \A i \in DOMAIN q : q[i] \in ExeEvents
        BY <2>4
      <4> QED BY <4>1, BoundsAssumption DEF ExeEvents, BoundsAssumption
    <3>2. UpTo(q, echoes + 1)
      BY <2>2, <2>4, <3>1 DEF UpTo
    <3>3. \A i \in DOMAIN q : IsEcho(q[i]) => q[i].no < e.no
      BY <2>1, <2>2, <2>4, <3>1 DEF UpTo
    <3> QED BY <3>2, <3>3, EchoOne
  <2>5. InOrder(<<e>>) /\ UpTo(<<e>>, echoes + 1)
    BY <2>1, <2>2, EchoSmall
  <2>6. InOrder(exeQueue') /\ UpTo(exeQueue', echoes + 1)
    BY <1>0, <2>3, <2>4, <2>5, EchoConcat DEF OrderInv
  <2>7. OlderThan(exeDelayed, exeQueue') /\ UpTo(exeDelayed, echoes + 1)
    BY <1>0, <2>3, <2>4, OlderConcat DEF OrderInv
  <2>8. /\ ExeIs("check")' <=> ExeIs("check") 
        /\ ExeIs("act")' <=> ExeIs("act") 
        /\ ExeIs("idle")' <=> ExeIs("idle") 
        /\ Hand' = Hand
    BY <2>2 DEF ExeIs, Hand
  <2>9. ExeIs("check") \/ ExeIs("act") => Hand \in Seq(ExeEvents)
    BY SmallSeqs DEF TypeOK, ExeTypeOK, ExeIs, Hand
  <2>10. ExeIs("check") \/ ExeIs("act") => UpTo(Hand, echoes) 
    BY DEF OrderInv
  <2>11. ExeIs("check") \/ ExeIs("act") => OlderThan(Hand, <<e>>) /\ UpTo(Hand, echoes + 1)
    BY <2>4, <2>9, <2>10
  <2>12. (ExeIs("check") \/ ExeIs("act")) /\ exeStatus # "stopping" =>
            OlderThan(Hand, exeQueue')
    BY <1>0, <2>3, <2>9, <2>11, OlderConcat DEF OrderInv
  <2> QED BY <2>2, <2>6, <2>7, <2>8, <2>11, <2>12 DEF OrderInv
<1>6. CASE Elsewhere /\ ~MigratorEcho
  <2>1. UNCHANGED <<exeQueue, exeDelayed, exeStatus, exePc, exeEv, session, echoes>>
    BY <1>6 DEF Elsewhere, HubStep, HubPend, HubEnable, HubDisable, HubEnableEcho,
       HubDisableEcho, HubConfigView, HubPrepare, HubCollect, HubPost, HubChange, hubFrame,
       exeVars, Tick, LaunchEnable, LaunchDisable, LaunchChange, Launch, vars, msgVars
  <2> QED BY <1>2, <2>1
<1>7. CASE EnableSucceeds \/ EnableFails
  <2>1. CASE UNCHANGED exeVars /\ UNCHANGED session
    BY <1>2, <2>1 DEF exeVars
  <2>2. CASE ~(UNCHANGED exeVars /\ UNCHANGED session)
    <3>1. /\ exeQueue' = <<>> /\ exeDelayed' = <<>>
          /\ astState \in {"none", "disabled"}
      BY <1>7, <2>2 DEF EnableSucceeds, EnableFails, ResetThreads, Emptied
    <3>2. CASE EnableSucceeds
      <4>1. session' \in Threads => exePc'[session'] = "idle"
        BY <3>2 DEF EnableSucceeds, TypeOK, ExeTypeOK
      <4>2. ~ExeIs("check")' /\ ~ExeIs("act")'
        BY <4>1 DEF ExeIs
      <4>3. exeStatus' = "running"
        BY <3>2 DEF EnableSucceeds, ResetThreads
      <4> QED BY <3>1, <4>2, <4>3, EchoSmall DEF OrderInv
    <3>3. CASE EnableFails
      <4>1. session \in Threads => exePc[session] = "exited"
        BY <3>1 DEF LifeCycle, ExeReleased
      <4>2. UNCHANGED <<exePc, session>>
        BY <2>2, <3>3 DEF EnableFails
      <4>3. ~ExeIs("check")' /\ ~ExeIs("act")' /\ ~ExeIs("idle")'
        BY <4>1, <4>2 DEF ExeIs
      <4>4. exeStatus' # "running"
        BY <2>2, <3>3 DEF EnableFails, ResetThreads
      <4> QED BY <3>1, <4>3, <4>4, EchoSmall DEF OrderInv
    <3> QED BY <1>7, <3>2, <3>3
  <2> QED BY <2>1, <2>2
<1>8. CASE ExeStopEnd
  <2>1. /\ exeStatus' = "stopped" /\ exePc[session] = "exited"
        /\ UNCHANGED <<exeQueue, exeDelayed, exePc, exeEv, session, echoes>>
    BY <1>8 DEF ExeStopEnd
  <2>2. ~ExeIs("check")' /\ ~ExeIs("act")' /\ ~ExeIs("idle")'
    BY <2>1 DEF ExeIs
  <2> QED BY <2>1, <2>2 DEF OrderInv
<1>9. CASE MsgStep /\ ~EnableSucceeds /\ ~EnableFails /\ ~ExeStopEnd
  <2>1. UNCHANGED <<exePc, exeEv, session, echoes>>
    BY <1>9 DEF MsgStep, ForwardToHub, ForwardToGen, DisableBegin,
       GenStopBegin, GenStopEnd, ExeStopBegin, DisableEnd, exeVars
  <2>2. /\ exeStatus' = exeStatus \/ exeStatus' = "stopping"
        /\ UNCHANGED exeQueue \/ exeQueue' = <<ExeEvent("stop")>> \o exeQueue
        /\ UNCHANGED exeDelayed \/ exeDelayed' = <<ExeEvent("stop")>> \o exeDelayed
    BY <1>9 DEF MsgStep, ForwardToHub, ForwardToGen, DisableBegin,
       GenStopBegin, GenStopEnd, ExeStopBegin, DisableEnd, exeVars
  <2> QED BY <1>2, <1>3, <2>1, <2>2
<1> QED
  BY <1>1, <1>4, <1>5, <1>6, <1>7, <1>8, <1>9 DEF Next, Elsewhere

LEMMA HandledInOrder ==
    ASSUME TypeOK, ThreadsReplaced, OrderInv
    PROVE  EchoesInOrder
<1>0. /\ exeQueue \in Seq(ExeEvents) /\ exeDelayed \in Seq(ExeEvents)
      /\ exeEv \in [Threads -> ExeEvents]
  BY DEF TypeOK, ExeTypeOK
<1>1. ASSUME NEW pc \in {"check", "act"}
      PROVE  ExeHeldAt(pc) = IF ExeIs(pc) THEN Hand ELSE <<>>
  <2> DEFINE ts == {t \in Threads : exePc[t] = pc}
  <2>1. ts = IF ExeIs(pc) THEN {session} ELSE {}
    BY DEF ThreadsReplaced, ExeIs, Gone
  <2>2. (CHOOSE t \in {session} : TRUE) = session
    OBVIOUS
  <2> QED BY <2>1, <2>2 DEF ExeHeldAt, Hand
<1> SUFFICES ASSUME exeStatus # "stopping"
             PROVE  InOrder(ToHandle)
  BY DEF EchoesInOrder, InOrder
<1>2. CASE ExeIs("check")
  <2>1. ToHandle = <<>> \o exeDelayed \o Hand \o exeQueue
    <3>1. ~ExeIs("act")
      BY <1>2 DEF ExeIs
    <3> QED BY <1>1, <1>2, <3>1 DEF ToHandle
  <2>2. Hand \in Seq(ExeEvents) /\ <<>> \o exeDelayed = exeDelayed
    BY <1>0, <1>2, SmallSeqs DEF ExeIs, Hand
  <2>3. InOrder(Hand)
    BY EchoSmall DEF Hand
  <2>4. InOrder(exeDelayed \o Hand)
    BY <1>0, <1>2, <2>2, <2>3, EchoConcat DEF OrderInv
  <2>5. OlderThan(exeDelayed \o Hand, exeQueue)
    BY <1>0, <1>2, <2>2, OlderConcat DEF OrderInv
  <2>6. exeDelayed \o Hand \in Seq(ExeEvents)
    BY <1>0, <2>2, ConcatSeqs
  <2> QED BY <1>0, <2>1, <2>2, <2>4, <2>5, <2>6, EchoConcat DEF OrderInv
<1>3. CASE ExeIs("act")
  <2>1. ToHandle = Hand \o exeDelayed \o <<>> \o exeQueue
    <3>1. ~ExeIs("check")
      BY <1>3 DEF ExeIs
    <3> QED BY <1>1, <1>3, <3>1 DEF ToHandle
  <2>2. Hand \in Seq(ExeEvents)
    BY <1>0, <1>3, SmallSeqs DEF ExeIs, Hand
  <2>3. InOrder(Hand)
    BY EchoSmall DEF Hand
  <2>4. InOrder(Hand \o exeDelayed)
    BY <1>0, <1>3, <2>2, <2>3, EchoConcat DEF OrderInv
  <2>5. OlderThan(Hand \o exeDelayed, exeQueue)
    BY <1>0, <1>3, <2>2, OlderConcat DEF OrderInv
  <2>6. Hand \o exeDelayed \in Seq(ExeEvents)
    BY <1>0, <2>2, ConcatSeqs
  <2>7. Hand \o exeDelayed \o <<>> = Hand \o exeDelayed
    BY <2>6
  <2> QED BY <1>0, <2>1, <2>4, <2>5, <2>6, <2>7, EchoConcat DEF OrderInv
<1>4. CASE ~ExeIs("check") /\ ~ExeIs("act")
  <2>1. ToHandle = exeDelayed \o exeQueue
    <3>1. ToHandle = <<>> \o exeDelayed \o <<>> \o exeQueue
      BY <1>1, <1>4 DEF ToHandle
    <3> QED BY <1>0, <3>1
  <2> QED BY <1>0, <2>1, EchoConcat DEF OrderInv
<1> QED BY <1>2, <1>3, <1>4

(* The executor handles echoes in the order in which they arrive, also     *)
(* those that Executor::ShouldEventDelayed puts aside, if neither thread   *)
(* is turned off by a failure: a noop executor takes the next echo before  *)
(* those that a stall has delayed.                                         *)
THEOREM EchoesInOrderUnlessNoop == Spec /\ []NeverNoop => []EchoesInOrder
<1>1. Init => OrderInv
  BY EchoSmall DEF Init, OrderInv, ExeIs, Threads
<1> QED
  BY <1>1, OrderStep, HandledInOrder, NotYetMadeHolds, ReplacedUnlessNoop, TypesHold,
     OneRequestHolds, PTL DEF Spec

-----------------------------------------------------------------------------
(* Queues without elements of a set, and where in a queue they are.        *)

None(q, B) == \A i \in DOMAIN q : q[i] \notin B
Has(q, type) == \E i \in DOMAIN q : q[i].type = type
\* What is of B comes behind an element of the type; comes before all of them.
Behind(q, type, B) ==
    \A j \in DOMAIN q : q[j] \in B => \E i \in DOMAIN q : i < j /\ q[i].type = type
Before(q, type, B) == \A i, j \in DOMAIN q : i < j /\ q[i].type = type => q[j] \notin B

LEMMA AppendPlaces ==
    ASSUME NEW S, NEW q \in Seq(S), NEW e \in S
    PROVE  /\ Len(q) \in Nat /\ DOMAIN q = 1 .. Len(q)
           /\ DOMAIN Append(q, e) = 1 .. Len(q) + 1
           /\ Append(q, e)[Len(q) + 1] = e
           /\ \A i \in DOMAIN q : Append(q, e)[i] = q[i]
OBVIOUS

LEMMA TailPlaces ==
    ASSUME NEW S, NEW q \in Seq(S), q # <<>>
    PROVE  /\ Len(q) \in Nat \ {0} /\ DOMAIN q = 1 .. Len(q)
           /\ q[1] = Head(q)
           /\ DOMAIN Tail(q) = 1 .. Len(q) - 1
           /\ \A i \in DOMAIN Tail(q) : Tail(q)[i] = q[i + 1]
OBVIOUS

LEMMA ConcatPlaces ==
    ASSUME NEW S, NEW p \in Seq(S), NEW q \in Seq(S)
    PROVE  /\ Len(p) \in Nat /\ Len(q) \in Nat
           /\ DOMAIN p = 1 .. Len(p) /\ DOMAIN q = 1 .. Len(q)
           /\ DOMAIN (p \o q) = 1 .. Len(p) + Len(q)
           /\ \A i \in DOMAIN p : (p \o q)[i] = p[i]
           /\ \A i \in DOMAIN (p \o q) : i \notin DOMAIN p =>
                  i - Len(p) \in DOMAIN q /\ (p \o q)[i] = q[i - Len(p)]
           /\ \A i \in DOMAIN q : (p \o q)[Len(p) + i] = q[i]
OBVIOUS

LEMMA NoneSmall ==
    ASSUME NEW B
    PROVE  None(<<>>, B) /\ \A e : e \notin B => None(<<e>>, B)
BY DEF None

LEMMA NoneAppend ==
    ASSUME NEW S, NEW q \in Seq(S), NEW e \in S, NEW B
    PROVE  None(Append(q, e), B) <=> None(q, B) /\ e \notin B
<1> DEFINE r == Append(q, e)
<1>1. /\ Len(q) \in Nat /\ DOMAIN q = 1 .. Len(q) /\ DOMAIN r = 1 .. Len(q) + 1
      /\ r[Len(q) + 1] = e /\ \A i \in DOMAIN q : r[i] = q[i]
  BY AppendPlaces
<1> HIDE DEF r
<1> QED BY <1>1 DEF None, r

LEMMA NoneTail ==
    ASSUME NEW S, NEW q \in Seq(S), q # <<>>, NEW B, None(q, B)
    PROVE  None(Tail(q), B) /\ Head(q) \notin B
<1> DEFINE r == Tail(q)
<1>1. /\ Len(q) \in Nat \ {0} /\ DOMAIN q = 1 .. Len(q) /\ q[1] = Head(q)
      /\ DOMAIN r = 1 .. Len(q) - 1 /\ \A i \in DOMAIN r : r[i] = q[i + 1]
  BY TailPlaces
<1> HIDE DEF r
<1>2. \A i \in DOMAIN r : i + 1 \in DOMAIN q
  BY <1>1
<1> QED BY <1>1, <1>2 DEF None, r

LEMMA NoneConcat ==
    ASSUME NEW S, NEW p \in Seq(S), NEW q \in Seq(S), NEW B
    PROVE  None(p \o q, B) <=> None(p, B) /\ None(q, B)
<1> DEFINE r == p \o q
<1>1. /\ Len(p) \in Nat /\ Len(q) \in Nat
      /\ DOMAIN p = 1 .. Len(p) /\ DOMAIN q = 1 .. Len(q)
      /\ DOMAIN r = 1 .. Len(p) + Len(q)
      /\ \A i \in DOMAIN p : r[i] = p[i]
      /\ \A i \in DOMAIN r : i \notin DOMAIN p => i - Len(p) \in DOMAIN q /\ r[i] = q[i - Len(p)]
      /\ \A i \in DOMAIN q : r[Len(p) + i] = q[i]
  BY ConcatPlaces
<1> HIDE DEF r
<1>2. \A i \in DOMAIN q : Len(p) + i \in DOMAIN r
  BY <1>1
<1>3. \A i \in DOMAIN p : i \in DOMAIN r
  BY <1>1
<1> QED BY <1>1, <1>2, <1>3 DEF None, r

LEMMA BehindAppend ==
    ASSUME NEW S, NEW q \in Seq(S), NEW e \in S, NEW type, NEW B, Behind(q, type, B),
           e \in B => Has(q, type)
    PROVE  Behind(Append(q, e), type, B)
<1> DEFINE r == Append(q, e)
<1>1. /\ Len(q) \in Nat /\ DOMAIN q = 1 .. Len(q) /\ DOMAIN r = 1 .. Len(q) + 1
      /\ r[Len(q) + 1] = e /\ \A i \in DOMAIN q : r[i] = q[i]
  BY AppendPlaces
<1> HIDE DEF r
<1>2. \A i \in DOMAIN q : i \in DOMAIN r /\ i < Len(q) + 1
  BY <1>1
<1>3. \A i \in DOMAIN r : i \in DOMAIN q \/ i = Len(q) + 1
  BY <1>1
<1>4. Behind(r, type, B)
  BY <1>1, <1>2, <1>3 DEF Behind, Has
<1> QED BY <1>4 DEF r

LEMMA BehindTail ==
    ASSUME NEW S, NEW q \in Seq(S), q # <<>>, NEW type, NEW B, Behind(q, type, B)
    PROVE  /\ Head(q) \notin B
           /\ Head(q).type # type => Behind(Tail(q), type, B)
<1> DEFINE r == Tail(q)
<1>1. /\ Len(q) \in Nat \ {0} /\ DOMAIN q = 1 .. Len(q) /\ q[1] = Head(q)
      /\ DOMAIN r = 1 .. Len(q) - 1 /\ \A i \in DOMAIN r : r[i] = q[i + 1]
  BY TailPlaces
<1> HIDE DEF r
<1>2. Head(q) \notin B
  BY <1>1 DEF Behind
<1>3. ASSUME Head(q).type # type, NEW j \in DOMAIN r, r[j] \in B
      PROVE  \E i \in DOMAIN r : i < j /\ r[i].type = type
  <2>1. j + 1 \in DOMAIN q /\ q[j + 1] \in B
    BY <1>1, <1>3
  <2>2. PICK i \in DOMAIN q : i < j + 1 /\ q[i].type = type
    BY <2>1 DEF Behind
  <2>3. i # 1
    BY <1>1, <1>3, <2>2
  <2>4. i - 1 \in DOMAIN r /\ i - 1 < j /\ r[i - 1] = q[i]
    BY <1>1, <2>1, <2>2, <2>3
  <2> QED BY <2>2, <2>4
<1> QED BY <1>2, <1>3 DEF Behind, r

LEMMA BeforeAppend ==
    ASSUME NEW S, NEW q \in Seq(S), NEW e \in S, NEW type, NEW B, Before(q, type, B),
           e \in B => ~Has(q, type)
    PROVE  Before(Append(q, e), type, B)
<1> DEFINE r == Append(q, e)
<1>1. /\ Len(q) \in Nat /\ DOMAIN q = 1 .. Len(q) /\ DOMAIN r = 1 .. Len(q) + 1
      /\ r[Len(q) + 1] = e /\ \A i \in DOMAIN q : r[i] = q[i]
  BY AppendPlaces
<1> HIDE DEF r
<1>2. ASSUME NEW i \in DOMAIN r, NEW j \in DOMAIN r, i < j, r[i].type = type
      PROVE  r[j] \notin B
  <2>1. i \in DOMAIN q /\ (j \in DOMAIN q \/ j = Len(q) + 1)
    BY <1>1, <1>2
  <2> QED BY <1>1, <1>2, <2>1 DEF Before, Has
<1> QED BY <1>2 DEF Before, r

LEMMA BeforeTail ==
    ASSUME NEW S, NEW q \in Seq(S), q # <<>>, NEW type, NEW B, Before(q, type, B)
    PROVE  /\ Before(Tail(q), type, B)
           /\ Head(q).type = type => None(Tail(q), B)
<1> DEFINE r == Tail(q)
<1>1. /\ Len(q) \in Nat \ {0} /\ DOMAIN q = 1 .. Len(q) /\ q[1] = Head(q)
      /\ DOMAIN r = 1 .. Len(q) - 1 /\ \A i \in DOMAIN r : r[i] = q[i + 1]
  BY TailPlaces
<1> HIDE DEF r
<1>2. ASSUME NEW i \in DOMAIN r, NEW j \in DOMAIN r, i < j, r[i].type = type
      PROVE  r[j] \notin B
  <2>1. i + 1 \in DOMAIN q /\ j + 1 \in DOMAIN q /\ i + 1 < j + 1
    BY <1>1, <1>2
  <2> QED BY <1>1, <1>2, <2>1 DEF Before
<1>3. ASSUME Head(q).type = type, NEW j \in DOMAIN r
      PROVE  r[j] \notin B
  <2>1. 1 \in DOMAIN q /\ j + 1 \in DOMAIN q /\ 1 < j + 1
    BY <1>1, <1>3
  <2> QED BY <1>1, <1>3, <2>1 DEF Before
<1> QED BY <1>2, <1>3 DEF Before, None, r

LEMMA BeforeFront ==
    ASSUME NEW S, NEW p \in Seq(S), NEW q \in Seq(S), NEW type, NEW B, Before(q, type, B),
           ~Has(p, type)
    PROVE  /\ Before(p \o q, type, B)
           /\ Has(p \o q, type) => Has(q, type)
<1> DEFINE r == p \o q
<1>1. /\ Len(p) \in Nat /\ Len(q) \in Nat
      /\ DOMAIN p = 1 .. Len(p) /\ DOMAIN q = 1 .. Len(q)
      /\ DOMAIN r = 1 .. Len(p) + Len(q)
      /\ \A i \in DOMAIN p : r[i] = p[i]
      /\ \A i \in DOMAIN r : i \notin DOMAIN p => i - Len(p) \in DOMAIN q /\ r[i] = q[i - Len(p)]
  BY ConcatPlaces
<1> HIDE DEF r
<1>2. ASSUME NEW i \in DOMAIN r, r[i].type = type
      PROVE  i \notin DOMAIN p
  BY <1>1, <1>2 DEF Has
<1>3. ASSUME NEW i \in DOMAIN r, NEW j \in DOMAIN r, i < j, r[i].type = type
      PROVE  r[j] \notin B
  <2>1. i \notin DOMAIN p /\ j \notin DOMAIN p
    BY <1>1, <1>2, <1>3
  <2>2. i - Len(p) < j - Len(p)
    BY <1>1, <1>3
  <2> QED BY <1>1, <1>3, <2>1, <2>2 DEF Before
<1>4. Has(r, type) => Has(q, type)
  BY <1>1, <1>2 DEF Has
<1> QED BY <1>3, <1>4 DEF Before, r

LEMMA HasAppendTail ==
    ASSUME NEW S, NEW q \in Seq(S), NEW type
    PROVE  /\ \A e \in S : Has(Append(q, e), type) <=> Has(q, type) \/ e.type = type
           /\ q # <<>> /\ Has(Tail(q), type) => Has(q, type)
           /\ q # <<>> /\ Has(q, type) /\ Head(q).type # type => Has(Tail(q), type)
<1>1. ASSUME NEW e \in S PROVE Has(Append(q, e), type) <=> Has(q, type) \/ e.type = type
  <2> DEFINE r == Append(q, e)
  <2>1. /\ Len(q) \in Nat /\ DOMAIN q = 1 .. Len(q) /\ DOMAIN r = 1 .. Len(q) + 1
        /\ r[Len(q) + 1] = e /\ \A i \in DOMAIN q : r[i] = q[i]
    BY AppendPlaces
  <2> HIDE DEF r
  <2>2. Len(q) + 1 \in DOMAIN r /\ \A i \in DOMAIN q : i \in DOMAIN r
    BY <2>1
  <2>3. \A i \in DOMAIN r : i \in DOMAIN q \/ i = Len(q) + 1
    BY <2>1
  <2>4. Has(r, type) <=> Has(q, type) \/ e.type = type
    BY <2>1, <2>2, <2>3 DEF Has
  <2> QED BY <2>4 DEF r
<1>2. ASSUME q # <<>>
      PROVE  /\ Has(Tail(q), type) => Has(q, type)
             /\ Has(q, type) /\ Head(q).type # type => Has(Tail(q), type)
  <2> DEFINE r == Tail(q)
  <2>1. /\ Len(q) \in Nat \ {0} /\ DOMAIN q = 1 .. Len(q) /\ q[1] = Head(q)
        /\ DOMAIN r = 1 .. Len(q) - 1 /\ \A i \in DOMAIN r : r[i] = q[i + 1]
    BY <1>2, TailPlaces
  <2> HIDE DEF r
  <2>2. \A i \in DOMAIN r : i + 1 \in DOMAIN q
    BY <2>1
  <2>3. \A i \in DOMAIN q : i # 1 => i - 1 \in DOMAIN r /\ r[i - 1] = q[i]
    BY <2>1
  <2>4. /\ Has(r, type) => Has(q, type)
        /\ Has(q, type) /\ Head(q).type # type => Has(r, type)
    BY <2>1, <2>2, <2>3 DEF Has
  <2> QED BY <2>4 DEF r
<1> QED BY <1>1, <1>2

-----------------------------------------------------------------------------
(* What is left of a session when the next one begins.                     *)

\* Events and messages of a conversation between generator and HUB.
Talk   == {e \in HubEvents : e.type \in {"config_view", "io_prepare", "io_normal", "io_post"}}
ForHub == {m \in Messages : m.type \in {"collect_config_req", "collect_OBJ_prepare",
                                        "collect_OBJ_normal", "collect_OBJ_post"}}
ForAst == {m \in Messages : m.type \in {"collect_config_resp", "collect_OBJ_resp"}}

\* What the storage service asks for belongs to no session.
OwnEvents == {e \in HubEvents : e.type \in {"enable_ast", "disable_ast", "change"} /\ e.sn # 0}
OwnMsgs   == {m \in Messages : m.type = "report_delete" /\ m.sn # 0}
Unowned ==
    None(hubQueue, OwnEvents) /\ None(hubPending, OwnEvents) /\ None(msgQueue, OwnMsgs)

\* Disabled, nothing is on its way to the HUB; asked to enable AST, it hears of
\* nothing else.
SilentOff == hubAst = "disabled" => None(hubQueue, Talk) /\ None(msgQueue, ForHub)
SilentStart ==
    hubAst = "enabling" /\ astState \in {"none", "disabled"} =>
        None(hubQueue, Talk) /\ None(msgQueue, ForHub) /\ None(msgQueue, ForAst)
\* The echo of disabling is the last thing that the HUB hears of a session.
LastWord ==
    hubAst = "disabling" /\ astState = "disabled" =>
        /\ Before(msgQueue, "ast_disabled", ForHub)
        /\ Before(hubQueue, "disable_ast_echo", Talk)
        /\ Has(hubQueue, "disable_ast_echo") => None(msgQueue, ForHub)

Forgotten == Unowned /\ SilentOff /\ SilentStart /\ LastWord

LEMMA SentIs == \A type : Sent(type).type = type
BY Zenon DEF Sent, Record

LEMMA SentNow == \A type : Sent(type).sn = session
BY Zenon DEF Sent, Record

\* The generator says nothing to the HUB but what belongs to its conversation,
\* in the session it is said in.
LEMMA GenSays ==
    ASSUME TypeOK, NEW t \in Threads, GenStep(t)
    PROVE  \E new \in Seq(Messages) :
              /\ msgQueue' = msgQueue \o new
              /\ \A i \in DOMAIN new : new[i] \in ForHub /\ new[i].sn = session
<1>1. msgQueue \in Seq(Messages)
  BY DEF TypeOK, MsgTypeOK
<1> DEFINE Said == {"collect_config_req", "collect_OBJ_prepare",
                    "collect_OBJ_normal", "collect_OBJ_post"}
           Ours == {m \in ForHub : m.sn = session}
           Says(q) == q \in Seq(Messages) /\ \A i \in DOMAIN q : q[i] \in Ours
<1>2. \A type \in Said : Sent(type) \in Ours
  BY SentTyped, SentIs, SentNow DEF TypeOK, ForHub
<1>3. Says(<<>>) /\ \A e, f \in Ours : Says(<<e>>) /\ Says(<<e, f>>)
  <2>1. Ours \subseteq Messages
    BY DEF ForHub
  <2>2. Says(<<>>)
    OBVIOUS
  <2>3. ASSUME NEW e \in Ours, NEW f \in Ours PROVE Says(<<e>>) /\ Says(<<e, f>>)
    BY <2>1
  <2> QED BY <2>2, <2>3
<1>4. SUFFICES \E new : Says(new) /\ msgQueue' = msgQueue \o new
  OBVIOUS
<1>5. CASE UNCHANGED msgQueue
  <2>1. msgQueue' = msgQueue \o <<>>
    BY <1>1, <1>5
  <2> QED BY <1>3, <2>1
<1>6. CASE GenCollectConfig(t)
  <2>1. msgQueue' = msgQueue \o <<Sent("collect_config_req")>>
    <3>1. msgQueue' = Append(msgQueue, Sent("collect_config_req"))
      BY <1>6 DEF GenCollectConfig
    <3>2. Sent("collect_config_req") \in Messages
      BY <1>2 DEF ForHub
    <3> QED BY <1>1, <3>1, <3>2
  <2> QED BY <1>2, <1>3, <2>1
<1>7. CASE GenResolveConfig(t)
  <2>1. UNCHANGED msgQueue \/
        msgQueue' = msgQueue \o <<Sent("collect_OBJ_prepare"), Sent("collect_OBJ_normal")>>
    BY <1>7 DEF GenResolveConfig
  <2> QED BY <1>2, <1>3, <1>5, <2>1
<1>8. CASE GenResolveIO(t)
  <2> DEFINE post == <<Sent("collect_OBJ_post")>>
             next == <<Sent("collect_OBJ_normal")>>
  <2>1. NextBatch(t) \in {<<>>, next} /\ Says(post) /\ Says(next)
    BY <1>2, <1>3 DEF NextBatch
  <2>2. msgQueue' \in {msgQueue, msgQueue \o post, msgQueue \o NextBatch(t),
                       msgQueue \o NextBatch(t) \o post}
    BY <1>8 DEF GenResolveIO, GenFinishLearning
  <2>3. msgQueue \o <<>> \o post = msgQueue \o post
        /\ msgQueue \o <<>> = msgQueue
    BY <1>1
  <2>4. msgQueue \o next \o post = msgQueue \o (next \o post)
    <3>1. next \in Seq(Messages) /\ post \in Seq(Messages)
      BY <2>1
    <3> HIDE DEF next, post
    <3> QED BY <1>1, <3>1
  <2>5. Says(next \o post)
    <3>1. next \o post \in Seq(Messages)
      BY <2>1
    <3>2. \A i \in DOMAIN (next \o post) :
             \/ i \in DOMAIN next /\ (next \o post)[i] = next[i]
             \/ i - Len(next) \in DOMAIN post /\ (next \o post)[i] = post[i - Len(next)]
      BY <2>1, ConcatPlaces
    <3> HIDE DEF next, post
    <3> QED BY <2>1, <3>1, <3>2
  <2> HIDE DEF post, next, Says
  <2> QED BY <1>5, <2>1, <2>2, <2>3, <2>4, <2>5
<1> QED
  BY <1>5, <1>6, <1>7, <1>8
  DEF GenStep, GenDequeue, GenCheck, GenAssert, GenResolveDeleted, GenAdvise,
      GenDrain, GenStop

\* Only the threads of a session that is on move.
LEMMA WhoMoves ==
    ASSUME TypeOK, OneRequestAtATime, LifeCycle, ThreadsReplaced, NEW t \in Threads
    PROVE  /\ GenStep(t) => t = session /\ astState \in {"enabled", "disabling"}
           /\ ExeStep(t) => t = session /\ astState \in {"enabled", "disabling"}
<1>1. GenStep(t) => t = session /\ genPc[t] \notin Gone
  BY GenMove DEF GenMoves, ThreadsReplaced
<1>2. ExeStep(t) => t = session /\ exePc[t] \notin Gone
  BY ExeMove DEF ExeMoves, ThreadsReplaced
<1>3. astState \in {"none", "enabling", "disabled"} =>
         (genPc[session] \in Gone /\ exePc[session] \in Gone) \/ session \notin Threads
  BY DEF LifeCycle, GenReleased, ExeReleased, Gone
<1>4. astState \in AstStates
  BY StatesKnown
<1> QED BY <1>1, <1>2, <1>3, <1>4 DEF AstStates

LEMMA OwnedNever ==
    /\ \A e \in Talk : e \notin OwnEvents
    /\ \A m \in ForHub \cup ForAst : m \notin OwnMsgs
BY DEF Talk, ForHub, ForAst, OwnEvents, OwnMsgs

\* Steps of the threads of a session that is on.
LEMMA ThreadForgets ==
    ASSUME TypeOK, OneRequestAtATime, LifeCycle, ThreadsReplaced, Forgotten,
           NEW t \in Threads, GenStep(t) \/ ExeStep(t)
    PROVE  Forgotten'
<1>1. astState \in {"enabled", "disabling"} /\ hubAst # "disabled"
  BY WhoMoves DEF OneRequestAtATime
<1>2. UNCHANGED <<astState, hubAst, hubQueue, hubPending>>
  BY DEF GenStep, GenDequeue, GenCheck, GenAssert, GenCollectConfig, GenResolveConfig,
         GenResolveIO, GenResolveDeleted, GenAdvise, GenDrain, GenStop, genFrame, hubVars,
         ExeStep, ExeDequeue, ExeCheck, ExePlan, ExeEcho, ExeStall, ExeStop, exeFrame
<1>3. None(msgQueue', OwnMsgs)
  <2>1. CASE ExeStep(t)
    <3>1. UNCHANGED msgQueue
      BY <2>1 DEF ExeStep, ExeDequeue, ExeCheck, ExePlan, ExeEcho, ExeStall, ExeStop, exeFrame
    <3> QED BY <3>1 DEF Forgotten, Unowned
  <2>2. CASE GenStep(t)
    <3>1. PICK new \in Seq(Messages) : /\ msgQueue' = msgQueue \o new
                                      /\ \A i \in DOMAIN new : new[i] \in ForHub
      BY <2>2, GenSays
    <3>2. None(new, OwnMsgs)
      BY <3>1, OwnedNever DEF None
    <3> QED BY <3>1, <3>2, NoneConcat DEF Forgotten, Unowned, TypeOK, MsgTypeOK
  <2> QED BY <2>1, <2>2
<1> QED
  BY <1>1, <1>2, <1>3 DEF Forgotten, Unowned, SilentOff, SilentStart, LastWord

\* The HUB takes an event, which it may put aside or launch again, and may say
\* something that does not belong to a conversation it is not having.
LEMMA HubForgets ==
    ASSUME TypeOK, OneRequestAtATime, Forgotten, HubStep
    PROVE  Forgotten'
<1>0. /\ hubQueue \in Seq(HubEvents) /\ hubPending \in Seq(HubEvents)
      /\ msgQueue \in Seq(Messages) /\ hubQueue # <<>>
  BY DEF TypeOK, MsgTypeOK, HubTypeOK, HubStep, HubPend, HubEnable, HubDisable,
         HubEnableEcho, HubDisableEcho, HubConfigView, HubPrepare, HubCollect,
         HubPost, HubChange, HubHandles
<1> DEFINE e == HubEvent
           r == Tail(hubQueue)
<1>1. /\ e \in HubEvents /\ r \in Seq(HubEvents)
      /\ e \notin OwnEvents /\ None(r, OwnEvents) /\ None(hubPending, OwnEvents)
      /\ None(msgQueue, OwnMsgs)
  BY <1>0, TailOfSeq, NoneTail DEF Forgotten, Unowned, HubEvent
<1>2. hubAst = "disabled" =>
          None(r, Talk) /\ e \notin Talk /\ None(msgQueue, ForHub)
  BY <1>0, NoneTail DEF Forgotten, SilentOff, HubEvent
<1>3. hubAst = "enabling" /\ astState \in {"none", "disabled"} =>
          /\ None(r, Talk) /\ e \notin Talk
          /\ None(msgQueue, ForHub) /\ None(msgQueue, ForAst)
  BY <1>0, NoneTail DEF Forgotten, SilentStart, HubEvent
<1>4. hubAst = "disabling" /\ astState = "disabled" =>
          /\ Before(msgQueue, "ast_disabled", ForHub)
          /\ Before(r, "disable_ast_echo", Talk)
          /\ e.type = "disable_ast_echo" => None(r, Talk) /\ None(msgQueue, ForHub)
          /\ Has(r, "disable_ast_echo") => None(msgQueue, ForHub)
  <2>1. /\ Before(hubQueue, "disable_ast_echo", Talk)
           => /\ Before(r, "disable_ast_echo", Talk)
              /\ e.type = "disable_ast_echo" => None(r, Talk)
        /\ Has(r, "disable_ast_echo") => Has(hubQueue, "disable_ast_echo")
        /\ e.type = "disable_ast_echo" => Has(hubQueue, "disable_ast_echo")
    BY <1>0, BeforeTail, HasAppendTail, TailPlaces DEF HubEvent, Has
  <2> QED BY <2>1 DEF Forgotten, LastWord
<1>5. UNCHANGED astState
  BY DEF HubStep, HubPend, HubEnable, HubDisable, HubEnableEcho, HubDisableEcho,
         HubConfigView, HubPrepare, HubCollect, HubPost, HubChange, hubFrame
<1>6. HubHandles({e.type})
  BY <1>0 DEF HubHandles, HubEvent
<1> DEFINE goal == Forgotten'
<1> HIDE DEF e, r, goal
<1> SUFFICES goal
  BY DEF goal
\* The HUB takes the event, and that is all.
<1>7. ASSUME hubQueue' = r, UNCHANGED <<hubPending, hubAst, msgQueue>>
      PROVE  goal
  BY <1>1, <1>2, <1>3, <1>4, <1>5, <1>7
  DEF goal, Forgotten, Unowned, SilentOff, SilentStart, LastWord
<1>8. CASE HubPend
  <2>1. /\ hubQueue' = r /\ hubPending' = Append(hubPending, e)
        /\ UNCHANGED <<hubAst, msgQueue>>
    BY <1>8 DEF HubPend, e, r
  <2>2. None(hubPending', OwnEvents)
    BY <1>0, <1>1, <2>1, NoneAppend
  <2> QED
    BY <1>1, <1>2, <1>3, <1>4, <1>5, <2>1, <2>2
    DEF goal, Forgotten, Unowned, SilentOff, SilentStart, LastWord
<1>9. CASE HubEnable
  <2>1. e.type = "enable_ast" /\ e \notin Talk /\ UNCHANGED hubPending
    BY <1>9 DEF HubEnable, HubHandles, e, HubEvent, Talk
  <2>2. CASE hubAst = "disabled"
    <3>1. hubQueue' = r /\ hubAst' = "enabling" /\ msgQueue' = <<Sent("enable_ast")>>
      BY <1>9, <2>2 DEF HubEnable, r
    <3>2. Sent("enable_ast") \notin ForHub \cup ForAst \cup OwnMsgs
      BY SentIs DEF ForHub, ForAst, OwnMsgs
    <3>3. None(msgQueue', ForHub) /\ None(msgQueue', ForAst) /\ None(msgQueue', OwnMsgs)
      BY <3>1, <3>2, NoneSmall
    <3> QED
      BY <1>1, <1>2, <2>1, <2>2, <3>1, <3>3
      DEF goal, Forgotten, Unowned, SilentOff, SilentStart, LastWord
  <2>3. CASE hubAst = "disabling"
    <3>1. hubQueue' = Append(r, e) /\ UNCHANGED <<hubAst, msgQueue>>
      BY <1>9, <2>3 DEF HubEnable, r, e
    <3>2. None(hubQueue', OwnEvents)
      BY <1>1, <3>1, NoneAppend
    <3>3. Before(r, "disable_ast_echo", Talk) => Before(hubQueue', "disable_ast_echo", Talk)
      BY <1>1, <2>1, <3>1, BeforeAppend
    <3>4. Has(hubQueue', "disable_ast_echo") => Has(r, "disable_ast_echo")
      BY <1>1, <2>1, <3>1, HasAppendTail
    <3> QED
      BY <1>1, <1>4, <1>5, <2>1, <2>3, <3>1, <3>2, <3>3, <3>4
      DEF goal, Forgotten, Unowned, SilentOff, SilentStart, LastWord
  <2>4. CASE hubAst \notin {"disabled", "disabling"}
    BY <1>7, <1>9, <2>4 DEF HubEnable, r
  <2> QED BY <2>2, <2>3, <2>4
<1>10. CASE HubDisable
  <2>1. CASE hubAst = "enabled"
    <3>1. /\ hubQueue' = r /\ hubAst' = "disabling" /\ UNCHANGED hubPending
          /\ msgQueue' = Append(msgQueue, Sent("disable_ast"))
      BY <1>10, <2>1 DEF HubDisable, r
    <3>2. Sent("disable_ast") \in Messages
      BY SentTyped DEF TypeOK
    <3>3. Sent("disable_ast") \notin OwnMsgs
      BY SentIs DEF OwnMsgs
    <3>4. None(msgQueue', OwnMsgs)
      BY <1>0, <1>1, <3>1, <3>2, <3>3, NoneAppend
    <3>5. astState = "enabled"
      BY <2>1 DEF OneRequestAtATime
    <3> QED
      BY <1>1, <1>5, <3>1, <3>4, <3>5
      DEF goal, Forgotten, Unowned, SilentOff, SilentStart, LastWord
  <2>2. CASE hubAst = "enabling"
    <3>1. UNCHANGED <<hubQueue, hubPending, hubAst, msgQueue>>
      BY <1>10, <2>2 DEF HubDisable
    <3> QED
      BY <1>5, <3>1 DEF goal, Forgotten, Unowned, SilentOff, SilentStart, LastWord
  <2>3. CASE hubAst \notin {"enabled", "enabling"}
    BY <1>7, <1>10, <2>3 DEF HubDisable, r
  <2> QED BY <2>1, <2>2, <2>3
<1>11. CASE HubEnableEcho
  <2>1. /\ hubQueue' = r /\ UNCHANGED <<hubPending, msgQueue>>
        /\ UNCHANGED hubAst \/ hubAst' = "enabled"
    BY <1>11 DEF HubEnableEcho, r
  <2>2. CASE hubAst' = "enabled"
    BY <1>1, <2>1, <2>2 DEF goal, Forgotten, Unowned, SilentOff, SilentStart, LastWord
  <2> QED BY <1>7, <2>1, <2>2
<1>12. CASE HubDisableEcho
  <2>1. /\ hubQueue' = r /\ UNCHANGED <<hubPending, msgQueue>> /\ hubAst' = "disabled"
        /\ hubAst = "disabling" /\ astState = "disabled" /\ e.type = "disable_ast_echo"
    <3>1. HubEvent.type = "disable_ast_echo" /\ HubEvent.type \in EchoEvents
      BY <1>12 DEF HubDisableEcho, HubHandles, HubEvent, EchoEvents
    <3>2. hubAst = "disabling" /\ astState = "disabled" /\ HubEvent.ok
      BY <1>0, <3>1, EchoSaysStatus
    <3> QED BY <1>12, <3>1, <3>2 DEF HubDisableEcho, r, e
  <2>2. None(r, Talk) /\ None(msgQueue, ForHub)
    BY <1>4, <2>1
  <2> QED
    BY <1>1, <2>1, <2>2 DEF goal, Forgotten, Unowned, SilentOff, SilentStart, LastWord
<1>13. CASE HubConfigView \/ HubCollect
  <2>1. /\ e.type \in {"config_view", "io_normal"}
        /\ hubQueue' = r /\ UNCHANGED <<hubPending, hubAst>>
    BY <1>13 DEF HubConfigView, HubCollect, HubHandles, e, r, HubEvent
  <2>2. PICK m : m \in ForAst /\ msgQueue' = Append(msgQueue, m)
    <3>1. \A type \in {"collect_config_resp", "collect_OBJ_resp"}, ok \in BOOLEAN,
             flag \in BOOLEAN : Answer(type, ok, flag) \in ForAst
      <4> SUFFICES ASSUME NEW type \in {"collect_config_resp", "collect_OBJ_resp"},
                          NEW ok \in BOOLEAN, NEW flag \in BOOLEAN
                   PROVE  Answer(type, ok, flag) \in ForAst
        OBVIOUS
      <4>1. HubEvent.sn \in Sessions
        BY <1>1, RecordFields DEF HubEvents, e
      <4>2. Answer(type, ok, flag) \in Messages
        BY <4>1, RecordTyped DEF Answer, Messages
      <4>3. Answer(type, ok, flag).type = type
        BY RecordIs DEF Answer
      <4> QED BY <4>2, <4>3 DEF ForAst
    <3>2. CASE HubConfigView
      <4>1. PICK involved \in ConfigAnswers :
               msgQueue' = Append(msgQueue, Answer("collect_config_resp",
                                              hubAst = "enabled" /\ involved, FALSE))
        BY <3>2 DEF HubConfigView
      <4>2. (hubAst = "enabled" /\ involved) \in BOOLEAN
        OBVIOUS
      <4> QED BY <3>1, <4>1, <4>2
    <3>3. CASE HubCollect
      <4>1. \/ msgQueue' = Append(msgQueue, Answer("collect_OBJ_resp", FALSE, FALSE))
            \/ msgQueue' = Append(msgQueue, Answer("collect_OBJ_resp", TRUE,
                                                   collected + 1 = toCollect))
        BY <3>3 DEF HubCollect
      <4>2. (collected + 1 = toCollect) \in BOOLEAN
        OBVIOUS
      <4> QED BY <3>1, <4>1, <4>2
    <3> QED BY <1>13, <3>2, <3>3
  <2>3. e \in Talk
    BY <1>1, <2>1 DEF Talk
  <2>4. m \in Messages /\ m \notin ForHub /\ m \notin OwnMsgs
    BY <2>2 DEF ForAst, ForHub, OwnMsgs
  <2>5. None(msgQueue', OwnMsgs) /\ (None(msgQueue', ForHub) <=> None(msgQueue, ForHub))
    BY <1>0, <1>1, <2>2, <2>4, NoneAppend
  <2>6. Before(msgQueue, "ast_disabled", ForHub) => Before(msgQueue', "ast_disabled", ForHub)
    BY <1>0, <2>2, <2>4, BeforeAppend
  <2> QED
    BY <1>1, <1>2, <1>3, <1>4, <1>5, <2>1, <2>3, <2>5, <2>6
    DEF goal, Forgotten, Unowned, SilentOff, SilentStart, LastWord
<1>14. CASE HubPrepare
  BY <1>7, <1>14 DEF HubPrepare, r
<1>15. CASE HubPost
  <2>1. /\ e.type = "io_post" /\ hubQueue' = hubPending \o r /\ hubPending' = <<>>
        /\ UNCHANGED <<hubAst, msgQueue>>
    BY <1>15 DEF HubPost, HubHandles, e, r, HubEvent
  <2>2. e \in Talk
    BY <1>1, <2>1 DEF Talk
  <2>3. None(hubQueue', OwnEvents) /\ None(hubPending', OwnEvents)
    BY <1>0, <1>1, <2>1, NoneConcat, NoneSmall
  <2>4. ~Has(hubPending, "disable_ast_echo")
    BY DEF Has, OneRequestAtATime, Without, EchoEvents
  <2>5. /\ Before(r, "disable_ast_echo", Talk) => Before(hubQueue', "disable_ast_echo", Talk)
        /\ Before(r, "disable_ast_echo", Talk) /\ Has(hubQueue', "disable_ast_echo")
             => Has(r, "disable_ast_echo")
    BY <1>0, <1>1, <2>1, <2>4, BeforeFront
  <2> QED
    BY <1>1, <1>2, <1>3, <1>4, <1>5, <2>1, <2>2, <2>3, <2>5
    DEF goal, Forgotten, Unowned, SilentOff, SilentStart, LastWord
<1>16. CASE HubChange
  <2>1. CASE UNCHANGED msgQueue
    BY <1>7, <1>16, <2>1 DEF HubChange, r
  <2>2. CASE ~UNCHANGED msgQueue
    <3> DEFINE m == Record("report_delete", FALSE, FALSE, 0)
    <3>1. /\ hubQueue' = r /\ UNCHANGED <<hubPending, hubAst>>
          /\ msgQueue' = Append(msgQueue, m)
      BY <1>16, <2>2 DEF HubChange, r
    <3>2. m \in Messages
      BY RecordTyped, ZeroSession DEF Messages
    <3>3. m.type = "report_delete" /\ m.sn = 0
      BY Zenon DEF Record
    <3> HIDE DEF m
    <3>4. m \notin ForHub /\ m \notin ForAst /\ m \notin OwnMsgs
      BY <3>3 DEF ForHub, ForAst, OwnMsgs
    <3>5. /\ None(msgQueue', OwnMsgs) /\ (None(msgQueue', ForHub) <=> None(msgQueue, ForHub))
          /\ None(msgQueue', ForAst) <=> None(msgQueue, ForAst)
      BY <1>0, <1>1, <3>1, <3>2, <3>4, NoneAppend
    <3>6. Before(msgQueue, "ast_disabled", ForHub) => Before(msgQueue', "ast_disabled", ForHub)
      BY <1>0, <3>1, <3>2, <3>4, BeforeAppend
    <3> QED
      BY <1>1, <1>2, <1>3, <1>4, <1>5, <3>1, <3>5, <3>6
      DEF goal, Forgotten, Unowned, SilentOff, SilentStart, LastWord
  <2> QED BY <2>1, <2>2
<1> QED
  BY <1>8, <1>9, <1>10, <1>11, <1>12, <1>13, <1>14, <1>15, <1>16 DEF HubStep

LEMMA ForwardedIs ==
    ASSUME NEW m \in Messages, m.type \in DOMAIN ToHub
    PROVE  LET e == [m EXCEPT !.type = ToHub[m.type]]
           IN  /\ e \in HubEvents /\ e \notin OwnEvents
               /\ e.type = ToHub[m.type]
               /\ e \in Talk <=> m \in ForHub
               /\ e.type = "disable_ast_echo" <=> m.type = "ast_disabled"
               /\ e.type = "enable_ast_echo" <=> m.type = "ast_enabled"
<1> DEFINE type == ToHub[m.type]
           e == [m EXCEPT !.type = type]
<1>1. \/ m.type = "ast_enabled" /\ type = "enable_ast_echo"
      \/ m.type = "ast_disabled" /\ type = "disable_ast_echo"
      \/ m.type = "collect_config_req" /\ type = "config_view"
      \/ m.type = "collect_OBJ_prepare" /\ type = "io_prepare"
      \/ m.type = "collect_OBJ_normal" /\ type = "io_normal"
      \/ m.type = "collect_OBJ_post" /\ type = "io_post"
  BY DEF ToHub
<1>2. e \in HubEvents
  BY <1>1, RecordFields DEF Messages, HubEvents
<1>3. e.type = type
  BY DEF Messages, RecordOf
<1> HIDE DEF e, type
<1> QED BY <1>1, <1>2, <1>3, Zenon DEF e, type, OwnEvents, Talk, ForHub

LEMMA MsgForgets ==
    ASSUME TypeOK, OneRequestAtATime, Forgotten, MsgStep
    PROVE  Forgotten'
<1>0. /\ hubQueue \in Seq(HubEvents) /\ hubPending \in Seq(HubEvents)
      /\ msgQueue \in Seq(Messages) /\ session \in Sessions
      /\ None(hubQueue, OwnEvents) /\ None(hubPending, OwnEvents) /\ None(msgQueue, OwnMsgs)
  BY DEF TypeOK, MsgTypeOK, HubTypeOK, Forgotten, Unowned
<1> DEFINE goal == Forgotten'
<1> HIDE DEF goal
<1> SUFFICES goal
  BY DEF goal
<1>1. UNCHANGED <<hubPending, hubAst>>
  BY DEF MsgStep, ForwardToHub, ForwardToGen, EnableFails, EnableSucceeds, DisableBegin,
         GenStopBegin, GenStopEnd, ExeStopBegin, ExeStopEnd, DisableEnd, hubVars
\* AST is disabled by the message thread alone, and ready to be enabled.
<1>2. CASE DisableEnd
  <2> DEFINE m == Record("ast_disabled", TRUE, FALSE, session)
  <2>1. /\ hubAst = "disabling" /\ Quiet /\ UNCHANGED hubQueue
        /\ msgQueue' = Append(msgQueue, m)
    BY <1>2 DEF DisableEnd, hubVars, OneRequestAtATime
  <2>2. m \in Messages
    BY <1>0, RecordTyped DEF Messages
  <2>3. m.type = "ast_disabled"
    BY Zenon DEF Record
  <2> HIDE DEF m
  <2>4. ~Has(msgQueue, "ast_disabled") /\ ~Has(hubQueue, "disable_ast_echo")
    BY <2>1 DEF Quiet, Without, ControlMsgs, EchoEvents, Has
  <2>5. Before(msgQueue, "ast_disabled", ForHub) /\ Before(hubQueue, "disable_ast_echo", Talk)
    BY <2>4 DEF Before, Has
  <2>6. m \notin ForHub /\ m \notin OwnMsgs
    BY <2>3 DEF ForHub, OwnMsgs
  <2>7. Before(msgQueue', "ast_disabled", ForHub) /\ None(msgQueue', OwnMsgs)
    BY <1>0, <2>1, <2>2, <2>5, <2>6, BeforeAppend, NoneAppend
  <2> QED
    BY <1>0, <1>1, <2>1, <2>4, <2>5, <2>7
    DEF goal, Forgotten, Unowned, SilentOff, SilentStart, LastWord
<1>3. CASE GenStopBegin \/ GenStopEnd \/ ExeStopBegin \/ ExeStopEnd
  <2>1. UNCHANGED <<astState, msgQueue, hubQueue>>
    BY <1>3 DEF GenStopBegin, GenStopEnd, ExeStopBegin, ExeStopEnd, hubVars
  <2> QED
    BY <1>1, <2>1 DEF goal, Forgotten, Unowned, SilentOff, SilentStart, LastWord
<1>4. CASE EnableFails \/ EnableSucceeds \/ DisableBegin
  <2>1. msgQueue # <<>> /\ Msg.type \in {"enable_ast", "disable_ast"}
    BY <1>4 DEF EnableFails, EnableSucceeds, DisableBegin, MsgHandles, Msg
  <2>2. /\ Msg.type = "enable_ast" => hubAst = "enabling" /\ astState \in {"none", "disabled"}
        /\ Msg.type = "disable_ast" => hubAst = "disabling" /\ astState = "enabled"
    BY <2>1, MsgSaysStatus DEF ControlMsgs
  <2>3. \/ hubAst = "enabling" /\ astState' \in {"enabling", "enabled"}
        \/ hubAst = "disabling" /\ astState' = "disabling"
    BY <1>4, <2>2 DEF EnableFails, EnableSucceeds, DisableBegin, MsgHandles, Msg
  <2>4. None(msgQueue', OwnMsgs) /\ UNCHANGED hubQueue
    <3>1. UNCHANGED hubQueue /\
          \/ msgQueue' = Tail(msgQueue)
          \/ \E type \in {"ast_enabled", "ast_disabled"}, ok \in BOOLEAN, sn \in Sessions :
                msgQueue' = Append(Tail(msgQueue), Record(type, ok, FALSE, sn))
      <4>1. CASE EnableFails
        BY <1>0, <4>1 DEF EnableFails, hubVars
      <4>2. CASE EnableSucceeds
        <5>1. session + 1 \in Sessions
          BY <1>0, <4>2, BoundsAssumption DEF EnableSucceeds, Sessions, BoundsAssumption
        <5> QED BY <4>2, <5>1 DEF EnableSucceeds, hubVars
      <4>3. CASE DisableBegin
        BY <1>0, <4>3 DEF DisableBegin, hubVars
      <4> QED BY <1>4, <4>1, <4>2, <4>3
    <3>2. Tail(msgQueue) \in Seq(Messages) /\ None(Tail(msgQueue), OwnMsgs)
      BY <1>0, <2>1, TailOfSeq, NoneTail
    <3>3. ASSUME NEW type \in {"ast_enabled", "ast_disabled"}, NEW ok \in BOOLEAN,
                 NEW sn \in Sessions
          PROVE  None(Append(Tail(msgQueue), Record(type, ok, FALSE, sn)), OwnMsgs)
      <4> DEFINE m == Record(type, ok, FALSE, sn)
      <4>1. m \in Messages
        BY RecordTyped DEF Messages
      <4>2. m.type = type
        BY Zenon DEF Record
      <4> HIDE DEF m
      <4>3. m \notin OwnMsgs
        BY <4>2 DEF OwnMsgs
      <4>4. None(Append(Tail(msgQueue), m), OwnMsgs)
        BY <3>2, <4>1, <4>3, NoneAppend
      <4> QED BY <4>4 DEF m
    <3> QED BY <3>1, <3>2, <3>3
  <2> QED
    BY <1>0, <1>1, <2>3, <2>4
    DEF goal, Forgotten, Unowned, SilentOff, SilentStart, LastWord
<1>5. CASE ForwardToGen
  <2>1. msgQueue # <<>> /\ msgQueue' = Tail(msgQueue) /\ UNCHANGED <<astState, hubQueue>>
    BY <1>5 DEF ForwardToGen, MsgHandles, hubVars
  <2>2. \A B : None(msgQueue, B) => None(msgQueue', B)
    BY <1>0, <2>1, NoneTail
  <2>3. Before(msgQueue, "ast_disabled", ForHub) => Before(msgQueue', "ast_disabled", ForHub)
    BY <1>0, <2>1, BeforeTail
  <2> QED
    BY <1>0, <1>1, <2>1, <2>2, <2>3
    DEF goal, Forgotten, Unowned, SilentOff, SilentStart, LastWord
<1>6. CASE ForwardToHub
  <2> DEFINE e == [Msg EXCEPT !.type = ToHub[Msg.type]]
  <2>1. /\ msgQueue # <<>> /\ msgQueue' = Tail(msgQueue) /\ UNCHANGED astState
        /\ hubQueue' = Append(hubQueue, e) /\ Msg.type \in DOMAIN ToHub
    BY <1>6 DEF ForwardToHub, MsgHandles, Msg
  <2>2. Msg \in Messages /\ Msg = Head(msgQueue)
    BY <1>0, <2>1, TailOfSeq DEF Msg
  <2>3. /\ e \in HubEvents /\ e \notin OwnEvents
        /\ e \in Talk <=> Msg \in ForHub
        /\ e.type = "disable_ast_echo" <=> Msg.type = "ast_disabled"
    BY <2>1, <2>2, ForwardedIs
  <2> HIDE DEF e
  <2>4. /\ None(msgQueue', OwnMsgs) /\ None(hubQueue', OwnEvents)
        /\ None(msgQueue, ForHub) => None(msgQueue', ForHub) /\ e \notin Talk
        /\ None(msgQueue, ForAst) => None(msgQueue', ForAst)
    BY <1>0, <2>1, <2>2, <2>3, NoneTail, NoneAppend
  <2>5. None(hubQueue, Talk) /\ e \notin Talk => None(hubQueue', Talk)
    BY <1>0, <2>1, <2>3, NoneAppend
  <2>6. LastWord'
    <3> SUFFICES ASSUME hubAst = "disabling", astState = "disabled"
                 PROVE  /\ Before(msgQueue', "ast_disabled", ForHub)
                        /\ Before(hubQueue', "disable_ast_echo", Talk)
                        /\ Has(hubQueue', "disable_ast_echo") => None(msgQueue', ForHub)
      BY <1>1, <2>1 DEF LastWord
    <3>1. /\ Before(msgQueue, "ast_disabled", ForHub)
          /\ Before(hubQueue, "disable_ast_echo", Talk)
          /\ Has(hubQueue, "disable_ast_echo") => None(msgQueue, ForHub)
      BY DEF Forgotten, LastWord
    <3>2. /\ Before(msgQueue', "ast_disabled", ForHub)
          /\ Msg.type = "ast_disabled" => None(msgQueue', ForHub)
      BY <1>0, <2>1, <2>2, <3>1, BeforeTail
    <3>3. e \in Talk => ~Has(hubQueue, "disable_ast_echo")
      BY <2>4, <3>1
    <3>4. Before(hubQueue', "disable_ast_echo", Talk)
      BY <1>0, <2>1, <2>3, <3>1, <3>3, BeforeAppend
    <3>5. Has(hubQueue', "disable_ast_echo") => None(msgQueue', ForHub)
      <4>1. Has(hubQueue', "disable_ast_echo") <=>
               Has(hubQueue, "disable_ast_echo") \/ e.type = "disable_ast_echo"
        BY <1>0, <2>1, <2>3, HasAppendTail
      <4> QED BY <2>3, <2>4, <3>1, <3>2, <4>1
    <3> QED BY <3>2, <3>4, <3>5
  <2>7. SilentOff' /\ SilentStart' /\ Unowned'
    BY <1>0, <1>1, <2>1, <2>4, <2>5 DEF Forgotten, SilentOff, SilentStart, Unowned
  <2> QED BY <2>6, <2>7 DEF goal, Forgotten
<1> QED BY <1>2, <1>3, <1>4, <1>5, <1>6 DEF MsgStep

LEMMA LaunchForgets ==
    ASSUME TypeOK, Forgotten,
           MigratorEcho \/ Tick \/ LaunchEnable \/ LaunchDisable \/ LaunchChange \/ UNCHANGED vars
    PROVE  Forgotten'
<1>1. UNCHANGED <<astState, hubAst, msgQueue, hubPending>>
  BY DEF MigratorEcho, exeFrame, Tick, LaunchEnable, LaunchDisable, LaunchChange, Launch,
         vars, msgVars, hubVars
<1>2. \/ UNCHANGED hubQueue
      \/ \E type \in {"enable_ast", "disable_ast", "change"}, flag \in BOOLEAN :
            hubQueue' = Append(hubQueue, Record(type, FALSE, flag, 0))
  BY DEF MigratorEcho, exeFrame, Tick, LaunchEnable, LaunchDisable, LaunchChange, Launch,
         vars, hubVars
<1>3. CASE UNCHANGED hubQueue
  BY <1>1, <1>3 DEF Forgotten, Unowned, SilentOff, SilentStart, LastWord
<1>4. ASSUME NEW type \in {"enable_ast", "disable_ast", "change"}, NEW flag \in BOOLEAN,
             hubQueue' = Append(hubQueue, Record(type, FALSE, flag, 0))
      PROVE  Forgotten'
  <2> DEFINE e == Record(type, FALSE, flag, 0)
  <2>1. e \in HubEvents
    BY RecordTyped, ZeroSession DEF HubEvents
  <2>2. e.type = type /\ e.sn = 0
    BY Zenon DEF Record
  <2> HIDE DEF e
  <2>3. e \notin OwnEvents /\ e \notin Talk /\ e.type # "disable_ast_echo"
    BY <2>2 DEF OwnEvents, Talk
  <2>4. hubQueue \in Seq(HubEvents) /\ hubQueue' = Append(hubQueue, e)
    BY <1>4 DEF TypeOK, HubTypeOK, e
  <2>5. /\ None(hubQueue, OwnEvents) => None(hubQueue', OwnEvents)
        /\ None(hubQueue, Talk) => None(hubQueue', Talk)
        /\ Has(hubQueue', "disable_ast_echo") => Has(hubQueue, "disable_ast_echo")
        /\ Before(hubQueue, "disable_ast_echo", Talk)
             => Before(hubQueue', "disable_ast_echo", Talk)
    BY <2>1, <2>3, <2>4, NoneAppend, HasAppendTail, BeforeAppend
  <2> QED BY <1>1, <2>5 DEF Forgotten, Unowned, SilentOff, SilentStart, LastWord
<1> QED BY <1>2, <1>3, <1>4

LEMMA ForgottenStep ==
    ASSUME TypeOK, OneRequestAtATime, LifeCycle, ThreadsReplaced, Forgotten, [Next]_vars
    PROVE  Forgotten'
BY ThreadForgets, HubForgets, MsgForgets, LaunchForgets DEF Next

LEMMA ForgottenAtFirst == Init => Forgotten
BY NoneSmall DEF Init, Forgotten, Unowned, SilentOff, SilentStart, LastWord

\* What belongs to no conversation was launched by the service or the HUB.
LEMMA NothingLeft ==
    ASSUME TypeOK, OneRequestAtATime, Forgotten, EnableSucceeds, session' # session,
           NEW e \in Elements(msgQueue') \cup Elements(genQueue') \cup
                     Elements(genPending') \cup Elements(hubQueue')
    PROVE  e.sn \in {0, session'}
<1>0. /\ hubQueue \in Seq(HubEvents) /\ msgQueue \in Seq(Messages)
      /\ msgQueue # <<>> /\ Msg.type = "enable_ast"
      /\ session' = session + 1 /\ session + 1 \in Sessions
  <2>1. session + 1 \in Sessions
    BY BoundsAssumption DEF TypeOK, MsgTypeOK, Sessions, BoundsAssumption, EnableSucceeds
  <2> QED BY <2>1 DEF TypeOK, MsgTypeOK, HubTypeOK, EnableSucceeds, MsgHandles, Msg
<1>1. /\ hubAst = "enabling" /\ astState \in {"none", "disabled"}
      /\ Without(Tail(msgQueue), ControlMsgs) /\ Without(hubQueue, EchoEvents)
  <2>1. Msg.type \in ControlMsgs
    BY <1>0 DEF ControlMsgs
  <2> QED BY <1>0, <2>1, MsgSaysStatus
<1>2. /\ None(hubQueue, Talk) /\ None(hubQueue, OwnEvents)
      /\ None(msgQueue, ForHub) /\ None(msgQueue, ForAst) /\ None(msgQueue, OwnMsgs)
  BY <1>1 DEF Forgotten, SilentStart, Unowned
<1> DEFINE r == Tail(msgQueue)
           m == Record("ast_enabled", TRUE, FALSE, session + 1)
           c == Record("collect_config", FALSE, FALSE, session + 1)
<1>3. /\ r \in Seq(Messages) /\ None(r, ForHub) /\ None(r, ForAst) /\ None(r, OwnMsgs)
  BY <1>0, <1>2, TailOfSeq, NoneTail
<1>4. /\ msgQueue' = Append(r, m) /\ genQueue' = <<>> \o <<c>> /\ genPending' = <<>>
      /\ hubQueue' = hubQueue
  BY DEF EnableSucceeds, ResetThreads, Emptied, hubVars
<1>5. m \in Messages /\ m.sn = session + 1 /\ c.sn = session + 1
  <2>1. m \in Messages
    BY <1>0, RecordTyped DEF Messages
  <2>2. m.sn = session + 1 /\ c.sn = session + 1
    BY Zenon DEF Record
  <2> QED BY <2>1, <2>2
<1> HIDE DEF r, m, c
<1>6. CASE e \in Elements(hubQueue')
  <2>1. PICK i \in DOMAIN hubQueue : e = hubQueue[i]
    BY <1>0, <1>4, <1>6 DEF Elements
  <2>2. e \in HubEvents /\ e \notin Talk /\ e \notin OwnEvents /\ e.type \notin EchoEvents
    BY <1>0, <1>1, <1>2, <2>1 DEF None, Without
  <2>3. e.type \in {"enable_ast", "disable_ast", "change"}
    BY <2>2, RecordFields DEF Talk, EchoEvents, HubEvents
  <2> QED BY <2>2, <2>3 DEF OwnEvents
<1>7. CASE e \in Elements(msgQueue')
  <2>1. PICK i \in DOMAIN Append(r, m) : e = Append(r, m)[i]
    <3>1. Append(r, m) \in Seq(Messages)
      BY <1>3, <1>5
    <3> QED BY <1>4, <1>7, <3>1 DEF Elements
  <2>2. e = m \/ \E j \in DOMAIN r : e = r[j]
    BY <1>3, <1>5, <2>1, AppendPlaces
  <2>3. CASE \E j \in DOMAIN r : e = r[j]
    <3>1. /\ e \in Messages /\ e \notin ForHub /\ e \notin ForAst /\ e \notin OwnMsgs
          /\ e.type \notin ControlMsgs
      BY <1>1, <1>3, <2>3 DEF None, Without, r
    <3>2. e.type = "report_delete"
      BY <3>1, RecordFields DEF ForHub, ForAst, ControlMsgs, Messages
    <3> QED BY <3>1, <3>2 DEF OwnMsgs
  <2> QED BY <1>0, <1>5, <2>2, <2>3
<1>8. CASE e \in Elements(genQueue') \cup Elements(genPending')
  <2>1. e = c
    BY <1>4, <1>8 DEF Elements
  <2> QED BY <1>0, <1>5, <2>1
<1> QED BY <1>6, <1>7, <1>8

\* The HUB puts nothing aside but changes and requests for its configuration.
PendsFew == \A i \in DOMAIN hubPending : hubPending[i].type \in {"change", "config_view"}

\* Only the HUB puts events aside.
LEMMA PendsFewStep ==
    ASSUME TypeOK, PendsFew, [Next]_vars
    PROVE  PendsFew'
<1>1. CASE HubPend
  <2>1. /\ hubPending \in Seq(HubEvents) /\ hubPending' = Append(hubPending, HubEvent)
        /\ HubEvent.type \in {"change", "config_view"}
    BY <1>1 DEF TypeOK, HubTypeOK, HubPend, HubShouldPend
  <2> QED BY <2>1 DEF PendsFew
<1>2. CASE HubPost
  BY <1>2 DEF HubPost, PendsFew
<1>3. CASE UNCHANGED hubPending
  BY <1>3 DEF PendsFew
<1>4. ASSUME NEW t \in Threads, GenStep(t) \/ ExeStep(t)
      PROVE  UNCHANGED hubPending
  BY <1>4 DEF GenStep, GenDequeue, GenCheck, GenAssert, GenCollectConfig, GenResolveConfig,
     GenResolveIO, GenResolveDeleted, GenAdvise, GenDrain, GenStop, genFrame, hubVars,
     ExeStep, ExeDequeue, ExeCheck, ExePlan, ExeEcho, ExeStall, ExeStop, exeFrame
<1>5. MsgStep \/ MigratorEcho \/ Tick \/ LaunchEnable \/ LaunchDisable \/ LaunchChange
         \/ UNCHANGED vars => UNCHANGED hubPending
  BY DEF MsgStep, ForwardToHub, ForwardToGen, EnableFails, EnableSucceeds, DisableBegin,
     GenStopBegin, GenStopEnd, ExeStopBegin, ExeStopEnd, DisableEnd, hubVars, MigratorEcho,
     exeFrame, Tick, LaunchEnable, LaunchDisable, LaunchChange, Launch, vars
<1>6. HubStep => HubPend \/ HubPost \/ UNCHANGED hubPending
  BY DEF HubStep, HubEnable, HubDisable, HubEnableEcho, HubDisableEcho, HubConfigView,
     HubPrepare, HubCollect, HubChange
<1> QED BY <1>1, <1>2, <1>3, <1>4, <1>5, <1>6 DEF Next

\* Of what it has put aside only requests belong to a session.
LEMMA OnlyViewsLeft ==
    ASSUME TypeOK, Forgotten, PendsFew, NEW e \in Elements(hubPending)
    PROVE  e.sn = 0 \/ e.type = "config_view"
<1>1. PICK i \in DOMAIN hubPending : e = hubPending[i]
  BY DEF Elements, TypeOK, HubTypeOK
<1>2. e \in HubEvents /\ e \notin OwnEvents /\ e.type \in {"change", "config_view"}
  BY <1>1 DEF TypeOK, HubTypeOK, Forgotten, Unowned, None, PendsFew
<1> QED BY <1>2 DEF OwnEvents

-----------------------------------------------------------------------------
(* If nothing fails, nothing is turned off.                                *)

\* The HUB finds an involved SubPool and disk, and memory never runs out.
NothingFails == FALSE \notin ConfigAnswers /\ FALSE \notin ResolveResults

Refusals == {m \in Messages : m.type = "collect_config_resp" /\ m.ok = FALSE}
Refused  == {e \in GenEvents : e.type = "resolve_config" /\ e.ok = FALSE}

NothingRefused ==
    /\ None(genQueue, Refused) /\ None(genPending, Refused)
    /\ \A t \in Threads : genPc[t] \in {"check", "assert", "act"} => genEv[t] \notin Refused
\* The HUB refuses a view after it has been told to disable AST.
RefusesAtEnd == astState = "enabled" => Behind(msgQueue, "disable_ast", Refusals)
\* The echo of enabling is the first thing that the HUB hears of a session.
FirstWord ==
    hubAst = "enabling" /\ astState = "enabled" =>
        /\ Behind(hubQueue, "enable_ast_echo", Talk) /\ None(msgQueue, ForAst)
        /\ ~Has(hubQueue, "enable_ast_echo") => Behind(msgQueue, "ast_enabled", ForHub)
Served ==
    /\ astState \in {"enabled", "disabling"} => NothingRefused
    /\ RefusesAtEnd /\ FirstWord

LEMMA BehindConcat ==
    ASSUME NEW S, NEW q \in Seq(S), NEW p \in Seq(S), NEW type, NEW B, Behind(q, type, B),
           None(p, B) \/ Has(q, type)
    PROVE  Behind(q \o p, type, B)
<1> DEFINE r == q \o p
<1>1. /\ Len(p) \in Nat /\ Len(q) \in Nat
      /\ DOMAIN p = 1 .. Len(p) /\ DOMAIN q = 1 .. Len(q)
      /\ DOMAIN r = 1 .. Len(q) + Len(p)
      /\ \A i \in DOMAIN q : r[i] = q[i]
      /\ \A i \in DOMAIN r : i \notin DOMAIN q => i - Len(q) \in DOMAIN p /\ r[i] = p[i - Len(q)]
  BY ConcatPlaces
<1> HIDE DEF r
<1>2. \A i \in DOMAIN q : i \in DOMAIN r
  BY <1>1
<1>3. ASSUME NEW j \in DOMAIN r, r[j] \in B
      PROVE  \E i \in DOMAIN r : i < j /\ r[i].type = type
  <2>1. CASE j \in DOMAIN q
    BY <1>1, <1>2, <1>3, <2>1 DEF Behind
  <2>2. CASE j \notin DOMAIN q
    <3>1. Has(q, type)
      BY <1>1, <1>3, <2>2 DEF None
    <3>2. PICK i \in DOMAIN q : q[i].type = type
      BY <3>1 DEF Has
    <3>3. i < j
      BY <1>1, <2>2
    <3> QED BY <1>1, <1>2, <3>2, <3>3
  <2> QED BY <2>1, <2>2
<1> QED BY <1>3 DEF Behind, r

LEMMA NoneBehind ==
    ASSUME NEW q, NEW type, NEW B
    PROVE  /\ None(q, B) => Behind(q, type, B)
           /\ Behind(q, type, B) /\ ~Has(q, type) => None(q, B)
BY DEF None, Behind, Has

\* Where the echo of enabling is while AST works and the HUB does not know.
LEMMA EchoIsComing ==
    ASSUME OneRequestAtATime, astState = "enabled"
    PROVE  /\ hubAst = "enabling" /\ ~Has(hubQueue, "enable_ast_echo")
                 => Has(msgQueue, "ast_enabled")
           /\ hubAst = "disabling" => Has(msgQueue, "disable_ast")
           /\ hubAst \in {"enabling", "enabled", "disabling"}
<1>1. AsMsg("ast_enabled", TRUE) => Has(msgQueue, "ast_enabled")
  BY DEF AsMsg, OneOf, Has
<1>2. AsEcho("enable_ast_echo", TRUE) => Has(hubQueue, "enable_ast_echo")
  BY DEF AsEcho, OneOf, Has
<1>3. AsMsg("disable_ast", FALSE) => Has(msgQueue, "disable_ast")
  BY DEF AsMsg, OneOf, Has
<1> QED BY <1>1, <1>2, <1>3 DEF OneRequestAtATime

LEMMA GenRefusesNone ==
    ASSUME TypeOK, NothingRefused, NEW t \in Threads, GenStep(t)
    PROVE  NothingRefused'
<1>0. /\ genQueue \in Seq(GenEvents) /\ genPending \in Seq(GenEvents)
      /\ genPc \in [Threads -> {"none", "idle", "check", "assert", "act", "drain",
                                "exited"}]
      /\ genEv \in [Threads -> GenEvents]
  BY DEF TypeOK, GenTypeOK
<1>1. /\ None(genQueue, Refused) /\ None(genPending, Refused)
      /\ \A u \in Threads : genPc[u] \in {"check", "assert", "act"} => genEv[u] \notin Refused
  BY DEF NothingRefused
<1>2. CASE GenDequeue(t)
  <2>1. /\ genQueue # <<>> /\ genQueue' = Tail(genQueue) /\ UNCHANGED genPending
        /\ genEv' = [genEv EXCEPT ![t] = Head(genQueue)]
        /\ genPc' = [genPc EXCEPT ![t] = "check"]
    BY <1>2 DEF GenDequeue, GenGoes
  <2>2. None(genQueue', Refused) /\ Head(genQueue) \notin Refused
    BY <1>0, <1>1, <2>1, NoneTail
  <2>3. \A u \in Threads :
           genPc'[u] \in {"check", "assert", "act"} => genEv'[u] \notin Refused
    BY <1>0, <1>1, <2>1, <2>2
  <2> QED BY <1>1, <2>1, <2>2, <2>3 DEF NothingRefused
<1>3. CASE GenCheck(t)
  <2>1. /\ genPc[t] = "check" /\ UNCHANGED <<genQueue, genEv>>
        /\ genPending' \in {genPending, Append(genPending, genEv[t])}
        /\ genPc' \in {[genPc EXCEPT ![t] = pc] : pc \in {"idle", "assert", "act"}}
    BY <1>3 DEF GenCheck, GenGoes
  <2>2. None(genPending', Refused)
    <3>1. genEv[t] \in GenEvents /\ genEv[t] \notin Refused
      BY <1>0, <1>1, <2>1
    <3>2. None(Append(genPending, genEv[t]), Refused)
      BY <1>0, <1>1, <3>1, NoneAppend
    <3> QED BY <1>1, <2>1, <3>2
  <2>3. \A u \in Threads :
           genPc'[u] \in {"check", "assert", "act"} => genEv'[u] \notin Refused
    BY <1>0, <1>1, <2>1
  <2> QED BY <1>1, <2>1, <2>2, <2>3 DEF NothingRefused
<1>4. CASE GenDrain(t)
  <2>1. /\ genQueue' = genPending \o genQueue /\ genPending' = <<>> /\ UNCHANGED genEv
        /\ genPc' = [genPc EXCEPT ![t] = "idle"]
    BY <1>4 DEF GenDrain, GenGoes
  <2>2. None(genQueue', Refused) /\ None(genPending', Refused)
    BY <1>0, <1>1, <2>1, NoneConcat, NoneSmall
  <2>3. \A u \in Threads :
           genPc'[u] \in {"check", "assert", "act"} => genEv'[u] \notin Refused
    BY <1>0, <1>1, <2>1
  <2> QED BY <2>2, <2>3 DEF NothingRefused
<1>5. CASE \/ GenAssert(t) \/ GenCollectConfig(t) \/ GenResolveConfig(t) \/ GenResolveIO(t)
           \/ GenResolveDeleted(t) \/ GenAdvise(t) \/ GenStop(t)
  <2>1. /\ UNCHANGED <<genQueue, genPending, genEv>>
        /\ genPc[t] \in {"assert", "act"} /\ \E pc : genPc' = [genPc EXCEPT ![t] = pc]
    BY <1>5
    DEF GenAssert, GenCollectConfig, GenResolveConfig, GenFinishLearning, GenResolveIO,
        GenResolveDeleted, GenAdvise, GenStop, GenGoes, GenActs
  <2>2. \A u \in Threads :
           genPc'[u] \in {"check", "assert", "act"} => genEv'[u] \notin Refused
    BY <1>0, <1>1, <2>1
  <2> QED BY <1>1, <2>1, <2>2 DEF NothingRefused
<1> QED BY <1>2, <1>3, <1>4, <1>5 DEF GenStep

LEMMA ThreadServed ==
    ASSUME TypeOK, OneRequestAtATime, LifeCycle, ThreadsReplaced, Served, NothingFails,
           NeverNoop, NEW t \in Threads, GenStep(t) \/ ExeStep(t)
    PROVE  Served' /\ NeverNoop'
<1>0. /\ msgQueue \in Seq(Messages) /\ genQueue \in Seq(GenEvents)
      /\ astState \in {"enabled", "disabling"} /\ NothingRefused
  BY WhoMoves DEF TypeOK, MsgTypeOK, GenTypeOK, Served
<1>1. CASE GenStep(t)
  <2>1. NothingRefused' /\ UNCHANGED <<astState, hubAst, hubQueue>>
    BY <1>0, <1>1, GenRefusesNone
    DEF GenStep, GenDequeue, GenCheck, GenAssert, GenCollectConfig, GenResolveConfig,
        GenResolveIO, GenResolveDeleted, GenAdvise, GenDrain, GenStop, genFrame, hubVars
  <2>2. PICK new \in Seq(Messages) : /\ msgQueue' = msgQueue \o new
                                    /\ \A i \in DOMAIN new : new[i] \in ForHub
    BY <1>1, GenSays
  <2>3. None(new, Refusals) /\ None(new, ForAst)
    BY <2>2 DEF None, Refusals, ForHub, ForAst
  <2>4. Behind(msgQueue, "disable_ast", Refusals) => Behind(msgQueue', "disable_ast", Refusals)
    BY <1>0, <2>2, <2>3, BehindConcat
  <2>5. None(msgQueue, ForAst) => None(msgQueue', ForAst)
    BY <1>0, <2>2, <2>3, NoneConcat
  <2>6. Has(msgQueue, "ast_enabled") /\ Behind(msgQueue, "ast_enabled", ForHub)
           => Behind(msgQueue', "ast_enabled", ForHub)
    BY <1>0, <2>2, BehindConcat
  <2>7. Served'
    BY <1>0, <2>1, <2>4, <2>5, <2>6, EchoIsComing DEF Served, RefusesAtEnd, FirstWord
  <2>8. NeverNoop'
    <3>1. ~GenResolveConfig(t) \/ genEv[t].ok
      <4>1. GenResolveConfig(t) => genPc[t] = "act" /\ genEv[t].type = "resolve_config"
        BY DEF GenResolveConfig, GenActs
      <4>2. genEv[t] \in GenEvents /\ genEv[t].ok \in BOOLEAN
        BY RecordFields DEF TypeOK, GenTypeOK, GenEvents
      <4> QED BY <1>0, <4>1, <4>2 DEF NothingRefused, Refused
    <3>2. CASE GenResolveConfig(t)
      BY <3>1, <3>2 DEF GenResolveConfig, NeverNoop
    <3>3. CASE GenResolveIO(t)
      BY <3>3 DEF GenResolveIO, GenFinishLearning, NeverNoop, NothingFails
    <3> QED
      BY <1>1, <3>2, <3>3
      DEF NeverNoop, GenStep, GenDequeue, GenCheck, GenAssert, GenCollectConfig,
          GenResolveDeleted, GenAdvise, GenDrain, GenStop, exeVars
  <2> QED BY <2>7, <2>8
<1>2. CASE ExeStep(t)
  <2>1. /\ UNCHANGED <<astState, hubAst, hubQueue, msgQueue, genPending, genPc, genEv,
                       genStatus>>
        /\ UNCHANGED genQueue \/ genQueue' = Append(genQueue, Sent("advise"))
        /\ exeStatus' \in {exeStatus, "running", "stall"}
    BY <1>2 DEF ExeStep, ExeDequeue, ExeCheck, ExePlan, ExeEcho, ExeStall, ExeStop, exeFrame,
                hubVars
  <2>2. Sent("advise") \in GenEvents /\ Sent("advise") \notin Refused
    BY SentTyped, SentIs DEF TypeOK, Refused
  <2>3. None(genQueue', Refused)
    <3>1. None(genQueue, Refused)
      BY <1>0 DEF NothingRefused
    <3>2. None(Append(genQueue, Sent("advise")), Refused)
      BY <1>0, <2>2, <3>1, NoneAppend
    <3> QED BY <2>1, <3>1, <3>2
  <2> QED
    BY <2>1, <2>3 DEF Served, NothingRefused, RefusesAtEnd, FirstWord, NeverNoop
<1> QED BY <1>1, <1>2

LEMMA HubServed ==
    ASSUME TypeOK, OneRequestAtATime, Served, NothingFails, NeverNoop, HubStep
    PROVE  Served' /\ NeverNoop'
<1>0. /\ hubQueue \in Seq(HubEvents) /\ hubPending \in Seq(HubEvents)
      /\ msgQueue \in Seq(Messages) /\ hubQueue # <<>>
  BY DEF TypeOK, MsgTypeOK, HubTypeOK, HubStep, HubPend, HubEnable, HubDisable,
         HubEnableEcho, HubDisableEcho, HubConfigView, HubPrepare, HubCollect,
         HubPost, HubChange, HubHandles
<1>1. UNCHANGED <<genStatus, genQueue, genPending, genPc, genEv, exeStatus, astState>>
  BY DEF HubStep, HubPend, HubEnable, HubDisable, HubEnableEcho, HubDisableEcho,
         HubConfigView, HubPrepare, HubCollect, HubPost, HubChange, hubFrame, genVars,
         exeVars
<1>2. NeverNoop' /\ (NothingRefused => NothingRefused')
  BY <1>1 DEF NeverNoop, NothingRefused
<1> DEFINE e == HubEvent
           r == Tail(hubQueue)
           goal == Served'
<1>3. e \in HubEvents /\ r \in Seq(HubEvents)
  BY <1>0, TailOfSeq DEF HubEvent
<1> HIDE DEF e, r, goal
<1> SUFFICES goal
  BY <1>2 DEF goal
<1>4. CASE astState # "enabled"
  BY <1>1, <1>2, <1>4 DEF goal, Served, RefusesAtEnd, FirstWord
<1> SUFFICES ASSUME astState = "enabled" PROVE goal
  BY <1>4
<1>5. /\ hubAst \in {"enabling", "enabled", "disabling"}
      /\ hubAst = "disabling" => Has(msgQueue, "disable_ast")
  BY EchoIsComing
<1>6. NothingRefused' /\ Behind(msgQueue, "disable_ast", Refusals)
  BY <1>2 DEF Served, RefusesAtEnd
<1>7. hubAst = "enabling" =>
         /\ e \notin Talk /\ None(msgQueue, ForAst)
         /\ e.type # "enable_ast_echo" =>
               /\ Behind(r, "enable_ast_echo", Talk)
               /\ ~Has(r, "enable_ast_echo") => Behind(msgQueue, "ast_enabled", ForHub)
  <2>1. Has(hubQueue, "enable_ast_echo") /\ e.type # "enable_ast_echo"
           => Has(r, "enable_ast_echo")
    BY <1>0, HasAppendTail DEF e, r, HubEvent
  <2>2. Behind(hubQueue, "enable_ast_echo", Talk) =>
           /\ e \notin Talk
           /\ e.type # "enable_ast_echo" => Behind(r, "enable_ast_echo", Talk)
    BY <1>0, BehindTail DEF e, r, HubEvent
  <2> QED BY <2>1, <2>2 DEF Served, FirstWord
\* The HUB takes an event that is no echo, and says at most something that is
\* neither a view nor a request.
<1>8. ASSUME hubQueue' = r, hubAst' = hubAst, e.type # "enable_ast_echo",
             \/ UNCHANGED msgQueue
             \/ \E m \in Messages : /\ msgQueue' = Append(msgQueue, m)
                                    /\ m \notin Refusals /\ m \notin ForHub
                                    /\ m \in ForAst => hubAst # "enabling"
      PROVE  goal
  <2>1. CASE UNCHANGED msgQueue
    BY <1>1, <1>6, <1>7, <1>8, <2>1 DEF goal, Served, RefusesAtEnd, FirstWord
  <2>2. CASE ~UNCHANGED msgQueue
    <3>1. PICK m \in Messages : /\ msgQueue' = Append(msgQueue, m)
                                /\ m \notin Refusals /\ m \notin ForHub
                                /\ m \in ForAst => hubAst # "enabling"
      BY <1>8, <2>2
    <3>2. Behind(msgQueue', "disable_ast", Refusals)
      BY <1>0, <1>6, <3>1, BehindAppend
    <3>3. Behind(msgQueue, "ast_enabled", ForHub) => Behind(msgQueue', "ast_enabled", ForHub)
      BY <1>0, <3>1, BehindAppend
    <3>4. hubAst = "enabling" => None(msgQueue', ForAst)
      BY <1>0, <1>7, <3>1, NoneAppend
    <3> QED BY <1>1, <1>6, <1>7, <1>8, <3>2, <3>3, <3>4
            DEF goal, Served, RefusesAtEnd, FirstWord
  <2> QED BY <2>1, <2>2
<1>9. CASE HubPend
  <2>1. e.type \in {"change", "config_view"}
    BY <1>9 DEF HubPend, HubShouldPend, e
  <2> QED BY <1>8, <1>9, <2>1 DEF HubPend, r
<1>10. CASE HubEnable
  <2>1. e.type = "enable_ast"
    BY <1>10 DEF HubEnable, HubHandles, e, HubEvent
  <2>2. CASE hubAst = "disabling"
    BY <1>1, <1>6, <1>10, <2>2 DEF HubEnable, goal, Served, RefusesAtEnd, FirstWord
  <2> QED BY <1>5, <1>8, <1>10, <2>1, <2>2 DEF HubEnable, r
<1>11. CASE HubDisable
  <2>1. e.type = "disable_ast"
    BY <1>11 DEF HubDisable, HubHandles, e, HubEvent
  <2>2. CASE hubAst = "enabled"
    <3>1. hubAst' = "disabling" /\ msgQueue' = Append(msgQueue, Sent("disable_ast"))
      BY <1>11, <2>2 DEF HubDisable
    <3>2. Sent("disable_ast") \in Messages /\ Sent("disable_ast") \notin Refusals
      BY SentTyped, SentIs DEF TypeOK, Refusals
    <3>3. Behind(msgQueue', "disable_ast", Refusals)
      BY <1>0, <1>6, <3>1, <3>2, BehindAppend
    <3> QED BY <1>6, <3>1, <3>3 DEF goal, Served, RefusesAtEnd, FirstWord
  <2>3. CASE hubAst = "enabling"
    BY <1>1, <1>6, <1>11, <2>3 DEF HubDisable, goal, Served, RefusesAtEnd, FirstWord
  <2> QED BY <1>5, <1>8, <1>11, <2>1, <2>2, <2>3 DEF HubDisable, r
<1>12. CASE HubEnableEcho \/ HubDisableEcho
  <2>1. HubEvent.type \in EchoEvents /\ UNCHANGED msgQueue
    BY <1>12 DEF HubEnableEcho, HubDisableEcho, HubHandles, HubEvent, EchoEvents
  <2>2. /\ HubEvent.type = "enable_ast_echo" /\ HubEvent.ok
    BY <1>0, <2>1, EchoSaysStatus DEF EchoEvents
  <2>3. hubAst' = "enabled"
    BY <1>12, <2>2 DEF HubEnableEcho, HubDisableEcho, HubHandles, HubEvent
  <2> QED BY <1>6, <2>1, <2>3 DEF goal, Served, RefusesAtEnd, FirstWord
<1>13. CASE HubConfigView
  <2>1. e.type = "config_view" /\ hubQueue' = r /\ hubAst' = hubAst
    BY <1>13 DEF HubConfigView, HubHandles, e, r, HubEvent
  <2>2. hubAst # "enabling"
    BY <1>3, <1>7, <2>1 DEF Talk
  <2>3. PICK ok \in BOOLEAN :
            /\ msgQueue' = Append(msgQueue, Answer("collect_config_resp", ok, FALSE))
            /\ hubAst = "enabled" => ok
    <3>1. PICK involved \in ConfigAnswers :
             msgQueue' = Append(msgQueue, Answer("collect_config_resp",
                                            hubAst = "enabled" /\ involved, FALSE))
      BY <1>13 DEF HubConfigView
    <3>2. involved = TRUE
      BY <3>1, ChoicesAssumption DEF NothingFails, ChoicesAssumption
    <3>3. (hubAst = "enabled" /\ involved) \in BOOLEAN
          /\ (hubAst = "enabled" => (hubAst = "enabled" /\ involved))
      BY <3>2
    <3> QED BY <3>1, <3>3
  <2> DEFINE m == Answer("collect_config_resp", ok, FALSE)
  <2>4. m \in Messages
    <3>1. HubEvent.sn \in Sessions
      BY <1>3, RecordFields DEF HubEvents, e
    <3> QED BY <3>1, RecordTyped DEF Answer, Messages
  <2>5. m.ok = ok
    BY Zenon DEF Answer, Record
  <2> HIDE DEF m
  <2>6. m \in Refusals => Has(msgQueue, "disable_ast")
    BY <1>5, <2>2, <2>3, <2>5 DEF Refusals
  <2>7. Behind(msgQueue', "disable_ast", Refusals)
    BY <1>0, <1>6, <2>3, <2>4, <2>6, BehindAppend DEF m
  <2> QED BY <1>6, <2>1, <2>2, <2>7 DEF goal, Served, RefusesAtEnd, FirstWord
<1>14. CASE HubCollect
  <2>1. e.type = "io_normal" /\ hubQueue' = r /\ hubAst' = hubAst
    BY <1>14 DEF HubCollect, HubHandles, e, r, HubEvent
  <2>2. hubAst # "enabling"
    BY <1>3, <1>7, <2>1 DEF Talk
  <2>3. PICK ok \in BOOLEAN, flag \in BOOLEAN :
            msgQueue' = Append(msgQueue, Answer("collect_OBJ_resp", ok, flag))
    <3>1. \/ msgQueue' = Append(msgQueue, Answer("collect_OBJ_resp", FALSE, FALSE))
          \/ msgQueue' = Append(msgQueue, Answer("collect_OBJ_resp", TRUE,
                                                 collected + 1 = toCollect))
      BY <1>14 DEF HubCollect
    <3>2. (collected + 1 = toCollect) \in BOOLEAN
      OBVIOUS
    <3> QED BY <3>1, <3>2
  <2> DEFINE m == Answer("collect_OBJ_resp", ok, flag)
  <2>4. m \in Messages
    <3>1. HubEvent.sn \in Sessions
      BY <1>3, RecordFields DEF HubEvents, e
    <3> QED BY <3>1, RecordTyped DEF Answer, Messages
  <2>5. m.type = "collect_OBJ_resp"
    BY Zenon DEF Answer, Record
  <2> HIDE DEF m
  <2>6. m \notin Refusals /\ m \notin ForHub
    BY <2>5 DEF Refusals, ForHub
  <2> QED BY <1>8, <2>1, <2>2, <2>3, <2>4, <2>6 DEF m
<1>15. CASE HubPrepare
  <2>1. e.type = "io_prepare"
    BY <1>15 DEF HubPrepare, HubHandles, e, HubEvent
  <2> QED BY <1>8, <1>15, <2>1 DEF HubPrepare, r
<1>16. CASE HubPost
  <2>1. e.type = "io_post" /\ UNCHANGED <<hubAst, msgQueue>>
    BY <1>16 DEF HubPost, HubHandles, e, HubEvent
  <2>2. hubAst # "enabling"
    BY <1>3, <1>7, <2>1 DEF Talk
  <2> QED BY <1>1, <1>6, <2>1, <2>2 DEF goal, Served, RefusesAtEnd, FirstWord
<1>17. CASE HubChange
  <2> DEFINE m == Record("report_delete", FALSE, FALSE, 0)
  <2>1. /\ e.type = "change" /\ hubQueue' = r /\ hubAst' = hubAst
        /\ UNCHANGED msgQueue \/ msgQueue' = Append(msgQueue, m)
    BY <1>17 DEF HubChange, HubHandles, e, r, HubEvent
  <2>2. m \in Messages
    BY RecordTyped, ZeroSession DEF Messages
  <2>3. m.type = "report_delete"
    BY Zenon DEF Record
  <2> HIDE DEF m
  <2>4. m \notin Refusals /\ m \notin ForHub /\ m \notin ForAst
    BY <2>3 DEF Refusals, ForHub, ForAst
  <2> QED BY <1>8, <2>1, <2>2, <2>4
<1> QED
  BY <1>9, <1>10, <1>11, <1>12, <1>13, <1>14, <1>15, <1>16, <1>17 DEF HubStep

LEMMA MsgServed ==
    ASSUME TypeOK, TypeOK', OneRequestAtATime, LifeCycle, ThreadsReplaced, ThreadsReplaced',
           Forgotten, Served, NeverNoop, MsgStep
    PROVE  Served' /\ NeverNoop'
<1>0. /\ hubQueue \in Seq(HubEvents) /\ msgQueue \in Seq(Messages) /\ session \in Sessions
      /\ genQueue \in Seq(GenEvents) /\ genPending \in Seq(GenEvents)
      /\ UNCHANGED hubAst
  BY DEF TypeOK, MsgTypeOK, HubTypeOK, GenTypeOK, MsgStep, ForwardToHub, ForwardToGen,
         EnableFails, EnableSucceeds, DisableBegin, GenStopBegin, GenStopEnd, ExeStopBegin,
         ExeStopEnd, DisableEnd, hubVars
<1>1. CASE ForwardToHub
  <2> DEFINE e == [Msg EXCEPT !.type = ToHub[Msg.type]]
  <2>1. /\ msgQueue # <<>> /\ msgQueue' = Tail(msgQueue)
        /\ UNCHANGED <<astState, genStatus, genQueue, genPending, genPc, genEv, exeStatus>>
        /\ hubQueue' = Append(hubQueue, e) /\ Msg.type \in DOMAIN ToHub
    BY <1>1 DEF ForwardToHub, MsgHandles, Msg, genVars, exeVars
  <2>2. Msg \in Messages /\ Msg = Head(msgQueue)
    BY <1>0, <2>1, TailOfSeq DEF Msg
  <2>3. /\ e \in HubEvents
        /\ e \in Talk <=> Msg \in ForHub
        /\ e.type = "enable_ast_echo" <=> Msg.type = "ast_enabled"
    BY <2>1, <2>2, ForwardedIs
  <2> HIDE DEF e
  <2>4. Behind(msgQueue, "disable_ast", Refusals) => Behind(msgQueue', "disable_ast", Refusals)
    <3>1. Msg.type # "disable_ast"
      BY <2>1 DEF ToHub
    <3> QED BY <1>0, <2>1, <2>2, <3>1, BehindTail
  <2>5. FirstWord'
    <3> SUFFICES ASSUME hubAst = "enabling", astState = "enabled"
                 PROVE  /\ Behind(hubQueue', "enable_ast_echo", Talk) /\ None(msgQueue', ForAst)
                        /\ ~Has(hubQueue', "enable_ast_echo") =>
                              Behind(msgQueue', "ast_enabled", ForHub)
      BY <1>0, <2>1 DEF FirstWord
    <3>1. /\ Behind(hubQueue, "enable_ast_echo", Talk) /\ None(msgQueue, ForAst)
          /\ ~Has(hubQueue, "enable_ast_echo") => Behind(msgQueue, "ast_enabled", ForHub)
      BY DEF Served, FirstWord
    <3>2. None(msgQueue', ForAst)
      BY <1>0, <2>1, <3>1, NoneTail
    <3>3. ~Has(hubQueue, "enable_ast_echo") =>
             /\ Msg \notin ForHub
             /\ Msg.type # "ast_enabled" => Behind(msgQueue', "ast_enabled", ForHub)
      BY <1>0, <2>1, <2>2, <3>1, BehindTail
    <3>4. Behind(hubQueue', "enable_ast_echo", Talk)
      BY <1>0, <2>1, <2>3, <3>1, <3>3, BehindAppend
    <3>5. Has(hubQueue', "enable_ast_echo") <=>
             Has(hubQueue, "enable_ast_echo") \/ e.type = "enable_ast_echo"
      BY <1>0, <2>1, <2>3, HasAppendTail
    <3> QED BY <2>3, <3>2, <3>3, <3>4, <3>5
  <2> QED BY <2>1, <2>4, <2>5 DEF Served, RefusesAtEnd, NothingRefused, NeverNoop
<1>2. CASE ForwardToGen
  <2> DEFINE e == [Msg EXCEPT !.type = ToGen[Msg.type]]
  <2>1. /\ msgQueue # <<>> /\ msgQueue' = Tail(msgQueue) /\ msgPc = "idle"
        /\ UNCHANGED <<astState, hubQueue, genStatus, genPending, genPc, genEv, exeStatus>>
        /\ genQueue' = Append(genQueue, e) /\ Msg.type \in DOMAIN ToGen
    BY <1>2 DEF ForwardToGen, MsgHandles, Msg, exeVars, hubVars
  <2>2. Msg \in Messages /\ Msg = Head(msgQueue)
    BY <1>0, <2>1, TailOfSeq DEF Msg
  <2>3. astState # "disabling"
    BY <2>1 DEF OneRequestAtATime
  <2>4. e \in GenEvents /\ (e \in Refused => Msg \in Refusals)
    <3>1. ToGen[Msg.type] \in {"resolve_config", "resolve_OBJ_io", "resolve_deleted"}
          /\ (ToGen[Msg.type] = "resolve_config" => Msg.type = "collect_config_resp")
      BY <2>1 DEF ToGen
    <3>2. e \in GenEvents
      BY <2>2, <3>1, RecordFields DEF Messages, GenEvents
    <3>3. e.type = ToGen[Msg.type] /\ e.ok = Msg.ok
      BY <2>2 DEF Messages, RecordOf
    <3> HIDE DEF e
    <3> QED BY <2>2, <3>1, <3>2, <3>3 DEF Refused, Refusals
  <2> HIDE DEF e
  <2>5. Msg.type \notin {"disable_ast", "ast_enabled"}
    BY <2>1 DEF ToGen
  <2>6. Behind(msgQueue, "disable_ast", Refusals) =>
           Behind(msgQueue', "disable_ast", Refusals) /\ Msg \notin Refusals
    BY <1>0, <2>1, <2>2, <2>5, BehindTail
  <2>7. Behind(msgQueue, "ast_enabled", ForHub) => Behind(msgQueue', "ast_enabled", ForHub)
    BY <1>0, <2>1, <2>2, <2>5, BehindTail
  <2>8. None(msgQueue, ForAst) => None(msgQueue', ForAst)
    BY <1>0, <2>1, NoneTail
  <2>9. None(genQueue, Refused) /\ e \notin Refused => None(genQueue', Refused)
    BY <1>0, <2>1, <2>4, NoneAppend
  <2> QED
    BY <1>0, <2>1, <2>3, <2>4, <2>6, <2>7, <2>8, <2>9
    DEF Served, RefusesAtEnd, FirstWord, NothingRefused, NeverNoop
<1>3. CASE EnableSucceeds
  <2> DEFINE m == Record("ast_enabled", TRUE, FALSE, session + 1)
             c == Record("collect_config", FALSE, FALSE, session + 1)
  <2>1. /\ msgQueue # <<>> /\ Msg.type = "enable_ast" /\ msgQueue' = Append(Tail(msgQueue), m)
        /\ genStatus' = "running" /\ exeStatus' = "running" /\ UNCHANGED hubQueue
        /\ genQueue' = <<>> \o <<c>> /\ genPending' = <<>>
        /\ session' = session + 1 /\ session + 1 \in Sessions
    <3>1. session + 1 \in Sessions
      BY <1>0, <1>3, BoundsAssumption DEF EnableSucceeds, Sessions, BoundsAssumption
    <3> QED BY <1>3, <3>1 DEF EnableSucceeds, MsgHandles, Msg, ResetThreads, Emptied, hubVars
  <2>2. hubAst = "enabling" /\ astState \in {"none", "disabled"}
    <3>1. Msg.type \in ControlMsgs
      BY <2>1 DEF ControlMsgs
    <3> QED BY <2>1, <3>1, MsgSaysStatus
  <2>3. None(hubQueue, Talk) /\ None(msgQueue, ForHub) /\ None(msgQueue, ForAst)
    BY <2>2 DEF Forgotten, SilentStart
  <2>4. /\ Tail(msgQueue) \in Seq(Messages)
        /\ None(Tail(msgQueue), ForHub) /\ None(Tail(msgQueue), ForAst)
    BY <1>0, <2>1, <2>3, TailOfSeq, NoneTail
  <2>5. m \in Messages
    BY <2>1, RecordTyped DEF Messages
  <2>6. m.type = "ast_enabled" /\ c.type = "collect_config"
    BY Zenon DEF Record
  <2> HIDE DEF m, c
  <2>7. m \notin ForHub /\ m \notin ForAst /\ c \notin Refused
    BY <2>6 DEF ForHub, ForAst, Refused
  <2>8. None(msgQueue', ForHub) /\ None(msgQueue', ForAst)
    BY <2>1, <2>4, <2>5, <2>7, NoneAppend
  <2>9. None(msgQueue', Refusals)
    BY <2>8 DEF None, Refusals, ForAst
  <2>10. NothingRefused'
    <3>1. genQueue' = <<c>>
      BY <2>1
    <3>2. None(genQueue', Refused) /\ None(genPending', Refused)
      BY <2>1, <2>7, <3>1, NoneSmall
    <3>3. \A t \in Threads : genPc'[t] \notin {"check", "assert", "act"}
      <4>1. \A t \in Threads : t # session + 1 => genPc'[t] \in Gone
        BY <2>1 DEF ThreadsReplaced
      <4>2. session + 1 \in Threads => genPc'[session + 1] = "idle"
        BY <1>3 DEF EnableSucceeds, TypeOK, GenTypeOK
      <4> QED BY <4>1, <4>2 DEF Gone
    <3> QED BY <3>2, <3>3 DEF NothingRefused
  <2>11. /\ Behind(msgQueue', "disable_ast", Refusals)
         /\ Behind(msgQueue', "ast_enabled", ForHub)
         /\ Behind(hubQueue', "enable_ast_echo", Talk)
    BY <2>1, <2>3, <2>8, <2>9, NoneBehind
  <2> QED
    BY <2>1, <2>8, <2>10, <2>11 DEF Served, RefusesAtEnd, FirstWord, NeverNoop
<1>4. CASE EnableFails
  <2>1. Msg.type \in ControlMsgs /\ msgQueue # <<>> /\ Msg.type = "enable_ast"
    BY <1>4 DEF EnableFails, MsgHandles, Msg, ControlMsgs
  <2>2. astState \in {"none", "disabled"}
    BY <2>1, MsgSaysStatus
  <2>3. astState' = "enabling" /\ genStatus' = "stopped" /\ exeStatus' = "stopped"
    BY <1>4, <2>2 DEF EnableFails, ResetThreads
  <2> QED BY <2>3 DEF Served, RefusesAtEnd, FirstWord, NeverNoop
<1>5. CASE DisableBegin
  <2>1. Msg.type \in ControlMsgs /\ msgQueue # <<>> /\ Msg.type = "disable_ast"
    BY <1>5 DEF DisableBegin, MsgHandles, Msg, ControlMsgs
  <2>2. astState = "enabled"
    BY <2>1, MsgSaysStatus
  <2>3. /\ astState' = "disabling"
        /\ UNCHANGED <<genStatus, genQueue, genPending, genPc, genEv, exeStatus>>
    BY <1>5, <2>2 DEF DisableBegin, genVars, exeVars
  <2> QED BY <2>2, <2>3 DEF Served, RefusesAtEnd, FirstWord, NothingRefused, NeverNoop
<1>6. CASE GenStopBegin
  <2>1. /\ msgPc # "idle" /\ UNCHANGED <<astState, genPc, genEv, exeStatus>>
        /\ genStatus' = genStatus \/ genStatus' = "stopping"
        /\ genQueue' \in {genQueue, <<StopGenEvent>> \o genQueue}
        /\ genPending' \in {genPending, <<StopGenEvent>> \o genPending}
    BY <1>6 DEF GenStopBegin, exeVars
  <2>2. StopGenEvent \in GenEvents
    BY <1>0, RecordTyped DEF StopGenEvent, GenEvents
  <2>3. StopGenEvent.type = "stop"
    BY Zenon DEF StopGenEvent, Record
  <2>4. <<StopGenEvent>> \in Seq(GenEvents) /\ None(<<StopGenEvent>>, Refused)
    BY <2>2, <2>3, SmallSeqs, NoneSmall DEF Refused
  <2>5. /\ None(genQueue, Refused) => None(genQueue', Refused)
        /\ None(genPending, Refused) => None(genPending', Refused)
    <3>1. ASSUME None(genQueue, Refused) PROVE None(genQueue', Refused)
      <4>1. None(<<StopGenEvent>> \o genQueue, Refused)
        BY <1>0, <2>4, <3>1, NoneConcat
      <4> QED BY <2>1, <3>1, <4>1
    <3>2. ASSUME None(genPending, Refused) PROVE None(genPending', Refused)
      <4>1. None(<<StopGenEvent>> \o genPending, Refused)
        BY <1>0, <2>4, <3>2, NoneConcat
      <4> QED BY <2>1, <3>2, <4>1
    <3> QED BY <3>1, <3>2
  <2>6. astState = "disabling"
    BY <2>1 DEF OneRequestAtATime
  <2> QED
    BY <2>1, <2>5, <2>6 DEF Served, RefusesAtEnd, FirstWord, NothingRefused, NeverNoop
<1>7. CASE GenStopEnd \/ ExeStopBegin \/ ExeStopEnd \/ DisableEnd
  <2>1. /\ msgPc # "idle" /\ UNCHANGED <<genQueue, genPending, genPc, genEv>>
        /\ astState' = astState \/ astState' = "disabled"
        /\ genStatus' \in {genStatus, "stopped"}
        /\ exeStatus' \in {exeStatus, "stopping", "stopped"}
    BY <1>7 DEF GenStopEnd, ExeStopBegin, ExeStopEnd, DisableEnd, genVars, exeVars
  <2>2. astState = "disabling"
    BY <2>1 DEF OneRequestAtATime
  <2> QED BY <2>1, <2>2 DEF Served, RefusesAtEnd, FirstWord, NothingRefused, NeverNoop
<1> QED
  BY <1>1, <1>2, <1>3, <1>4, <1>5, <1>6, <1>7 DEF MsgStep

LEMMA LaunchServed ==
    ASSUME TypeOK, Served, NeverNoop,
           MigratorEcho \/ Tick \/ LaunchEnable \/ LaunchDisable \/ LaunchChange \/ UNCHANGED vars
    PROVE  Served' /\ NeverNoop'
<1>0. /\ genQueue \in Seq(GenEvents) /\ hubQueue \in Seq(HubEvents) /\ session \in Sessions
  BY DEF TypeOK, GenTypeOK, HubTypeOK, MsgTypeOK
<1>1. UNCHANGED <<astState, hubAst, msgQueue, genStatus, genPending, genPc, genEv, exeStatus>>
  BY DEF MigratorEcho, exeFrame, Tick, LaunchEnable, LaunchDisable, LaunchChange, Launch,
         vars, msgVars, genVars, exeVars, hubVars
<1>2. \/ UNCHANGED hubQueue
      \/ \E type \in {"enable_ast", "disable_ast", "change"}, flag \in BOOLEAN :
            hubQueue' = Append(hubQueue, Record(type, FALSE, flag, 0))
  BY DEF MigratorEcho, exeFrame, Tick, LaunchEnable, LaunchDisable, LaunchChange, Launch,
         vars, hubVars
<1>3. \/ UNCHANGED genQueue
      \/ \E flag \in AdviceChoices :
            genQueue' = Append(genQueue, Record("collect_config", FALSE, flag, session))
  BY DEF MigratorEcho, exeFrame, Tick, LaunchEnable, LaunchDisable, LaunchChange, Launch,
         vars, genVars
<1>4. None(genQueue, Refused) => None(genQueue', Refused)
  <2> SUFFICES ASSUME NEW flag \in AdviceChoices,
                      genQueue' = Append(genQueue, Record("collect_config", FALSE, flag, session))
               PROVE  None(genQueue, Refused) => None(genQueue', Refused)
    BY <1>3
  <2> DEFINE e == Record("collect_config", FALSE, flag, session)
  <2>1. e \in GenEvents
    BY <1>0, RecordTyped, ChoicesAssumption DEF GenEvents, ChoicesAssumption
  <2>2. e.type = "collect_config"
    BY Zenon DEF Record
  <2>3. genQueue' = Append(genQueue, e)
    OBVIOUS
  <2> HIDE DEF e
  <2>4. e \notin Refused
    BY <2>2 DEF Refused
  <2>5. ASSUME None(genQueue, Refused) PROVE None(Append(genQueue, e), Refused)
    BY <1>0, <2>1, <2>4, <2>5, NoneAppend
  <2> QED BY <2>3, <2>5
<1>5. /\ Behind(hubQueue, "enable_ast_echo", Talk) => Behind(hubQueue', "enable_ast_echo", Talk)
      /\ Has(hubQueue, "enable_ast_echo") <=> Has(hubQueue', "enable_ast_echo")
  <2> SUFFICES ASSUME NEW type \in {"enable_ast", "disable_ast", "change"}, NEW flag \in BOOLEAN,
                      hubQueue' = Append(hubQueue, Record(type, FALSE, flag, 0))
               PROVE  /\ Behind(hubQueue, "enable_ast_echo", Talk)
                            => Behind(hubQueue', "enable_ast_echo", Talk)
                      /\ Has(hubQueue, "enable_ast_echo") <=> Has(hubQueue', "enable_ast_echo")
    BY <1>2
  <2> DEFINE e == Record(type, FALSE, flag, 0)
  <2>1. e \in HubEvents
    BY RecordTyped, ZeroSession DEF HubEvents
  <2>2. e.type = type
    BY Zenon DEF Record
  <2>3. hubQueue' = Append(hubQueue, e)
    OBVIOUS
  <2> HIDE DEF e
  <2>4. e \notin Talk /\ e.type # "enable_ast_echo"
    BY <2>2 DEF Talk
  <2>5. ASSUME Behind(hubQueue, "enable_ast_echo", Talk)
        PROVE  Behind(Append(hubQueue, e), "enable_ast_echo", Talk)
    BY <1>0, <2>1, <2>4, <2>5, BehindAppend
  <2>6. Has(Append(hubQueue, e), "enable_ast_echo") <=> Has(hubQueue, "enable_ast_echo")
    BY <1>0, <2>1, <2>4, HasAppendTail
  <2> QED BY <2>3, <2>5, <2>6
<1> QED
  BY <1>1, <1>4, <1>5 DEF Served, RefusesAtEnd, FirstWord, NothingRefused, NeverNoop

LEMMA ServedStep ==
    ASSUME NothingFails, TypeOK, TypeOK', OneRequestAtATime, OneRequestAtATime', NotYetMade,
           LifeCycle, ThreadsReplaced, Forgotten, Served, NeverNoop, [Next]_vars
    PROVE  NeverNoop' /\ Served' /\ Forgotten' /\ LifeCycle' /\ ThreadsReplaced'
<1>1. Forgotten'
  BY ForgottenStep
<1>2. NeverNoop'
  <2>1. CASE MsgStep
    BY <2>1 DEF NeverNoop, MsgStep, ForwardToHub, ForwardToGen, EnableFails, EnableSucceeds,
       ResetThreads, DisableBegin, GenStopBegin, GenStopEnd, ExeStopBegin, ExeStopEnd,
       DisableEnd, genVars, exeVars
  <2> QED BY <2>1, ThreadServed, HubServed, LaunchServed DEF Next
<1>3. LifeCycle' /\ ThreadsReplaced'
  BY <1>2, LifeCycleStep
<1>4. Served'
  BY <1>3, ThreadServed, HubServed, MsgServed, LaunchServed DEF Next
<1> QED BY <1>1, <1>2, <1>3, <1>4

LEMMA ServedUnlessFailure ==
    ASSUME NothingFails
    PROVE  Spec => [](NeverNoop /\ Served /\ Forgotten /\ LifeCycle /\ ThreadsReplaced)
<1>1. Init => NeverNoop /\ Served /\ Forgotten /\ LifeCycle /\ ThreadsReplaced
  <2>1. Init => NeverNoop /\ Served
    BY DEF Init, NeverNoop, Served, RefusesAtEnd, FirstWord
  <2>2. Init => LifeCycle /\ ThreadsReplaced
    BY DEF Init, LifeCycle, ThreadsReplaced, GenAtWork, ExeAtWork, Gone, Threads
  <2> QED BY <2>1, <2>2, ForgottenAtFirst
<1>2. /\ TypeOK /\ TypeOK' /\ OneRequestAtATime /\ OneRequestAtATime' /\ NotYetMade
      /\ LifeCycle /\ ThreadsReplaced /\ Forgotten /\ Served /\ NeverNoop /\ [Next]_vars
      => NeverNoop' /\ Served' /\ Forgotten' /\ LifeCycle' /\ ThreadsReplaced'
  BY ServedStep
<1> QED
  BY <1>1, <1>2, NotYetMadeHolds, TypesHold, OneRequestHolds, PTL DEF Spec

(* If the HUB always finds something involved and memory never runs out,   *)
(* nothing ever turns generator and executor off: the HUB refuses a view   *)
(* only after it has sent the message that disables AST, behind which the  *)
(* answer stays until both threads have stopped.                           *)
THEOREM NeverOffUnlessFailure ==
    ASSUME NothingFails
    PROVE  Spec => []NeverNoop
BY ServedUnlessFailure, PTL

-----------------------------------------------------------------------------
(* Any number of sessions in which nothing fails.                          *)

LEMMA ReplacedUnlessFailure ==
    ASSUME NothingFails
    PROVE  Spec => []ThreadsReplaced
BY NeverOffUnlessFailure, ReplacedUnlessNoop, PTL

(* If nothing fails, nothing is stranded in any session: what generator and *)
(* executor put aside waits for a phase that ends or a plan that comes,     *)
(* however often AST is disabled and enabled again.                         *)
THEOREM NothingIsStrandedUnlessFailure ==
    ASSUME NothingFails
    PROVE  Spec => []NothingIsStranded
BY ReplacedUnlessFailure, NothingIsStrandedAlways, PTL

(* If nothing fails, echoes are handled in the order of their arrival.      *)
THEOREM EchoesInOrderUnlessFailure ==
    ASSUME NothingFails
    PROVE  Spec => []EchoesInOrder
BY NeverOffUnlessFailure, EchoesInOrderUnlessNoop, PTL

(* If nothing fails, the threads of a session have left their loops before   *)
(* the next session makes its own: at most one generator and one executor    *)
(* take events from the queues (Generator::Stop and Executor::Stop join).    *)
THEOREM ReleasedUnlessFailure ==
    ASSUME NothingFails
    PROVE  Spec => [][session' # session => ThreadsReleased]_vars
<1> DEFINE step == session' # session => ThreadsReleased
<1>1. ASSUME TypeOK, LifeCycle, ThreadsReplaced, [Next]_vars
      PROVE  [step]_vars
  <2>1. session' # session => EnableSucceeds
    <3>1. ASSUME NEW t \in Threads, GenStep(t) \/ ExeStep(t)
          PROVE  UNCHANGED session
      BY <1>1, <3>1, GenMove, ExeMove
    <3>2. Elsewhere => UNCHANGED session
      BY ElsewhereKeeps
    <3> QED BY <1>1, <3>1, <3>2
            DEF Next, Elsewhere, MsgStep, ForwardToHub, ForwardToGen, EnableFails,
                DisableBegin, GenStopBegin, GenStopEnd, ExeStopBegin, ExeStopEnd,
                DisableEnd, vars, msgVars
  <2>2. EnableSucceeds => ThreadsReleased
    <3> SUFFICES ASSUME EnableSucceeds, NEW t \in Threads
                 PROVE  genPc[t] \in Gone /\ exePc[t] \in Gone
      BY DEF ThreadsReleased, Gone
    <3>1. astState \in {"none", "disabled"}
      BY DEF EnableSucceeds
    <3> QED BY <1>1, <3>1 DEF LifeCycle, ThreadsReplaced, GenReleased, ExeReleased, Gone
  <2> QED BY <2>1, <2>2
<1> QED
  BY <1>1, NeverOffUnlessFailure, ReplacedUnlessNoop, TypesHold, PTL DEF Spec

-----------------------------------------------------------------------------
(* What the HUB has put aside when AST has been disabled.                  *)

\* Nothing on its way belongs to a session to come.
Late(n) == {e \in Messages \cup HubEvents : e.sn > n}
Young ==
    /\ None(msgQueue, Late(session)) /\ None(hubQueue, Late(session))
    /\ None(hubPending, Late(session))

LEMMA LateNever ==
    ASSUME TypeOK
    PROVE  /\ session \in Nat
           /\ \A e : e.sn \in {0, session} => e \notin Late(session)
           /\ \A e : e \notin Late(session) => e \notin Late(session + 1)
<1>1. session \in Nat /\ Sessions \subseteq Nat
  BY BoundsAssumption DEF TypeOK, MsgTypeOK, BoundsAssumption, Sessions
<1>2. \A e \in Messages \cup HubEvents : e.sn \in Nat
  BY <1>1, RecordFields DEF Messages, HubEvents
<1> QED BY <1>1, <1>2 DEF Late

\* A turn of the HUB: it takes an event, which it may put aside or launch again,
\* and says at most one thing, of its session or that of the event.
LEMMA HubTurn ==
    ASSUME TypeOK, HubStep
    PROVE  /\ hubQueue # <<>> /\ HubEvent \in HubEvents /\ Tail(hubQueue) \in Seq(HubEvents)
           /\ hubQueue' \in {hubQueue, Tail(hubQueue), Append(Tail(hubQueue), HubEvent),
                             hubPending \o Tail(hubQueue)}
           /\ hubPending' \in {hubPending, Append(hubPending, HubEvent), <<>>}
           /\ \/ UNCHANGED msgQueue
              \/ \E m \in Messages : /\ m.sn \in {0, session, HubEvent.sn}
                                     /\ msgQueue' \in {<<m>>, Append(msgQueue, m)}
           /\ UNCHANGED <<session, astState>>
<1>1. /\ hubQueue \in Seq(HubEvents) /\ hubPending \in Seq(HubEvents) /\ hubQueue # <<>>
      /\ UNCHANGED <<session, astState>>
  BY DEF TypeOK, HubTypeOK, HubStep, HubPend, HubEnable, HubDisable, HubEnableEcho,
         HubDisableEcho, HubConfigView, HubPrepare, HubCollect, HubPost, HubChange,
         HubHandles, hubFrame
<1>2. HubEvent \in HubEvents /\ Tail(hubQueue) \in Seq(HubEvents)
  BY <1>1, TailOfSeq DEF HubEvent
<1>3. /\ hubQueue' \in {hubQueue, Tail(hubQueue), Append(Tail(hubQueue), HubEvent),
                        hubPending \o Tail(hubQueue)}
      /\ hubPending' \in {hubPending, Append(hubPending, HubEvent), <<>>}
  BY DEF HubStep, HubPend, HubEnable, HubDisable, HubEnableEcho, HubDisableEcho,
         HubConfigView, HubPrepare, HubCollect, HubPost, HubChange
<1> DEFINE Says(m) == m \in Messages /\ m.sn \in {0, session, HubEvent.sn}
<1>4. \A type \in {"enable_ast", "disable_ast"} : Says(Sent(type))
  BY SentTyped, SentNow DEF TypeOK
<1>5. \A type \in {"collect_config_resp", "collect_OBJ_resp"}, ok \in BOOLEAN,
         flag \in BOOLEAN : Says(Answer(type, ok, flag))
  <2> SUFFICES ASSUME NEW type \in {"collect_config_resp", "collect_OBJ_resp"},
                      NEW ok \in BOOLEAN, NEW flag \in BOOLEAN
               PROVE  Says(Answer(type, ok, flag))
    OBVIOUS
  <2>1. HubEvent.sn \in Sessions
    BY <1>2, RecordFields DEF HubEvents
  <2>2. Answer(type, ok, flag) \in Messages
    BY <2>1, RecordTyped DEF Answer, Messages
  <2>3. Answer(type, ok, flag).sn = HubEvent.sn
    BY Zenon DEF Answer, Record
  <2> QED BY <2>2, <2>3
<1>6. Says(Record("report_delete", FALSE, FALSE, 0))
  <2>1. Record("report_delete", FALSE, FALSE, 0) \in Messages
    BY RecordTyped, ZeroSession DEF Messages
  <2>2. Record("report_delete", FALSE, FALSE, 0).sn = 0
    BY Zenon DEF Record
  <2> QED BY <2>1, <2>2
<1>7. \/ UNCHANGED msgQueue
      \/ \E m : Says(m) /\ msgQueue' \in {<<m>>, Append(msgQueue, m)}
  <2> HIDE DEF Says
  <2>1. CASE HubEnable \/ HubDisable
    BY <1>4, <2>1 DEF HubEnable, HubDisable
  <2>2. CASE HubConfigView
    <3>1. PICK involved \in ConfigAnswers :
             msgQueue' = Append(msgQueue, Answer("collect_config_resp",
                                            hubAst = "enabled" /\ involved, FALSE))
      BY <2>2 DEF HubConfigView
    <3>2. (hubAst = "enabled" /\ involved) \in BOOLEAN
      OBVIOUS
    <3> QED BY <1>5, <3>1, <3>2
  <2>3. CASE HubCollect
    <3>1. \/ msgQueue' = Append(msgQueue, Answer("collect_OBJ_resp", FALSE, FALSE))
          \/ msgQueue' = Append(msgQueue, Answer("collect_OBJ_resp", TRUE,
                                                 collected + 1 = toCollect))
      BY <2>3 DEF HubCollect
    <3>2. (collected + 1 = toCollect) \in BOOLEAN
      OBVIOUS
    <3> QED BY <1>5, <3>1, <3>2
  <2>4. CASE HubChange
    BY <1>6, <2>4 DEF HubChange
  <2>5. CASE HubPend \/ HubEnableEcho \/ HubDisableEcho \/ HubPrepare \/ HubPost
    BY <2>5 DEF HubPend, HubEnableEcho, HubDisableEcho, HubPrepare, HubPost
  <2> QED BY <2>1, <2>2, <2>3, <2>4, <2>5 DEF HubStep
<1> QED BY <1>1, <1>2, <1>3, <1>7

LEMMA HubYoung ==
    ASSUME TypeOK, Young, HubStep
    PROVE  Young'
<1> DEFINE L == Late(session)
<1>0. /\ hubQueue \in Seq(HubEvents) /\ hubPending \in Seq(HubEvents)
      /\ msgQueue \in Seq(Messages)
  BY DEF TypeOK, MsgTypeOK, HubTypeOK
<1>1. /\ hubQueue # <<>> /\ HubEvent \in HubEvents /\ Tail(hubQueue) \in Seq(HubEvents)
      /\ hubQueue' \in {hubQueue, Tail(hubQueue), Append(Tail(hubQueue), HubEvent),
                        hubPending \o Tail(hubQueue)}
      /\ hubPending' \in {hubPending, Append(hubPending, HubEvent), <<>>}
      /\ \/ UNCHANGED msgQueue
         \/ \E m \in Messages : /\ m.sn \in {0, session, HubEvent.sn}
                                /\ msgQueue' \in {<<m>>, Append(msgQueue, m)}
      /\ UNCHANGED session
  BY HubTurn
<1>2. /\ None(msgQueue, L) /\ None(hubQueue, L) /\ None(hubPending, L)
      /\ L' = L
  BY <1>1 DEF Young, Late
<1> HIDE DEF L
<1>3. None(Tail(hubQueue), L) /\ HubEvent \notin L
  BY <1>0, <1>1, <1>2, NoneTail DEF HubEvent
<1>4. None(hubQueue', L)
  <2>1. None(Append(Tail(hubQueue), HubEvent), L)
    BY <1>1, <1>3, NoneAppend
  <2>2. None(hubPending \o Tail(hubQueue), L)
    BY <1>0, <1>1, <1>2, <1>3, NoneConcat
  <2> QED BY <1>1, <1>2, <1>3, <2>1, <2>2, Zenon
<1>5. None(hubPending', L)
  <2>1. None(Append(hubPending, HubEvent), L) /\ None(<<>>, L)
    BY <1>0, <1>1, <1>2, <1>3, NoneAppend, NoneSmall
  <2> QED BY <1>1, <1>2, <2>1, Zenon
<1>6. None(msgQueue', L)
  <2> SUFFICES ASSUME NEW m \in Messages, m.sn \in {0, session, HubEvent.sn},
                      msgQueue' \in {<<m>>, Append(msgQueue, m)}
               PROVE  None(msgQueue', L)
    BY <1>1, <1>2
  <2>1. m \notin L
    BY <1>1, <1>3, LateNever DEF L, Late
  <2>2. None(<<m>>, L) /\ None(Append(msgQueue, m), L)
    BY <1>0, <1>2, <2>1, NoneAppend, NoneSmall
  <2> QED BY <2>2, Zenon
<1> QED BY <1>2, <1>4, <1>5, <1>6 DEF Young, L

LEMMA MsgYoung ==
    ASSUME TypeOK, TypeOK', Young, MsgStep
    PROVE  Young'
<1>0. /\ hubQueue \in Seq(HubEvents) /\ hubPending \in Seq(HubEvents)
      /\ msgQueue \in Seq(Messages) /\ session \in Sessions /\ session' \in Sessions
      /\ session \in Nat
  BY LateNever DEF TypeOK, MsgTypeOK, HubTypeOK
<1>1. UNCHANGED hubPending /\ session' \in {session, session + 1}
  BY DEF MsgStep, ForwardToHub, ForwardToGen, EnableFails, EnableSucceeds, DisableBegin,
         GenStopBegin, GenStopEnd, ExeStopBegin, ExeStopEnd, DisableEnd, hubVars
<1> DEFINE L == Late(session')
<1>2. /\ None(msgQueue, L) /\ None(hubQueue, L) /\ None(hubPending, L)
      /\ \A e : e.sn \in {0, session, session'} => e \notin L
  BY <1>0, <1>1, LateNever DEF Young, None, Late
<1>3. \/ UNCHANGED <<msgQueue, hubQueue>>
      \/ msgQueue # <<>> /\ msgQueue' = Tail(msgQueue) /\ UNCHANGED hubQueue
      \/ msgQueue # <<>> /\ msgQueue' = Tail(msgQueue) /\ ForwardToHub
      \/ /\ UNCHANGED hubQueue
         /\ \E type \in {"ast_enabled", "ast_disabled"}, ok \in BOOLEAN,
               sn \in {session, session'} :
               \/ msgQueue' = Append(msgQueue, Record(type, ok, FALSE, sn))
               \/ /\ msgQueue # <<>>
                  /\ msgQueue' = Append(Tail(msgQueue), Record(type, ok, FALSE, sn))
  <2>1. CASE ForwardToHub \/ ForwardToGen
    BY <2>1 DEF ForwardToHub, ForwardToGen, MsgHandles, hubVars
  <2>2. CASE EnableFails
    BY <2>2 DEF EnableFails, MsgHandles, hubVars
  <2>3. CASE EnableSucceeds
    BY <2>3 DEF EnableSucceeds, MsgHandles, hubVars
  <2>4. CASE DisableBegin
    BY <2>4 DEF DisableBegin, MsgHandles, hubVars
  <2>5. CASE GenStopBegin \/ GenStopEnd \/ ExeStopBegin \/ ExeStopEnd
    BY <2>5 DEF GenStopBegin, GenStopEnd, ExeStopBegin, ExeStopEnd, hubVars
  <2>6. CASE DisableEnd
    BY <2>6 DEF DisableEnd, hubVars
  <2> QED BY <2>1, <2>2, <2>3, <2>4, <2>5, <2>6 DEF MsgStep
<1> DEFINE goal == Young'
<1>4. ASSUME None(msgQueue', L), None(hubQueue', L)
      PROVE  goal
  BY <1>1, <1>2, <1>4 DEF Young, Late
<1> HIDE DEF L, goal
<1> SUFFICES goal
  BY DEF goal
<1>5. msgQueue # <<>> => /\ Tail(msgQueue) \in Seq(Messages) /\ None(Tail(msgQueue), L)
                         /\ Head(msgQueue) \in Messages /\ Head(msgQueue) \notin L
  BY <1>0, <1>2, TailOfSeq, NoneTail
<1>6. CASE UNCHANGED <<msgQueue, hubQueue>>
  BY <1>2, <1>4, <1>6
<1>7. CASE msgQueue # <<>> /\ msgQueue' = Tail(msgQueue) /\ UNCHANGED hubQueue
  BY <1>2, <1>4, <1>5, <1>7
<1>8. CASE msgQueue # <<>> /\ msgQueue' = Tail(msgQueue) /\ ForwardToHub
  <2> DEFINE e == [Msg EXCEPT !.type = ToHub[Msg.type]]
  <2>1. hubQueue' = Append(hubQueue, e) /\ Msg.type \in DOMAIN ToHub /\ Msg \in Messages
    BY <1>5, <1>8 DEF ForwardToHub, MsgHandles, Msg
  <2>2. e \in HubEvents
    BY <2>1, ForwardedIs
  <2>3. e.sn = Msg.sn
    BY <2>1 DEF Messages, RecordOf
  <2> HIDE DEF e
  <2>4. e \notin L
    BY <1>5, <1>8, <2>2, <2>3 DEF L, Late, Msg
  <2>5. None(hubQueue', L)
    BY <1>0, <1>2, <2>1, <2>2, <2>4, NoneAppend
  <2> QED BY <1>4, <1>5, <1>8, <2>5
<1>9. ASSUME NEW type \in {"ast_enabled", "ast_disabled"}, NEW ok \in BOOLEAN,
             NEW sn \in {session, session'}, UNCHANGED hubQueue,
             \/ msgQueue' = Append(msgQueue, Record(type, ok, FALSE, sn))
             \/ /\ msgQueue # <<>>
                /\ msgQueue' = Append(Tail(msgQueue), Record(type, ok, FALSE, sn))
      PROVE  goal
  <2> DEFINE m == Record(type, ok, FALSE, sn)
  <2>1. m \in Messages
    BY <1>0, RecordTyped DEF Messages
  <2>2. m.sn = sn
    BY Zenon DEF Record
  <2> HIDE DEF m
  <2>3. m \notin L
    BY <1>2, <2>2
  <2>4. None(Append(msgQueue, m), L)
    BY <1>0, <1>2, <2>1, <2>3, NoneAppend
  <2>5. msgQueue # <<>> => None(Append(Tail(msgQueue), m), L)
    BY <1>5, <2>1, <2>3, NoneAppend
  <2> QED BY <1>2, <1>4, <1>9, <2>4, <2>5 DEF m
<1> QED BY <1>3, <1>6, <1>7, <1>8, <1>9

LEMMA ElseYoung ==
    ASSUME TypeOK, Young,
           \/ \E t \in Threads : GenStep(t) \/ ExeStep(t)
           \/ MigratorEcho \/ Tick \/ LaunchEnable \/ LaunchDisable \/ LaunchChange
           \/ UNCHANGED vars
    PROVE  Young'
<1>0. hubQueue \in Seq(HubEvents) /\ msgQueue \in Seq(Messages)
  BY DEF TypeOK, MsgTypeOK, HubTypeOK
<1>1. UNCHANGED <<hubPending, session>>
  BY DEF GenStep, GenDequeue, GenCheck, GenAssert, GenCollectConfig, GenResolveConfig,
     GenResolveIO, GenResolveDeleted, GenAdvise, GenDrain, GenStop, genFrame, hubVars,
     ExeStep, ExeDequeue, ExeCheck, ExePlan, ExeEcho, ExeStall, ExeStop, exeFrame,
     MigratorEcho, Tick, LaunchEnable, LaunchDisable, LaunchChange, Launch, vars, msgVars
<1> DEFINE L == Late(session)
<1>2. /\ None(msgQueue, L) /\ None(hubQueue, L) /\ None(hubPending, L) /\ L' = L
  BY <1>1 DEF Young, Late
<1>3. \A e : e.sn \in {0, session} => e \notin L
  BY LateNever
<1> HIDE DEF L
<1>4. None(msgQueue', L)
  <2>1. (\A t \in Threads : ~GenStep(t)) => UNCHANGED msgQueue
    BY DEF ExeStep, ExeDequeue, ExeCheck, ExePlan, ExeEcho, ExeStall, ExeStop, exeFrame,
       MigratorEcho, Tick, LaunchEnable, LaunchDisable, LaunchChange, Launch, vars, msgVars
  <2>2. ASSUME NEW t \in Threads, GenStep(t)
        PROVE  None(msgQueue', L)
    <3>1. PICK new \in Seq(Messages) :
             /\ msgQueue' = msgQueue \o new
             /\ \A i \in DOMAIN new : new[i] \in ForHub /\ new[i].sn = session
      BY <2>2, GenSays
    <3>2. None(new, L)
      BY <1>3, <3>1 DEF None
    <3> QED BY <1>0, <1>2, <3>1, <3>2, NoneConcat
  <2> QED BY <1>2, <2>1, <2>2
<1>5. None(hubQueue', L)
  <2>1. \/ UNCHANGED hubQueue
        \/ \E type \in {"enable_ast", "disable_ast", "change"}, flag \in BOOLEAN :
              hubQueue' = Append(hubQueue, Record(type, FALSE, flag, 0))
    BY DEF GenStep, GenDequeue, GenCheck, GenAssert, GenCollectConfig, GenResolveConfig,
       GenResolveIO, GenResolveDeleted, GenAdvise, GenDrain, GenStop, genFrame, hubVars,
       ExeStep, ExeDequeue, ExeCheck, ExePlan, ExeEcho, ExeStall, ExeStop, exeFrame,
       MigratorEcho, Tick, LaunchEnable, LaunchDisable, LaunchChange, Launch, vars
  <2>2. ASSUME NEW type \in {"enable_ast", "disable_ast", "change"}, NEW flag \in BOOLEAN
        PROVE  None(Append(hubQueue, Record(type, FALSE, flag, 0)), L)
    <3> DEFINE e == Record(type, FALSE, flag, 0)
    <3>1. e \in HubEvents
      BY RecordTyped, ZeroSession DEF HubEvents
    <3>2. e.sn = 0
      BY Zenon DEF Record
    <3> HIDE DEF e
    <3>3. None(Append(hubQueue, e), L)
      BY <1>0, <1>2, <1>3, <3>1, <3>2, NoneAppend
    <3> QED BY <3>3 DEF e
  <2> QED BY <1>2, <2>1, <2>2
<1> QED BY <1>1, <1>2, <1>4, <1>5 DEF Young, L

LEMMA YoungStep ==
    ASSUME TypeOK, TypeOK', Young, [Next]_vars
    PROVE  Young'
BY HubYoung, MsgYoung, ElseYoung DEF Next

\* The session that HUB and AST have begun and not ended.
InTouch == hubAst \in {"enabled", "disabling"} \/ (hubAst = "enabling" /\ astState = "enabled")
\* No collection is under way before the HUB knows that AST is enabled.
NotYetCollecting ==
    hubAst = "disabled" \/ (hubAst = "enabling" /\ astState # "enabling")
        => hubStatus # "collecting_IO"
\* Without a collection nothing of the session is put aside.
Asked(n) == {e \in HubEvents : e.type = "config_view" /\ e.sn = n}
NothingAside == InTouch /\ hubStatus # "collecting_IO" => None(hubPending, Asked(session))

LEMMA AsideStep ==
    ASSUME TypeOK, OneRequestAtATime, Forgotten, Served, Young, NotYetCollecting,
           NothingAside, [Next]_vars
    PROVE  NotYetCollecting' /\ NothingAside'
<1> DEFINE goal == NotYetCollecting' /\ NothingAside'
<1> HIDE DEF goal
<1> SUFFICES goal
  BY DEF goal
<1>0. hubQueue \in Seq(HubEvents) /\ hubPending \in Seq(HubEvents) /\ session \in Nat
  BY LateNever DEF TypeOK, HubTypeOK
<1>1. CASE UNCHANGED <<hubAst, hubStatus, hubPending, astState, session>>
  BY <1>1 DEF goal, NotYetCollecting, NothingAside, InTouch, Asked
<1>2. ASSUME NEW t \in Threads, GenStep(t) \/ ExeStep(t)
      PROVE  UNCHANGED <<hubAst, hubStatus, hubPending, astState, session>>
  BY <1>2 DEF GenStep, GenDequeue, GenCheck, GenAssert, GenCollectConfig, GenResolveConfig,
     GenResolveIO, GenResolveDeleted, GenAdvise, GenDrain, GenStop, genFrame, hubVars,
     ExeStep, ExeDequeue, ExeCheck, ExePlan, ExeEcho, ExeStall, ExeStop, exeFrame
<1>3. MigratorEcho \/ Tick \/ LaunchEnable \/ LaunchDisable \/ LaunchChange \/ UNCHANGED vars
         => UNCHANGED <<hubAst, hubStatus, hubPending, astState, session>>
  BY DEF MigratorEcho, exeFrame, Tick, LaunchEnable, LaunchDisable, LaunchChange, Launch,
         vars, msgVars, hubVars
<1>4. CASE MsgStep
  <2>0. UNCHANGED <<hubAst, hubStatus, hubPending>>
    BY <1>4 DEF MsgStep, ForwardToHub, ForwardToGen, EnableFails, EnableSucceeds,
       DisableBegin, GenStopBegin, GenStopEnd, ExeStopBegin, ExeStopEnd, DisableEnd, hubVars
  <2>1. CASE EnableFails \/ EnableSucceeds \/ DisableBegin
    <3>1. msgQueue # <<>> /\ Msg.type \in ControlMsgs
      BY <2>1 DEF EnableFails, EnableSucceeds, DisableBegin, MsgHandles, Msg, ControlMsgs
    <3>2. /\ Msg.type = "enable_ast" => hubAst = "enabling" /\ astState \in {"none", "disabled"}
          /\ Msg.type = "disable_ast" => hubAst = "disabling"
      BY <3>1, MsgSaysStatus
    <3>3. CASE EnableFails
      <4>1. hubAst = "enabling" /\ astState' = "enabling"
        BY <3>2, <3>3 DEF EnableFails, MsgHandles, Msg
      <4> QED BY <2>0, <4>1 DEF goal, NotYetCollecting, NothingAside, InTouch
    <3>4. CASE EnableSucceeds
      <4>1. /\ hubAst = "enabling" /\ astState \in {"none", "disabled"}
            /\ session' = session + 1
        BY <3>2, <3>4 DEF EnableSucceeds, MsgHandles, Msg
      <4>2. \A e \in Asked(session + 1) : e \in Late(session)
        BY <1>0 DEF Asked, Late
      <4>3. None(hubPending, Asked(session + 1))
        BY <4>2 DEF Young, None
      <4>4. Asked(session)' = Asked(session + 1)
        BY <4>1 DEF Asked
      <4> QED BY <2>0, <4>1, <4>3, <4>4 DEF goal, NotYetCollecting, NothingAside
    <3>5. CASE DisableBegin
      <4>1. hubAst = "disabling" /\ UNCHANGED session
        BY <3>2, <3>5 DEF DisableBegin, MsgHandles, Msg
      <4> QED BY <2>0, <4>1 DEF goal, NotYetCollecting, NothingAside, InTouch, Asked
    <3> QED BY <2>1, <3>3, <3>4, <3>5
  <2>2. CASE DisableEnd
    <3>1. hubAst = "disabling" /\ UNCHANGED session
      BY <2>2 DEF DisableEnd, OneRequestAtATime
    <3> QED BY <2>0, <3>1 DEF goal, NotYetCollecting, NothingAside, InTouch, Asked
  <2>3. CASE ForwardToHub \/ ForwardToGen \/ GenStopBegin \/ GenStopEnd \/ ExeStopBegin
             \/ ExeStopEnd
    <3>1. UNCHANGED <<astState, session>>
      BY <2>3 DEF ForwardToHub, ForwardToGen, GenStopBegin, GenStopEnd, ExeStopBegin, ExeStopEnd
    <3> QED BY <1>1, <2>0, <3>1
  <2> QED BY <1>4, <2>1, <2>2, <2>3 DEF MsgStep
<1>5. CASE HubStep
  <2>0. hubQueue # <<>> /\ UNCHANGED <<astState, session>> /\ Asked(session)' = Asked(session)
    BY <1>5, HubTurn DEF Asked
  <2>1. CASE HubPend
    BY <2>0, <2>1 DEF HubPend, HubShouldPend, goal, NotYetCollecting, NothingAside
  <2>2. CASE HubEnable
    <3>1. CASE hubAst = "disabled"
      <4>1. hubAst' = "enabling" /\ UNCHANGED <<hubStatus, hubPending>>
        BY <2>2, <3>1 DEF HubEnable
      <4>2. astState' \in {"none", "disabled"}
        BY <2>0, <3>1 DEF OneRequestAtATime
      <4> QED BY <3>1, <4>1, <4>2 DEF goal, NotYetCollecting, NothingAside, InTouch
    <3> QED BY <1>1, <2>0, <2>2, <3>1 DEF HubEnable
  <2>3. CASE HubDisable
    <3>1. CASE hubAst = "enabled"
      <4>1. hubAst' = "disabling" /\ UNCHANGED <<hubStatus, hubPending>>
        BY <2>3, <3>1 DEF HubDisable
      <4> QED BY <2>0, <3>1, <4>1 DEF goal, NotYetCollecting, NothingAside, InTouch
    <3> QED BY <1>1, <2>0, <2>3, <3>1 DEF HubDisable
  <2>4. CASE HubEnableEcho
    <3>1. CASE HubEvent.ok
      <4>1. HubEvent.type = "enable_ast_echo" /\ HubEvent.type \in EchoEvents
        BY <2>4 DEF HubEnableEcho, HubHandles, HubEvent, EchoEvents
      <4>2. hubAst = "enabling" /\ HubEvent.ok = TRUE /\ astState = "enabled"
        BY <2>0, <3>1, <4>1, EchoSaysStatus
      <4>3. hubAst' = "enabled" /\ UNCHANGED hubPending
        BY <2>4, <3>1 DEF HubEnableEcho
      <4> QED BY <2>0, <4>2, <4>3 DEF goal, NotYetCollecting, NothingAside, InTouch
    <3> QED BY <1>1, <2>0, <2>4, <3>1 DEF HubEnableEcho
  <2>5. CASE HubDisableEcho
    <3>1. CASE HubEvent.ok
      <4>1. hubAst' = "disabled" /\ hubStatus' = "running"
        BY <2>5, <3>1 DEF HubDisableEcho
      <4> QED BY <4>1 DEF goal, NotYetCollecting, NothingAside, InTouch
    <3> QED BY <1>1, <2>0, <2>5, <3>1 DEF HubDisableEcho
  <2>6. CASE HubPrepare
    <3>1. HubOff \/ hubAst = "enabled" \/ hubAst = "enabling"
      BY DEF TypeOK, HubTypeOK, HubAstStates, HubOff
    <3>2. CASE HubOff
      BY <1>1, <2>0, <2>6, <3>2 DEF HubPrepare
    <3>3. CASE ~HubOff
      <4>1. hubStatus' = "collecting_IO" /\ UNCHANGED <<hubAst, hubPending>>
        BY <2>6, <3>3 DEF HubPrepare
      <4>2. hubAst = "enabling" => astState = "enabling"
        <5>1. HubEvent \in Talk
          BY <1>5, <2>6, HubTurn DEF HubPrepare, HubHandles, HubEvent, Talk
        <5>2. None(hubQueue, Talk) => HubEvent \notin Talk
          BY <1>0, <2>0, NoneTail DEF HubEvent
        <5>3. Behind(hubQueue, "enable_ast_echo", Talk) => HubEvent \notin Talk
          BY <1>0, <2>0, BehindTail DEF HubEvent
        <5>4. hubAst = "enabling" => astState \in {"none", "disabled", "enabled", "enabling"}
          BY DEF OneRequestAtATime
        <5> QED BY <5>1, <5>2, <5>3, <5>4 DEF Forgotten, SilentStart, Served, FirstWord
      <4> QED BY <2>0, <3>1, <3>3, <4>1, <4>2
              DEF goal, NotYetCollecting, NothingAside, HubOff
    <3> QED BY <3>2, <3>3
  <2>7. CASE HubPost
    <3>1. hubPending' = <<>> /\ hubStatus' = "serving_for_ast"
      BY <2>7 DEF HubPost
    <3> QED BY <3>1, NoneSmall DEF goal, NotYetCollecting, NothingAside
  <2>8. CASE HubConfigView \/ HubCollect \/ HubChange
    BY <1>1, <2>0, <2>8 DEF HubConfigView, HubCollect, HubChange
  <2> QED BY <1>5, <2>1, <2>2, <2>3, <2>4, <2>5, <2>6, <2>7, <2>8 DEF HubStep
<1> QED BY <1>1, <1>2, <1>3, <1>4, <1>5 DEF Next

(* If nothing fails, a session begins with nothing of the conversations       *)
(* before but requests that the HUB had put aside, and the HUB has put aside  *)
(* such a request when AST is disabled only in the middle of a collection:    *)
(* Generator::Stop and Executor::Stop have ended the threads of the session,  *)
(* the echo of disabling is the last that the HUB hears of it, what came for  *)
(* the generator since is emptied by MessageManager::Reset and AST::Reset,    *)
(* and the end of a collection takes up all that it held back.                *)
THEOREM ForgetsUnlessFailure ==
    ASSUME NothingFails
    PROVE  Spec => EnablingForgets
<1> DEFINE begins ==
               session' # session /\ ThreadsReleased =>
                   /\ \A e \in Elements(msgQueue') \cup Elements(genQueue') \cup
                               Elements(genPending') \cup Elements(hubQueue') :
                         e.sn \in {0, session'}
                   /\ \A e \in Elements(hubPending') :
                         e.sn \in {0, session'} \/ e.type = "config_view"
           ends ==
               hubAst = "disabling" /\ hubAst' = "disabled" /\ hubStatus # "collecting_IO" =>
                   \A e \in Elements(hubPending') : e.type = "config_view" => e.sn # session
<1>1. ASSUME TypeOK, OneRequestAtATime, Forgotten, PendsFew, [Next]_vars
      PROVE  [begins]_vars
  <2>1. session' # session => EnableSucceeds
    <3>1. ASSUME NEW t \in Threads, GenStep(t) \/ ExeStep(t)
          PROVE  UNCHANGED session
      BY <1>1, <3>1, GenMove, ExeMove
    <3>2. Elsewhere => UNCHANGED session
      BY ElsewhereKeeps
    <3>3. MsgStep /\ ~EnableSucceeds => UNCHANGED session
      BY DEF MsgStep, ForwardToHub, ForwardToGen, EnableFails, DisableBegin,
         GenStopBegin, GenStopEnd, ExeStopBegin, ExeStopEnd, DisableEnd
    <3> QED BY <1>1, <3>1, <3>2, <3>3 DEF Next, Elsewhere
  <2>2. EnableSucceeds => hubPending' = hubPending
    BY DEF EnableSucceeds, hubVars
  <2>3. EnableSucceeds => Elements(hubPending') = Elements(hubPending)
    BY <2>2
  <2> QED BY <1>1, <2>1, <2>3, NothingLeft, OnlyViewsLeft
<1>2. ASSUME TypeOK, NothingAside, [Next]_vars
      PROVE  [ends]_vars
  <2> SUFFICES ASSUME hubAst = "disabling", hubAst' = "disabled",
                      hubStatus # "collecting_IO"
               PROVE  \A e \in Elements(hubPending') : e.type = "config_view" => e.sn # session
    OBVIOUS
  <2>1. HubStep
    <3>1. ASSUME NEW t \in Threads, GenStep(t) \/ ExeStep(t)
          PROVE  UNCHANGED hubAst
      BY <3>1 DEF GenStep, GenDequeue, GenCheck, GenAssert, GenCollectConfig,
         GenResolveConfig, GenResolveIO, GenResolveDeleted, GenAdvise, GenDrain, GenStop,
         genFrame, hubVars, ExeStep, ExeDequeue, ExeCheck, ExePlan, ExeEcho, ExeStall,
         ExeStop, exeFrame
    <3>2. MsgStep \/ MigratorEcho \/ Tick \/ LaunchEnable \/ LaunchDisable \/ LaunchChange
             \/ UNCHANGED vars => UNCHANGED hubAst
      BY DEF MsgStep, ForwardToHub, ForwardToGen, EnableFails, EnableSucceeds, DisableBegin,
         GenStopBegin, GenStopEnd, ExeStopBegin, ExeStopEnd, DisableEnd, hubVars,
         MigratorEcho, exeFrame, Tick, LaunchEnable, LaunchDisable, LaunchChange, Launch, vars
    <3> QED BY <1>2, <3>1, <3>2 DEF Next
  <2>2. UNCHANGED hubPending
    BY <2>1 DEF HubStep, HubPend, HubEnable, HubDisable, HubEnableEcho, HubDisableEcho,
       HubConfigView, HubPrepare, HubCollect, HubPost, HubChange
  <2>3. None(hubPending, Asked(session)) /\ hubPending \in Seq(HubEvents)
    BY <1>2 DEF NothingAside, InTouch, TypeOK, HubTypeOK
  <2>4. ASSUME NEW e \in Elements(hubPending')
        PROVE  e.type = "config_view" => e.sn # session
    <3>1. PICK i \in DOMAIN hubPending : e = hubPending[i]
      BY <2>2, <2>3, <2>4 DEF Elements
    <3> QED BY <2>3, <3>1 DEF None, Asked
  <2> QED BY <2>4
<1>3. TypeOK /\ OneRequestAtATime /\ Forgotten /\ PendsFew /\ NothingAside /\ [Next]_vars
         => [begins /\ ends]_vars
  BY <1>1, <1>2
<1>4. Init => PendsFew /\ Young /\ NotYetCollecting /\ NothingAside
  BY NoneSmall DEF Init, PendsFew, Young, NotYetCollecting, NothingAside
<1>5. TypeOK /\ TypeOK' /\ OneRequestAtATime /\ Forgotten /\ Served /\ [Next]_vars
      /\ PendsFew /\ Young /\ NotYetCollecting /\ NothingAside
         => PendsFew' /\ Young' /\ NotYetCollecting' /\ NothingAside'
  BY PendsFewStep, YoungStep, AsideStep
<1> QED
  BY <1>3, <1>4, <1>5, ServedUnlessFailure, TypesHold, OneRequestHolds,
     PTL DEF Spec, EnablingForgets

-----------------------------------------------------------------------------
(* The conversation with the HUB in the first session, counted in messages:  *)
(* what is asked for, what is on its way, what is answered, and who holds    *)
(* the lock of the configuration.                                            *)

-----------------------------------------------------------------------------
(* Counting the elements of a queue.                                       *)

\* Those of the first k elements that have one of the types.
Hits(q, k, types) == {i \in 1 .. k : q[i].type \in types}
Upto(q, k, types) == Cardinality(Hits(q, k, types))
\* One or nothing.
Bit(P) == IF P THEN 1 ELSE 0

LEMMA UptoNat ==
    ASSUME NEW q, NEW k \in Nat, NEW types
    PROVE  /\ IsFiniteSet(Hits(q, k, types)) /\ Upto(q, k, types) \in Nat
           /\ Upto(q, k, types) = 0 <=> Hits(q, k, types) = {}
<1>1. IsFiniteSet(1 .. k)
  BY FS_Interval
<1>2. IsFiniteSet(Hits(q, k, types))
  BY <1>1, FS_Subset DEF Hits
<1> QED BY <1>2, FS_CardinalityType, FS_EmptySet DEF Upto

LEMMA UptoNext ==
    ASSUME NEW q, NEW k \in Nat, NEW types
    PROVE  Upto(q, k + 1, types) = Upto(q, k, types) + Bit(q[k + 1].type \in types)
<1>1. CASE q[k + 1].type \in types
  <2>1. Hits(q, k + 1, types) = Hits(q, k, types) \cup {k + 1} /\ k + 1 \notin Hits(q, k, types)
    BY <1>1 DEF Hits
  <2> QED BY <1>1, <2>1, UptoNat, FS_AddElement DEF Upto, Bit
<1>2. CASE q[k + 1].type \notin types
  <2>1. Hits(q, k + 1, types) = Hits(q, k, types)
    BY <1>2 DEF Hits
  <2> QED BY <1>2, <2>1, UptoNat DEF Upto, Bit
<1> QED BY <1>1, <1>2

LEMMA UptoSame ==
    ASSUME NEW q, NEW r, NEW k \in Nat, NEW types, \A i \in 1 .. k : q[i] = r[i]
    PROVE  Upto(q, k, types) = Upto(r, k, types)
<1>1. Hits(q, k, types) = Hits(r, k, types)
  BY DEF Hits
<1> QED BY <1>1 DEF Upto

LEMMA UptoShift ==
    ASSUME NEW q, NEW r, NEW d \in Nat, NEW k \in Nat, NEW types,
           \A i \in 1 .. k : r[i] = q[i + d]
    PROVE  Upto(q, d + k, types) = Upto(q, d, types) + Upto(r, k, types)
<1> DEFINE A == Hits(q, d, types)
           B == {i \in d + 1 .. d + k : q[i].type \in types}
           f == [i \in Hits(r, k, types) |-> i + d]
<1>1. Hits(q, d + k, types) = A \cup B /\ A \cap B = {}
  BY DEF Hits
<1>2. f \in Bijection(Hits(r, k, types), B)
  <2>1. \A i \in Hits(r, k, types) : i + d \in B
    BY DEF Hits
  <2>2. \A i, j \in Hits(r, k, types) : f[i] = f[j] => i = j
    BY DEF Hits
  <2>3. \A j \in B : j - d \in Hits(r, k, types) /\ f[j - d] = j
    <3> SUFFICES ASSUME NEW j \in B PROVE j - d \in Hits(r, k, types) /\ j - d + d = j
      OBVIOUS
    <3>1. j - d \in 1 .. k /\ j - d + d = j
      OBVIOUS
    <3>2. r[j - d] = q[j]
      BY <3>1
    <3> QED BY <3>1, <3>2 DEF Hits
  <2> QED BY <2>1, <2>2, <2>3 DEF Bijection, Injection, Surjection, IsInjective
<1>3. IsFiniteSet(B) /\ Cardinality(B) = Upto(r, k, types)
  BY <1>2, UptoNat, FS_Bijection DEF ExistsBijection, Upto
<1>4. IsFiniteSet(A)
  BY UptoNat
<1>5. Cardinality(A \cup B) = Cardinality(A) + Cardinality(B)
  <2> HIDE DEF A, B
  <2>1. Cardinality(A \cap B) = 0
    BY <1>1, FS_EmptySet
  <2>2. Cardinality(A \cup B) = Cardinality(A) + Cardinality(B) - Cardinality(A \cap B)
    BY <1>3, <1>4, FS_Union
  <2> QED BY <1>3, <1>4, <2>1, <2>2, FS_CardinalityType
<1> QED BY <1>1, <1>3, <1>5 DEF Upto

LEMMA CountIsUpto ==
    ASSUME NEW S, NEW q \in Seq(S), NEW types
    PROVE  Count(q, types) = Upto(q, Len(q), types) /\ Count(q, types) \in Nat
<1>1. Count(q, types) = Upto(q, Len(q), types)
  BY DEF Count, Upto, Hits
<1> QED BY <1>1, UptoNat

LEMMA CountWithout ==
    ASSUME NEW S, NEW q \in Seq(S), NEW types
    PROVE  Count(q, types) = 0 <=> Without(q, types)
<1>1. Hits(q, Len(q), types) = {} <=> Without(q, types)
  BY DEF Hits, Without
<1> QED BY <1>1, UptoNat, CountIsUpto

LEMMA CountEmpty ==
    ASSUME NEW types PROVE Count(<<>>, types) = 0
<1>1. <<>> \in Seq({}) /\ Without(<<>>, types)
  BY DEF Without
<1> QED BY <1>1, CountWithout

LEMMA UptoAppend ==
    ASSUME NEW S, NEW q \in Seq(S), NEW e \in S, NEW types
    PROVE  /\ \A k \in 0 .. Len(q) : Upto(Append(q, e), k, types) = Upto(q, k, types)
           /\ Count(Append(q, e), types) = Count(q, types) + Bit(e.type \in types)
<1> DEFINE r == Append(q, e)
<1>1. /\ Len(q) \in Nat /\ Len(r) = Len(q) + 1
      /\ r[Len(q) + 1] = e /\ \A i \in 1 .. Len(q) : r[i] = q[i]
  BY AppendPlaces
<1>2. r \in Seq(S)
  OBVIOUS
<1> HIDE DEF r
<1>3. \A k \in 0 .. Len(q) : Upto(r, k, types) = Upto(q, k, types)
  BY <1>1, UptoSame
<1>4. Upto(r, Len(q) + 1, types) = Upto(r, Len(q), types) + Bit(e.type \in types)
  BY <1>1, UptoNext
<1>5. Count(r, types) = Upto(q, Len(q), types) + Bit(e.type \in types)
  BY <1>1, <1>2, <1>3, <1>4, CountIsUpto
<1>6. Count(r, types) = Count(q, types) + Bit(e.type \in types)
  BY <1>5, CountIsUpto
<1> QED BY <1>3, <1>6 DEF r

LEMMA UptoTail ==
    ASSUME NEW S, NEW q \in Seq(S), q # <<>>, NEW types
    PROVE  /\ \A k \in 0 .. Len(q) - 1 :
                 Upto(q, k + 1, types) = Bit(Head(q).type \in types) + Upto(Tail(q), k, types)
           /\ Count(q, types) = Bit(Head(q).type \in types) + Count(Tail(q), types)
<1> DEFINE r == Tail(q)
<1>1. /\ Len(q) \in Nat \ {0} /\ q[1] = Head(q) /\ Len(r) = Len(q) - 1
      /\ \A i \in 1 .. Len(q) - 1 : r[i] = q[i + 1]
  BY TailPlaces
<1>2. r \in Seq(S)
  OBVIOUS
<1> HIDE DEF r
<1>3. Upto(q, 1, types) = Bit(Head(q).type \in types)
  <2>1. Upto(q, 0, types) = 0
    <3>1. Hits(q, 0, types) = {}
      BY DEF Hits
    <3> QED BY <3>1, UptoNat
  <2>2. Upto(q, 0 + 1, types) = Upto(q, 0, types) + Bit(q[0 + 1].type \in types)
    BY UptoNext
  <2> QED BY <1>1, <2>1, <2>2 DEF Bit
<1>4. ASSUME NEW k \in 0 .. Len(q) - 1
      PROVE  Upto(q, k + 1, types) = Bit(Head(q).type \in types) + Upto(r, k, types)
  <2>1. k \in Nat /\ \A i \in 1 .. k : r[i] = q[i + 1]
    BY <1>1
  <2>2. Upto(q, 1 + k, types) = Upto(q, 1, types) + Upto(r, k, types)
    BY <2>1, UptoShift
  <2> QED BY <1>3, <2>1, <2>2
<1>5. Count(q, types) = Bit(Head(q).type \in types) + Count(r, types)
  <2>1. Len(q) - 1 \in 0 .. Len(q) - 1 /\ Len(q) - 1 + 1 = Len(q)
    BY <1>1
  <2> QED BY <1>1, <1>2, <1>4, <2>1, CountIsUpto
<1> QED BY <1>4, <1>5 DEF r

LEMMA UptoConcat ==
    ASSUME NEW S, NEW p \in Seq(S), NEW q \in Seq(S), NEW types
    PROVE  /\ \A k \in 0 .. Len(p) : Upto(p \o q, k, types) = Upto(p, k, types)
           /\ \A k \in 0 .. Len(q) :
                 Upto(p \o q, k + Len(p), types) = Count(p, types) + Upto(q, k, types)
           /\ Count(p \o q, types) = Count(p, types) + Count(q, types)
<1> DEFINE r == p \o q
<1>1. /\ Len(p) \in Nat /\ Len(q) \in Nat /\ Len(r) = Len(p) + Len(q)
      /\ \A i \in 1 .. Len(p) : r[i] = p[i]
      /\ \A i \in 1 .. Len(q) : r[i + Len(p)] = q[i]
  OBVIOUS
<1>2. r \in Seq(S)
  OBVIOUS
<1> HIDE DEF r
<1>3. \A k \in 0 .. Len(p) : Upto(r, k, types) = Upto(p, k, types)
  BY <1>1, UptoSame
<1>4. ASSUME NEW k \in 0 .. Len(q)
      PROVE  Upto(r, k + Len(p), types) = Count(p, types) + Upto(q, k, types)
  <2>1. k \in Nat /\ \A i \in 1 .. k : q[i] = r[i + Len(p)]
    BY <1>1
  <2>2. Upto(r, Len(p) + k, types) = Upto(r, Len(p), types) + Upto(q, k, types)
    <3>1. Len(p) \in Nat
      BY <1>1
    <3> HIDE <1>1
    <3> QED BY <2>1, <3>1, UptoShift
  <2>3. Upto(r, Len(p), types) = Count(p, types)
    BY <1>1, <1>3, CountIsUpto
  <2> QED BY <1>1, <2>1, <2>2, <2>3
<1>5. Count(r, types) = Count(p, types) + Count(q, types)
  <2>1. Len(q) \in 0 .. Len(q) /\ Upto(q, Len(q), types) = Count(q, types)
    BY <1>1, CountIsUpto
  <2>2. Count(r, types) = Upto(r, Len(r), types)
    BY <1>2, CountIsUpto
  <2>3. Len(r) = Len(q) + Len(p)
    BY <1>1
  <2> QED BY <1>4, <2>1, <2>2, <2>3
<1> QED BY <1>3, <1>4, <1>5 DEF r

LEMMA UptoFirst ==
    ASSUME NEW S, NEW p \in Seq(S), NEW q \in Seq(S), NEW types, NEW k \in 0 .. Len(p)
    PROVE  Upto(p \o q, k, types) = Upto(p, k, types)
<1> DEFINE r == p \o q
<1>1. k \in Nat /\ \A i \in 1 .. k : r[i] = p[i]
  OBVIOUS
<1> HIDE DEF r
<1>2. Upto(r, k, types) = Upto(p, k, types)
  BY <1>1, UptoSame, SMTT(30)
<1> QED BY <1>2 DEF r

LEMMA UptoSecond ==
    ASSUME NEW S, NEW p \in Seq(S), NEW q \in Seq(S), NEW types, NEW k \in 0 .. Len(q)
    PROVE  Upto(p \o q, k + Len(p), types) = Count(p, types) + Upto(q, k, types)
BY UptoConcat

LEMMA CountConcat ==
    ASSUME NEW S, NEW p \in Seq(S), NEW q \in Seq(S), NEW types
    PROVE  Count(p \o q, types) = Count(p, types) + Count(q, types)
BY UptoConcat

LEMMA CountSmall ==
    ASSUME NEW S, NEW types
    PROVE  /\ \A e \in S : Count(<<e>>, types) = Bit(e.type \in types)
           /\ \A e, f \in S : Count(<<e, f>>, types) = Bit(e.type \in types) + Bit(f.type \in types)
<1>1. ASSUME NEW q, Hits(q, 0, types) = {}
      PROVE  /\ Upto(q, 1, types) = Bit(q[1].type \in types)
             /\ Upto(q, 2, types) = Bit(q[1].type \in types) + Bit(q[2].type \in types)
  <2>1. Upto(q, 0, types) = 0
    BY <1>1, UptoNat
  <2>2. Upto(q, 0 + 1, types) = Upto(q, 0, types) + Bit(q[0 + 1].type \in types)
    BY UptoNext
  <2>3. Upto(q, 1 + 1, types) = Upto(q, 1, types) + Bit(q[1 + 1].type \in types)
    BY UptoNext
  <2> QED BY <2>1, <2>2, <2>3 DEF Bit
<1>2. \A q : Hits(q, 0, types) = {}
  BY DEF Hits
<1>3. ASSUME NEW e \in S PROVE Count(<<e>>, types) = Bit(e.type \in types)
  <2> DEFINE q == <<e>>
  <2>1. q \in Seq(S) /\ Len(q) = 1 /\ q[1] = e
    OBVIOUS
  <2> HIDE DEF q
  <2> QED BY <1>1, <1>2, <2>1, CountIsUpto DEF q
<1>4. ASSUME NEW e \in S, NEW f \in S
      PROVE  Count(<<e, f>>, types) = Bit(e.type \in types) + Bit(f.type \in types)
  <2> DEFINE q == <<e, f>>
  <2>1. q \in Seq(S) /\ Len(q) = 2 /\ q[1] = e /\ q[2] = f
    OBVIOUS
  <2> HIDE DEF q
  <2> QED BY <1>1, <1>2, <2>1, CountIsUpto DEF q
<1> QED BY <1>3, <1>4

-----------------------------------------------------------------------------
(* Queues in which what takes is ahead of what gives back by at most n.    *)

Of(q, k, type) == Upto(q, k, {type})
Number(q, type) == Count(q, {type})
Balance(q, k, up, down) == Of(q, k, up) - Of(q, k, down)
Total(q, up, down) == Number(q, up) - Number(q, down)
Below(q, up, down, n) == \A k \in 0 .. Len(q) : Balance(q, k, up, down) <= n

LEMMA NumberIs ==
    ASSUME NEW S, NEW q \in Seq(S), NEW type
    PROVE  /\ Number(q, type) = Of(q, Len(q), type) /\ Number(q, type) \in Nat
           /\ Of(q, 0, type) = 0
           /\ \A k \in 0 .. Len(q) : Of(q, k, type) \in Nat /\ Of(q, k, type) <= Number(q, type)
<1> DEFINE types == {type}
<1> HIDE DEF types
<1>1. Count(q, types) = Upto(q, Len(q), types) /\ Count(q, types) \in Nat
  BY CountIsUpto
<1>2. Upto(q, 0, types) = 0
  <2>1. Hits(q, 0, types) = {}
    BY DEF Hits
  <2> QED BY <2>1, UptoNat
<1>3. ASSUME NEW k \in 0 .. Len(q)
      PROVE  Upto(q, k, types) \in Nat /\ Upto(q, k, types) <= Upto(q, Len(q), types)
  <2>1. Hits(q, k, types) \subseteq Hits(q, Len(q), types)
    BY DEF Hits
  <2>2. k \in Nat /\ Len(q) \in Nat
    OBVIOUS
  <2>3. IsFiniteSet(Hits(q, Len(q), types)) /\ Upto(q, k, types) \in Nat
    BY <2>2, UptoNat
  <2> QED BY <2>1, <2>3, FS_Subset DEF Upto
<1> QED BY <1>1, <1>2, <1>3 DEF Of, Number, types

\* The head of a queue counts in what comes behind it.
HeadCountsOf(q, type) ==
    \A k \in 0 .. Len(q) - 1 :
        Of(q, k + 1, type) = Bit(Head(q).type = type) + Of(Tail(q), k, type)

LEMMA NumberTail ==
    ASSUME NEW S, NEW q \in Seq(S), q # <<>>, NEW type
    PROVE  /\ HeadCountsOf(q, type)
           /\ Number(q, type) = Bit(Head(q).type = type) + Number(Tail(q), type)
<1> DEFINE types == {type}
<1>0. Bit(Head(q).type \in types) = Bit(Head(q).type = type)
  BY DEF Bit
<1> HIDE DEF types
<1>1. \A k \in 0 .. Len(q) - 1 :
         Upto(q, k + 1, types) = Bit(Head(q).type \in types) + Upto(Tail(q), k, types)
  BY UptoTail
<1>2. Count(q, types) = Bit(Head(q).type \in types) + Count(Tail(q), types)
  BY UptoTail
<1> QED BY <1>0, <1>1, <1>2 DEF HeadCountsOf, Of, Number, types

LEMMA NumberConcat ==
    ASSUME NEW S, NEW p \in Seq(S), NEW q \in Seq(S), NEW type
    PROVE  /\ \A k \in 0 .. Len(p) : Of(p \o q, k, type) = Of(p, k, type)
           /\ \A k \in 0 .. Len(q) :
                 Of(p \o q, k + Len(p), type) = Number(p, type) + Of(q, k, type)
           /\ Number(p \o q, type) = Number(p, type) + Number(q, type)
<1> DEFINE types == {type}
           r == p \o q
<1> HIDE DEF types
<1>1. \A k \in 0 .. Len(p) : Upto(r, k, types) = Upto(p, k, types)
  BY UptoFirst
<1>2. \A k \in 0 .. Len(q) : Upto(r, k + Len(p), types) = Count(p, types) + Upto(q, k, types)
  BY UptoSecond
<1>3. Count(r, types) = Count(p, types) + Count(q, types)
  BY CountConcat
<1> HIDE DEF r
<1> QED BY <1>1, <1>2, <1>3 DEF Of, Number, types, r

LEMMA NumberFirst ==
    ASSUME NEW S, NEW p \in Seq(S), NEW q \in Seq(S), NEW type, NEW k \in 0 .. Len(p)
    PROVE  Of(p \o q, k, type) = Of(p, k, type)
<1> DEFINE types == {type}
<1> HIDE DEF types
<1>1. Upto(p \o q, k, types) = Upto(p, k, types)
  BY UptoFirst
<1> QED BY <1>1 DEF Of, types

LEMMA BelowAll ==
    ASSUME NEW S, NEW q \in Seq(S), NEW up, NEW down, NEW n \in Int
    PROVE  /\ Below(q, up, down, n) => 0 <= n /\ Total(q, up, down) <= n
           /\ Number(q, up) <= n => Below(q, up, down, n)
           /\ Total(q, up, down) \in Int
<1>0. Len(q) \in Nat /\ 0 \in 0 .. Len(q) /\ Len(q) \in 0 .. Len(q)
  OBVIOUS
<1>1. ASSUME NEW type
      PROVE  /\ Number(q, type) = Of(q, Len(q), type) /\ Number(q, type) \in Nat
             /\ Of(q, 0, type) = 0
             /\ \A k \in 0 .. Len(q) :
                   Of(q, k, type) \in Nat /\ Of(q, k, type) <= Number(q, type)
  BY NumberIs
<1>3. ASSUME Below(q, up, down, n) PROVE 0 <= n /\ Total(q, up, down) <= n
  <2>1. Balance(q, 0, up, down) <= n /\ Balance(q, Len(q), up, down) <= n
    BY <1>0, <1>3 DEF Below
  <2> QED BY <1>1, <2>1 DEF Balance, Total
<1>4. ASSUME Number(q, up) <= n PROVE Below(q, up, down, n)
  <2>1. ASSUME NEW k \in 0 .. Len(q) PROVE Balance(q, k, up, down) <= n
    <3>1. Of(q, k, up) \in Nat /\ Of(q, k, up) <= Number(q, up) /\ Of(q, k, down) \in Nat
      BY <1>1
    <3>2. Number(q, up) \in Nat
      BY <1>1
    <3> QED BY <1>4, <3>1, <3>2 DEF Balance
  <2> QED BY <2>1 DEF Below
<1>5. Total(q, up, down) \in Int
  BY <1>1 DEF Total
<1> QED BY <1>3, <1>4, <1>5

LEMMA BelowTail ==
    ASSUME NEW S, NEW q \in Seq(S), q # <<>>, NEW up, NEW down, NEW n \in Int,
           Below(q, up, down, n)
    PROVE  /\ Below(Tail(q), up, down, n - Bit(Head(q).type = up) + Bit(Head(q).type = down))
           /\ Total(q, up, down) = Total(Tail(q), up, down)
                                   + Bit(Head(q).type = up) - Bit(Head(q).type = down)
<1> DEFINE r == Tail(q)
           b == Bit(Head(q).type = up)
           c == Bit(Head(q).type = down)
<1>1. Len(q) \in Nat \ {0} /\ Len(r) = Len(q) - 1 /\ r \in Seq(S)
  OBVIOUS
<1>0. /\ HeadCountsOf(q, up) /\ Number(q, up) = b + Number(r, up)
      /\ HeadCountsOf(q, down) /\ Number(q, down) = c + Number(r, down)
  BY NumberTail
<1>2. /\ \A k \in 0 .. Len(q) - 1 : Of(q, k + 1, up) = b + Of(r, k, up)
      /\ Number(q, up) = b + Number(r, up)
  BY <1>0, Zenon DEF HeadCountsOf
<1>3. /\ \A k \in 0 .. Len(q) - 1 : Of(q, k + 1, down) = c + Of(r, k, down)
      /\ Number(q, down) = c + Number(r, down)
  BY <1>0, Zenon DEF HeadCountsOf
<1>4. b \in {0, 1} /\ c \in {0, 1}
  BY DEF Bit
<1> HIDE DEF r, b, c
<1>5. ASSUME NEW type
      PROVE  Number(r, type) \in Nat /\ \A k \in 0 .. Len(r) : Of(r, k, type) \in Nat
  BY <1>1, NumberIs
<1>6. ASSUME NEW k \in 0 .. Len(r) PROVE Balance(r, k, up, down) <= n - b + c
  <2>1. k \in 0 .. Len(q) - 1 /\ k + 1 \in 0 .. Len(q) /\ k \in Nat
    BY <1>1
  <2>2. Of(q, k + 1, up) - Of(q, k + 1, down) <= n
    BY <2>1 DEF Below, Balance
  <2> QED BY <1>2, <1>3, <1>4, <1>5, <2>1, <2>2 DEF Balance
<1>7. Below(r, up, down, n - b + c)
  BY <1>6 DEF Below
<1>8. Total(q, up, down) = Total(r, up, down) + b - c
  BY <1>2, <1>3, <1>4, <1>5 DEF Total
<1> QED BY <1>7, <1>8 DEF r, b, c

LEMMA BelowConcat ==
    ASSUME NEW S, NEW p \in Seq(S), NEW q \in Seq(S), NEW up, NEW down, NEW n \in Int,
           Below(p, up, down, n), Below(q, up, down, n - Total(p, up, down))
    PROVE  /\ Below(p \o q, up, down, n)
           /\ Total(p \o q, up, down) = Total(p, up, down) + Total(q, up, down)
<1> DEFINE r == p \o q
<1>1. /\ Len(p) \in Nat /\ Len(q) \in Nat /\ Len(r) = Len(p) + Len(q)
      /\ r \in Seq(S)
  OBVIOUS
<1>2. ASSUME NEW type
      PROVE  /\ \A k \in 0 .. Len(p) : Of(r, k, type) = Of(p, k, type)
             /\ \A k \in 0 .. Len(q) : Of(r, k + Len(p), type) = Number(p, type) + Of(q, k, type)
             /\ Number(r, type) = Number(p, type) + Number(q, type)
  <2>1. \A k \in 0 .. Len(p) : Of(r, k, type) = Of(p, k, type)
    BY NumberFirst
  <2>2. \A k \in 0 .. Len(q) : Of(r, k + Len(p), type) = Number(p, type) + Of(q, k, type)
    BY NumberConcat
  <2>3. Number(r, type) = Number(p, type) + Number(q, type)
    BY NumberConcat
  <2> QED BY <2>1, <2>2, <2>3
<1> HIDE DEF r
<1>4. ASSUME NEW type
      PROVE  /\ Number(p, type) \in Nat /\ Number(q, type) \in Nat
             /\ \A k \in 0 .. Len(q) : Of(q, k, type) \in Nat
  BY NumberIs
<1>5. ASSUME NEW k \in 0 .. Len(r) PROVE Balance(r, k, up, down) <= n
  <2>1. CASE k <= Len(p)
    <3>1. k \in 0 .. Len(p)
      BY <1>1, <2>1
    <3>2. Balance(p, k, up, down) <= n
      BY <3>1 DEF Below
    <3> QED BY <1>2, <3>1, <3>2 DEF Balance
  <2>2. CASE k > Len(p)
    <3> DEFINE j == k - Len(p)
    <3>1. j \in 0 .. Len(q) /\ k = j + Len(p) /\ j \in Nat
      BY <1>1, <2>2
    <3> HIDE DEF j
    <3>2. Balance(q, j, up, down) <= n - Total(p, up, down)
      BY <3>1 DEF Below
    <3>3. /\ Of(r, k, up) = Number(p, up) + Of(q, j, up)
          /\ Of(r, k, down) = Number(p, down) + Of(q, j, down)
      BY <1>2, <3>1
    <3> QED BY <1>4, <3>1, <3>2, <3>3 DEF Balance, Total
  <2> QED BY <1>1, <2>1, <2>2
<1>6. Below(r, up, down, n)
  BY <1>5 DEF Below
<1>7. Total(r, up, down) = Total(p, up, down) + Total(q, up, down)
  BY <1>2, <1>4 DEF Total
<1> QED BY <1>6, <1>7 DEF r

LEMMA NumberSmall ==
    ASSUME NEW S, NEW type
    PROVE  /\ Number(<<>>, type) = 0
           /\ \A e \in S : Number(<<e>>, type) = Bit(e.type = type)
           /\ \A e, f \in S : Number(<<e, f>>, type) = Bit(e.type = type) + Bit(f.type = type)
<1> DEFINE types == {type}
<1>0. \A e : Bit(e.type \in types) = Bit(e.type = type)
  BY DEF Bit
<1> HIDE DEF types
<1>1. Count(<<>>, types) = 0
  BY CountEmpty
<1>2. \A e \in S : Count(<<e>>, types) = Bit(e.type \in types)
  BY CountSmall
<1>3. \A e, f \in S : Count(<<e, f>>, types) = Bit(e.type \in types) + Bit(f.type \in types)
  BY CountSmall
<1>4. \A e \in S : Number(<<e>>, type) = Bit(e.type = type)
  BY <1>0, <1>2 DEF Number, types
<1>5. \A e, f \in S : Number(<<e, f>>, type) = Bit(e.type = type) + Bit(f.type = type)
  BY <1>0, <1>3 DEF Number, types
<1> QED BY <1>1, <1>4, <1>5 DEF Number, types

LEMMA NumberAppend ==
    ASSUME NEW S, NEW q \in Seq(S), NEW e \in S, NEW type
    PROVE  Number(Append(q, e), type) = Number(q, type) + Bit(e.type = type)
<1> DEFINE types == {type}
<1>0. Bit(e.type \in types) = Bit(e.type = type)
  BY DEF Bit
<1> HIDE DEF types
<1>1. Count(Append(q, e), types) = Count(q, types) + Bit(e.type \in types)
  BY UptoAppend
<1> QED BY <1>0, <1>1 DEF Number, types

LEMMA NumberWithout ==
    ASSUME NEW S, NEW q \in Seq(S), NEW type
    PROVE  Number(q, type) = 0 <=> \A i \in DOMAIN q : q[i].type # type
<1> DEFINE types == {type}
<1>1. Without(q, types) <=> \A i \in DOMAIN q : q[i].type # type
  BY DEF Without
<1> HIDE DEF types
<1>2. Count(q, types) = 0 <=> Without(q, types)
  BY CountWithout
<1> QED BY <1>1, <1>2 DEF Number, types

LEMMA BelowGrows ==
    ASSUME NEW S, NEW q \in Seq(S), NEW new \in Seq(S), NEW up, NEW down, NEW n \in Int,
           Below(q, up, down, n), Number(new, up) <= n - Total(q, up, down)
    PROVE  /\ Below(q \o new, up, down, n)
           /\ Total(q \o new, up, down)
                = Total(q, up, down) + Number(new, up) - Number(new, down)
<1>1. Total(q, up, down) \in Int /\ n - Total(q, up, down) \in Int
  BY BelowAll
<1>2. Below(new, up, down, n - Total(q, up, down))
  BY <1>1, BelowAll
<1>3. Below(q \o new, up, down, n) /\ Total(q \o new, up, down) = Total(q, up, down) + Total(new, up, down)
  BY <1>2, BelowConcat
<1>4. Number(new, up) \in Nat /\ Number(new, down) \in Nat
  BY NumberIs
<1>5. Total(new, up, down) = Number(new, up) - Number(new, down)
  BY DEF Total
<1> QED BY <1>1, <1>3, <1>4, <1>5

LEMMA BelowMore ==
    ASSUME NEW S, NEW q \in Seq(S), NEW up, NEW down, NEW m \in Int, NEW n \in Int,
           Below(q, up, down, m), m <= n
    PROVE  Below(q, up, down, n)
<1>1. ASSUME NEW k \in 0 .. Len(q)
      PROVE  Balance(q, k, up, down) \in Int
  <2>1. Of(q, k, up) \in Nat /\ Of(q, k, down) \in Nat
    BY NumberIs
  <2> QED BY <2>1 DEF Balance
<1> QED BY <1>1 DEF Below

-----------------------------------------------------------------------------
(* What the generator says to the HUB, and what it still has to resolve.   *)

\* Messages of the types that the generator sends, and how many of each.
Says(new, c, r, n, p) ==
    /\ new \in Seq(Messages)
    /\ \A type : Number(new, type) =
          Bit(c /\ type = "collect_config_req") + Bit(r /\ type = "collect_OBJ_prepare")
          + Bit((r \/ n) /\ type = "collect_OBJ_normal") + Bit(p /\ type = "collect_OBJ_post")

\* Finishing an event.
Acted(t, type) == genPc[t] = "act" /\ genEv[t].type = type

\* The phases that speak: what they say, and what becomes of the status.
Learns(t) == Acted(t, "collect_config") /\ genStatus' = "learning"
AsksForIO(t) == Acted(t, "resolve_config") /\ genEv[t].ok /\ genStatus' = genStatus
GivesUp(t) == Acted(t, "resolve_config") /\ ~genEv[t].ok /\ genStatus' = "noop"
Resolves(t, n, p) ==
    /\ Acted(t, "resolve_OBJ_io")
    /\ \/ genStatus = "noop" /\ genStatus' = "noop" /\ ~n /\ ~p
       \/ ~genEv[t].ok /\ ~n /\ p /\ genStatus' = genStatus
       \/ genEv[t].ok /\ genEv[t].flag /\ ~n /\ p /\ genStatus' \in {"advising", "learning_done"}
       \/ genEv[t].ok /\ ~genEv[t].flag /\ n /\ ~p /\ genStatus' = genStatus
       \/ FALSE \in ResolveResults /\ p /\ genStatus' = "noop"
SaysNothing(t) ==
    \/ genStatus' = genStatus
       /\ ~Acted(t, "collect_config") /\ ~Acted(t, "resolve_config") /\ ~Acted(t, "resolve_OBJ_io")
    \/ Acted(t, "advise") /\ genStatus' = "advising_done"

Speaks(t, new, c, r, n, p) ==
    /\ Says(new, c, r, n, p) /\ msgQueue' = msgQueue \o new
    /\ \/ SaysNothing(t) /\ ~c /\ ~r /\ ~n /\ ~p
       \/ Learns(t) /\ c /\ ~r /\ ~n /\ ~p
       \/ AsksForIO(t) /\ ~c /\ r /\ ~n /\ ~p
       \/ GivesUp(t) /\ ~c /\ ~r /\ ~n /\ ~p
       \/ Resolves(t, n, p) /\ ~c /\ ~r

LEMMA GenSpeaks ==
    ASSUME TypeOK, NEW t \in Threads, GenStep(t)
    PROVE  \E new : \E c, r, n, p \in BOOLEAN : Speaks(t, new, c, r, n, p)
<1>0. msgQueue \in Seq(Messages) /\ genEv[t] \in GenEvents /\ genEv[t].ok \in BOOLEAN
      /\ genEv[t].flag \in BOOLEAN
  BY RecordFields DEF TypeOK, MsgTypeOK, GenTypeOK, GenEvents
<1>1. \A type \in {"collect_config_req", "collect_OBJ_prepare", "collect_OBJ_normal",
                   "collect_OBJ_post"} :
         Sent(type) \in Messages /\ Sent(type).type = type /\ <<Sent(type)>> \in Seq(Messages)
  BY SentTyped, SentIs, SmallSeqs DEF TypeOK
<1>2. Says(<<>>, FALSE, FALSE, FALSE, FALSE)
  BY NumberSmall, SmallSeqs DEF Says, Bit
<1>3. ASSUME NEW type \in {"collect_config_req", "collect_OBJ_prepare", "collect_OBJ_normal",
                           "collect_OBJ_post"}, NEW other
      PROVE  Number(<<Sent(type)>>, other) = Bit(type = other)
  <2>1. Sent(type) \in Messages /\ Sent(type).type = type
    BY <1>1
  <2> DEFINE e == Sent(type)
  <2> HIDE DEF e
  <2>2. Number(<<e>>, other) = Bit(e.type = other)
    BY <2>1, NumberSmall DEF e
  <2> QED BY <2>1, <2>2 DEF e
<1> DEFINE req == <<Sent("collect_config_req")>>
           both == <<Sent("collect_OBJ_prepare"), Sent("collect_OBJ_normal")>>
           normal == <<Sent("collect_OBJ_normal")>>
           post == <<Sent("collect_OBJ_post")>>
<1>4. /\ req \in Seq(Messages) /\ both \in Seq(Messages)
      /\ normal \in Seq(Messages) /\ post \in Seq(Messages)
  BY <1>1
<1>5. \A other : /\ Number(req, other) = Bit("collect_config_req" = other)
                 /\ Number(normal, other) = Bit("collect_OBJ_normal" = other)
                 /\ Number(post, other) = Bit("collect_OBJ_post" = other)
  BY <1>3
<1>9. \A other : Number(both, other) =
         Bit("collect_OBJ_prepare" = other) + Bit("collect_OBJ_normal" = other)
  <2> DEFINE e == Sent("collect_OBJ_prepare")
             f == Sent("collect_OBJ_normal")
  <2>1. /\ e \in Messages /\ e.type = "collect_OBJ_prepare"
        /\ f \in Messages /\ f.type = "collect_OBJ_normal"
    BY <1>1
  <2> HIDE DEF e, f
  <2>2. \A other : Number(<<e, f>>, other) = Bit(e.type = other) + Bit(f.type = other)
    BY <2>1, NumberSmall
  <2> QED BY <2>1, <2>2 DEF e, f
<1> HIDE DEF req, both, normal, post
<1>6. /\ Says(req, TRUE, FALSE, FALSE, FALSE)
      /\ Says(normal, FALSE, FALSE, TRUE, FALSE)
      /\ Says(post, FALSE, FALSE, FALSE, TRUE)
  BY <1>4, <1>5 DEF Says, Bit
<1>7. Says(both, FALSE, TRUE, FALSE, FALSE)
  BY <1>4, <1>9 DEF Says, Bit
<1>8. Says(normal \o post, FALSE, FALSE, TRUE, TRUE)
  <2>1. normal \o post \in Seq(Messages)
    BY <1>4, ConcatSeqs
  <2>2. \A type : Number(normal \o post, type) = Number(normal, type) + Number(post, type)
    BY <1>4, NumberConcat
  <2> QED BY <1>5, <2>1, <2>2 DEF Says, Bit
<1>10. msgQueue \o <<>> = msgQueue /\ <<>> \o post = post
       /\ (msgQueue \o <<>>) \o post = msgQueue \o post
       /\ (msgQueue \o normal) \o post = msgQueue \o (normal \o post)
  BY <1>0, <1>4
<1>12. CASE GenCollectConfig(t)
  <2>1. /\ msgQueue' = Append(msgQueue, Sent("collect_config_req")) /\ Learns(t)
    BY <1>12 DEF GenCollectConfig, GenActs, Learns, Acted
  <2>2. Append(msgQueue, Sent("collect_config_req")) = msgQueue \o req
    BY <1>0, <1>1, AppendIsConcat DEF req
  <2>3. Speaks(t, req, TRUE, FALSE, FALSE, FALSE)
    BY <1>6, <2>1, <2>2 DEF Speaks
  <2> QED BY <2>3
<1>13. CASE GenResolveConfig(t)
  <2>1. \/ msgQueue' = msgQueue \o both /\ AsksForIO(t)
        \/ msgQueue' = msgQueue /\ GivesUp(t)
    BY <1>13 DEF GenResolveConfig, GenActs, AsksForIO, GivesUp, Acted, BothNoop, both
  <2>2. CASE msgQueue' = msgQueue \o both /\ AsksForIO(t)
    <3>1. Speaks(t, both, FALSE, TRUE, FALSE, FALSE)
      BY <1>7, <2>2 DEF Speaks
    <3> QED BY <3>1
  <2>3. CASE msgQueue' = msgQueue /\ GivesUp(t)
    <3>1. Speaks(t, <<>>, FALSE, FALSE, FALSE, FALSE)
      BY <1>2, <1>10, <2>3 DEF Speaks
    <3> QED BY <3>1
  <2> QED BY <2>1, <2>2, <2>3
<1>14. CASE GenResolveIO(t)
  <2>0. Acted(t, "resolve_OBJ_io")
    BY <1>14 DEF GenResolveIO, GenActs, Acted
  <2>1. NextBatch(t) = IF genEv[t].flag THEN <<>> ELSE normal
    BY DEF NextBatch, normal
  <2>2. \/ /\ ~genEv[t].ok \/ genStatus = "noop"
           /\ msgQueue' = IF genStatus = "noop" THEN msgQueue ELSE msgQueue \o post
           /\ genStatus' = genStatus
        \/ /\ genEv[t].ok /\ genEv[t].flag
           /\ msgQueue' = msgQueue \o NextBatch(t) \o post
           /\ genStatus' \in {"advising", "learning_done"}
        \/ /\ genEv[t].ok /\ ~genEv[t].flag
           /\ msgQueue' = msgQueue \o NextBatch(t)
           /\ genStatus' = genStatus
        \/ /\ FALSE \in ResolveResults
           /\ msgQueue' = msgQueue \o NextBatch(t) \o post
           /\ genStatus' = "noop"
    BY <1>14 DEF GenResolveIO, GenFinishLearning, BothNoop, post
  <2>3. CASE (~genEv[t].ok \/ genStatus = "noop") /\ genStatus' = genStatus
             /\ msgQueue' = IF genStatus = "noop" THEN msgQueue ELSE msgQueue \o post
    <3>1. CASE genStatus = "noop"
      <4>1. Speaks(t, <<>>, FALSE, FALSE, FALSE, FALSE)
        BY <1>2, <1>10, <2>0, <2>3, <3>1 DEF Resolves, Speaks
      <4> QED BY <4>1
    <3>2. CASE genStatus # "noop"
      <4>1. Speaks(t, post, FALSE, FALSE, FALSE, TRUE)
        BY <1>6, <2>0, <2>3, <3>2 DEF Resolves, Speaks
      <4> QED BY <4>1
    <3> QED BY <3>1, <3>2
  <2>4. CASE genEv[t].ok /\ genEv[t].flag /\ msgQueue' = msgQueue \o NextBatch(t) \o post
             /\ genStatus' \in {"advising", "learning_done"}
    <3>1. Speaks(t, post, FALSE, FALSE, FALSE, TRUE)
      BY <1>6, <1>10, <2>0, <2>1, <2>4 DEF Resolves, Speaks
    <3> QED BY <3>1
  <2>5. CASE genEv[t].ok /\ ~genEv[t].flag /\ msgQueue' = msgQueue \o NextBatch(t)
             /\ genStatus' = genStatus
    <3>1. Speaks(t, normal, FALSE, FALSE, TRUE, FALSE)
      BY <1>6, <1>10, <2>0, <2>1, <2>5 DEF Resolves, Speaks
    <3> QED BY <3>1
  <2>6. CASE FALSE \in ResolveResults /\ msgQueue' = msgQueue \o NextBatch(t) \o post
             /\ genStatus' = "noop"
    <3>1. CASE genEv[t].flag
      <4>1. Speaks(t, post, FALSE, FALSE, FALSE, TRUE)
        BY <1>6, <1>10, <2>0, <2>1, <2>6, <3>1 DEF Resolves, Speaks
      <4> QED BY <4>1
    <3>2. CASE ~genEv[t].flag
      <4>1. Speaks(t, normal \o post, FALSE, FALSE, TRUE, TRUE)
        BY <1>8, <1>10, <2>0, <2>1, <2>6, <3>2 DEF Resolves, Speaks
      <4> QED BY <4>1
    <3> QED BY <3>1, <3>2
  <2> QED BY <2>2, <2>3, <2>4, <2>5, <2>6
<1>15. CASE msgQueue' = msgQueue /\ SaysNothing(t)
  <2>1. Speaks(t, <<>>, FALSE, FALSE, FALSE, FALSE)
    BY <1>2, <1>10, <1>15 DEF Speaks
  <2> QED BY <2>1
<1>16. CASE GenDequeue(t) \/ GenCheck(t) \/ GenAssert(t) \/ GenDrain(t) \/ GenAdvise(t)
            \/ GenStop(t) \/ GenResolveDeleted(t)
  <2>1. msgQueue' = msgQueue /\ SaysNothing(t)
    BY <1>16 DEF GenDequeue, GenCheck, GenAssert, GenDrain, GenAdvise, GenStop,
                 GenResolveDeleted, GenActs, SaysNothing, Acted
  <2> QED BY <1>15, <2>1
<1> QED BY <1>12, <1>13, <1>14, <1>16 DEF GenStep

\* Events of the type that the generator has not finished.
Handling(type) == Number(genQueue, type) + Number(genPending, type) + Bit(GenOn({type}))

LEMMA GenHandles ==
    ASSUME TypeOK, NEW t \in Threads, t = session, GenStep(t), NEW type
    PROVE  Handling(type)' = Handling(type) - Bit(Acted(t, type))
<1> DEFINE On == genPc[t] \in {"check", "assert", "act"} /\ genEv[t].type = type
           OnNext == genPc'[t] \in {"check", "assert", "act"} /\ genEv'[t].type = type
<1>0. /\ genQueue \in Seq(GenEvents) /\ genPending \in Seq(GenEvents)
      /\ genEv \in [Threads -> GenEvents]
      /\ genPc \in [Threads -> {"none", "idle", "check", "assert", "act", "drain", "exited"}]
  BY DEF TypeOK, GenTypeOK
<1>1. session' = session
  BY GenMove
<1>2. Handling(type) = Number(genQueue, type) + Number(genPending, type) + Bit(On)
  BY DEF Handling, GenOn
<1>3. Handling(type)' = Number(genQueue', type) + Number(genPending', type) + Bit(OnNext)
  BY <1>1 DEF Handling, GenOn
<1>4. /\ Number(genQueue, type) \in Nat /\ Number(genPending, type) \in Nat
      /\ Bit(On) \in {0, 1} /\ Bit(OnNext) \in {0, 1} /\ Bit(Acted(t, type)) \in {0, 1}
  BY <1>0, NumberIs DEF Bit
<1>5. CASE GenDequeue(t)
  <2>1. /\ genQueue # <<>> /\ genQueue' = Tail(genQueue) /\ UNCHANGED genPending
        /\ genPc[t] = "idle" /\ genPc'[t] = "check" /\ genEv'[t] = Head(genQueue)
    BY <1>0, <1>5 DEF GenDequeue, GenGoes
  <2>2. Number(genQueue, type) = Bit(Head(genQueue).type = type) + Number(genQueue', type)
    BY <1>0, <2>1, NumberTail
  <2>3. Bit(On) = 0 /\ Bit(Acted(t, type)) = 0 /\ Bit(OnNext) = Bit(Head(genQueue).type = type)
    BY <2>1 DEF Bit, Acted
  <2>4. Number(genQueue', type) \in Nat
    BY <1>0, <2>1, TailOfSeq, NumberIs
  <2> HIDE DEF On, OnNext
  <2> QED BY <1>2, <1>3, <1>4, <2>1, <2>2, <2>3, <2>4
<1>6. CASE GenCheck(t)
  <2>1. CASE genPending' = Append(genPending, genEv[t]) /\ genPc'[t] = "idle"
    <3>1. Number(genPending', type) = Number(genPending, type) + Bit(genEv[t].type = type)
      BY <1>0, <2>1, NumberAppend
    <3>2. Bit(On) = Bit(genEv[t].type = type) /\ Bit(Acted(t, type)) = 0 /\ Bit(OnNext) = 0
      BY <1>6, <2>1 DEF GenCheck, Bit, Acted
    <3>3. UNCHANGED genQueue
      BY <1>6 DEF GenCheck
    <3> HIDE DEF On, OnNext
    <3> QED BY <1>2, <1>3, <1>4, <3>1, <3>2, <3>3
  <2>2. CASE UNCHANGED genPending /\ genPc'[t] \in {"assert", "act"}
    <3>1. Bit(On) = Bit(OnNext) /\ Bit(Acted(t, type)) = 0 /\ UNCHANGED genQueue
      BY <1>6, <2>2 DEF GenCheck, Bit, Acted
    <3> HIDE DEF On, OnNext
    <3> QED BY <1>2, <1>3, <1>4, <2>2, <3>1
  <2> QED BY <1>0, <1>6, <2>1, <2>2 DEF GenCheck, GenGoes
<1>7. CASE GenAssert(t)
  <2>1. /\ Bit(On) = Bit(OnNext) /\ Bit(Acted(t, type)) = 0 /\ UNCHANGED <<genQueue, genPending>>
    BY <1>0, <1>7 DEF GenAssert, GenGoes, Bit, Acted
  <2> HIDE DEF On, OnNext
  <2> QED BY <1>2, <1>3, <1>4, <2>1
<1>8. CASE GenDrain(t)
  <2>1. /\ genQueue' = genPending \o genQueue /\ genPending' = <<>>
        /\ Bit(On) = 0 /\ Bit(OnNext) = 0 /\ Bit(Acted(t, type)) = 0
    BY <1>0, <1>8 DEF GenDrain, GenGoes, Bit, Acted
  <2>2. Number(genPending \o genQueue, type) = Number(genPending, type) + Number(genQueue, type)
    BY <1>0, NumberConcat
  <2>3. Number(<<>>, type) = 0
    BY NumberSmall
  <2> HIDE DEF On, OnNext
  <2> QED BY <1>2, <1>3, <1>4, <2>1, <2>2, <2>3
<1>9. CASE \/ GenCollectConfig(t) \/ GenResolveConfig(t) \/ GenResolveIO(t)
           \/ GenResolveDeleted(t) \/ GenAdvise(t) \/ GenStop(t)
  <2>1. /\ genPc[t] = "act" /\ genPc'[t] \in {"idle", "drain", "exited"}
        /\ UNCHANGED <<genQueue, genPending, genEv>>
    BY <1>0, <1>9 DEF GenCollectConfig, GenResolveConfig, GenResolveIO, GenFinishLearning,
                      GenResolveDeleted, GenAdvise, GenStop, GenGoes, GenActs
  <2>2. Bit(On) = Bit(Acted(t, type)) /\ Bit(OnNext) = 0
    BY <2>1 DEF Bit, Acted
  <2> HIDE DEF On, OnNext
  <2> QED BY <1>2, <1>3, <1>4, <2>1, <2>2
<1> QED BY <1>5, <1>6, <1>7, <1>8, <1>9 DEF GenStep

-----------------------------------------------------------------------------
(* The first session: who waits for the lock of the configuration.         *)

\* Collections that messages and events on their way will begin, less those that
\* they will end.
ToBegin == Total(msgQueue, "collect_OBJ_prepare", "collect_OBJ_post")
Begun   == Total(hubQueue, "io_prepare", "io_post")
\* A configuration that is asked for, or answered, or being resolved.
Views   == Number(msgQueue, "collect_config_req") + Number(hubQueue, "config_view")
           + Number(hubPending, "config_view") + Number(msgQueue, "collect_config_resp")
Phase   == configLock + Begun + ToBegin + Views + Handling("resolve_config")

First == session = 1 /\ astState = "enabled"

\* Before AST is enabled for the first time there is no conversation.
Unborn ==
    session = 0 =>
        /\ msgPc = "idle" /\ astState \in {"none", "enabling"}
        /\ configLock = 0 /\ hubStatus = "running" /\ hubPending = <<>>
        /\ None(hubQueue, Talk) /\ None(msgQueue, ForHub) /\ None(msgQueue, ForAst)
\* The lock is never taken twice, in whatever order the messages are delivered.
TakenOnce ==
    /\ Below(hubQueue, "io_prepare", "io_post", 1 - configLock)
    /\ Below(msgQueue, "collect_OBJ_prepare", "collect_OBJ_post", 1 - configLock - Begun)
\* A generator that does not learn is not in a conversation.
OnePhase == Phase <= Bit(genStatus = "learning")
PhasesEnd ==
    \A t \in Threads : Acted(t, "collect_config") \/ Acted(t, "advise") => genStatus # "learning"
\* The HUB does not begin before it knows that AST is enabled.
StartsIdle == hubAst = "enabling" => configLock = 0
EchoFirst ==
    hubAst = "enabling" =>
        /\ Behind(hubQueue, "enable_ast_echo", Talk)
        /\ ~Has(hubQueue, "enable_ast_echo") => Behind(msgQueue, "ast_enabled", ForHub)
OnlyCollecting == hubStatus = "collecting_IO" \/ configLock <= 0

FirstInv ==
    /\ Unborn /\ PendsFew
    /\ First => /\ TakenOnce /\ OnePhase /\ PhasesEnd /\ StartsIdle /\ EchoFirst
                /\ OnlyCollecting

LEMMA ViewsNat ==
    ASSUME TypeOK
    PROVE  /\ Views \in Nat /\ \A type : Handling(type) \in Nat
           /\ configLock \in Int /\ Begun \in Int /\ ToBegin \in Int
<1>1. /\ msgQueue \in Seq(Messages) /\ hubQueue \in Seq(HubEvents)
      /\ hubPending \in Seq(HubEvents) /\ genQueue \in Seq(GenEvents)
      /\ genPending \in Seq(GenEvents) /\ configLock \in Int
  BY DEF TypeOK, MsgTypeOK, HubTypeOK, GenTypeOK
<1>2. \A type : /\ Number(msgQueue, type) \in Nat /\ Number(hubQueue, type) \in Nat
                /\ Number(hubPending, type) \in Nat /\ Number(genQueue, type) \in Nat
                /\ Number(genPending, type) \in Nat
  BY <1>1, NumberIs
<1>3. \A type : Bit(GenOn({type})) \in {0, 1}
  BY DEF Bit
<1>4. Begun \in Int /\ ToBegin \in Int
  BY <1>2 DEF Begun, ToBegin, Total
<1>5. Views \in Nat
  BY <1>2 DEF Views
<1>6. ASSUME NEW type PROVE Handling(type) \in Nat
  <2>1. /\ Number(genQueue, type) \in Nat /\ Number(genPending, type) \in Nat
        /\ Bit(GenOn({type})) \in {0, 1}
    BY <1>2, <1>3
  <2> QED BY <2>1 DEF Handling
<1> QED BY <1>1, <1>4, <1>5, <1>6

\* Only one generator is there in the first session.
LEMMA FirstThread ==
    ASSUME TypeOK, NotYetMade, session = 1, NEW t \in Threads
    PROVE  /\ GenStep(t) \/ ExeStep(t) => t = session
           /\ \A type : Acted(t, type) => t = session
<1>1. GenStep(t) \/ ExeStep(t) => genPc[t] \notin Gone \/ exePc[t] \notin Gone
  BY GenMove, ExeMove DEF GenMoves, ExeMoves
<1>2. t > session => genPc[t] = "none" /\ exePc[t] = "none"
  BY DEF NotYetMade
<1>3. t \in Nat /\ t >= 1
  BY BoundsAssumption DEF Threads, BoundsAssumption
<1> QED BY <1>1, <1>2, <1>3 DEF Acted, Gone

LEMMA GenFirst ==
    ASSUME TypeOK, OneRequestAtATime, NotYetMade, FirstInv, First, NEW t \in Threads, GenStep(t)
    PROVE  TakenOnce' /\ OnePhase' /\ PhasesEnd' /\ StartsIdle' /\ EchoFirst' /\ OnlyCollecting'
<1>0. /\ msgQueue \in Seq(Messages) /\ t = session /\ configLock \in Int
      /\ genPc \in [Threads -> {"none", "idle", "check", "assert", "act", "drain", "exited"}]
  BY FirstThread DEF First, TypeOK, MsgTypeOK, HubTypeOK, GenTypeOK
<1>1. UNCHANGED <<hubVars, session, astState>>
  BY GenMove
  DEF GenStep, GenDequeue, GenCheck, GenAssert, GenCollectConfig, GenResolveConfig,
      GenResolveIO, GenResolveDeleted, GenAdvise, GenDrain, GenStop, genFrame
<1>2. UNCHANGED <<hubQueue, hubPending, hubAst, hubStatus, configLock>>
  BY <1>1 DEF hubVars
<1>3. StartsIdle' /\ OnlyCollecting' /\ Begun' = Begun
  BY <1>2 DEF FirstInv, StartsIdle, OnlyCollecting, Begun
<1>4. PICK new : \E c, r, n, p \in BOOLEAN : Speaks(t, new, c, r, n, p)
  BY GenSpeaks
<1>5. PICK c \in BOOLEAN, r \in BOOLEAN, n \in BOOLEAN, p \in BOOLEAN :
         Speaks(t, new, c, r, n, p)
  BY <1>4
<1>6. /\ new \in Seq(Messages) /\ msgQueue' = msgQueue \o new
      /\ Number(new, "collect_config_req") = Bit(c)
      /\ Number(new, "collect_OBJ_prepare") = Bit(r)
      /\ Number(new, "collect_OBJ_post") = Bit(p)
      /\ Number(new, "collect_config_resp") = 0
  BY <1>5 DEF Speaks, Says, Bit
<1>7. Handling("resolve_config")' = Handling("resolve_config") - Bit(Acted(t, "resolve_config"))
  BY <1>0, GenHandles
<1>8. /\ Views \in Nat /\ Handling("resolve_config") \in Nat
      /\ configLock \in Int /\ Begun \in Int /\ ToBegin \in Int
  BY ViewsNat
<1>9. Views' = Views + Bit(c)
  <2>1. /\ Number(msgQueue \o new, "collect_config_req")
             = Number(msgQueue, "collect_config_req") + Bit(c)
        /\ Number(msgQueue \o new, "collect_config_resp")
             = Number(msgQueue, "collect_config_resp") + 0
    BY <1>0, <1>6, NumberConcat
  <2>2. /\ Number(msgQueue, "collect_config_req") \in Nat
        /\ Number(msgQueue, "collect_config_resp") \in Nat
        /\ Number(hubQueue, "config_view") \in Nat /\ Number(hubPending, "config_view") \in Nat
    BY NumberIs DEF TypeOK, MsgTypeOK, HubTypeOK
  <2>3. Bit(c) \in {0, 1}
    BY DEF Bit
  <2> QED BY <1>2, <1>6, <2>1, <2>2, <2>3 DEF Views
<1>10. /\ ~p => genStatus' # "learning" \/ genStatus = "learning" \/ c
       /\ c => genStatus' = "learning" /\ genStatus # "learning" /\ ~r /\ ~p
       /\ r => Acted(t, "resolve_config") /\ genStatus' = genStatus /\ ~p
       /\ ~c /\ ~p /\ ~Acted(t, "resolve_config") =>
              genStatus' = genStatus \/ genStatus # "learning"
       /\ Acted(t, "resolve_config") => ~c /\ ~p /\ (genStatus' = genStatus \/ ~r)
       /\ p => genStatus' # "learning" \/ genStatus = "learning"
  BY <1>0, <1>5 DEF Speaks, SaysNothing, Learns, AsksForIO, GivesUp, Resolves, Acted, FirstInv,
                PhasesEnd
<1>11. Phase <= Bit(genStatus = "learning")
  BY DEF FirstInv, OnePhase
<1>12. Bit(r) <= 1 - configLock - Begun - ToBegin
  <2>1. r => Bit(Acted(t, "resolve_config")) = 1 /\ Handling("resolve_config") >= 1
    <3>1. Acted(t, "resolve_config") => Bit(GenOn({"resolve_config"})) = 1
      BY <1>0 DEF Acted, GenOn, Bit
    <3>2. Number(genQueue, "resolve_config") \in Nat /\ Number(genPending, "resolve_config") \in Nat
      BY NumberIs DEF TypeOK, GenTypeOK
    <3> QED BY <1>10, <3>1, <3>2 DEF Handling, Bit
  <2>2. Bit(genStatus = "learning") \in {0, 1} /\ Bit(r) = (IF r THEN 1 ELSE 0)
    BY DEF Bit
  <2> QED BY <1>8, <1>11, <2>1, <2>2 DEF Phase
<1>13. /\ Below(msgQueue', "collect_OBJ_prepare", "collect_OBJ_post", 1 - configLock - Begun)
       /\ ToBegin' = ToBegin + Bit(r) - Bit(p)
  <2>1. Below(msgQueue, "collect_OBJ_prepare", "collect_OBJ_post", 1 - configLock - Begun)
    BY DEF FirstInv, TakenOnce
  <2>2. 1 - configLock - Begun \in Int
    BY <1>8
  <2>3. Number(new, "collect_OBJ_prepare")
          <= 1 - configLock - Begun - Total(msgQueue, "collect_OBJ_prepare", "collect_OBJ_post")
    BY <1>6, <1>12 DEF ToBegin
  <2> QED BY <1>0, <1>6, <2>1, <2>2, <2>3, BelowGrows DEF ToBegin
<1>14. TakenOnce'
  BY <1>2, <1>3, <1>13 DEF FirstInv, TakenOnce
<1>15. OnePhase'
  <2>1. Phase' = Phase + Bit(c) + Bit(r) - Bit(p) - Bit(Acted(t, "resolve_config"))
    BY <1>2, <1>3, <1>7, <1>8, <1>9, <1>13 DEF Phase, Bit
  <2>2. Phase \in Int
    BY <1>8 DEF Phase
  <2> QED BY <1>10, <1>11, <2>1, <2>2 DEF OnePhase, Bit
<1>16. PhasesEnd'
  <2> SUFFICES ASSUME NEW u \in Threads,
                      (Acted(u, "collect_config") \/ Acted(u, "advise"))'
               PROVE  genStatus' # "learning"
    BY DEF PhasesEnd
  <2>2. u = t
    <3>1. u # t => genPc'[u] = genPc[u]
      BY GenMove DEF GenMoves
    <3>2. u > session => genPc[u] = "none"
      BY DEF NotYetMade
    <3>3. u \in Nat /\ u >= 1
      BY BoundsAssumption DEF Threads, BoundsAssumption
    <3> QED BY <1>0, <3>1, <3>2, <3>3 DEF First, Acted
  <2>3. GenCheck(t)
    BY <1>0, <2>2 DEF Acted, GenStep, GenDequeue, GenCheck, GenAssert, GenCollectConfig,
       GenResolveConfig, GenResolveIO, GenFinishLearning, GenResolveDeleted, GenAdvise,
       GenDrain, GenStop, GenGoes, TypeOK, GenTypeOK, IsAnswer
  <2>4. ~GenShouldPend(genEv[t].type) /\ UNCHANGED <<genEv, genStatus>>
    BY <1>0, <2>2, <2>3 DEF GenCheck, GenGoes, Acted
  <2> QED BY <2>2, <2>4 DEF GenShouldPend, Acted
<1>17. EchoFirst'
  <2> SUFFICES ASSUME hubAst = "enabling"
               PROVE  /\ Behind(hubQueue, "enable_ast_echo", Talk)
                      /\ ~Has(hubQueue, "enable_ast_echo") =>
                            Behind(msgQueue', "ast_enabled", ForHub)
    BY <1>2 DEF EchoFirst
  <2>1. /\ Behind(hubQueue, "enable_ast_echo", Talk)
        /\ ~Has(hubQueue, "enable_ast_echo") =>
              Behind(msgQueue, "ast_enabled", ForHub) /\ Has(msgQueue, "ast_enabled")
    BY EchoIsComing DEF FirstInv, EchoFirst, First
  <2>2. Behind(msgQueue, "ast_enabled", ForHub) /\ Has(msgQueue, "ast_enabled")
           => Behind(msgQueue \o new, "ast_enabled", ForHub)
    BY <1>0, <1>6, BehindConcat
  <2> QED BY <1>6, <2>1, <2>2
<1> QED BY <1>3, <1>14, <1>15, <1>16, <1>17

LEMMA BelowAppend ==
    ASSUME NEW S, NEW q \in Seq(S), NEW e \in S, NEW up, NEW down, NEW n \in Int,
           Below(q, up, down, n), Bit(e.type = up) <= n - Total(q, up, down)
    PROVE  /\ Below(Append(q, e), up, down, n)
           /\ Total(Append(q, e), up, down)
                = Total(q, up, down) + Bit(e.type = up) - Bit(e.type = down)
<1>1. Append(q, e) = q \o <<e>> /\ <<e>> \in Seq(S)
  BY AppendIsConcat
<1>2. Number(<<e>>, up) = Bit(e.type = up) /\ Number(<<e>>, down) = Bit(e.type = down)
  BY NumberSmall
<1> DEFINE new == <<e>>
<1> HIDE DEF new
<1>3. new \in Seq(S) /\ Number(new, up) <= n - Total(q, up, down)
  BY <1>1, <1>2 DEF new
<1>4. /\ Below(q \o new, up, down, n)
      /\ Total(q \o new, up, down)
           = Total(q, up, down) + Number(new, up) - Number(new, down)
  BY <1>3, BelowGrows
<1> QED BY <1>1, <1>2, <1>4 DEF new

\* Steps that leave the conversation alone.
LEMMA ElseFirst ==
    ASSUME TypeOK, TypeOK', FirstInv, First, First',
           \/ \E t \in Threads : ExeStep(t)
           \/ MigratorEcho \/ Tick \/ LaunchEnable \/ LaunchDisable \/ LaunchChange
           \/ UNCHANGED vars
    PROVE  TakenOnce' /\ OnePhase' /\ PhasesEnd' /\ StartsIdle' /\ EchoFirst' /\ OnlyCollecting'
<1>0. /\ genQueue \in Seq(GenEvents) /\ hubQueue \in Seq(HubEvents) /\ session \in Sessions
      /\ configLock \in Int
  BY DEF TypeOK, GenTypeOK, HubTypeOK, MsgTypeOK
<1>1. /\ UNCHANGED <<msgQueue, hubPending, hubAst, hubStatus, configLock, genStatus, genPending,
                     genPc, genEv, session, astState>>
      /\ \/ UNCHANGED genQueue
         \/ genQueue' = Append(genQueue, Sent("advise"))
         \/ \E flag \in AdviceChoices :
               genQueue' = Append(genQueue, Record("collect_config", FALSE, flag, session))
      /\ \/ UNCHANGED hubQueue
         \/ \E type \in {"enable_ast", "disable_ast", "change"}, flag \in BOOLEAN :
               hubQueue' = Append(hubQueue, Record(type, FALSE, flag, 0))
  <2>1. ASSUME NEW t \in Threads, ExeStep(t)
        PROVE  /\ UNCHANGED <<msgQueue, hubVars, genStatus, genPending,
                              genPc, genEv, session, astState>>
               /\ UNCHANGED genQueue \/ genQueue' = Append(genQueue, Sent("advise"))
    BY <2>1 DEF ExeStep, ExeDequeue, ExeCheck, ExePlan, ExeEcho, ExeStall, ExeStop, exeFrame
  <2>2. CASE \E t \in Threads : ExeStep(t)
    BY <2>1, <2>2 DEF hubVars
  <2>3. CASE MigratorEcho \/ UNCHANGED vars
    BY <2>3 DEF MigratorEcho, exeFrame, vars, msgVars, genVars, hubVars
  <2>4. CASE Tick
    BY <2>4 DEF Tick, msgVars, genVars, hubVars
  <2>5. CASE LaunchEnable \/ LaunchDisable \/ LaunchChange
    BY <2>5 DEF LaunchEnable, LaunchDisable, LaunchChange, Launch, msgVars, genVars
  <2> QED BY <2>2, <2>3, <2>4, <2>5
<1>2. Number(genQueue', "resolve_config") = Number(genQueue, "resolve_config")
  <2>1. Sent("advise") \in GenEvents /\ Sent("advise").type = "advise"
    BY SentTyped, SentIs DEF TypeOK
  <2>2. Number(Append(genQueue, Sent("advise")), "resolve_config")
          = Number(genQueue, "resolve_config")
    <3>1. Number(Append(genQueue, Sent("advise")), "resolve_config")
            = Number(genQueue, "resolve_config") + Bit(Sent("advise").type = "resolve_config")
      BY <1>0, <2>1, NumberAppend
    <3> QED BY <1>0, <2>1, <3>1, NumberIs DEF Bit
  <2>3. ASSUME NEW flag \in AdviceChoices
        PROVE  Number(Append(genQueue, Record("collect_config", FALSE, flag, session)),
                      "resolve_config")
                 = Number(genQueue, "resolve_config")
    <3> DEFINE e == Record("collect_config", FALSE, flag, session)
    <3>1. e \in GenEvents
      BY <1>0, RecordTyped, ChoicesAssumption DEF GenEvents, ChoicesAssumption
    <3>2. e.type = "collect_config"
      BY Zenon DEF Record
    <3> HIDE DEF e
    <3>3. Number(Append(genQueue, e), "resolve_config")
            = Number(genQueue, "resolve_config") + Bit(e.type = "resolve_config")
      BY <1>0, <3>1, NumberAppend
    <3>4. Number(genQueue, "resolve_config") \in Nat /\ Bit(e.type = "resolve_config") = 0
      BY <1>0, <3>2, NumberIs DEF Bit
    <3>5. Number(Append(genQueue, e), "resolve_config") = Number(genQueue, "resolve_config")
      BY <3>3, <3>4
    <3> QED BY <3>5 DEF e
  <2> QED BY <1>1, <2>2, <2>3
<1>3. Handling("resolve_config")' = Handling("resolve_config")
  BY <1>1, <1>2 DEF Handling, GenOn
<1>4. /\ Below(hubQueue', "io_prepare", "io_post", 1 - configLock)
      /\ Begun' = Begun /\ Number(hubQueue', "config_view") = Number(hubQueue, "config_view")
      /\ EchoFirst'
  <2>1. CASE UNCHANGED hubQueue
    BY <1>1, <2>1 DEF Begun, FirstInv, TakenOnce, EchoFirst
  <2>2. ASSUME NEW type \in {"enable_ast", "disable_ast", "change"}, NEW flag \in BOOLEAN,
               hubQueue' = Append(hubQueue, Record(type, FALSE, flag, 0))
        PROVE  /\ Below(hubQueue', "io_prepare", "io_post", 1 - configLock)
               /\ Begun' = Begun
               /\ Number(hubQueue', "config_view") = Number(hubQueue, "config_view")
               /\ EchoFirst'
    <3> DEFINE e == Record(type, FALSE, flag, 0)
    <3>1. e \in HubEvents
      BY RecordTyped, ZeroSession DEF HubEvents
    <3>2. e.type = type /\ hubQueue' = Append(hubQueue, e)
      BY <2>2, Zenon DEF Record
    <3> HIDE DEF e
    <3>3. Below(hubQueue, "io_prepare", "io_post", 1 - configLock) /\ 1 - configLock \in Int
      BY <1>0 DEF FirstInv, TakenOnce
    <3>4. Begun <= 1 - configLock /\ Begun \in Int
      BY <1>0, <3>3, BelowAll DEF Begun
    <3>5. /\ Bit(e.type = "io_prepare") = 0 /\ Bit(e.type = "io_post") = 0
          /\ Bit(e.type = "config_view") = 0
      BY <3>2 DEF Bit
    <3>6. Bit(e.type = "io_prepare") <= 1 - configLock - Begun
      BY <1>0, <3>4, <3>5
    <3>7. /\ Below(Append(hubQueue, e), "io_prepare", "io_post", 1 - configLock)
          /\ Total(Append(hubQueue, e), "io_prepare", "io_post") = Begun + 0 - 0
      BY <1>0, <3>1, <3>3, <3>5, <3>6, BelowAppend DEF Begun
    <3>8. Number(Append(hubQueue, e), "config_view") = Number(hubQueue, "config_view") + 0
      BY <1>0, <3>1, <3>5, NumberAppend
    <3>9. Number(hubQueue, "config_view") \in Nat
      BY <1>0, NumberIs
    <3>10. e \notin Talk /\ e.type # "enable_ast_echo"
      BY <3>2 DEF Talk
    <3>11. Behind(hubQueue, "enable_ast_echo", Talk)
             => Behind(Append(hubQueue, e), "enable_ast_echo", Talk)
      BY <1>0, <3>1, <3>10, BehindAppend
    <3>12. Has(Append(hubQueue, e), "enable_ast_echo") <=> Has(hubQueue, "enable_ast_echo")
      BY <1>0, <3>1, <3>10, HasAppendTail
    <3>13. EchoFirst'
      BY <1>1, <3>2, <3>11, <3>12 DEF FirstInv, EchoFirst
    <3> QED BY <3>2, <3>4, <3>7, <3>8, <3>9, <3>13 DEF Begun
  <2> QED BY <1>1, <2>1, <2>2
<1>5. TakenOnce' /\ StartsIdle' /\ OnlyCollecting' /\ PhasesEnd'
  BY <1>1, <1>4 DEF FirstInv, TakenOnce, StartsIdle, OnlyCollecting, PhasesEnd, Acted
<1>6. OnePhase'
  BY <1>1, <1>3, <1>4 DEF FirstInv, OnePhase, Phase, ToBegin, Views
<1> QED BY <1>4, <1>5, <1>6

\* What is left of the lock when a step does not take more of it.
LEMMA LessLeft ==
    ASSUME NEW a \in Int, NEW b \in Int, NEW c \in Int, NEW d \in Int, a + b <= c + d
    PROVE  /\ 1 - c - d \in Int /\ 1 - a - b \in Int
           /\ 1 - c - d <= 1 - a - b
  OBVIOUS

LEMMA OneTaken ==
    ASSUME NEW a \in Int, NEW b \in Int, NEW c \in Int, NEW d \in Int,
           b = a \/ b = a + 1, d = c - 1
    PROVE  /\ 1 - a - 1 + 0 \in Int /\ 1 - b \in Int /\ 1 - a - 1 + 0 <= 1 - b
           /\ b + d <= a + c
  OBVIOUS

LEMMA HubFirst ==
    ASSUME TypeOK, TypeOK', OneRequestAtATime, FirstInv, First, HubStep
    PROVE  TakenOnce' /\ OnePhase' /\ PhasesEnd' /\ StartsIdle' /\ EchoFirst' /\ OnlyCollecting'
<1>0. /\ hubQueue \in Seq(HubEvents) /\ hubPending \in Seq(HubEvents)
      /\ msgQueue \in Seq(Messages) /\ hubQueue # <<>> /\ configLock \in Int
      /\ configLock' \in Int /\ hubQueue' \in Seq(HubEvents) /\ msgQueue' \in Seq(Messages)
  BY DEF TypeOK, MsgTypeOK, HubTypeOK, HubStep, HubPend, HubEnable, HubDisable,
         HubEnableEcho, HubDisableEcho, HubConfigView, HubPrepare, HubCollect,
         HubPost, HubChange, HubHandles
<1>1. UNCHANGED <<genStatus, genQueue, genPending, genPc, genEv, session, astState>>
  BY DEF HubStep, HubPend, HubEnable, HubDisable, HubEnableEcho, HubDisableEcho,
         HubConfigView, HubPrepare, HubCollect, HubPost, HubChange, hubFrame, genVars
<1> DEFINE e == HubEvent
           r == Tail(hubQueue)
           b == Bit(e.type = "io_prepare")
           c == Bit(e.type = "io_post")
           v == Bit(e.type = "config_view")
<1>2. e \in HubEvents /\ r \in Seq(HubEvents)
  BY <1>0, TailOfSeq DEF HubEvent
<1>3. /\ b \in {0, 1} /\ c \in {0, 1} /\ v \in {0, 1} /\ b + c + v \in {0, 1}
      /\ e.type = "io_prepare" => b = 1
      /\ e.type = "io_post" => c = 1
      /\ e.type = "config_view" => v = 1
      /\ e.type \notin {"io_prepare", "io_post", "config_view"} => b = 0 /\ c = 0 /\ v = 0
  BY DEF Bit
<1>4. /\ Below(r, "io_prepare", "io_post", 1 - configLock - b + c)
      /\ Begun = Total(r, "io_prepare", "io_post") + b - c
  <2>1. Below(hubQueue, "io_prepare", "io_post", 1 - configLock)
    BY DEF FirstInv, TakenOnce
  <2>2. 1 - configLock \in Int
    BY <1>0
  <2> QED BY <1>0, <2>1, <2>2, BelowTail DEF Begun, HubEvent
<1>5. Number(hubQueue, "config_view") = v + Number(r, "config_view")
  BY <1>0, NumberTail DEF HubEvent
<1>6. /\ Total(r, "io_prepare", "io_post") \in Int
      /\ \A type : /\ Number(r, type) \in Nat /\ Number(hubPending, type) \in Nat
                   /\ Number(msgQueue, type) \in Nat
  <2>1. Total(r, "io_prepare", "io_post") \in Int
    <3>1. Number(r, "io_prepare") \in Nat /\ Number(r, "io_post") \in Nat
      BY <1>2, NumberIs
    <3> QED BY <3>1 DEF Total
  <2> QED BY <1>0, <1>2, <2>1, NumberIs
<1>7. /\ Below(msgQueue, "collect_OBJ_prepare", "collect_OBJ_post", 1 - configLock - Begun)
      /\ Phase <= Bit(genStatus = "learning")
      /\ 0 <= 1 - configLock
  <2>1. Below(hubQueue, "io_prepare", "io_post", 1 - configLock) /\ 1 - configLock \in Int
    BY <1>0 DEF FirstInv, TakenOnce
  <2> QED BY <1>0, <2>1, BelowAll DEF FirstInv, TakenOnce, OnePhase
<1>8. /\ hubAst \in {"enabling", "enabled", "disabling"}
      /\ OnlyCollecting
      /\ hubAst = "enabling" =>
            /\ e \notin Talk /\ configLock = 0
            /\ e.type # "enable_ast_echo" =>
                  /\ Behind(r, "enable_ast_echo", Talk)
                  /\ ~Has(r, "enable_ast_echo") => Behind(msgQueue, "ast_enabled", ForHub)
  <2>1. Has(hubQueue, "enable_ast_echo") /\ e.type # "enable_ast_echo"
           => Has(r, "enable_ast_echo")
    BY <1>0, HasAppendTail DEF HubEvent
  <2>2. Behind(hubQueue, "enable_ast_echo", Talk) =>
           /\ e \notin Talk
           /\ e.type # "enable_ast_echo" => Behind(r, "enable_ast_echo", Talk)
    BY <1>0, BehindTail DEF HubEvent
  <2> QED BY <2>1, <2>2, EchoIsComing DEF FirstInv, EchoFirst, StartsIdle, First
<1>9. e \in Talk <=> e.type \in {"config_view", "io_prepare", "io_normal", "io_post"}
  BY <1>2 DEF Talk
<1> DEFINE lock == TakenOnce' /\ OnePhase' /\ PhasesEnd'
           echo == StartsIdle' /\ EchoFirst'
           goal == lock /\ echo /\ OnlyCollecting'
           Quietly == UNCHANGED msgQueue \/
                      \E m \in Messages :
                         /\ msgQueue' = Append(msgQueue, m) /\ m \notin ForHub
                         /\ m.type \notin {"collect_OBJ_prepare", "collect_OBJ_post"}
<1> HIDE DEF e, r, b, c, v
<1>10. ASSUME Below(hubQueue', "io_prepare", "io_post", 1 - configLock'),
              configLock' + Begun' <= configLock + Begun, Views' <= Views, Quietly
       PROVE  lock
  <2>0. configLock' + Begun' <= configLock + Begun /\ Views' <= Views
    BY <1>10
  <2>1. /\ Views' \in Nat /\ Views \in Nat /\ Begun' \in Int /\ Begun \in Int
        /\ ToBegin \in Int /\ Handling("resolve_config") \in Nat
    <3>1. Views' \in Nat
      <4>1. /\ Number(msgQueue, "collect_config_req")' \in Nat
            /\ Number(msgQueue, "collect_config_resp")' \in Nat
            /\ Number(hubQueue, "config_view")' \in Nat
            /\ Number(hubPending, "config_view")' \in Nat
        BY NumberIs DEF TypeOK, MsgTypeOK, HubTypeOK
      <4> QED BY <4>1 DEF Views
    <3>2. Begun' \in Int
      BY <1>0, BelowAll DEF Begun
    <3> QED BY <3>1, <3>2, ViewsNat
  <2>2. /\ Below(msgQueue', "collect_OBJ_prepare", "collect_OBJ_post", 1 - configLock - Begun)
        /\ ToBegin' = ToBegin
    <3>1. CASE UNCHANGED msgQueue
      BY <1>7, <3>1 DEF ToBegin
    <3>2. ASSUME NEW m \in Messages, msgQueue' = Append(msgQueue, m),
                 m.type \notin {"collect_OBJ_prepare", "collect_OBJ_post"}
          PROVE  /\ Below(msgQueue', "collect_OBJ_prepare", "collect_OBJ_post",
                          1 - configLock - Begun)
                 /\ ToBegin' = ToBegin
      <4>1. 1 - configLock - Begun \in Int
        BY <1>0, <2>1
      <4>2. ToBegin <= 1 - configLock - Begun
        BY <1>0, <1>7, <4>1, BelowAll DEF ToBegin
      <4>3. Bit(m.type = "collect_OBJ_prepare") = 0 /\ Bit(m.type = "collect_OBJ_post") = 0
        BY <3>2 DEF Bit
      <4>4. Bit(m.type = "collect_OBJ_prepare") <= 1 - configLock - Begun
              - Total(msgQueue, "collect_OBJ_prepare", "collect_OBJ_post")
        BY <1>0, <2>1, <4>2, <4>3 DEF ToBegin
      <4>5. /\ Below(Append(msgQueue, m), "collect_OBJ_prepare", "collect_OBJ_post",
                     1 - configLock - Begun)
            /\ Total(Append(msgQueue, m), "collect_OBJ_prepare", "collect_OBJ_post")
                 = ToBegin + 0 - 0
        BY <1>0, <1>7, <4>1, <4>3, <4>4, BelowAppend DEF ToBegin
      <4> QED BY <2>1, <3>2, <4>5 DEF ToBegin
    <3> QED BY <1>10, <3>1, <3>2
  <2>3. Below(msgQueue', "collect_OBJ_prepare", "collect_OBJ_post", 1 - configLock' - Begun')
    <3>0. /\ configLock \in Int /\ configLock' \in Int /\ Begun \in Int /\ Begun' \in Int
          /\ configLock' + Begun' <= configLock + Begun
      BY <1>0, <2>0, <2>1
    <3>1. /\ 1 - configLock - Begun \in Int /\ 1 - configLock' - Begun' \in Int
          /\ 1 - configLock - Begun <= 1 - configLock' - Begun'
      BY ONLY <3>0, LessLeft
    <3> QED BY <1>0, <2>2, <3>1, BelowMore
  <2>4. TakenOnce'
    BY <1>10, <2>3 DEF TakenOnce
  <2>5. Handling("resolve_config")' = Handling("resolve_config")
    BY <1>1 DEF Handling, GenOn
  <2>6. Phase' <= Phase /\ Phase' \in Int /\ Phase \in Int
    <3>1. /\ configLock \in Int /\ configLock' \in Int /\ ToBegin \in Int
          /\ Handling("resolve_config") \in Nat
          /\ Begun' \in Int /\ Begun \in Int /\ Views' \in Nat /\ Views \in Nat
          /\ configLock' + Begun' <= configLock + Begun /\ Views' <= Views
      BY <1>0, <2>0, <2>1
    <3>2. /\ Phase = configLock + Begun + ToBegin + Views + Handling("resolve_config")
          /\ Phase' = configLock' + Begun' + ToBegin + Views' + Handling("resolve_config")
      BY <2>2, <2>5 DEF Phase
    <3>3. PICK l1 \in Int, b1 \in Int, v1 \in Nat :
             configLock' = l1 /\ Begun' = b1 /\ Views' = v1
      BY <3>1
    <3>4. PICK l0 \in Int, b0 \in Int, v0 \in Nat, m \in Int, h \in Nat :
             /\ configLock = l0 /\ Begun = b0 /\ Views = v0 /\ ToBegin = m
             /\ Handling("resolve_config") = h
      BY <3>1
    <3>5. l1 + b1 <= l0 + b0 /\ v1 <= v0
      BY <3>1, <3>3, <3>4
    <3>6. /\ l1 + b1 + m + v1 + h <= l0 + b0 + m + v0 + h
          /\ l1 + b1 + m + v1 + h \in Int /\ l0 + b0 + m + v0 + h \in Int
      BY ONLY <3>5
    <3> QED BY <3>2, <3>3, <3>4, <3>6
  <2>7. OnePhase'
    <3>1. Bit(genStatus = "learning") \in Int
      BY DEF Bit
    <3>2. Phase' <= Bit(genStatus = "learning")
      BY <1>7, <2>6, <3>1
    <3> QED BY <1>1, <3>2 DEF OnePhase
  <2>8. PhasesEnd'
    BY <1>1 DEF FirstInv, PhasesEnd, Acted
  <2> QED BY <2>4, <2>7, <2>8
\* The HUB takes an event that neither takes nor gives back the lock.
<1>11. ASSUME hubQueue' = r, e.type \notin {"io_prepare", "io_post"}, UNCHANGED configLock,
              Views' <= Views, Quietly
       PROVE  lock
  <2>1. b = 0 /\ c = 0
    BY <1>11 DEF b, c, Bit
  <2>2. Below(r, "io_prepare", "io_post", 1 - configLock)
    BY <1>0, <1>4, <2>1
  <2>3. Begun' = Begun /\ Begun \in Int
    BY <1>4, <1>6, <1>11, <2>1 DEF Begun
  <2>4. configLock' + Begun' <= configLock + Begun
    BY <1>0, <1>11, <2>3
  <2> QED BY <1>10, <1>11, <2>2, <2>4
<1>12. ASSUME Number(hubQueue', "config_view") = Number(r, "config_view"), UNCHANGED hubPending,
              \/ UNCHANGED msgQueue
              \/ \E m \in Messages : /\ msgQueue' = Append(msgQueue, m)
                                     /\ m.type # "collect_config_req"
                                     /\ m.type = "collect_config_resp" =>
                                           e.type = "config_view"
       PROVE  Views' <= Views
  <2>1. /\ Number(msgQueue', "collect_config_req") = Number(msgQueue, "collect_config_req")
        /\ Number(msgQueue', "collect_config_resp") <= Number(msgQueue, "collect_config_resp") + v
        /\ Number(msgQueue', "collect_config_resp") \in Nat
    <3>1. CASE UNCHANGED msgQueue
      BY <1>3, <1>6, <3>1
    <3>2. ASSUME NEW m \in Messages, msgQueue' = Append(msgQueue, m),
                 m.type # "collect_config_req",
                 m.type = "collect_config_resp" => e.type = "config_view"
          PROVE  /\ Number(msgQueue', "collect_config_req") = Number(msgQueue, "collect_config_req")
                 /\ Number(msgQueue', "collect_config_resp")
                      <= Number(msgQueue, "collect_config_resp") + v
                 /\ Number(msgQueue', "collect_config_resp") \in Nat
      <4>1. /\ Number(Append(msgQueue, m), "collect_config_req")
                 = Number(msgQueue, "collect_config_req") + Bit(m.type = "collect_config_req")
            /\ Number(Append(msgQueue, m), "collect_config_resp")
                 = Number(msgQueue, "collect_config_resp") + Bit(m.type = "collect_config_resp")
        BY <1>0, NumberAppend
      <4>2. /\ Bit(m.type = "collect_config_req") = 0
            /\ Bit(m.type = "collect_config_resp") \in {0, 1}
            /\ Bit(m.type = "collect_config_resp") <= v
        BY <1>3, <3>2 DEF Bit
      <4>3. /\ Number(msgQueue, "collect_config_req") \in Nat
            /\ Number(msgQueue, "collect_config_resp") \in Nat
        BY <1>6
      <4> QED BY <1>3, <3>2, <4>1, <4>2, <4>3
    <3> QED BY <1>12, <3>1, <3>2
  <2>2. /\ Number(msgQueue, "collect_config_req") \in Nat
        /\ Number(msgQueue, "collect_config_resp") \in Nat
        /\ Number(r, "config_view") \in Nat /\ Number(hubPending, "config_view") \in Nat
    BY <1>6
  <2>3. /\ Number(hubQueue', "config_view") = Number(r, "config_view")
        /\ hubPending' = hubPending
    BY <1>12
  <2> QED BY <1>3, <1>5, <2>1, <2>2, <2>3 DEF Views
\* Nothing of the echo is in what the HUB takes or says.
<1>13. ASSUME hubAst' = "enabling" => hubAst = "enabling" /\ UNCHANGED configLock,
              hubAst = "enabling" /\ hubAst' = "enabling" => hubQueue' \in {r, hubQueue},
              e.type = "enable_ast_echo" => hubAst' # "enabling",
              UNCHANGED msgQueue \/ \E m \in Messages : msgQueue' = Append(msgQueue, m)
                                                       /\ m \notin ForHub
       PROVE  echo
  <2> SUFFICES ASSUME hubAst' = "enabling" PROVE echo
    BY DEF StartsIdle, EchoFirst
  <2>1. /\ hubAst = "enabling" /\ hubQueue' \in {r, hubQueue} /\ configLock' = 0
        /\ e.type # "enable_ast_echo"
    BY <1>8, <1>13
  <2>2. Behind(msgQueue, "ast_enabled", ForHub) => Behind(msgQueue', "ast_enabled", ForHub)
    BY <1>0, <1>13, BehindAppend
  <2>3. /\ Behind(hubQueue', "enable_ast_echo", Talk)
        /\ ~Has(hubQueue', "enable_ast_echo") => Behind(msgQueue, "ast_enabled", ForHub)
    BY <1>8, <2>1 DEF FirstInv, EchoFirst
  <2> QED BY <2>1, <2>2, <2>3 DEF StartsIdle, EchoFirst
<1> HIDE DEF lock, echo
<1>14. SUFFICES goal
  BY DEF lock, echo
<1>15. CASE HubPend
  <2>1. /\ e.type \in {"change", "config_view"} /\ hubQueue' = r
        /\ hubPending' = Append(hubPending, e)
        /\ UNCHANGED <<msgQueue, hubAst, hubStatus, configLock>>
    BY <1>15 DEF HubPend, HubShouldPend, e, r
  <2>2. Number(hubPending', "config_view") = Number(hubPending, "config_view") + v
    BY <1>0, <1>2, <2>1, NumberAppend DEF v
  <2>3. Views' <= Views
    <3>1. /\ Number(msgQueue, "collect_config_req") \in Nat
          /\ Number(msgQueue, "collect_config_resp") \in Nat
          /\ Number(r, "config_view") \in Nat /\ Number(hubPending, "config_view") \in Nat
      BY <1>6
    <3> QED BY <1>3, <1>5, <2>1, <2>2, <3>1 DEF Views
  <2>4. lock
    BY <1>11, <2>1, <2>3
  <2>5. echo
    BY <1>13, <2>1
  <2> QED BY <1>8, <2>1, <2>4, <2>5 DEF OnlyCollecting
<1>16. CASE HubEnable
  <2>1. /\ e.type = "enable_ast" /\ UNCHANGED <<msgQueue, hubAst, hubPending, hubStatus, configLock>>
        /\ hubQueue' = r \/ (hubAst = "disabling" /\ hubQueue' = Append(r, e))
    <3>1. /\ HubHandles({"enable_ast"}) /\ hubAst # "disabled"
          /\ hubQueue' = IF hubAst = "disabling" THEN Append(r, e) ELSE r
          /\ UNCHANGED <<hubPending, hubStatus, configLock>>
      BY <1>8, <1>16 DEF HubEnable, HubEvent, e, r
    <3>2. UNCHANGED <<msgQueue, hubAst>>
      BY <1>16, <3>1 DEF HubEnable
    <3>3. e.type = "enable_ast"
      BY <3>1 DEF HubHandles, HubEvent, e
    <3> QED BY <3>1, <3>2, <3>3
  <2>2. b = 0 /\ c = 0 /\ v = 0
    BY <1>3, <2>1
  <2>3. /\ Below(hubQueue', "io_prepare", "io_post", 1 - configLock)
        /\ Begun' = Begun /\ Number(hubQueue', "config_view") = Number(r, "config_view")
    <3>1. /\ Below(r, "io_prepare", "io_post", 1 - configLock)
          /\ Total(r, "io_prepare", "io_post") = Begun
      BY <1>0, <1>4, <1>6, <2>2
    <3>2. 0 <= 1 - configLock - Begun
      <4>1. 1 - configLock \in Int
        BY <1>0
      <4> QED BY <1>0, <1>2, <1>6, <3>1, <4>1, BelowAll
    <3>3. /\ Below(Append(r, e), "io_prepare", "io_post", 1 - configLock)
          /\ Total(Append(r, e), "io_prepare", "io_post") = Begun + 0 - 0
      <4>1. b <= 1 - configLock - Total(r, "io_prepare", "io_post") /\ 1 - configLock \in Int
        BY <1>0, <2>2, <3>1, <3>2
      <4> QED BY <1>2, <2>2, <3>1, <4>1, BelowAppend DEF b, c
    <3>4. Number(Append(r, e), "config_view") = Number(r, "config_view") + 0
      BY <1>2, <2>2, NumberAppend DEF v
    <3>5. Begun \in Int /\ Number(r, "config_view") \in Nat
      BY <1>6, <3>1
    <3>6. /\ Total(Append(r, e), "io_prepare", "io_post") = Begun
          /\ Number(Append(r, e), "config_view") = Number(r, "config_view")
      BY <3>3, <3>4, <3>5
    <3>7. CASE hubQueue' = r
      BY <3>1, <3>7 DEF Begun
    <3>8. CASE hubQueue' = Append(r, e)
      BY <3>3, <3>6, <3>8 DEF Begun
    <3> QED BY <2>1, <3>7, <3>8
  <2>4. Views' <= Views
    BY <1>12, <2>1, <2>3
  <2>5. configLock' + Begun' <= configLock + Begun
    <3>1. Begun \in Int
      BY ViewsNat
    <3> QED BY <1>0, <2>1, <2>3, <3>1
  <2>6. lock
    BY <1>10, <2>1, <2>3, <2>4, <2>5
  <2>7. echo
    BY <1>13, <2>1
  <2> QED BY <1>8, <2>1, <2>6, <2>7 DEF OnlyCollecting
<1>17. CASE HubDisable
  <2>1. /\ e.type = "disable_ast" /\ UNCHANGED <<hubPending, hubStatus, configLock>>
        /\ \/ UNCHANGED <<hubQueue, msgQueue, hubAst>>
           \/ hubQueue' = r /\ hubAst = "disabling" /\ UNCHANGED <<msgQueue, hubAst>>
           \/ hubAst' = "disabling" /\ hubQueue' = r
              /\ msgQueue' = Append(msgQueue, Sent("disable_ast"))
    BY <1>8, <1>17 DEF HubDisable, HubHandles, HubEvent, e, r
  <2>2. /\ Sent("disable_ast") \in Messages /\ Sent("disable_ast").type = "disable_ast"
        /\ Sent("disable_ast") \notin ForHub
    BY SentTyped, SentIs DEF TypeOK, ForHub
  <2>3. Quietly
    BY <2>1, <2>2
  <2>4. CASE UNCHANGED <<hubQueue, msgQueue, hubAst>>
    <3>2. lock
      BY <1>1, <2>1, <2>4 DEF lock, FirstInv, TakenOnce, OnePhase, PhasesEnd, Phase, Begun,
         ToBegin, Views, Handling, GenOn, Acted
    <3>3. echo
      BY <2>1, <2>4 DEF echo, FirstInv, StartsIdle, EchoFirst
    <3> QED BY <1>8, <2>1, <3>2, <3>3 DEF OnlyCollecting
  <2>5. CASE /\ hubQueue' = r
             /\ \/ hubAst = "disabling" /\ UNCHANGED <<msgQueue, hubAst>>
                \/ hubAst' = "disabling" /\ msgQueue' = Append(msgQueue, Sent("disable_ast"))
    <3>1. Views' <= Views
      BY <1>12, <2>1, <2>2, <2>5
    <3>2. lock
      BY <1>11, <2>1, <2>3, <2>5, <3>1
    <3>3. echo
      BY <1>13, <2>1, <2>2, <2>5
    <3> QED BY <1>8, <2>1, <3>2, <3>3 DEF OnlyCollecting
  <2> QED BY <2>1, <2>4, <2>5
<1>18. CASE HubEnableEcho \/ HubDisableEcho
  <2>1. HubEvent.type \in EchoEvents
    BY <1>18 DEF HubEnableEcho, HubDisableEcho, HubHandles, HubEvent, EchoEvents
  <2>2. HubEvent.type = "enable_ast_echo" /\ HubEvent.ok /\ hubAst = "enabling"
    BY <1>0, <2>1, EchoSaysStatus DEF EchoEvents, First
  <2>3. /\ hubAst' = "enabled" /\ hubQueue' = r
        /\ UNCHANGED <<msgQueue, hubPending, configLock>>
    BY <1>18, <2>2 DEF HubEnableEcho, HubDisableEcho, HubHandles, HubEvent, r
  <2>4. Views' <= Views
    BY <1>12, <2>3
  <2>5. lock
    BY <1>11, <2>2, <2>3, <2>4 DEF e
  <2>6. echo
    BY <1>13, <2>3
  <2> QED BY <1>8, <2>2, <2>3, <2>5, <2>6 DEF OnlyCollecting
<1> DEFINE Answered(type) == \E ok, flag \in BOOLEAN :
                                 msgQueue' = Append(msgQueue, Answer(type, ok, flag))
<1>19. ASSUME NEW type \in {"collect_config_resp", "collect_OBJ_resp"}, Answered(type),
              e.type = IF type = "collect_OBJ_resp" THEN "io_normal" ELSE "config_view",
              hubQueue' = r, UNCHANGED <<hubAst, hubPending, hubStatus, configLock>>
       PROVE  goal
  <2>1. PICK ok \in BOOLEAN, flag \in BOOLEAN : msgQueue' = Append(msgQueue, Answer(type, ok, flag))
    BY <1>19
  <2> DEFINE m == Answer(type, ok, flag)
  <2>2. m \in Messages
    <3>1. HubEvent.sn \in Sessions
      BY <1>2, RecordFields DEF HubEvents, e
    <3> QED BY <3>1, RecordTyped DEF Answer, Messages
  <2>3. m.type = type
    BY Zenon DEF Answer, Record
  <2>4. msgQueue' = Append(msgQueue, m)
    BY <2>1
  <2> HIDE DEF m
  <2>5. m \notin ForHub /\ hubAst # "enabling"
    BY <1>8, <1>9, <1>19, <2>3 DEF ForHub
  <2>6. Views' <= Views
    BY <1>12, <1>19, <2>2, <2>3, <2>4
  <2>7. lock
    BY <1>11, <1>19, <2>2, <2>3, <2>4, <2>5, <2>6
  <2>8. echo
    BY <1>19, <2>5 DEF echo, StartsIdle, EchoFirst
  <2> QED BY <1>8, <1>19, <2>7, <2>8 DEF OnlyCollecting
<1>20. CASE HubConfigView
  <2>1. PICK involved \in ConfigAnswers :
           msgQueue' = Append(msgQueue, Answer("collect_config_resp",
                                          hubAst = "enabled" /\ involved, FALSE))
    BY <1>20 DEF HubConfigView
  <2>2. (hubAst = "enabled" /\ involved) \in BOOLEAN
    OBVIOUS
  <2>3. Answered("collect_config_resp")
    BY <2>1, <2>2
  <2> HIDE DEF Answered, goal
  <2> QED BY <1>19, <1>20, <2>3 DEF HubConfigView, HubHandles, HubEvent, e, r
<1>21. CASE HubCollect
  <2>1. \/ msgQueue' = Append(msgQueue, Answer("collect_OBJ_resp", FALSE, FALSE))
        \/ msgQueue' = Append(msgQueue, Answer("collect_OBJ_resp", TRUE,
                                               collected + 1 = toCollect))
    BY <1>21 DEF HubCollect
  <2>2. (collected + 1 = toCollect) \in BOOLEAN
    OBVIOUS
  <2>3. Answered("collect_OBJ_resp")
    BY <2>1, <2>2
  <2> HIDE DEF Answered, goal
  <2> QED BY <1>19, <1>21, <2>3 DEF HubCollect, HubHandles, HubEvent, e, r
<1>22. CASE HubPrepare
  <2>1. /\ e.type = "io_prepare" /\ hubQueue' = r /\ UNCHANGED <<hubAst, hubPending, msgQueue>>
        /\ \/ configLock' = configLock /\ hubStatus' = hubStatus
           \/ configLock' = configLock + 1 /\ hubStatus' = "collecting_IO"
    BY <1>22 DEF HubPrepare, HubHandles, HubEvent, e, r
  <2>2. b = 1 /\ c = 0 /\ v = 0
    BY <1>3, <2>1
  <2>3. Begun' = Begun - 1 /\ Begun \in Int
    BY <1>4, <1>6, <2>1, <2>2 DEF Begun
  <2>4. Below(r, "io_prepare", "io_post", 1 - configLock')
    <3>1. Below(r, "io_prepare", "io_post", 1 - configLock - 1 + 0)
      BY <1>4, <2>2
    <3>2. /\ configLock \in Int /\ configLock' \in Int /\ Begun \in Int /\ Begun' \in Int
          /\ Begun' = Begun - 1
      BY <1>0, <2>3
    <3>3. configLock' = configLock \/ configLock' = configLock + 1
      BY <2>1
    <3>4. /\ 1 - configLock - 1 + 0 \in Int /\ 1 - configLock' \in Int
          /\ 1 - configLock - 1 + 0 <= 1 - configLock'
      BY ONLY <3>2, <3>3, OneTaken
    <3> QED BY <1>2, <3>1, <3>4, BelowMore
  <2>5. Views' <= Views
    BY <1>12, <2>1
  <2>6. configLock' + Begun' <= configLock + Begun
    <3>1. /\ configLock \in Int /\ configLock' \in Int /\ Begun \in Int /\ Begun' \in Int
          /\ Begun' = Begun - 1
      BY <1>0, <2>3
    <3>2. configLock' = configLock \/ configLock' = configLock + 1
      BY <2>1
    <3> QED BY ONLY <3>1, <3>2, OneTaken
  <2>7. lock
    BY <1>10, <2>1, <2>4, <2>5, <2>6
  <2>8. echo
    BY <1>8, <1>9, <2>1 DEF echo, StartsIdle, EchoFirst
  <2> QED BY <1>8, <2>1, <2>7, <2>8 DEF OnlyCollecting
<1>23. CASE HubPost
  <2>1. /\ e.type = "io_post" /\ hubQueue' = hubPending \o r /\ hubPending' = <<>>
        /\ configLock' = configLock - 1 /\ UNCHANGED <<hubAst, msgQueue>>
    BY <1>23 DEF HubPost, HubHandles, HubEvent, e, r
  <2>2. b = 0 /\ c = 1 /\ v = 0
    BY <1>3, <2>1
  <2>3. Number(hubPending, "io_prepare") = 0 /\ Number(hubPending, "io_post") = 0
    <3>1. \A i \in DOMAIN hubPending : hubPending[i].type \in {"change", "config_view"}
      BY DEF FirstInv, PendsFew
    <3> QED BY <1>0, <3>1, NumberWithout
  <2>4. Total(hubPending, "io_prepare", "io_post") = 0
    BY <2>3 DEF Total
  <2>5. /\ 1 - configLock' \in Int /\ 0 <= 1 - configLock'
        /\ Below(r, "io_prepare", "io_post", 1 - configLock' - 0)
    <3>1. 1 - configLock' = 2 - configLock /\ 1 - configLock - 0 + 1 = 2 - configLock
          /\ 1 - configLock' - 0 = 2 - configLock
      BY <1>0, <2>1
    <3>2. Below(r, "io_prepare", "io_post", 2 - configLock)
      BY <1>4, <2>2, <3>1
    <3> QED BY <1>0, <1>7, <2>1, <3>1, <3>2
  <2>6. Below(hubPending, "io_prepare", "io_post", 1 - configLock')
    BY <1>0, <2>3, <2>5, BelowAll
  <2>7. /\ Below(hubPending \o r, "io_prepare", "io_post", 1 - configLock')
        /\ Total(hubPending \o r, "io_prepare", "io_post")
             = 0 + Total(r, "io_prepare", "io_post")
    BY <1>0, <1>2, <2>4, <2>5, <2>6, BelowConcat
  <2>8. Begun' = Begun + 1 /\ Begun \in Int
    BY <1>4, <1>6, <2>1, <2>2, <2>7 DEF Begun
  <2>9. Views' <= Views
    <3>1. Number(hubPending \o r, "config_view")
            = Number(hubPending, "config_view") + Number(r, "config_view")
      BY <1>0, <1>2, NumberConcat
    <3>2. Number(<<>>, "config_view") = 0
      BY NumberSmall
    <3>3. /\ Number(msgQueue, "collect_config_req") \in Nat
          /\ Number(msgQueue, "collect_config_resp") \in Nat
          /\ Number(r, "config_view") \in Nat /\ Number(hubPending, "config_view") \in Nat
      BY <1>6
    <3> QED BY <1>5, <2>1, <2>2, <3>1, <3>2, <3>3 DEF Views
  <2>10. configLock' + Begun' <= configLock + Begun
    BY <1>0, <2>1, <2>8
  <2>11. lock
    BY <1>10, <2>1, <2>7, <2>9, <2>10
  <2>12. echo
    BY <1>8, <1>9, <2>1 DEF echo, StartsIdle, EchoFirst
  <2>13. OnlyCollecting'
    BY <1>0, <1>7, <2>1 DEF OnlyCollecting
  <2> QED BY <2>11, <2>12, <2>13
<1>24. CASE HubChange
  <2> DEFINE m == Record("report_delete", FALSE, FALSE, 0)
  <2>1. /\ e.type = "change" /\ hubQueue' = r
        /\ UNCHANGED <<hubAst, hubPending, hubStatus, configLock>>
        /\ UNCHANGED msgQueue \/ msgQueue' = Append(msgQueue, m)
    BY <1>24 DEF HubChange, HubHandles, HubEvent, e, r
  <2>2. m \in Messages
    BY RecordTyped, ZeroSession DEF Messages
  <2>3. m.type = "report_delete"
    BY Zenon DEF Record
  <2> HIDE DEF m
  <2>4. m \notin ForHub
    BY <2>3 DEF ForHub
  <2>5. Views' <= Views
    BY <1>12, <2>1, <2>2, <2>3
  <2>6. lock
    BY <1>11, <2>1, <2>2, <2>3, <2>4, <2>5
  <2>7. echo
    BY <1>13, <2>1, <2>2, <2>4
  <2> QED BY <1>8, <2>1, <2>6, <2>7 DEF OnlyCollecting
<1> QED
  BY <1>15, <1>16, <1>17, <1>18, <1>20, <1>21, <1>22, <1>23, <1>24 DEF HubStep

\* A message that the HUB is handed means there what it meant on its way.
LEMMA ForwardedBits ==
    ASSUME NEW m \in Messages, m.type \in DOMAIN ToHub
    PROVE  LET e == [m EXCEPT !.type = ToHub[m.type]]
           IN  /\ Bit(e.type = "io_prepare") = Bit(m.type = "collect_OBJ_prepare")
               /\ Bit(e.type = "io_post") = Bit(m.type = "collect_OBJ_post")
               /\ Bit(e.type = "config_view") = Bit(m.type = "collect_config_req")
               /\ m.type # "collect_config_resp"
<1> DEFINE e == [m EXCEPT !.type = ToHub[m.type]]
<1>1. e.type = ToHub[m.type]
  BY ForwardedIs
<1> HIDE DEF e
<1>2. /\ e.type = "io_prepare" <=> m.type = "collect_OBJ_prepare"
      /\ e.type = "io_post" <=> m.type = "collect_OBJ_post"
      /\ e.type = "config_view" <=> m.type = "collect_config_req"
      /\ m.type # "collect_config_resp"
  BY <1>1 DEF ToHub
<1> QED BY <1>2 DEF Bit, e

LEMMA MsgFirst ==
    ASSUME TypeOK, TypeOK', OneRequestAtATime, FirstInv, First, First', MsgStep
    PROVE  TakenOnce' /\ OnePhase' /\ PhasesEnd' /\ StartsIdle' /\ EchoFirst' /\ OnlyCollecting'
<1>0. /\ hubQueue \in Seq(HubEvents) /\ msgQueue \in Seq(Messages) /\ genQueue \in Seq(GenEvents)
      /\ hubPending \in Seq(HubEvents) /\ genPending \in Seq(GenEvents)
      /\ configLock \in Int /\ msgPc = "idle"
  BY DEF TypeOK, MsgTypeOK, HubTypeOK, GenTypeOK, OneRequestAtATime, First
<1>1. ForwardToHub \/ ForwardToGen
  <2>1. ~EnableFails /\ ~EnableSucceeds
    BY MsgSaysStatus DEF First, EnableFails, EnableSucceeds, MsgHandles, Msg, ControlMsgs
  <2>2. ~DisableBegin
    BY DEF First, DisableBegin
  <2> QED BY <1>0, <2>1, <2>2
          DEF MsgStep, GenStopBegin, GenStopEnd, ExeStopBegin, ExeStopEnd, DisableEnd
<1> DEFINE r == Tail(msgQueue)
           b == Bit(Msg.type = "collect_OBJ_prepare")
           c == Bit(Msg.type = "collect_OBJ_post")
           w == Bit(Msg.type = "collect_config_req")
           x == Bit(Msg.type = "collect_config_resp")
<1>2. /\ msgQueue # <<>> /\ msgQueue' = r
      /\ UNCHANGED <<hubPending, hubAst, hubStatus, configLock, genStatus, genPending, genPc,
                     genEv, session, astState>>
  BY <1>1 DEF ForwardToHub, ForwardToGen, MsgHandles, Msg, genVars, hubVars
<1>3. Msg \in Messages /\ Msg = Head(msgQueue) /\ r \in Seq(Messages)
  BY <1>0, <1>2, TailOfSeq DEF Msg
<1>4. b \in {0, 1} /\ c \in {0, 1} /\ w \in {0, 1} /\ x \in {0, 1} /\ b + c + w + x \in {0, 1}
  BY DEF Bit
<1>5. /\ Begun \in Int /\ ToBegin \in Int /\ Views \in Nat /\ Handling("resolve_config") \in Nat
      /\ 1 - configLock \in Int /\ 1 - configLock - Begun \in Int
  BY <1>0, ViewsNat
<1>6. /\ Below(r, "collect_OBJ_prepare", "collect_OBJ_post", 1 - configLock - Begun - b + c)
      /\ ToBegin = Total(r, "collect_OBJ_prepare", "collect_OBJ_post") + b - c
      /\ 0 <= 1 - configLock - Begun
      /\ 0 <= 1 - configLock - Begun - b + c
  <2>1. Below(msgQueue, "collect_OBJ_prepare", "collect_OBJ_post", 1 - configLock - Begun)
    BY DEF FirstInv, TakenOnce
  <2>2. /\ Below(r, "collect_OBJ_prepare", "collect_OBJ_post", 1 - configLock - Begun - b + c)
        /\ ToBegin = Total(r, "collect_OBJ_prepare", "collect_OBJ_post") + b - c
    BY <1>0, <1>2, <1>3, <1>5, <2>1, BelowTail DEF ToBegin
  <2>3. 0 <= 1 - configLock - Begun
    BY <1>0, <1>5, <2>1, BelowAll
  <2>4. 1 - configLock - Begun - b + c \in Int
    BY <1>4, <1>5
  <2>5. 0 <= 1 - configLock - Begun - b + c
    BY <1>3, <2>2, <2>4, BelowAll
  <2> QED BY <2>2, <2>3, <2>5
<1>7. /\ Number(msgQueue, "collect_config_req") = w + Number(r, "collect_config_req")
      /\ Number(msgQueue, "collect_config_resp") = x + Number(r, "collect_config_resp")
  BY <1>0, <1>2, <1>3, NumberTail
<1>8. \A type : /\ Number(r, type) \in Nat /\ Number(hubQueue, type) \in Nat
                /\ Number(hubPending, type) \in Nat /\ Number(genQueue, type) \in Nat
                /\ Number(genPending, type) \in Nat
  BY <1>0, <1>3, NumberIs
<1>9. Total(r, "collect_OBJ_prepare", "collect_OBJ_post") \in Int
  <2>1. Number(r, "collect_OBJ_prepare") \in Nat /\ Number(r, "collect_OBJ_post") \in Nat
    BY <1>8
  <2> QED BY <2>1 DEF Total
<1>10. StartsIdle' /\ OnlyCollecting' /\ PhasesEnd'
  BY <1>2 DEF FirstInv, StartsIdle, OnlyCollecting, PhasesEnd, Acted
<1> HIDE DEF r, b, c, w, x
<1>11. CASE ForwardToHub
  <2> DEFINE e == [Msg EXCEPT !.type = ToHub[Msg.type]]
  <2>1. hubQueue' = Append(hubQueue, e) /\ UNCHANGED genQueue /\ Msg.type \in DOMAIN ToHub
    BY <1>11 DEF ForwardToHub, MsgHandles, Msg, genVars
  <2>2. /\ e \in HubEvents
        /\ e \in Talk <=> Msg \in ForHub
        /\ e.type = "enable_ast_echo" <=> Msg.type = "ast_enabled"
    BY <1>3, <2>1, ForwardedIs
  <2>3. /\ Bit(e.type = "io_prepare") = b /\ Bit(e.type = "io_post") = c
        /\ Bit(e.type = "config_view") = w /\ Msg.type # "collect_config_resp"
    BY <1>3, <2>1, ForwardedBits DEF b, c, w
  <2>4. x = 0
    BY <2>3 DEF x, Bit
  <2> HIDE DEF e
  <2>5. b <= 1 - configLock - Begun
    BY <1>0, <1>4, <1>5, <1>6
  <2>6. /\ Below(hubQueue', "io_prepare", "io_post", 1 - configLock)
        /\ Begun' = Begun + b - c
    <3>1. Below(hubQueue, "io_prepare", "io_post", 1 - configLock)
      BY DEF FirstInv, TakenOnce
    <3>2. Bit(e.type = "io_prepare") <= 1 - configLock - Total(hubQueue, "io_prepare", "io_post")
      BY <2>3, <2>5 DEF Begun
    <3>3. /\ Below(Append(hubQueue, e), "io_prepare", "io_post", 1 - configLock)
          /\ Total(Append(hubQueue, e), "io_prepare", "io_post") = Begun + b - c
      BY <1>0, <1>5, <2>2, <2>3, <3>1, <3>2, BelowAppend DEF Begun
    <3> QED BY <2>1, <3>3 DEF Begun
  <2>7. Below(msgQueue', "collect_OBJ_prepare", "collect_OBJ_post", 1 - configLock - Begun')
    <3>1. 1 - configLock - (Begun + b - c) = 1 - configLock - Begun - b + c
      BY <1>0, <1>4, <1>5
    <3>2. Below(r, "collect_OBJ_prepare", "collect_OBJ_post", 1 - configLock - (Begun + b - c))
      BY <1>6, <3>1
    <3> QED BY <1>2, <2>6, <3>2
  <2>8. TakenOnce'
    BY <1>2, <2>6, <2>7 DEF TakenOnce
  <2>9. Views' = Views
    <3>1. Number(Append(hubQueue, e), "config_view") = Number(hubQueue, "config_view") + w
      BY <1>0, <2>2, <2>3, NumberAppend
    <3>2. Views = w + Number(r, "collect_config_req") + Number(hubQueue, "config_view")
                  + Number(hubPending, "config_view") + (0 + Number(r, "collect_config_resp"))
      BY <1>7, <2>4 DEF Views
    <3>3. Views' = Number(r, "collect_config_req") + (Number(hubQueue, "config_view") + w)
                  + Number(hubPending, "config_view") + Number(r, "collect_config_resp")
      BY <1>2, <2>1, <3>1 DEF Views
    <3> QED BY <1>4, <1>8, <3>2, <3>3
  <2>10. OnePhase'
    <3>1. ToBegin' = Total(r, "collect_OBJ_prepare", "collect_OBJ_post")
      BY <1>2 DEF ToBegin
    <3>2. Handling("resolve_config")' = Handling("resolve_config")
      BY <1>2, <2>1 DEF Handling, GenOn
    <3>3. Phase' = configLock + (Begun + b - c)
                   + Total(r, "collect_OBJ_prepare", "collect_OBJ_post")
                   + Views + Handling("resolve_config")
      BY <1>2, <2>6, <2>9, <3>1, <3>2 DEF Phase
    <3>4. Phase' = Phase
      BY <1>0, <1>4, <1>5, <1>6, <1>9, <3>3 DEF Phase
    <3> QED BY <1>2, <3>4 DEF FirstInv, OnePhase
  <2>11. EchoFirst'
    <3> SUFFICES ASSUME hubAst = "enabling"
                 PROVE  /\ Behind(hubQueue', "enable_ast_echo", Talk)
                        /\ ~Has(hubQueue', "enable_ast_echo") =>
                              Behind(msgQueue', "ast_enabled", ForHub)
      BY <1>2 DEF EchoFirst
    <3>1. /\ Behind(hubQueue, "enable_ast_echo", Talk)
          /\ ~Has(hubQueue, "enable_ast_echo") => Behind(msgQueue, "ast_enabled", ForHub)
      BY DEF FirstInv, EchoFirst
    <3>2. ~Has(hubQueue, "enable_ast_echo") =>
             /\ Msg \notin ForHub
             /\ Msg.type # "ast_enabled" => Behind(msgQueue', "ast_enabled", ForHub)
      BY <1>0, <1>2, <1>3, <3>1, BehindTail DEF r
    <3>3. Behind(hubQueue', "enable_ast_echo", Talk)
      BY <1>0, <2>1, <2>2, <3>1, <3>2, BehindAppend
    <3>4. Has(hubQueue', "enable_ast_echo") <=>
             Has(hubQueue, "enable_ast_echo") \/ e.type = "enable_ast_echo"
      BY <1>0, <2>1, <2>2, HasAppendTail
    <3> QED BY <2>2, <3>2, <3>3, <3>4
  <2> QED BY <1>10, <2>8, <2>10, <2>11
<1>12. CASE ForwardToGen
  <2> DEFINE e == [Msg EXCEPT !.type = ToGen[Msg.type]]
  <2>1. genQueue' = Append(genQueue, e) /\ UNCHANGED hubQueue /\ Msg.type \in DOMAIN ToGen
    BY <1>12 DEF ForwardToGen, MsgHandles, Msg, hubVars
  <2>2. \/ Msg.type = "collect_config_resp" /\ ToGen[Msg.type] = "resolve_config"
        \/ Msg.type = "collect_OBJ_resp" /\ ToGen[Msg.type] = "resolve_OBJ_io"
        \/ Msg.type = "report_delete" /\ ToGen[Msg.type] = "resolve_deleted"
    BY <2>1 DEF ToGen
  <2>3. e \in GenEvents
    BY <1>3, <2>2, RecordFields DEF Messages, GenEvents
  <2>4. e.type = ToGen[Msg.type]
    BY <1>3 DEF Messages, RecordOf
  <2> HIDE DEF e
  <2>5. b = 0 /\ c = 0 /\ w = 0 /\ Bit(e.type = "resolve_config") = x
    BY <2>2, <2>4 DEF b, c, w, x, Bit
  <2>6. Begun' = Begun
    BY <2>1 DEF Begun
  <2>7. TakenOnce'
    <3>1. 1 - configLock - Begun - 0 + 0 = 1 - configLock - Begun
      BY <1>5
    <3>2. Below(r, "collect_OBJ_prepare", "collect_OBJ_post", 1 - configLock - Begun)
      BY <1>6, <2>5, <3>1
    <3> QED BY <1>2, <2>1, <2>6, <3>2 DEF FirstInv, TakenOnce
  <2>8. Handling("resolve_config")' = Handling("resolve_config") + x
    <3>1. Number(Append(genQueue, e), "resolve_config") = Number(genQueue, "resolve_config") + x
      BY <1>0, <2>3, <2>5, NumberAppend
    <3>2. Handling("resolve_config") = Number(genQueue, "resolve_config")
             + Number(genPending, "resolve_config") + Bit(GenOn({"resolve_config"}))
      BY DEF Handling
    <3>3. Handling("resolve_config")' = (Number(genQueue, "resolve_config") + x)
             + Number(genPending, "resolve_config") + Bit(GenOn({"resolve_config"}))
      BY <1>2, <2>1, <3>1 DEF Handling, GenOn
    <3>4. Bit(GenOn({"resolve_config"})) \in {0, 1}
      BY DEF Bit
    <3> QED BY <1>4, <1>8, <3>2, <3>3, <3>4
  <2>9. Views' = Views - x
    <3>2. Views = 0 + Number(r, "collect_config_req") + Number(hubQueue, "config_view")
                  + Number(hubPending, "config_view") + (x + Number(r, "collect_config_resp"))
      BY <1>7, <2>5 DEF Views
    <3>3. Views' = Number(r, "collect_config_req") + Number(hubQueue, "config_view")
                  + Number(hubPending, "config_view") + Number(r, "collect_config_resp")
      BY <1>2, <2>1 DEF Views
    <3> QED BY <1>4, <1>8, <3>2, <3>3
  <2>10. ToBegin' = ToBegin
    BY <1>2, <1>6, <1>9, <2>5 DEF ToBegin
  <2>11. OnePhase'
    <3>1. Phase' = configLock + Begun + ToBegin + (Views - x) + (Handling("resolve_config") + x)
      BY <1>2, <2>6, <2>8, <2>9, <2>10 DEF Phase
    <3>2. Phase' = Phase
      BY <1>0, <1>4, <1>5, <3>1 DEF Phase
    <3> QED BY <1>2, <3>2 DEF FirstInv, OnePhase
  <2>12. EchoFirst'
    <3>1. Behind(msgQueue, "ast_enabled", ForHub) => Behind(msgQueue', "ast_enabled", ForHub)
      <4>1. Msg.type # "ast_enabled"
        BY <2>2
      <4> QED BY <1>0, <1>2, <1>3, <4>1, BehindTail DEF r
    <3> QED BY <1>2, <2>1, <3>1 DEF FirstInv, EchoFirst
  <2> QED BY <1>10, <2>7, <2>11, <2>12
<1> QED BY <1>1, <1>11, <1>12

\* There is no thread before AST is enabled for the first time.
LEMMA NobodyThere ==
    ASSUME TypeOK, NotYetMade, session = 0, NEW t \in Threads
    PROVE  ~GenStep(t) /\ ~ExeStep(t)
<1>1. GenStep(t) => genPc[t] \notin Gone
  BY GenMove DEF GenMoves
<1>2. ExeStep(t) => exePc[t] \notin Gone
  BY ExeMove DEF ExeMoves
<1>3. t > session
  BY BoundsAssumption DEF Threads, BoundsAssumption
<1> QED BY <1>1, <1>2, <1>3 DEF NotYetMade, Gone

LEMMA UnbornMsg ==
    ASSUME TypeOK, OneRequestAtATime, Unborn, session = 0, session' = 0, MsgStep
    PROVE  Unborn'
<1>0. /\ hubQueue \in Seq(HubEvents) /\ msgQueue \in Seq(Messages) /\ session \in Sessions
      /\ msgPc = "idle" /\ astState \in {"none", "enabling"}
      /\ configLock = 0 /\ hubStatus = "running" /\ hubPending = <<>>
      /\ None(hubQueue, Talk) /\ None(msgQueue, ForHub) /\ None(msgQueue, ForAst)
  BY DEF TypeOK, MsgTypeOK, HubTypeOK, Unborn
<1>1. ForwardToHub \/ ForwardToGen \/ EnableFails
  <2>1. ~DisableBegin
    BY <1>0, MsgSaysStatus DEF DisableBegin, MsgHandles, Msg, ControlMsgs
  <2>2. ~EnableSucceeds
    BY DEF EnableSucceeds
  <2> QED BY <1>0, <2>1, <2>2
          DEF MsgStep, GenStopBegin, GenStopEnd, ExeStopBegin, ExeStopEnd, DisableEnd
<1>2. msgQueue # <<>> /\ Msg = Head(msgQueue)
  BY <1>1 DEF ForwardToHub, ForwardToGen, EnableFails, MsgHandles, Msg
<1>3. /\ None(Tail(msgQueue), ForHub) /\ None(Tail(msgQueue), ForAst)
      /\ Msg \notin ForHub /\ Msg \in Messages /\ Tail(msgQueue) \in Seq(Messages)
  BY <1>0, <1>2, NoneTail, TailOfSeq
<1>4. CASE ForwardToHub
  <2> DEFINE e == [Msg EXCEPT !.type = ToHub[Msg.type]]
  <2>1. /\ hubQueue' = Append(hubQueue, e) /\ Msg.type \in DOMAIN ToHub
        /\ msgQueue' = Tail(msgQueue)
        /\ UNCHANGED <<msgPc, astState, configLock, hubStatus, hubPending>>
    BY <1>4 DEF ForwardToHub, MsgHandles, Msg
  <2>2. e \in HubEvents /\ e \notin Talk
    BY <1>3, <2>1, ForwardedIs
  <2> HIDE DEF e
  <2>3. None(hubQueue', Talk)
    BY <1>0, <2>1, <2>2, NoneAppend
  <2> QED BY <1>0, <1>3, <2>1, <2>3 DEF Unborn
<1>5. CASE ForwardToGen
  <2>1. /\ msgQueue' = Tail(msgQueue)
        /\ UNCHANGED <<hubQueue, msgPc, astState, configLock, hubStatus, hubPending>>
    BY <1>5 DEF ForwardToGen, hubVars
  <2> QED BY <1>0, <1>3, <2>1 DEF Unborn
<1>6. CASE EnableFails
  <2> DEFINE m == Record("ast_enabled", FALSE, FALSE, session)
  <2>1. /\ msgQueue' = Append(Tail(msgQueue), m) /\ astState' \in {"none", "enabling"}
        /\ UNCHANGED <<hubQueue, msgPc, configLock, hubStatus, hubPending>>
    BY <1>0, <1>6 DEF EnableFails, hubVars
  <2>2. m \in Messages
    BY <1>0, RecordTyped DEF Messages
  <2>3. m.type = "ast_enabled"
    BY Zenon DEF Record
  <2> HIDE DEF m
  <2>4. m \notin ForHub /\ m \notin ForAst
    BY <2>3 DEF ForHub, ForAst
  <2>5. None(Append(Tail(msgQueue), m), ForHub) /\ None(Append(Tail(msgQueue), m), ForAst)
    BY <1>3, <2>2, <2>4, NoneAppend
  <2> QED BY <1>0, <2>1, <2>5 DEF Unborn
<1> QED BY <1>1, <1>4, <1>5, <1>6

LEMMA UnbornHub ==
    ASSUME TypeOK, OneRequestAtATime, Unborn, session = 0, session' = 0,
           HubStep \/ LaunchEnable \/ LaunchDisable \/ LaunchChange
    PROVE  Unborn'
<1>0. /\ hubQueue \in Seq(HubEvents) /\ msgQueue \in Seq(Messages) /\ session \in Sessions
      /\ msgPc = "idle" /\ astState \in {"none", "enabling"}
      /\ configLock = 0 /\ hubStatus = "running" /\ hubPending = <<>>
      /\ None(hubQueue, Talk) /\ None(msgQueue, ForHub) /\ None(msgQueue, ForAst)
  BY DEF TypeOK, MsgTypeOK, HubTypeOK, Unborn
<1>1. \A type : /\ Sent(type).type = type
                /\ type \in {"enable_ast", "disable_ast"} =>
                      Sent(type) \in Messages /\ Sent(type) \notin ForHub \cup ForAst
  <2>1. \A type : Sent(type).type = type
    BY SentIs
  <2>2. Sent("enable_ast") \in Messages /\ Sent("disable_ast") \in Messages
    BY SentTyped DEF TypeOK
  <2> QED BY <2>1, <2>2 DEF ForHub, ForAst
<1>2. CASE HubStep
  <2>1. hubQueue # <<>> /\ UNCHANGED <<msgPc, astState>>
    BY <1>2 DEF HubStep, HubPend, HubEnable, HubDisable, HubEnableEcho, HubDisableEcho,
       HubConfigView, HubPrepare, HubCollect, HubPost, HubChange, HubHandles, hubFrame
  <2>2. /\ HubEvent \in HubEvents /\ HubEvent \notin Talk /\ HubEvent = Head(hubQueue)
        /\ Tail(hubQueue) \in Seq(HubEvents) /\ None(Tail(hubQueue), Talk)
    BY <1>0, <2>1, NoneTail, TailOfSeq DEF HubEvent
  <2>3. ~HubPend /\ ~HubConfigView /\ ~HubPrepare /\ ~HubCollect /\ ~HubPost /\ ~HubDisableEcho
    <3>1. ~HubPend
      BY <1>0 DEF HubPend, HubShouldPend
    <3>2. ~HubConfigView /\ ~HubPrepare /\ ~HubCollect /\ ~HubPost
      BY <2>2 DEF HubConfigView, HubPrepare, HubCollect, HubPost, HubHandles, HubEvent, Talk
    <3>3. ~HubDisableEcho
      BY <1>0, <2>1, EchoSaysStatus DEF HubDisableEcho, HubHandles, HubEvent, EchoEvents
    <3> QED BY <3>1, <3>2, <3>3
  <2>4. CASE HubEnableEcho
    <3>1. HubEvent.type = "enable_ast_echo"
      BY <2>4 DEF HubEnableEcho, HubHandles, HubEvent
    <3>2. ~HubEvent.ok
      BY <1>0, <2>1, <3>1, EchoSaysStatus DEF EchoEvents
    <3> QED BY <1>0, <2>1, <2>2, <2>4, <3>2 DEF HubEnableEcho, Unborn
  <2>5. CASE HubEnable
    <3>1. None(Append(Tail(hubQueue), HubEvent), Talk)
      BY <2>2, NoneAppend
    <3>2. hubQueue' = Append(Tail(hubQueue), HubEvent) \/ hubQueue' = Tail(hubQueue)
      BY <2>5 DEF HubEnable
    <3>3. None(<<Sent("enable_ast")>>, ForHub) /\ None(<<Sent("enable_ast")>>, ForAst)
      BY <1>1, NoneSmall
    <3>4. msgQueue' = <<Sent("enable_ast")>> \/ UNCHANGED msgQueue
      BY <2>5 DEF HubEnable
    <3>5. UNCHANGED <<configLock, hubStatus, hubPending>>
      BY <2>5 DEF HubEnable
    <3>6. None(hubQueue', Talk)
      BY <2>2, <3>1, <3>2
    <3>7. None(msgQueue', ForHub) /\ None(msgQueue', ForAst)
      BY <1>0, <3>3, <3>4
    <3> QED BY <1>0, <2>1, <3>5, <3>6, <3>7 DEF Unborn
  <2>6. CASE HubDisable
    <3>1. /\ None(Append(msgQueue, Sent("disable_ast")), ForHub)
          /\ None(Append(msgQueue, Sent("disable_ast")), ForAst)
      BY <1>0, <1>1, NoneAppend
    <3>2. hubQueue' = hubQueue \/ hubQueue' = Tail(hubQueue)
      BY <2>6 DEF HubDisable
    <3>4. msgQueue' = Append(msgQueue, Sent("disable_ast")) \/ UNCHANGED msgQueue
      BY <2>6 DEF HubDisable
    <3>5. UNCHANGED <<configLock, hubStatus, hubPending>>
      BY <2>6 DEF HubDisable
    <3>6. None(hubQueue', Talk)
      BY <1>0, <2>2, <3>2
    <3>7. None(msgQueue', ForHub) /\ None(msgQueue', ForAst)
      BY <1>0, <3>1, <3>4
    <3> QED BY <1>0, <2>1, <3>5, <3>6, <3>7 DEF Unborn
  <2>7. CASE HubChange
    <3> DEFINE m == Record("report_delete", FALSE, FALSE, 0)
    <3>1. /\ hubQueue' = Tail(hubQueue) /\ UNCHANGED <<configLock, hubStatus, hubPending>>
          /\ msgQueue' = Append(msgQueue, m) \/ UNCHANGED msgQueue
      BY <2>7 DEF HubChange
    <3>2. m \in Messages
      BY RecordTyped, ZeroSession DEF Messages
    <3>3. m.type = "report_delete"
      BY Zenon DEF Record
    <3> HIDE DEF m
    <3>4. m \notin ForHub /\ m \notin ForAst
      BY <3>3 DEF ForHub, ForAst
    <3>5. None(Append(msgQueue, m), ForHub) /\ None(Append(msgQueue, m), ForAst)
      BY <1>0, <3>2, <3>4, NoneAppend
    <3>6. None(msgQueue', ForHub) /\ None(msgQueue', ForAst)
      BY <1>0, <3>1, <3>5
    <3> QED BY <1>0, <2>1, <2>2, <3>1, <3>6 DEF Unborn
  <2> QED BY <1>2, <2>3, <2>4, <2>5, <2>6, <2>7 DEF HubStep
<1>3. ASSUME NEW type \in {"enable_ast", "disable_ast", "change"}, NEW flag \in BOOLEAN,
             NEW bound, Launch(bound, type, flag)
      PROVE  Unborn'
  <2> DEFINE e == Record(type, FALSE, flag, 0)
  <2>1. /\ hubQueue' = Append(hubQueue, e)
        /\ UNCHANGED <<msgQueue, msgPc, astState, configLock, hubStatus, hubPending>>
    BY <1>3 DEF Launch, msgVars
  <2>2. e \in HubEvents
    BY RecordTyped, ZeroSession DEF HubEvents
  <2>3. e.type = type
    BY Zenon DEF Record
  <2> HIDE DEF e
  <2>4. None(hubQueue', Talk)
    BY <1>0, <2>1, <2>2, <2>3, NoneAppend DEF Talk
  <2> QED BY <1>0, <2>1, <2>4 DEF Unborn
<1> QED BY <1>2, <1>3 DEF LaunchEnable, LaunchDisable, LaunchChange

\* Nothing of a conversation is there when the first session begins.
LEMMA FirstBegins ==
    ASSUME TypeOK, TypeOK', OneRequestAtATime, NotYetMade, Unborn, session = 0, EnableSucceeds
    PROVE  TakenOnce' /\ OnePhase' /\ PhasesEnd' /\ StartsIdle' /\ EchoFirst' /\ OnlyCollecting'
<1>0. /\ hubQueue \in Seq(HubEvents) /\ msgQueue \in Seq(Messages)
      /\ configLock = 0 /\ hubStatus = "running" /\ hubPending = <<>>
      /\ None(hubQueue, Talk) /\ None(msgQueue, ForHub) /\ None(msgQueue, ForAst)
      /\ genPc \in [Threads -> {"none", "idle", "check", "assert", "act", "drain", "exited"}]
  BY DEF TypeOK, MsgTypeOK, HubTypeOK, GenTypeOK, Unborn
<1> DEFINE m == Record("ast_enabled", TRUE, FALSE, session + 1)
           e == Record("collect_config", FALSE, FALSE, session + 1)
<1>1. /\ msgQueue # <<>> /\ msgQueue' = Append(Tail(msgQueue), m)
      /\ genQueue' = <<>> \o <<e>> /\ genPending' = <<>> /\ genStatus' = "running"
      /\ session' = 1 /\ genPc' = [genPc EXCEPT ![1] = "idle"]
      /\ UNCHANGED <<hubQueue, hubPending, hubAst, hubStatus, configLock>>
  BY DEF EnableSucceeds, MsgHandles, ResetThreads, Emptied, hubVars
<1>2. m \in Messages /\ e \in GenEvents
  <2>1. session + 1 \in Sessions
    BY BoundsAssumption DEF EnableSucceeds, Sessions, BoundsAssumption
  <2> QED BY <2>1, RecordTyped DEF Messages, GenEvents
<1>3. m.type = "ast_enabled" /\ e.type = "collect_config"
  BY Zenon DEF Record
<1>4. <<>> \o <<e>> = <<e>>
  BY <1>2
<1> HIDE DEF m, e
<1>5. None(msgQueue', ForHub) /\ None(msgQueue', ForAst) /\ msgQueue' \in Seq(Messages)
  <2>1. m \notin ForHub /\ m \notin ForAst
    BY <1>3 DEF ForHub, ForAst
  <2>2. /\ None(Tail(msgQueue), ForHub) /\ None(Tail(msgQueue), ForAst)
        /\ Tail(msgQueue) \in Seq(Messages)
    BY <1>0, <1>1, NoneTail, TailOfSeq
  <2>3. None(Append(Tail(msgQueue), m), ForHub) /\ None(Append(Tail(msgQueue), m), ForAst)
    BY <1>2, <2>1, <2>2, NoneAppend
  <2> QED BY <1>1, <2>3 DEF TypeOK, MsgTypeOK
<1>6. ASSUME NEW type \in {"config_view", "io_prepare", "io_post"}
      PROVE  Number(hubQueue, type) = 0
  <2>1. \A i \in DOMAIN hubQueue : hubQueue[i].type # type
    BY <1>0 DEF None, Talk
  <2> QED BY <1>0, <2>1, NumberWithout
<1>7. ASSUME NEW type \in {"collect_config_req", "collect_config_resp", "collect_OBJ_prepare",
                           "collect_OBJ_post"}
      PROVE  Number(msgQueue', type) = 0
  <2> DEFINE q == msgQueue'
  <2>1. \A i \in DOMAIN q : q[i].type # type
    BY <1>5 DEF None, ForHub, ForAst
  <2>2. q \in Seq(Messages)
    BY <1>5
  <2> HIDE DEF q
  <2>3. Number(q, type) = 0
    BY <2>1, <2>2, NumberWithout
  <2> QED BY <2>3 DEF q
<1>8. Begun' = 0 /\ ToBegin' = 0
  BY <1>1, <1>6, <1>7 DEF Begun, ToBegin, Total
<1>9. Handling("resolve_config")' = 0
  <2>1. Number(<<e>>, "resolve_config") = Bit(e.type = "resolve_config")
    BY <1>2, NumberSmall
  <2>2. Number(<<>>, "resolve_config") = 0
    BY NumberSmall
  <2>3. ~GenOn({"resolve_config"})'
    <3>1. 1 \in Threads
      BY BoundsAssumption DEF EnableSucceeds, Threads, BoundsAssumption
    <3>2. genPc'[1] = "idle"
      BY <1>0, <1>1, <3>1
    <3> QED BY <1>1, <3>2 DEF GenOn
  <2>4. Number(genQueue', "resolve_config") = 0
    BY <1>1, <1>3, <1>4, <2>1 DEF Bit
  <2> QED BY <1>1, <2>2, <2>3, <2>4 DEF Handling, Bit
<1>10. Views' = 0
  <2>1. Number(<<>>, "config_view") = 0
    BY NumberSmall
  <2> QED BY <1>0, <1>1, <1>6, <1>7, <2>1 DEF Views
<1>11. OnePhase'
  BY <1>0, <1>1, <1>8, <1>9, <1>10 DEF OnePhase, Phase, Bit
<1>12. TakenOnce'
  <2>1. Below(hubQueue, "io_prepare", "io_post", 1)
    BY <1>0, <1>6, BelowAll
  <2> DEFINE q == msgQueue'
  <2>2. q \in Seq(Messages) /\ Number(q, "collect_OBJ_prepare") = 0
    BY <1>5, <1>7
  <2> HIDE DEF q
  <2>3. Below(q, "collect_OBJ_prepare", "collect_OBJ_post", 1)
    BY <2>2, BelowAll
  <2>4. Below(msgQueue', "collect_OBJ_prepare", "collect_OBJ_post", 1)
    BY <2>3 DEF q
  <2> QED BY <1>0, <1>1, <1>8, <2>1, <2>4 DEF TakenOnce
<1>13. PhasesEnd'
  <2>1. \A u \in Threads : genPc'[u] \in {"none", "idle"}
    <3>1. \A u \in Threads : u > session
      BY BoundsAssumption DEF Threads, BoundsAssumption
    <3> QED BY <1>0, <1>1, <3>1 DEF NotYetMade
  <2> QED BY <2>1 DEF PhasesEnd, Acted
<1>14. StartsIdle' /\ EchoFirst' /\ OnlyCollecting'
  BY <1>0, <1>1, <1>5, NoneBehind DEF StartsIdle, EchoFirst, OnlyCollecting
<1> QED BY <1>11, <1>12, <1>13, <1>14

LEMMA FirstStep ==
    ASSUME TypeOK, TypeOK', OneRequestAtATime, NotYetMade, FirstInv, [Next]_vars
    PROVE  FirstInv'
<1>0. session \in Nat /\ Sessions \subseteq Nat
  BY BoundsAssumption DEF TypeOK, MsgTypeOK, Sessions, BoundsAssumption
<1>1. EnableSucceeds \/ (UNCHANGED session /\ (astState' = "enabled" => astState = "enabled"))
  <2>1. ASSUME NEW t \in Threads, GenStep(t) \/ ExeStep(t)
        PROVE  UNCHANGED <<session, astState>>
    BY <2>1, GenMove, ExeMove
  <2>2. MsgStep => EnableSucceeds \/ (UNCHANGED session
                                       /\ (astState' = "enabled" => astState = "enabled"))
    BY DEF MsgStep, ForwardToHub, ForwardToGen, EnableFails, DisableBegin,
       GenStopBegin, GenStopEnd, ExeStopBegin, ExeStopEnd, DisableEnd
  <2>3. HubStep => UNCHANGED <<session, astState>>
    BY DEF HubStep, HubPend, HubEnable, HubDisable, HubEnableEcho, HubDisableEcho,
       HubConfigView, HubPrepare, HubCollect, HubPost, HubChange, hubFrame
  <2>4. MigratorEcho \/ Tick \/ LaunchEnable \/ LaunchDisable \/ LaunchChange
         \/ UNCHANGED vars => UNCHANGED <<session, astState>>
    BY DEF MigratorEcho, exeFrame, Tick, LaunchEnable, LaunchDisable, LaunchChange, Launch,
       msgVars, vars
  <2> QED BY <2>1, <2>2, <2>3, <2>4 DEF Next
<1>2. Unborn'
  <2>1. CASE session' # 0
    BY <2>1 DEF Unborn
  <2>2. CASE session' = 0
    <3>1. session = 0
      <4>1. session + 1 # 0
        BY <1>0
      <4>2. EnableSucceeds => session' = session + 1
        BY DEF EnableSucceeds
      <4> QED BY <1>1, <2>2, <4>1, <4>2
    <3>2. CASE MsgStep
      BY <2>2, <3>1, <3>2, UnbornMsg DEF FirstInv
    <3>3. CASE HubStep \/ LaunchEnable \/ LaunchDisable \/ LaunchChange
      BY <2>2, <3>1, <3>3, UnbornHub DEF FirstInv
    <3>4. CASE MigratorEcho \/ Tick \/ UNCHANGED vars
      BY <3>4 DEF MigratorEcho, exeFrame, Tick, hubVars, msgVars, vars, Unborn, FirstInv
    <3> QED BY <3>1, <3>2, <3>3, <3>4, NobodyThere DEF Next
  <2> QED BY <2>1, <2>2
<1>3. PendsFew'
  BY PendsFewStep DEF FirstInv
<1>4. ASSUME First'
      PROVE  TakenOnce' /\ OnePhase' /\ PhasesEnd' /\ StartsIdle' /\ EchoFirst' /\ OnlyCollecting'
  <2>1. CASE First
    <3>1. ASSUME NEW t \in Threads, GenStep(t)
          PROVE  TakenOnce' /\ OnePhase' /\ PhasesEnd' /\ StartsIdle' /\ EchoFirst'
                 /\ OnlyCollecting'
      BY <2>1, <3>1, GenFirst
    <3> QED BY <1>4, <2>1, <3>1, MsgFirst, HubFirst, ElseFirst DEF Next
  <2>2. CASE ~First
    <3>1. EnableSucceeds
      BY <1>1, <1>4, <2>2 DEF First
    <3>2. session + 1 = 1
      BY <1>4, <3>1 DEF First, EnableSucceeds
    <3>3. session = 0
      BY <1>0, <3>2
    <3> QED BY <3>1, <3>3, FirstBegins DEF FirstInv
  <2> QED BY <2>1, <2>2
<1> QED BY <1>2, <1>3, <1>4 DEF FirstInv

\* In the first session, however requests, ticks, changes, answers and failures
\* interleave, the HUB thread does not wait for the lock that it took itself
\* when it began to collect (HUB::Handle, ET_hub_collect_io; HUB::AddDisk).
THEOREM HubServesAlways == Spec => []HubServesWhileEnabled
<1>1. Init => FirstInv
  BY NoneSmall DEF Init, FirstInv, Unborn, PendsFew, First
<1>2. TypeOK /\ OneRequestAtATime /\ FirstInv => HubServesWhileEnabled
  <2> SUFFICES ASSUME TypeOK, OneRequestAtATime, FirstInv, session = 1, hubAst = "enabled"
               PROVE  ~HubWaitsForItself
    BY DEF HubServesWhileEnabled
  <2>1. First
    BY DEF OneRequestAtATime, First
  <2>2. configLock \in Int /\ OnlyCollecting
    BY <2>1 DEF TypeOK, HubTypeOK, FirstInv
  <2> QED BY <2>2 DEF OnlyCollecting, HubWaitsForItself, HubShouldPend
<1> QED
  BY <1>1, <1>2, FirstStep, TypesHold, OneRequestHolds, NotYetMadeHolds, PTL DEF Spec
=============================================================================
