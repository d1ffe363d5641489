--------------------------- MODULE Conversations_proofs ---------------------------
(******************************************************************************)
(* Proofs about ASTCore: the conversation of generator and HUB in the first    *)
(* session, when nothing fails.                                                *)
(*                                                                             *)
(* First what each step does to the numbers of messages and events of the      *)
(* conversation (Moves, Works).  Then two invariants on top of those of        *)
(* ASTCore_proofs.  ConvInv: a collection begins before its first batch is     *)
(* asked for, whoever will give the lock of the configuration back finds it    *)
(* taken, and the generator is owed no more than it waits for.  Fitting: every *)
(* answer that comes before AST is disabled has a batch and says whether it is *)
(* the last one, so that the generator waits for no more than it is owed.      *)
(******************************************************************************)
EXTENDS ASTCore_proofs

-----------------------------------------------------------------------------
(* The conversation with the HUB in the first session when nothing fails:    *)
(* what every step does to the messages and events of it, in numbers.        *)

MsgTalk == {"collect_config_req", "collect_config_resp", "collect_OBJ_prepare",
            "collect_OBJ_normal", "collect_OBJ_post", "collect_OBJ_resp"}
HubTalk == {"config_view", "io_prepare", "io_normal", "io_post"}
GenTalk == {"resolve_config", "resolve_OBJ_io"}

\* Prepares, requests for a batch and posts on their way; answers with a batch on
\* their way, and those that the generator has not resolved yet.
Preps   == Number(msgQueue, "collect_OBJ_prepare") + Number(hubQueue, "io_prepare")
Asks    == Number(msgQueue, "collect_OBJ_normal") + Number(hubQueue, "io_normal")
Posts   == Number(msgQueue, "collect_OBJ_post") + Number(hubQueue, "io_post")
Heard   == Number(msgQueue, "collect_OBJ_resp")
Reading == Handling("resolve_OBJ_io")
\* All that the generator is owed.
Owing   == Views + Handling("resolve_config") + Asks + Heard + Reading

\* What a step adds to the counts.
Moves(v, p, a, h, o) ==
    /\ Views' = Views + v /\ Preps' = Preps + p /\ Asks' = Asks + a
    /\ Heard' = Heard + h /\ Posts' = Posts + o
Works(c, r) ==
    /\ Handling("resolve_config")' = Handling("resolve_config") + c
    /\ Reading' = Reading + r

LEMMA CountsNat ==
    ASSUME TypeOK
    PROVE  /\ Views \in Nat /\ Preps \in Nat /\ Asks \in Nat /\ Heard \in Nat /\ Posts \in Nat
           /\ Handling("resolve_config") \in Nat /\ Reading \in Nat /\ configLock \in Int
           /\ Owing \in Nat
<1>1. \A type : Number(msgQueue, type) \in Nat /\ Number(hubQueue, type) \in Nat
  BY NumberIs DEF TypeOK, MsgTypeOK, HubTypeOK
<1>2. /\ Preps \in Nat /\ Asks \in Nat /\ Heard \in Nat /\ Posts \in Nat
  BY <1>1 DEF Preps, Asks, Heard, Posts
<1>3. Views \in Nat /\ Handling("resolve_config") \in Nat /\ Reading \in Nat /\ configLock \in Int
  BY ViewsNat DEF Reading
<1> QED BY <1>2, <1>3 DEF Owing

\* The queues hold as many elements of each of the types.
SameIn(p, q, types) == \A type \in types : Number(q, type) = Number(p, type)

LEMMA SameSelf == ASSUME NEW q, NEW types PROVE SameIn(q, q, types)
BY DEF SameIn

LEMMA SameAppend ==
    ASSUME NEW S, NEW q \in Seq(S), NEW e \in S, NEW types, e.type \notin types
    PROVE  SameIn(q, Append(q, e), types)
<1> SUFFICES ASSUME NEW type \in types
             PROVE  Number(Append(q, e), type) = Number(q, type)
  BY DEF SameIn
<1>1. Number(Append(q, e), type) = Number(q, type) + Bit(e.type = type)
  BY NumberAppend
<1>2. Bit(e.type = type) = 0 /\ Number(q, type) \in Nat
  BY NumberIs DEF Bit
<1> QED BY <1>1, <1>2

LEMMA SameTail ==
    ASSUME NEW S, NEW q \in Seq(S), q # <<>>, NEW types, Head(q).type \notin types
    PROVE  SameIn(q, Tail(q), types)
<1> SUFFICES ASSUME NEW type \in types
             PROVE  Number(Tail(q), type) = Number(q, type)
  BY DEF SameIn
<1>1. Number(q, type) = Bit(Head(q).type = type) + Number(Tail(q), type)
  BY NumberTail
<1>2. Bit(Head(q).type = type) = 0 /\ Number(Tail(q), type) \in Nat
  BY TailOfSeq, NumberIs DEF Bit
<1> QED BY <1>1, <1>2

LEMMA SameFront ==
    ASSUME NEW S, NEW q \in Seq(S), NEW e \in S, NEW types, e.type \notin types
    PROVE  SameIn(q, <<e>> \o q, types)
<1> SUFFICES ASSUME NEW type \in types
             PROVE  Number(<<e>> \o q, type) = Number(q, type)
  BY DEF SameIn
<1> DEFINE p == <<e>>
<1>1. p \in Seq(S) /\ Number(p, type) = Bit(e.type = type)
  BY NumberSmall
<1> HIDE DEF p
<1>2. Number(p \o q, type) = Number(p, type) + Number(q, type)
  BY <1>1, NumberConcat
<1>3. Bit(e.type = type) = 0 /\ Number(q, type) \in Nat
  BY NumberIs DEF Bit
<1> QED BY <1>1, <1>2, <1>3 DEF p

\* Other messages and events are not counted.
LEMMA NothingMoves ==
    ASSUME TypeOK, SameIn(msgQueue, msgQueue', MsgTalk), SameIn(hubQueue, hubQueue', HubTalk),
           UNCHANGED hubPending
    PROVE  Moves(0, 0, 0, 0, 0)
<1>1. \A type \in MsgTalk : Number(msgQueue', type) = Number(msgQueue, type)
  BY DEF SameIn
<1>2. \A type \in HubTalk : Number(hubQueue', type) = Number(hubQueue, type)
  BY DEF SameIn
<1>3. /\ Views' = Views /\ Preps' = Preps /\ Asks' = Asks /\ Heard' = Heard /\ Posts' = Posts
  BY <1>1, <1>2 DEF MsgTalk, HubTalk, Views, Preps, Asks, Heard, Posts
<1> QED BY <1>3, CountsNat DEF Moves

LEMMA NothingWorks ==
    ASSUME TypeOK, SameIn(genQueue, genQueue', GenTalk), SameIn(genPending, genPending', GenTalk),
           UNCHANGED <<genPc, genEv, session>>
    PROVE  Works(0, 0)
<1>1. \A type \in GenTalk : /\ Number(genQueue', type) = Number(genQueue, type)
                            /\ Number(genPending', type) = Number(genPending, type)
  BY DEF SameIn
<1>2. Handling("resolve_config")' = Handling("resolve_config") /\ Reading' = Reading
  BY <1>1 DEF GenTalk, Handling, Reading, GenOn
<1> QED BY <1>2, CountsNat DEF Works

-----------------------------------------------------------------------------
\* What the generator does, if nothing fails.
GenDoes(t) ==
    \/ /\ Moves(0, 0, 0, 0, 0) /\ Works(0, 0)
       /\ genStatus' = genStatus \/ (Acted(t, "advise") /\ genStatus' = "advising_done")
    \/ Moves(1, 0, 0, 0, 0) /\ Works(0, 0) /\ Learns(t)
    \/ Moves(0, 1, 1, 0, 0) /\ Works(-1, 0) /\ AsksForIO(t)
    \/ /\ Acted(t, "resolve_OBJ_io") /\ Works(0, -1)
       /\ \/ Moves(0, 0, 0, 0, 1) /\ ~genEv[t].ok /\ genStatus' = genStatus
          \/ Moves(0, 0, 0, 0, 1) /\ genEv[t].ok /\ genStatus' \in {"advising", "learning_done"}
          \/ Moves(0, 0, 1, 0, 0) /\ genEv[t].ok /\ ~genEv[t].flag /\ genStatus' = genStatus

LEMMA GenFrame ==
    ASSUME NEW t \in Threads, GenStep(t)
    PROVE  UNCHANGED <<hubVars, hubQueue, hubPending, hubAst, hubStatus, configLock, objs,
                       toCollect, collected, session, astState>>
BY DEF GenStep, GenDequeue, GenCheck, GenAssert, GenCollectConfig, GenResolveConfig,
       GenResolveIO, GenResolveDeleted, GenAdvise, GenDrain, GenStop, genFrame, hubVars

LEMMA GenCounts ==
    ASSUME NothingFails, TypeOK, NeverNoop, NeverNoop', NEW t \in Threads, t = session, GenStep(t)
    PROVE  GenDoes(t)
<1>1. PICK new : \E c, r, n, p \in BOOLEAN : Speaks(t, new, c, r, n, p)
  BY GenSpeaks
<1>2. PICK c \in BOOLEAN, r \in BOOLEAN, n \in BOOLEAN, p \in BOOLEAN :
         Speaks(t, new, c, r, n, p)
  BY <1>1
<1>3. /\ new \in Seq(Messages) /\ msgQueue' = msgQueue \o new
      /\ Number(new, "collect_config_req") = Bit(c)
      /\ Number(new, "collect_OBJ_prepare") = Bit(r)
      /\ Number(new, "collect_OBJ_normal") = Bit(r \/ n)
      /\ Number(new, "collect_OBJ_post") = Bit(p)
      /\ Number(new, "collect_config_resp") = 0
      /\ Number(new, "collect_OBJ_resp") = 0
  <2>1. /\ new \in Seq(Messages) /\ msgQueue' = msgQueue \o new
        /\ \A type : Number(new, type) =
              Bit(c /\ type = "collect_config_req") + Bit(r /\ type = "collect_OBJ_prepare")
              + Bit((r \/ n) /\ type = "collect_OBJ_normal") + Bit(p /\ type = "collect_OBJ_post")
    BY <1>2 DEF Speaks, Says
  <2> QED BY <2>1 DEF Bit
<1>4. UNCHANGED <<hubQueue, hubPending>> /\ msgQueue \in Seq(Messages)
  BY GenFrame DEF TypeOK, MsgTypeOK
<1>5. \A type : /\ Number(msgQueue', type) = Number(msgQueue, type) + Number(new, type)
                /\ Number(msgQueue, type) \in Nat
  <2> SUFFICES ASSUME NEW type
               PROVE  /\ Number(msgQueue', type) = Number(msgQueue, type) + Number(new, type)
                      /\ Number(msgQueue, type) \in Nat
    OBVIOUS
  <2>1. Number(msgQueue \o new, type) = Number(msgQueue, type) + Number(new, type)
    BY <1>3, <1>4, NumberConcat
  <2> QED BY <1>3, <1>4, <2>1, NumberIs
<1>6. \A type : Number(hubQueue, type) \in Nat /\ Number(hubPending, type) \in Nat
  BY NumberIs DEF TypeOK, HubTypeOK
<1>7. Bit(c) \in {0, 1} /\ Bit(r) \in {0, 1} /\ Bit(r \/ n) \in {0, 1} /\ Bit(p) \in {0, 1}
  BY DEF Bit
<1>8. Moves(Bit(c), Bit(r), Bit(r \/ n), 0, Bit(p))
  <2>1. Views' = Views + Bit(c)
    BY <1>3, <1>4, <1>5, <1>6, <1>7 DEF Views
  <2>2. Preps' = Preps + Bit(r)
    BY <1>3, <1>4, <1>5, <1>6, <1>7 DEF Preps
  <2>3. Asks' = Asks + Bit(r \/ n)
    BY <1>3, <1>4, <1>5, <1>6, <1>7 DEF Asks
  <2>4. Posts' = Posts + Bit(p)
    BY <1>3, <1>4, <1>5, <1>6, <1>7 DEF Posts
  <2>5. Heard' = Heard + 0
    BY <1>3, <1>5 DEF Heard
  <2> QED BY <2>1, <2>2, <2>3, <2>4, <2>5 DEF Moves
<1>9. Works(0 - Bit(Acted(t, "resolve_config")), 0 - Bit(Acted(t, "resolve_OBJ_io")))
  <2>1. \A type : Handling(type)' = Handling(type) - Bit(Acted(t, type))
    BY GenHandles
  <2>2. Bit(Acted(t, "resolve_config")) \in {0, 1} /\ Bit(Acted(t, "resolve_OBJ_io")) \in {0, 1}
    BY DEF Bit
  <2> QED BY <2>1, <2>2, CountsNat DEF Works, Reading
<1>10. genStatus # "noop" /\ genStatus' # "noop" /\ FALSE \notin ResolveResults
  BY DEF NeverNoop, NothingFails
<1>11. CASE SaysNothing(t) /\ ~c /\ ~r /\ ~n /\ ~p
  <2>1. Bit(c) = 0 /\ Bit(r) = 0 /\ Bit(r \/ n) = 0 /\ Bit(p) = 0
    BY <1>11 DEF Bit
  <2>2. Bit(Acted(t, "resolve_config")) = 0 /\ Bit(Acted(t, "resolve_OBJ_io")) = 0
    BY <1>11 DEF SaysNothing, Bit, Acted
  <2>3. Moves(0, 0, 0, 0, 0) /\ Works(0, 0)
    BY <1>8, <1>9, <2>1, <2>2
  <2> QED BY <1>11, <2>3 DEF GenDoes, SaysNothing
<1>12. CASE Learns(t) /\ c /\ ~r /\ ~n /\ ~p
  <2>1. Bit(c) = 1 /\ Bit(r) = 0 /\ Bit(r \/ n) = 0 /\ Bit(p) = 0
    BY <1>12 DEF Bit
  <2>2. Bit(Acted(t, "resolve_config")) = 0 /\ Bit(Acted(t, "resolve_OBJ_io")) = 0
    BY <1>12 DEF Learns, Bit, Acted
  <2>3. Moves(1, 0, 0, 0, 0) /\ Works(0, 0)
    BY <1>8, <1>9, <2>1, <2>2
  <2> QED BY <1>12, <2>3 DEF GenDoes
<1>13. CASE AsksForIO(t) /\ ~c /\ r /\ ~n /\ ~p
  <2>1. Bit(c) = 0 /\ Bit(r) = 1 /\ Bit(r \/ n) = 1 /\ Bit(p) = 0
    BY <1>13 DEF Bit
  <2>2. Bit(Acted(t, "resolve_config")) = 1 /\ Bit(Acted(t, "resolve_OBJ_io")) = 0
    BY <1>13 DEF AsksForIO, Bit, Acted
  <2>3. Moves(0, 1, 1, 0, 0) /\ Works(-1, 0)
    BY <1>8, <1>9, <2>1, <2>2
  <2> QED BY <1>13, <2>3 DEF GenDoes
<1>14. CASE Resolves(t, n, p) /\ ~c /\ ~r
  <2>1. Bit(c) = 0 /\ Bit(r) = 0 /\ Bit(r \/ n) = Bit(n)
    BY <1>14 DEF Bit
  <2>2. Bit(Acted(t, "resolve_config")) = 0 /\ Bit(Acted(t, "resolve_OBJ_io")) = 1
    BY <1>14 DEF Resolves, Bit, Acted
  <2>3. Moves(0, 0, Bit(n), 0, Bit(p)) /\ Works(0, -1) /\ Acted(t, "resolve_OBJ_io")
    BY <1>8, <1>9, <1>14, <2>1, <2>2 DEF Resolves
  <2>4. \/ ~genEv[t].ok /\ ~n /\ p /\ genStatus' = genStatus
        \/ genEv[t].ok /\ genEv[t].flag /\ ~n /\ p /\ genStatus' \in {"advising", "learning_done"}
        \/ genEv[t].ok /\ ~genEv[t].flag /\ n /\ ~p /\ genStatus' = genStatus
    BY <1>10, <1>14 DEF Resolves
  <2>5. ~n /\ p => Moves(0, 0, 0, 0, 1)
    <3>1. ~n /\ p => Bit(n) = 0 /\ Bit(p) = 1
      BY DEF Bit
    <3> QED BY <2>3, <3>1
  <2>6. n /\ ~p => Moves(0, 0, 1, 0, 0)
    <3>1. n /\ ~p => Bit(n) = 1 /\ Bit(p) = 0
      BY DEF Bit
    <3> QED BY <2>3, <3>1
  <2> QED BY <2>3, <2>4, <2>5, <2>6 DEF GenDoes
<1>15. ~GivesUp(t)
  BY <1>10 DEF GivesUp
<1> QED BY <1>2, <1>11, <1>12, <1>13, <1>14, <1>15 DEF Speaks

\* What the HUB does.
HubDoes ==
    \/ Moves(0, 0, 0, 0, 0) /\ configLock' = configLock
    \/ HubEnable /\ hubAst = "disabled" /\ Posts' <= Posts /\ configLock' = configLock
    \/ HubPrepare /\ Moves(0, -1, 0, 0, 0)
    \/ HubCollect /\ Moves(0, 0, -1, 1, 0) /\ configLock' = configLock
    \/ HubPost /\ Moves(0, 0, 0, 0, -1) /\ configLock' = configLock - 1

LEMMA HubFrame ==
    ASSUME HubStep
    PROVE  /\ UNCHANGED <<genStatus, genQueue, genPending, genPc, genEv, session, astState, msgPc>>
           /\ hubQueue # <<>>
BY DEF HubStep, HubPend, HubEnable, HubDisable, HubEnableEcho, HubDisableEcho, HubConfigView,
       HubPrepare, HubCollect, HubPost, HubChange, hubFrame, genVars, HubHandles

\* One event of a type is taken from the queue.
LEMMA TakesOne ==
    ASSUME NEW S, NEW q \in Seq(S), q # <<>>, NEW type
    PROVE  Number(Tail(q), type) = Number(q, type) - Bit(Head(q).type = type)
<1>1. Number(q, type) = Bit(Head(q).type = type) + Number(Tail(q), type)
  BY NumberTail
<1>2. Number(Tail(q), type) \in Nat /\ Bit(Head(q).type = type) \in {0, 1}
  BY TailOfSeq, NumberIs DEF Bit
<1> QED BY <1>1, <1>2

\* The steps that only pass on what they take.
LEMMA HubPasses ==
    ASSUME TypeOK, HubPend \/ HubConfigView
    PROVE  Moves(0, 0, 0, 0, 0) /\ configLock' = configLock
<1>0. /\ hubQueue \in Seq(HubEvents) /\ hubPending \in Seq(HubEvents)
      /\ msgQueue \in Seq(Messages) /\ hubQueue # <<>> /\ configLock' = configLock
  BY DEF TypeOK, MsgTypeOK, HubTypeOK, HubPend, HubConfigView, HubHandles
<1>1. HubEvent \in HubEvents /\ HubEvent = Head(hubQueue)
  BY <1>0, TailOfSeq DEF HubEvent
<1>2. ASSUME NEW type
      PROVE  /\ Number(Tail(hubQueue), type) = Number(hubQueue, type) - Bit(HubEvent.type = type)
             /\ Number(Append(hubPending, HubEvent), type)
                  = Number(hubPending, type) + Bit(HubEvent.type = type)
             /\ Number(hubPending, type) \in Nat /\ Number(hubQueue, type) \in Nat
             /\ Number(msgQueue, type) \in Nat
  BY <1>0, <1>1, TakesOne, NumberAppend, NumberIs
<1>3. CASE HubPend
  <2>1. /\ hubPending' = Append(hubPending, HubEvent) /\ hubQueue' = Tail(hubQueue)
        /\ UNCHANGED msgQueue /\ HubEvent.type \in {"change", "config_view"}
    BY <1>3 DEF HubPend, HubShouldPend
  <2>2. /\ Bit(HubEvent.type = "config_view") \in {0, 1} /\ Bit(HubEvent.type = "io_prepare") = 0
        /\ Bit(HubEvent.type = "io_normal") = 0 /\ Bit(HubEvent.type = "io_post") = 0
    BY <2>1 DEF Bit
  <2>3. Views' = Views + 0
    BY <1>2, <2>1, <2>2 DEF Views
  <2>4. Preps' = Preps + 0
    BY <1>2, <2>1, <2>2 DEF Preps
  <2>5. Asks' = Asks + 0
    BY <1>2, <2>1, <2>2 DEF Asks
  <2>6. Heard' = Heard + 0
    BY <1>2, <2>1 DEF Heard
  <2>7. Posts' = Posts + 0
    BY <1>2, <2>1, <2>2 DEF Posts
  <2> QED BY <1>0, <2>3, <2>4, <2>5, <2>6, <2>7 DEF Moves
<1>4. CASE HubConfigView
  <2>1. PICK ok : /\ msgQueue' = Append(msgQueue, Answer("collect_config_resp", ok, FALSE))
                  /\ ok \in BOOLEAN
    BY <1>4 DEF HubConfigView
  <2>2. /\ hubQueue' = Tail(hubQueue) /\ UNCHANGED hubPending /\ HubEvent.type = "config_view"
    BY <1>4 DEF HubConfigView, HubHandles, HubEvent
  <2> DEFINE m == Answer("collect_config_resp", ok, FALSE)
  <2>3. m.type = "collect_config_resp"
    BY Zenon DEF Answer, Record
  <2>4. m \in Messages
    <3>1. HubEvent.sn \in Sessions
      BY <1>1, RecordFields DEF HubEvents
    <3> QED BY <2>1, <3>1, RecordTyped DEF Answer, Messages
  <2>20. msgQueue' = Append(msgQueue, m)
    BY <2>1
  <2> HIDE DEF m
  <2>5. ASSUME NEW type
        PROVE  Number(msgQueue', type) = Number(msgQueue, type) + Bit(m.type = type)
    BY <1>0, <2>20, <2>4, NumberAppend
  <2>6. /\ Bit(HubEvent.type = "config_view") = 1 /\ Bit(HubEvent.type = "io_prepare") = 0
        /\ Bit(HubEvent.type = "io_normal") = 0 /\ Bit(HubEvent.type = "io_post") = 0
    BY <2>2 DEF Bit
  <2>7. \A type \in MsgTalk : Bit(m.type = type) = IF type = "collect_config_resp" THEN 1 ELSE 0
    BY <2>3 DEF Bit
  <2>8. Views' = Views + 0
    BY <1>2, <2>2, <2>5, <2>6, <2>7 DEF Views, MsgTalk
  <2>9. Preps' = Preps + 0
    BY <1>2, <2>2, <2>5, <2>6, <2>7 DEF Preps, MsgTalk
  <2>10. Asks' = Asks + 0
    BY <1>2, <2>2, <2>5, <2>6, <2>7 DEF Asks, MsgTalk
  <2>11. Heard' = Heard + 0
    BY <1>2, <2>5, <2>7 DEF Heard, MsgTalk
  <2>12. Posts' = Posts + 0
    BY <1>2, <2>2, <2>5, <2>6, <2>7 DEF Posts, MsgTalk
  <2> QED BY <1>0, <2>8, <2>9, <2>10, <2>11, <2>12 DEF Moves
<1> QED BY <1>3, <1>4

LEMMA HubCollects ==
    ASSUME TypeOK, HubPrepare \/ HubCollect
    PROVE  /\ HubPrepare => Moves(0, -1, 0, 0, 0)
           /\ HubCollect => Moves(0, 0, -1, 1, 0) /\ configLock' = configLock
<1>0. /\ hubQueue \in Seq(HubEvents) /\ msgQueue \in Seq(Messages) /\ hubQueue # <<>>
      /\ hubQueue' = Tail(hubQueue) /\ UNCHANGED hubPending
  BY DEF TypeOK, MsgTypeOK, HubTypeOK, HubPrepare, HubCollect, HubHandles
<1>1. HubEvent \in HubEvents /\ HubEvent = Head(hubQueue)
  BY <1>0, TailOfSeq DEF HubEvent
<1>2. ASSUME NEW type
      PROVE  /\ Number(Tail(hubQueue), type) = Number(hubQueue, type) - Bit(HubEvent.type = type)
             /\ Number(hubQueue, type) \in Nat /\ Number(msgQueue, type) \in Nat
  BY <1>0, <1>1, TakesOne, NumberIs
<1>3. Number(hubPending, "config_view") \in Nat
  BY NumberIs DEF TypeOK, HubTypeOK
<1>4. CASE HubPrepare
  <2>1. HubEvent.type = "io_prepare" /\ UNCHANGED msgQueue
    BY <1>4 DEF HubPrepare, HubHandles, HubEvent
  <2>2. /\ Bit(HubEvent.type = "config_view") = 0 /\ Bit(HubEvent.type = "io_prepare") = 1
        /\ Bit(HubEvent.type = "io_normal") = 0 /\ Bit(HubEvent.type = "io_post") = 0
    BY <2>1 DEF Bit
  <2>30. Views' = Views + 0
    BY <1>0, <1>2, <1>3, <2>1, <2>2 DEF Views
  <2>31. Preps' = Preps + (-1)
    BY <1>0, <1>2, <2>1, <2>2 DEF Preps
  <2>32. Asks' = Asks + 0
    BY <1>0, <1>2, <2>1, <2>2 DEF Asks
  <2>33. Heard' = Heard + 0
    BY <1>2, <2>1 DEF Heard
  <2>34. Posts' = Posts + 0
    BY <1>0, <1>2, <2>1, <2>2 DEF Posts
  <2>4. Moves(0, -1, 0, 0, 0)
    BY <2>30, <2>31, <2>32, <2>33, <2>34 DEF Moves
  <2>5. ~HubCollect
    BY <1>1, <2>1 DEF HubCollect, HubHandles
  <2> QED BY <2>4, <2>5
<1>5. CASE HubCollect
  <2>1. /\ HubEvent.type = "io_normal" /\ configLock' = configLock
        /\ \E ok, flag \in BOOLEAN :
              msgQueue' = Append(msgQueue, Answer("collect_OBJ_resp", ok, flag))
    BY <1>5 DEF HubCollect, HubHandles, HubEvent
  <2>2. PICK ok \in BOOLEAN, flag \in BOOLEAN :
           msgQueue' = Append(msgQueue, Answer("collect_OBJ_resp", ok, flag))
    BY <2>1
  <2> DEFINE m == Answer("collect_OBJ_resp", ok, flag)
  <2>3. m.type = "collect_OBJ_resp"
    BY Zenon DEF Answer, Record
  <2>4. m \in Messages
    <3>1. HubEvent.sn \in Sessions
      BY <1>1, RecordFields DEF HubEvents
    <3> QED BY <2>2, <3>1, RecordTyped DEF Answer, Messages
  <2>20. msgQueue' = Append(msgQueue, m)
    BY <2>2
  <2> HIDE DEF m
  <2>5. ASSUME NEW type
        PROVE  Number(msgQueue', type) = Number(msgQueue, type) + Bit(m.type = type)
    BY <1>0, <2>20, <2>4, NumberAppend
  <2>6. /\ Bit(HubEvent.type = "config_view") = 0 /\ Bit(HubEvent.type = "io_prepare") = 0
        /\ Bit(HubEvent.type = "io_normal") = 1 /\ Bit(HubEvent.type = "io_post") = 0
    BY <2>1 DEF Bit
  <2>7. \A type \in MsgTalk : Bit(m.type = type) = IF type = "collect_OBJ_resp" THEN 1 ELSE 0
    BY <2>3 DEF Bit
  <2>30. Views' = Views + 0
    BY <1>0, <1>2, <1>3, <2>5, <2>6, <2>7 DEF Views, MsgTalk
  <2>31. Preps' = Preps + 0
    BY <1>0, <1>2, <2>5, <2>6, <2>7 DEF Preps, MsgTalk
  <2>32. Asks' = Asks + (-1)
    BY <1>0, <1>2, <2>5, <2>6, <2>7 DEF Asks, MsgTalk
  <2>33. Heard' = Heard + 1
    BY <1>2, <2>5, <2>7 DEF Heard, MsgTalk
  <2>34. Posts' = Posts + 0
    BY <1>0, <1>2, <2>5, <2>6, <2>7 DEF Posts, MsgTalk
  <2>10. Moves(0, 0, -1, 1, 0)
    BY <2>30, <2>31, <2>32, <2>33, <2>34 DEF Moves
  <2>11. ~HubPrepare
    BY <1>1, <2>1 DEF HubPrepare, HubHandles
  <2> QED BY <2>1, <2>10, <2>11
<1> QED BY <1>4, <1>5

LEMMA HubPosts ==
    ASSUME TypeOK, PendsFew, HubPost
    PROVE  Moves(0, 0, 0, 0, -1) /\ configLock' = configLock - 1
<1>0. /\ hubQueue \in Seq(HubEvents) /\ hubPending \in Seq(HubEvents) /\ hubQueue # <<>>
      /\ hubQueue' = hubPending \o Tail(hubQueue) /\ hubPending' = <<>> /\ UNCHANGED msgQueue
      /\ configLock' = configLock - 1 /\ HubEvent.type = "io_post"
  BY DEF TypeOK, HubTypeOK, HubPost, HubHandles, HubEvent
<1>1. HubEvent = Head(hubQueue) /\ Tail(hubQueue) \in Seq(HubEvents)
  BY <1>0, TailOfSeq DEF HubEvent
<1>2. ASSUME NEW type
      PROVE  /\ Number(hubQueue', type) = Number(hubPending, type) + Number(hubQueue, type)
                                          - Bit(HubEvent.type = type)
             /\ Number(hubQueue, type) \in Nat /\ Number(msgQueue, type) \in Nat
             /\ Number(hubPending, type) \in Nat
  <2>0. hubPending \in Seq(HubEvents)
    BY <1>0
  <2>1. Number(hubPending \o Tail(hubQueue), type)
          = Number(hubPending, type) + Number(Tail(hubQueue), type)
    <3> DEFINE q == Tail(hubQueue)
    <3>1. q \in Seq(HubEvents)
      BY <1>1
    <3> HIDE DEF q
    <3>2. Number(hubPending \o q, type) = Number(hubPending, type) + Number(q, type)
      BY ONLY <2>0, <3>1, NumberConcat
    <3> QED BY <3>2 DEF q
  <2>2. Number(Tail(hubQueue), type) = Number(hubQueue, type) - Bit(HubEvent.type = type)
    BY <1>0, <1>1, TakesOne
  <2>3. /\ Number(hubQueue, type) \in Nat /\ Number(hubPending, type) \in Nat
        /\ Number(msgQueue, type) \in Nat /\ Bit(HubEvent.type = type) \in {0, 1}
    BY NumberIs DEF TypeOK, HubTypeOK, MsgTypeOK, Bit
  <2> QED BY <1>0, <2>1, <2>2, <2>3
<1>3. ASSUME NEW type \in {"io_prepare", "io_normal", "io_post"}
      PROVE  Number(hubPending, type) = 0
  <2>1. \A i \in DOMAIN hubPending : hubPending[i].type # type
    BY DEF PendsFew
  <2> QED BY <1>0, <2>1, NumberWithout
<1>4. Number(hubPending', "config_view") = 0
  BY <1>0, NumberSmall
<1>5. /\ Bit(HubEvent.type = "config_view") = 0 /\ Bit(HubEvent.type = "io_prepare") = 0
      /\ Bit(HubEvent.type = "io_normal") = 0 /\ Bit(HubEvent.type = "io_post") = 1
  BY <1>0 DEF Bit
<1>6. Views' = Views + 0
  <2>1. Number(hubQueue', "config_view") = Number(hubPending, "config_view")
             + Number(hubQueue, "config_view")
    BY <1>2, <1>5
  <2> QED BY <1>0, <1>2, <1>4, <2>1 DEF Views
<1>7. Preps' = Preps + 0
  <2>1. /\ Number(hubQueue', "io_prepare") = Number(hubPending, "io_prepare")
             + Number(hubQueue, "io_prepare") - Bit(HubEvent.type = "io_prepare")
        /\ Number(hubPending, "io_prepare") = 0 /\ Number(hubQueue, "io_prepare") \in Nat
        /\ Number(msgQueue, "collect_OBJ_prepare") \in Nat
    BY <1>2, <1>3
  <2> QED BY <1>0, <1>5, <2>1 DEF Preps
<1>8. Asks' = Asks + 0
  <2>1. /\ Number(hubQueue', "io_normal") = Number(hubPending, "io_normal")
             + Number(hubQueue, "io_normal") - Bit(HubEvent.type = "io_normal")
        /\ Number(hubPending, "io_normal") = 0 /\ Number(hubQueue, "io_normal") \in Nat
        /\ Number(msgQueue, "collect_OBJ_normal") \in Nat
    BY <1>2, <1>3
  <2> QED BY <1>0, <1>5, <2>1 DEF Asks
<1>9. Heard' = Heard + 0
  BY <1>0, <1>2 DEF Heard
<1>10. Posts' = Posts + (-1)
  BY <1>0, <1>2, <1>3, <1>5 DEF Posts
<1> QED BY <1>0, <1>6, <1>7, <1>8, <1>9, <1>10 DEF Moves

LEMMA HubElse ==
    ASSUME TypeOK, \/ HubEnable \/ HubDisable \/ HubEnableEcho \/ HubDisableEcho \/ HubChange
    PROVE  /\ configLock' = configLock
           /\ \/ Moves(0, 0, 0, 0, 0)
              \/ HubEnable /\ hubAst = "disabled" /\ Posts' <= Posts
<1>0. /\ hubQueue \in Seq(HubEvents) /\ msgQueue \in Seq(Messages) /\ hubQueue # <<>>
      /\ UNCHANGED <<hubPending, configLock>>
      /\ HubEvent.type \in {"enable_ast", "disable_ast", "enable_ast_echo", "disable_ast_echo",
                            "change"}
  BY DEF TypeOK, MsgTypeOK, HubTypeOK, HubEnable, HubDisable, HubEnableEcho, HubDisableEcho,
         HubChange, HubHandles, HubEvent
<1>1. HubEvent \in HubEvents /\ HubEvent = Head(hubQueue) /\ Tail(hubQueue) \in Seq(HubEvents)
      /\ HubEvent.type \notin HubTalk
  BY <1>0, TailOfSeq DEF HubEvent, HubTalk
<1>2. SameIn(hubQueue, Tail(hubQueue), HubTalk)
  BY <1>0, <1>1, SameTail
<1>3. SameIn(hubQueue, hubQueue', HubTalk)
  <2>1. hubQueue' \in {hubQueue, Tail(hubQueue), Append(Tail(hubQueue), HubEvent)}
    BY DEF HubEnable, HubDisable, HubEnableEcho, HubDisableEcho, HubChange
  <2>2. SameIn(Tail(hubQueue), Append(Tail(hubQueue), HubEvent), HubTalk)
    BY <1>1, SameAppend
  <2> QED BY <1>2, <2>1, <2>2, SameSelf DEF SameIn
<1>4. \/ SameIn(msgQueue, msgQueue', MsgTalk)
      \/ HubEnable /\ hubAst = "disabled" /\ msgQueue' = <<Sent("enable_ast")>>
  <2>1. \/ UNCHANGED msgQueue
        \/ msgQueue' = Append(msgQueue, Sent("disable_ast"))
        \/ msgQueue' = Append(msgQueue, Record("report_delete", FALSE, FALSE, 0))
        \/ HubEnable /\ hubAst = "disabled" /\ msgQueue' = <<Sent("enable_ast")>>
    BY DEF HubEnable, HubDisable, HubEnableEcho, HubDisableEcho, HubChange
  <2>2. /\ Sent("disable_ast") \in Messages /\ Sent("disable_ast").type \notin MsgTalk
    BY SentTyped, SentIs DEF MsgTalk, TypeOK
  <2>3. /\ Record("report_delete", FALSE, FALSE, 0) \in Messages
        /\ Record("report_delete", FALSE, FALSE, 0).type \notin MsgTalk
    <3>1. Record("report_delete", FALSE, FALSE, 0).type = "report_delete"
      BY Zenon DEF Record
    <3> QED BY <3>1, RecordTyped, ZeroSession DEF Messages, MsgTalk
  <2>4. SameIn(msgQueue, Append(msgQueue, Sent("disable_ast")), MsgTalk)
    BY <1>0, <2>2, SameAppend
  <2>5. SameIn(msgQueue, Append(msgQueue, Record("report_delete", FALSE, FALSE, 0)), MsgTalk)
    BY <1>0, <2>3, SameAppend
  <2> QED BY <2>1, <2>4, <2>5, SameSelf
<1>5. CASE SameIn(msgQueue, msgQueue', MsgTalk)
  BY <1>0, <1>3, <1>5, NothingMoves
<1>6. CASE HubEnable /\ hubAst = "disabled" /\ msgQueue' = <<Sent("enable_ast")>>
  <2>1. Sent("enable_ast") \in Messages /\ Sent("enable_ast").type = "enable_ast"
    BY SentTyped, SentIs DEF TypeOK
  <2> DEFINE m == Sent("enable_ast")
  <2>2. Number(<<m>>, "collect_OBJ_post") = Bit(m.type = "collect_OBJ_post")
    BY <2>1, NumberSmall
  <2>3. Number(msgQueue', "collect_OBJ_post") = 0
    BY <1>6, <2>1, <2>2 DEF Bit
  <2>4. Number(hubQueue', "io_post") = Number(hubQueue, "io_post")
    BY <1>3 DEF SameIn, HubTalk
  <2>5. Number(msgQueue, "collect_OBJ_post") \in Nat /\ Number(hubQueue, "io_post") \in Nat
    BY <1>0, NumberIs
  <2> QED BY <1>0, <1>6, <2>3, <2>4, <2>5 DEF Posts
<1> QED BY <1>0, <1>4, <1>5, <1>6

LEMMA HubCounts ==
    ASSUME TypeOK, PendsFew, HubStep
    PROVE  HubDoes
BY HubPasses, HubCollects, HubPosts, HubElse DEF HubStep, HubDoes

\* What is passed on is counted where it goes.
LEMMA PassedOn ==
    ASSUME NEW S, NEW T, NEW p \in Seq(S), p # <<>>, NEW q \in Seq(T), NEW e \in T,
           NEW type, NEW other, Bit(e.type = other) = Bit(Head(p).type = type)
    PROVE  Number(Tail(p), type) + Number(Append(q, e), other) = Number(p, type) + Number(q, other)
<1>1. Number(Tail(p), type) = Number(p, type) - Bit(Head(p).type = type)
  BY TakesOne
<1>2. Number(Append(q, e), other) = Number(q, other) + Bit(e.type = other)
  BY NumberAppend
<1>3. /\ Number(p, type) \in Nat /\ Number(q, other) \in Nat
      /\ Bit(Head(p).type = type) \in {0, 1}
  BY NumberIs DEF Bit
<1> QED BY <1>1, <1>2, <1>3

LEMMA ForwardedTalk ==
    ASSUME NEW m \in Messages, m.type \in DOMAIN ToHub
    PROVE  LET e == [m EXCEPT !.type = ToHub[m.type]]
           IN  /\ Bit(e.type = "io_normal") = Bit(m.type = "collect_OBJ_normal")
               /\ m.type # "collect_OBJ_resp"
<1> DEFINE e == [m EXCEPT !.type = ToHub[m.type]]
<1>1. e.type = ToHub[m.type]
  BY ForwardedIs
<1> HIDE DEF e
<1>2. /\ e.type = "io_normal" <=> m.type = "collect_OBJ_normal"
      /\ m.type # "collect_OBJ_resp"
  BY <1>1 DEF ToHub
<1> QED BY <1>2 DEF Bit, e

LEMMA HubHears ==
    ASSUME TypeOK, ForwardToHub
    PROVE  Moves(0, 0, 0, 0, 0) /\ Works(0, 0)
<1>0. /\ hubQueue \in Seq(HubEvents) /\ msgQueue \in Seq(Messages) /\ msgQueue # <<>>
      /\ msgQueue' = Tail(msgQueue) /\ Msg.type \in DOMAIN ToHub
      /\ UNCHANGED <<hubPending, genStatus, genQueue, genPending, genPc, genEv, session>>
  BY DEF TypeOK, MsgTypeOK, HubTypeOK, ForwardToHub, MsgHandles, Msg, genVars
<1>1. Msg \in Messages /\ Msg = Head(msgQueue)
  BY <1>0, TailOfSeq DEF Msg
<1> DEFINE e == [Msg EXCEPT !.type = ToHub[Msg.type]]
<1>2. hubQueue' = Append(hubQueue, e)
  BY DEF ForwardToHub
<1>3. e \in HubEvents
  BY <1>0, <1>1, ForwardedIs
<1>4. /\ Bit(e.type = "io_prepare") = Bit(Msg.type = "collect_OBJ_prepare")
      /\ Bit(e.type = "io_post") = Bit(Msg.type = "collect_OBJ_post")
      /\ Bit(e.type = "config_view") = Bit(Msg.type = "collect_config_req")
      /\ Msg.type # "collect_config_resp"
  BY <1>0, <1>1, ForwardedBits
<1>5. /\ Bit(e.type = "io_normal") = Bit(Msg.type = "collect_OBJ_normal")
      /\ Msg.type # "collect_OBJ_resp"
  BY <1>0, <1>1, ForwardedTalk
<1> HIDE DEF e
<1>6. ASSUME NEW type, NEW other, Bit(e.type = other) = Bit(Msg.type = type)
      PROVE  Number(msgQueue', type) + Number(hubQueue', other)
               = Number(msgQueue, type) + Number(hubQueue, other)
  <2>1. Bit(e.type = other) = Bit(Head(msgQueue).type = type)
    BY <1>1, <1>6
  <2>2. Number(Tail(msgQueue), type) + Number(Append(hubQueue, e), other)
          = Number(msgQueue, type) + Number(hubQueue, other)
    BY <1>0, <1>3, <2>1, PassedOn
  <2> QED BY <1>0, <1>2, <2>2
<1>7. Preps' = Preps
  BY <1>4, <1>6 DEF Preps
<1>8. Asks' = Asks
  BY <1>5, <1>6 DEF Asks
<1>9. Posts' = Posts
  BY <1>4, <1>6 DEF Posts
<1>10. ASSUME NEW type \in {"collect_OBJ_resp", "collect_config_resp"}
       PROVE  Number(msgQueue', type) = Number(msgQueue, type)
  <2>1. Number(Tail(msgQueue), type) = Number(msgQueue, type) - Bit(Head(msgQueue).type = type)
    BY <1>0, TakesOne
  <2>2. Bit(Head(msgQueue).type = type) = 0
    BY <1>1, <1>4, <1>5 DEF Bit
  <2>3. Number(msgQueue, type) \in Nat
    BY <1>0, NumberIs
  <2> QED BY <1>0, <2>1, <2>2, <2>3
<1>11. Heard' = Heard
  BY <1>10 DEF Heard
<1>12. Views' = Views
  <2>1. Number(msgQueue', "collect_config_req") + Number(hubQueue', "config_view")
          = Number(msgQueue, "collect_config_req") + Number(hubQueue, "config_view")
    BY <1>4, <1>6
  <2>2. Number(msgQueue', "collect_config_resp") = Number(msgQueue, "collect_config_resp")
    BY <1>10
  <2> QED BY <1>0, <2>1, <2>2 DEF Views
<1>13. Handling("resolve_config")' = Handling("resolve_config") /\ Reading' = Reading
  BY <1>0 DEF Handling, Reading, GenOn
<1> QED BY <1>7, <1>8, <1>9, <1>11, <1>12, <1>13, CountsNat DEF Moves, Works

\* What the generator hears.
GenHears ==
    \/ Moves(0, 0, 0, 0, 0) /\ Works(0, 0) /\ Msg.type = "report_delete"
    \/ Moves(-1, 0, 0, 0, 0) /\ Works(1, 0) /\ Msg.type = "collect_config_resp"
    \/ Moves(0, 0, 0, -1, 0) /\ Works(0, 1) /\ Msg.type = "collect_OBJ_resp"

LEMMA GenIsTold ==
    ASSUME TypeOK, ForwardToGen
    PROVE  GenHears
<1>0. /\ genQueue \in Seq(GenEvents) /\ msgQueue \in Seq(Messages) /\ msgQueue # <<>>
      /\ msgQueue' = Tail(msgQueue) /\ Msg.type \in DOMAIN ToGen
      /\ UNCHANGED <<hubQueue, hubPending, genStatus, genPending, genPc, genEv, session>>
  BY DEF TypeOK, MsgTypeOK, GenTypeOK, ForwardToGen, MsgHandles, Msg, hubVars
<1>1. Msg \in Messages /\ Msg = Head(msgQueue)
  BY <1>0, TailOfSeq DEF Msg
<1> DEFINE e == [Msg EXCEPT !.type = ToGen[Msg.type]]
<1>2. genQueue' = Append(genQueue, e)
  BY DEF ForwardToGen
<1>3. \/ Msg.type = "collect_config_resp" /\ ToGen[Msg.type] = "resolve_config"
      \/ Msg.type = "collect_OBJ_resp" /\ ToGen[Msg.type] = "resolve_OBJ_io"
      \/ Msg.type = "report_delete" /\ ToGen[Msg.type] = "resolve_deleted"
  BY <1>0 DEF ToGen
<1>4. e \in GenEvents
  BY <1>1, <1>3, RecordFields DEF Messages, GenEvents
<1>5. e.type = ToGen[Msg.type]
  BY <1>1 DEF Messages, RecordOf
<1> HIDE DEF e
<1>6. ASSUME NEW type
      PROVE  /\ Number(msgQueue', type) = Number(msgQueue, type) - Bit(Msg.type = type)
             /\ Number(msgQueue, type) \in Nat /\ Number(hubQueue, type) \in Nat
             /\ Number(hubPending, type) \in Nat
  <2>1. Number(Tail(msgQueue), type) = Number(msgQueue, type) - Bit(Head(msgQueue).type = type)
    BY <1>0, TakesOne
  <2>2. /\ Number(msgQueue, type) \in Nat /\ Number(hubQueue, type) \in Nat
        /\ Number(hubPending, type) \in Nat
    BY NumberIs DEF TypeOK, MsgTypeOK, HubTypeOK
  <2> QED BY <1>0, <1>1, <2>1, <2>2
<1>7. ASSUME NEW type
      PROVE  Handling(type)' = Handling(type) + Bit(e.type = type)
  <2>1. Number(Append(genQueue, e), type) = Number(genQueue, type) + Bit(e.type = type)
    BY <1>0, <1>4, NumberAppend
  <2>2. /\ Number(genQueue, type) \in Nat /\ Number(genPending, type) \in Nat
        /\ Bit(GenOn({type})) \in {0, 1} /\ Bit(e.type = type) \in {0, 1}
    BY NumberIs DEF TypeOK, GenTypeOK, Bit
  <2>3. GenOn({type})' = GenOn({type})
    BY <1>0 DEF GenOn
  <2>4. Handling(type)' = Number(genQueue, type) + Bit(e.type = type)
                          + Number(genPending, type) + Bit(GenOn({type}))
    BY <1>0, <1>2, <2>1, <2>3 DEF Handling
  <2> QED BY <2>2, <2>4 DEF Handling
<1>8. Bit(Msg.type = "collect_config_req") = 0 /\ Bit(Msg.type = "collect_OBJ_prepare") = 0
      /\ Bit(Msg.type = "collect_OBJ_normal") = 0 /\ Bit(Msg.type = "collect_OBJ_post") = 0
  BY <1>3 DEF Bit
<1>9. Preps' = Preps + 0
  BY <1>0, <1>6, <1>8 DEF Preps
<1>10. Asks' = Asks + 0
  BY <1>0, <1>6, <1>8 DEF Asks
<1>11. Posts' = Posts + 0
  BY <1>0, <1>6, <1>8 DEF Posts
<1>12. Heard' = Heard - Bit(Msg.type = "collect_OBJ_resp")
  BY <1>6 DEF Heard
<1>13. Views' = Views - Bit(Msg.type = "collect_config_resp")
  <2>1. Bit(Msg.type = "collect_config_resp") \in {0, 1}
    BY DEF Bit
  <2>2. Number(msgQueue', "collect_config_req") = Number(msgQueue, "collect_config_req")
    BY <1>6, <1>8
  <2> QED BY <1>0, <1>6, <2>1, <2>2 DEF Views
<1>14. /\ Reading' = Reading + Bit(e.type = "resolve_OBJ_io")
       /\ Handling("resolve_config")' = Handling("resolve_config") + Bit(e.type = "resolve_config")
  BY <1>7 DEF Reading
<1>15. CASE Msg.type = "collect_config_resp"
  <2>1. /\ Bit(Msg.type = "collect_OBJ_resp") = 0 /\ Bit(Msg.type = "collect_config_resp") = 1
        /\ Bit(e.type = "resolve_OBJ_io") = 0 /\ Bit(e.type = "resolve_config") = 1
    BY <1>3, <1>5, <1>15 DEF Bit
  <2> QED BY <1>9, <1>10, <1>11, <1>12, <1>13, <1>14, <1>15, <2>1, CountsNat
          DEF Moves, Works, GenHears
<1>16. CASE Msg.type = "collect_OBJ_resp"
  <2>1. /\ Bit(Msg.type = "collect_OBJ_resp") = 1 /\ Bit(Msg.type = "collect_config_resp") = 0
        /\ Bit(e.type = "resolve_OBJ_io") = 1 /\ Bit(e.type = "resolve_config") = 0
    BY <1>3, <1>5, <1>16 DEF Bit
  <2> QED BY <1>9, <1>10, <1>11, <1>12, <1>13, <1>14, <1>16, <2>1, CountsNat
          DEF Moves, Works, GenHears
<1>17. CASE Msg.type = "report_delete"
  <2>1. /\ Bit(Msg.type = "collect_OBJ_resp") = 0 /\ Bit(Msg.type = "collect_config_resp") = 0
        /\ Bit(e.type = "resolve_OBJ_io") = 0 /\ Bit(e.type = "resolve_config") = 0
    BY <1>3, <1>5, <1>17 DEF Bit
  <2> QED BY <1>9, <1>10, <1>11, <1>12, <1>13, <1>14, <1>17, <2>1, CountsNat
          DEF Moves, Works, GenHears
<1> QED BY <1>3, <1>15, <1>16, <1>17

\* Steps that leave the conversation alone.
ElseStep ==
    \/ \E t \in Threads : ExeStep(t)
    \/ MigratorEcho \/ Tick \/ LaunchEnable \/ LaunchDisable \/ LaunchChange
    \/ UNCHANGED vars

LEMMA ElseFrame ==
    ASSUME ElseStep
    PROVE  /\ UNCHANGED <<msgQueue, hubPending, hubAst, hubStatus, configLock, objs, toCollect,
                          collected, genStatus, genPending, genPc, genEv, session, astState>>
           /\ \/ UNCHANGED genQueue
              \/ genQueue' = Append(genQueue, Sent("advise"))
              \/ \E flag \in AdviceChoices :
                    genQueue' = Append(genQueue, Record("collect_config", FALSE, flag, session))
           /\ \/ UNCHANGED hubQueue
              \/ \E type \in {"enable_ast", "disable_ast", "change"}, flag \in BOOLEAN :
                    hubQueue' = Append(hubQueue, Record(type, FALSE, flag, 0))
           /\ \/ UNCHANGED msgPc
              \/ msgPc = "exe_wait" /\ msgPc' = "exe_join"
<1>1. ASSUME NEW t \in Threads, ExeStep(t)
      PROVE  /\ UNCHANGED <<msgQueue, hubVars, genStatus, genPending,
                            genPc, genEv, session, astState>>
             /\ UNCHANGED genQueue \/ genQueue' = Append(genQueue, Sent("advise"))
             /\ UNCHANGED msgPc \/ (msgPc = "exe_wait" /\ msgPc' = "exe_join")
  BY <1>1 DEF ExeStep, ExeDequeue, ExeCheck, ExePlan, ExeEcho, ExeStall, ExeStop, exeFrame
<1>2. CASE \E t \in Threads : ExeStep(t)
  BY <1>1, <1>2 DEF hubVars
<1>3. CASE MigratorEcho \/ UNCHANGED vars
  BY <1>3 DEF MigratorEcho, exeFrame, vars, msgVars, genVars, hubVars
<1>4. CASE Tick
  BY <1>4 DEF Tick, msgVars, genVars, hubVars
<1>5. CASE LaunchEnable \/ LaunchDisable \/ LaunchChange
  BY <1>5 DEF LaunchEnable, LaunchDisable, LaunchChange, Launch, msgVars, genVars
<1> QED BY <1>2, <1>3, <1>4, <1>5 DEF ElseStep

LEMMA ElseCounts ==
    ASSUME TypeOK, ElseStep
    PROVE  Moves(0, 0, 0, 0, 0) /\ Works(0, 0)
<1>0. /\ genQueue \in Seq(GenEvents) /\ hubQueue \in Seq(HubEvents) /\ session \in Sessions
      /\ msgQueue \in Seq(Messages)
  BY DEF TypeOK, GenTypeOK, HubTypeOK, MsgTypeOK
<1>1. SameIn(genQueue, genQueue', GenTalk)
  <2>1. CASE UNCHANGED genQueue
    BY <2>1, SameSelf
  <2>2. CASE genQueue' = Append(genQueue, Sent("advise"))
    <3>1. Sent("advise") \in GenEvents /\ Sent("advise").type \notin GenTalk
      BY SentTyped, SentIs DEF TypeOK, GenTalk
    <3>2. SameIn(genQueue, Append(genQueue, Sent("advise")), GenTalk)
      BY <1>0, <3>1, SameAppend
    <3> QED BY <2>2, <3>2
  <2>3. ASSUME NEW flag \in AdviceChoices,
               genQueue' = Append(genQueue, Record("collect_config", FALSE, flag, session))
        PROVE  SameIn(genQueue, genQueue', GenTalk)
    <3> DEFINE e == Record("collect_config", FALSE, flag, session)
    <3>1. e \in GenEvents
      BY <1>0, RecordTyped, ChoicesAssumption DEF GenEvents, ChoicesAssumption
    <3>2. e.type = "collect_config" /\ genQueue' = Append(genQueue, e)
      BY <2>3, Zenon DEF Record
    <3> HIDE DEF e
    <3>3. e.type \notin GenTalk
      BY <3>2 DEF GenTalk
    <3>4. SameIn(genQueue, Append(genQueue, e), GenTalk)
      BY <1>0, <3>1, <3>3, SameAppend
    <3> QED BY <3>2, <3>4
  <2> QED BY <2>1, <2>2, <2>3, ElseFrame
<1>2. SameIn(hubQueue, hubQueue', HubTalk)
  <2>1. CASE UNCHANGED hubQueue
    BY <2>1, SameSelf
  <2>2. ASSUME NEW type \in {"enable_ast", "disable_ast", "change"}, NEW flag \in BOOLEAN,
               hubQueue' = Append(hubQueue, Record(type, FALSE, flag, 0))
        PROVE  SameIn(hubQueue, hubQueue', HubTalk)
    <3> DEFINE e == Record(type, FALSE, flag, 0)
    <3>1. e \in HubEvents
      BY RecordTyped, ZeroSession DEF HubEvents
    <3>2. e.type = type /\ hubQueue' = Append(hubQueue, e)
      BY <2>2, Zenon DEF Record
    <3> HIDE DEF e
    <3>3. e.type \notin HubTalk
      BY <3>2 DEF HubTalk
    <3>4. SameIn(hubQueue, Append(hubQueue, e), HubTalk)
      BY <1>0, <3>1, <3>3, SameAppend
    <3> QED BY <3>2, <3>4
  <2> QED BY <2>1, <2>2, ElseFrame
<1>3. UNCHANGED <<msgQueue, hubPending, genPending, genPc, genEv, session>>
  BY ElseFrame
<1>4. Moves(0, 0, 0, 0, 0)
  BY <1>2, <1>3, NothingMoves, SameSelf
<1>5. Works(0, 0)
  BY <1>1, <1>3, NothingWorks, SameSelf
<1> QED BY <1>4, <1>5

\* Messages and events that begin a collection; answers with a batch.
Prepares == {m \in Messages : m.type = "collect_OBJ_prepare"}
Begins   == {e \in HubEvents : e.type = "io_prepare"}
Answers  == {m \in Messages : m.type = "collect_OBJ_resp"}

\* The HUB collects what it has counted, and no more.
Kept   == collected <= toCollect /\ objs \in ObjBatches
Frozen == hubStatus = "collecting_IO" => toCollect = objs /\ configLock > 0
\* Whoever will give the lock back finds it taken.
Covered == Posts <= configLock /\ (~GenReleased => Posts + Reading <= configLock)
\* A collection begins before its first batch is asked for.
Ordered ==
    /\ Before(msgQueue, "collect_OBJ_normal", Prepares)
    /\ Before(hubQueue, "io_normal", Begins)
    /\ Has(hubQueue, "io_normal") => None(msgQueue, Prepares)
\* Every answer belongs to a lock, or it comes after AST has been disabled.
Sound ==
    /\ hubAst # "disabling" => Posts + Asks + Heard + Reading <= configLock + Preps
    /\ hubAst = "disabling" =>
          Behind(msgQueue, "disable_ast", Answers) \/ Posts + Reading + 1 <= configLock
Conversing == Owing <= Bit(genStatus = "learning") /\ Preps <= Asks /\ Ordered /\ Sound
ConvInv == Kept /\ (session = 1 => Frozen /\ Covered) /\ (First => Conversing)

LEMMA BeforeConcat ==
    ASSUME NEW S, NEW q \in Seq(S), NEW p \in Seq(S), NEW type, NEW B, Before(q, type, B),
           None(p, B)
    PROVE  Before(q \o p, type, B)
<1> DEFINE r == q \o p
<1>1. /\ Len(p) \in Nat /\ Len(q) \in Nat
      /\ DOMAIN p = 1 .. Len(p) /\ DOMAIN q = 1 .. Len(q)
      /\ DOMAIN r = 1 .. Len(q) + Len(p)
      /\ \A i \in DOMAIN q : r[i] = q[i]
      /\ \A i \in DOMAIN r : i \notin DOMAIN q => i - Len(q) \in DOMAIN p /\ r[i] = p[i - Len(q)]
  OBVIOUS
<1> HIDE DEF r
<1>2. ASSUME NEW i \in DOMAIN r, NEW j \in DOMAIN r, i < j, r[i].type = type
      PROVE  r[j] \notin B
  <2>1. CASE j \in DOMAIN q
    <3>1. i \in DOMAIN q
      BY <1>1, <1>2, <2>1
    <3> QED BY <1>1, <1>2, <2>1, <3>1 DEF Before
  <2>2. CASE j \notin DOMAIN q
    BY <1>1, <2>2 DEF None
  <2> QED BY <2>1, <2>2
<1> QED BY <1>2 DEF Before, r

LEMMA CollectionChanges ==
    ASSUME [Next]_vars
    PROVE  \/ UNCHANGED <<hubStatus, configLock, objs, toCollect, collected>>
           \/ HubPrepare \/ HubCollect \/ HubPost \/ HubEnableEcho \/ HubDisableEcho \/ HubChange
<1> DEFINE Same == UNCHANGED <<hubStatus, configLock, objs, toCollect, collected>>
<1>1. ASSUME NEW t \in Threads, GenStep(t) PROVE Same
  BY <1>1, GenFrame
<1>2. ElseStep => Same
  BY ElseFrame
<1>3. MsgStep => Same
  BY DEF MsgStep, ForwardToHub, ForwardToGen, EnableFails, EnableSucceeds, DisableBegin,
     GenStopBegin, GenStopEnd, ExeStopBegin, ExeStopEnd, DisableEnd, hubVars
<1>4. HubPend \/ HubEnable \/ HubDisable \/ HubConfigView => Same
  BY DEF HubPend, HubEnable, HubDisable, HubConfigView
<1> QED BY <1>1, <1>2, <1>3, <1>4 DEF Next, ElseStep, HubStep

LEMMA KeptStep ==
    ASSUME TypeOK, Kept, [Next]_vars
    PROVE  Kept'
<1>0. collected \in Nat /\ toCollect \in Nat /\ objs \in Nat
  BY DEF TypeOK, HubTypeOK
<1>1. CASE UNCHANGED <<objs, toCollect, collected>>
  BY <1>1 DEF Kept
<1>2. CASE HubPrepare /\ ~HubOff
  BY <1>0, <1>2 DEF HubPrepare, Kept
<1>3. CASE HubCollect
  <2>1. /\ UNCHANGED <<objs, toCollect>>
        /\ collected' = collected \/ (collected # toCollect /\ collected' = collected + 1)
    BY <1>3 DEF HubCollect
  <2>2. collected' <= toCollect
    BY <1>0, <2>1 DEF Kept
  <2> QED BY <2>1, <2>2 DEF Kept
<1>4. CASE HubChange
  BY <1>4 DEF HubChange, Kept
<1>5. (HubPrepare /\ HubOff) \/ HubPost \/ HubEnableEcho \/ HubDisableEcho
         => UNCHANGED <<objs, toCollect, collected>>
  BY DEF HubPrepare, HubPost, HubEnableEcho, HubDisableEcho
<1> QED BY <1>1, <1>2, <1>3, <1>4, <1>5, CollectionChanges

LEMMA FrozenStep ==
    ASSUME TypeOK, Frozen, 0 <= configLock, [Next]_vars
    PROVE  Frozen'
<1>0. configLock \in Int
  BY DEF TypeOK, HubTypeOK
<1>1. CASE UNCHANGED <<hubStatus, configLock, objs, toCollect>>
  BY <1>1 DEF Frozen
<1>2. CASE HubPrepare /\ ~HubOff
  BY <1>0, <1>2 DEF HubPrepare, Frozen
<1>3. CASE HubPost \/ HubEnableEcho \/ HubDisableEcho
  BY <1>3 DEF HubPost, HubEnableEcho, HubDisableEcho, Frozen
<1>4. CASE HubChange
  BY <1>4 DEF HubChange, HubShouldPend, Frozen
<1>5. (HubPrepare /\ HubOff) \/ HubCollect => UNCHANGED <<hubStatus, configLock, objs, toCollect>>
  BY DEF HubPrepare, HubCollect
<1> QED BY <1>1, <1>2, <1>3, <1>4, <1>5, CollectionChanges

-----------------------------------------------------------------------------
\* What the generator says holds no answer, and a prepare only to begin.
LEMMA GenAppends ==
    ASSUME TypeOK, NEW t \in Threads, GenStep(t)
    PROVE  \E new \in Seq(Messages) :
              /\ msgQueue' = msgQueue \o new /\ None(new, Answers)
              /\ ~Acted(t, "resolve_config") => None(new, Prepares)
<1>1. PICK new : \E c, r, n, p \in BOOLEAN : Speaks(t, new, c, r, n, p)
  BY GenSpeaks
<1>2. PICK c \in BOOLEAN, r \in BOOLEAN, n \in BOOLEAN, p \in BOOLEAN :
         Speaks(t, new, c, r, n, p)
  BY <1>1
<1>3. /\ new \in Seq(Messages) /\ msgQueue' = msgQueue \o new
      /\ Number(new, "collect_OBJ_prepare") = Bit(r)
      /\ Number(new, "collect_OBJ_resp") = 0
  <2>1. /\ new \in Seq(Messages) /\ msgQueue' = msgQueue \o new
        /\ \A type : Number(new, type) =
              Bit(c /\ type = "collect_config_req") + Bit(r /\ type = "collect_OBJ_prepare")
              + Bit((r \/ n) /\ type = "collect_OBJ_normal") + Bit(p /\ type = "collect_OBJ_post")
    BY <1>2 DEF Speaks, Says
  <2>2. Number(new, "collect_OBJ_prepare") = Bit(r)
    BY <2>1 DEF Bit
  <2>3. Number(new, "collect_OBJ_resp") = 0
    BY <2>1 DEF Bit
  <2> QED BY <2>1, <2>2, <2>3
<1>4. r => Acted(t, "resolve_config")
  BY <1>2 DEF Speaks, AsksForIO
<1>5. None(new, Answers)
  <2>1. \A i \in DOMAIN new : new[i].type # "collect_OBJ_resp"
    BY <1>3, NumberWithout
  <2> QED BY <2>1 DEF None, Answers
<1>6. ASSUME ~Acted(t, "resolve_config") PROVE None(new, Prepares)
  <2>1. Number(new, "collect_OBJ_prepare") = 0
    BY <1>3, <1>4, <1>6 DEF Bit
  <2>2. \A i \in DOMAIN new : new[i].type # "collect_OBJ_prepare"
    BY <1>3, <2>1, NumberWithout
  <2> QED BY <2>2 DEF None, Prepares
<1> QED BY <1>3, <1>5, <1>6

\* Nothing of a type is in a queue that counts none of it.
LEMMA NoneCounted ==
    ASSUME NEW S, NEW q \in Seq(S), NEW type, Number(q, type) = 0
    PROVE  ~Has(q, type)
<1>1. \A i \in DOMAIN q : q[i].type # type
  BY NumberWithout
<1> QED BY <1>1 DEF Has

LEMMA GenOrders ==
    ASSUME TypeOK, Ordered, Owing <= 1, NEW t \in Threads, t = session, GenStep(t)
    PROVE  Ordered'
<1>0. msgQueue \in Seq(Messages) /\ hubQueue \in Seq(HubEvents) /\ hubQueue' = hubQueue
  BY GenFrame DEF TypeOK, MsgTypeOK, HubTypeOK
<1>1. CASE ~Acted(t, "resolve_config")
  <2>1. PICK new \in Seq(Messages) : msgQueue' = msgQueue \o new /\ None(new, Prepares)
    BY <1>1, GenAppends
  <2>2. Before(msgQueue, "collect_OBJ_normal", Prepares)
    BY DEF Ordered
  <2>3. Before(msgQueue \o new, "collect_OBJ_normal", Prepares)
    BY <1>0, <2>1, <2>2, BeforeConcat
  <2>4. None(msgQueue, Prepares) => None(msgQueue \o new, Prepares)
    BY <1>0, <2>1, NoneConcat
  <2> QED BY <1>0, <2>1, <2>3, <2>4 DEF Ordered
<1>2. CASE Acted(t, "resolve_config")
  <2>1. /\ \/ UNCHANGED msgQueue
           \/ msgQueue' = msgQueue \o <<Sent("collect_OBJ_prepare"), Sent("collect_OBJ_normal")>>
    BY <1>2 DEF Acted, GenStep, GenDequeue, GenCheck, GenAssert, GenCollectConfig,
       GenResolveConfig, GenResolveIO, GenResolveDeleted, GenAdvise, GenDrain, GenStop, GenActs
  <2> DEFINE a == Sent("collect_OBJ_prepare")
             b == Sent("collect_OBJ_normal")
  <2>2. a \in Messages /\ b \in Messages /\ a.type = "collect_OBJ_prepare"
        /\ b.type = "collect_OBJ_normal"
    BY SentTyped, SentIs DEF TypeOK
  <2> HIDE DEF a, b
  <2>3. Asks = 0
    <3>1. GenOn({"resolve_config"})
      BY <1>2 DEF Acted, GenOn
    <3>2. Handling("resolve_config") >= 1
      <4>1. Bit(GenOn({"resolve_config"})) = 1
        BY <3>1 DEF Bit
      <4>2. Number(genQueue, "resolve_config") \in Nat /\ Number(genPending, "resolve_config") \in Nat
        BY NumberIs DEF TypeOK, GenTypeOK
      <4> QED BY <4>1, <4>2 DEF Handling
    <3> QED BY <3>2, CountsNat DEF Owing
  <2>4. Number(msgQueue, "collect_OBJ_normal") = 0 /\ Number(hubQueue, "io_normal") = 0
    <3>1. Number(msgQueue, "collect_OBJ_normal") \in Nat /\ Number(hubQueue, "io_normal") \in Nat
      BY <1>0, NumberIs
    <3> QED BY <2>3, <3>1 DEF Asks
  <2>5. ~Has(msgQueue, "collect_OBJ_normal") /\ ~Has(hubQueue, "io_normal")
    BY <1>0, <2>4, NoneCounted
  <2>6. Before(Append(msgQueue, a), "collect_OBJ_normal", Prepares)
    <3>1. Before(msgQueue, "collect_OBJ_normal", Prepares)
      BY DEF Ordered
    <3> QED BY <1>0, <2>2, <2>5, <3>1, BeforeAppend
  <2>7. Append(msgQueue, a) \in Seq(Messages) /\ b \notin Prepares
    BY <1>0, <2>2 DEF Prepares
  <2>8. Before(Append(Append(msgQueue, a), b), "collect_OBJ_normal", Prepares)
    BY <2>2, <2>6, <2>7, BeforeAppend
  <2>9. msgQueue \o <<a, b>> = Append(Append(msgQueue, a), b)
    BY <1>0, <2>2
  <2>10. UNCHANGED msgQueue \/ msgQueue' = Append(Append(msgQueue, a), b)
    BY <2>1, <2>9 DEF a, b
  <2> QED BY <1>0, <2>5, <2>8, <2>10 DEF Ordered
<1> QED BY <1>1, <1>2

LEMMA CountsNext ==
    ASSUME TypeOK'
    PROVE  /\ Preps' \in Nat /\ Asks' \in Nat /\ Heard' \in Nat /\ Posts' \in Nat
           /\ Reading' \in Nat
<1> DEFINE q == msgQueue'
           h == hubQueue'
           g == genQueue'
           p == genPending'
<1>1. q \in Seq(Messages) /\ h \in Seq(HubEvents) /\ g \in Seq(GenEvents) /\ p \in Seq(GenEvents)
  BY DEF TypeOK, MsgTypeOK, HubTypeOK, GenTypeOK
<1> HIDE DEF q, h, g, p
<1>2. \A type : /\ Number(q, type) \in Nat /\ Number(h, type) \in Nat
                /\ Number(g, type) \in Nat /\ Number(p, type) \in Nat
  BY <1>1, NumberIs
<1>3. Preps' \in Nat /\ Asks' \in Nat /\ Heard' \in Nat /\ Posts' \in Nat
  BY <1>2 DEF Preps, Asks, Heard, Posts, q, h
<1>4. Reading' \in Nat
  <2>1. Reading' = Number(g, "resolve_OBJ_io") + Number(p, "resolve_OBJ_io")
                   + Bit(GenOn({"resolve_OBJ_io"})')
    BY DEF Reading, Handling, g, p
  <2>2. Bit(GenOn({"resolve_OBJ_io"})') \in {0, 1}
    BY DEF Bit
  <2>3. Number(g, "resolve_OBJ_io") \in Nat /\ Number(p, "resolve_OBJ_io") \in Nat
    BY <1>2
  <2> QED BY <2>1, <2>2, <2>3
<1> QED BY <1>3, <1>4

\* What a step leaves to the one that gives the lock back.
LEMMA GenConverses ==
    ASSUME NothingFails, TypeOK, TypeOK', OneRequestAtATime, NotYetMade, NeverNoop, NeverNoop',
           LifeCycle, session = 1, Covered, First => Conversing /\ PhasesEnd,
           NEW t \in Threads, GenStep(t)
    PROVE  Covered' /\ (First' => Conversing')
<1>0. /\ t = session /\ UNCHANGED <<hubQueue, hubPending, hubAst, configLock, session, astState>>
      /\ GenDoes(t) /\ msgQueue \in Seq(Messages)
  BY FirstThread, GenFrame, GenCounts DEF TypeOK, MsgTypeOK
<1>1. ~GenReleased
  <2>1. genPc[session] \notin Gone
    BY <1>0, GenMove DEF GenMoves
  <2> QED BY <1>0, <2>1 DEF LifeCycle, Gone
<1>2. /\ Views \in Nat /\ Preps \in Nat /\ Asks \in Nat /\ Heard \in Nat /\ Posts \in Nat
      /\ Handling("resolve_config") \in Nat /\ Reading \in Nat /\ configLock \in Int
  BY CountsNat
<1>3. /\ Preps' \in Nat /\ Asks' \in Nat /\ Heard' \in Nat /\ Posts' \in Nat
      /\ Reading' \in Nat
  BY CountsNext
<1>4. PICK o \in {0, 1}, r \in {0, -1}, p \in {0, 1}, a \in {0, 1} :
         /\ Posts' = Posts + o /\ Reading' = Reading + r /\ o + r <= 0
         /\ Preps' = Preps + p /\ Asks' = Asks + a /\ Heard' = Heard /\ o + a + r = p
  BY <1>0, <1>2 DEF GenDoes, Moves, Works
<1>40. o <= Reading
  <2>1. Reading + r >= 0
    BY <1>3, <1>4
  <2> QED BY <1>2, <1>4, <2>1
<1>5. Covered'
  <2>1. configLock' = configLock
    BY <1>0
  <2>2. Posts + Reading <= configLock
    BY <1>1 DEF Covered
  <2>3. Posts + o <= configLock /\ Posts + o + (Reading + r) <= configLock
    BY <1>2, <1>4, <1>40, <2>2
  <2>4. Posts' <= configLock /\ Posts' + Reading' <= configLock
    BY <1>4, <2>3
  <2> QED BY <2>1, <2>4 DEF Covered
<1>6. ASSUME First PROVE Conversing'
  <2>0. /\ Owing <= Bit(genStatus = "learning") /\ Preps <= Asks /\ Ordered /\ Sound
        /\ Acted(t, "collect_config") \/ Acted(t, "advise") => genStatus # "learning"
    BY <1>6 DEF Conversing, PhasesEnd
  <2>1. /\ Owing = Views + Handling("resolve_config") + Asks + Heard + Reading
        /\ Owing' = Views' + Handling("resolve_config")' + Asks' + Heard' + Reading'
    BY DEF Owing
  <2>2. Bit(genStatus = "learning") \in {0, 1}
    BY DEF Bit
  <2>3. Owing' <= Bit(genStatus' = "learning") /\ Preps' <= Asks'
    <3>1. CASE Moves(0, 0, 0, 0, 0) /\ Works(0, 0)
               /\ (genStatus' = genStatus \/ (Acted(t, "advise") /\ genStatus' = "advising_done"))
      BY <1>2, <2>0, <2>1, <3>1 DEF Moves, Works, Bit
    <3>2. CASE Moves(1, 0, 0, 0, 0) /\ Works(0, 0) /\ Learns(t)
      BY <1>2, <2>0, <2>1, <3>2 DEF Moves, Works, Bit, Learns
    <3>3. CASE Moves(0, 1, 1, 0, 0) /\ Works(-1, 0) /\ AsksForIO(t)
      BY <1>2, <2>0, <2>1, <2>2, <3>3 DEF Moves, Works, AsksForIO
    <3>4. CASE Moves(0, 0, 0, 0, 1) /\ Works(0, -1)
      <4>1. Owing' = Owing - 1 /\ Preps' <= Asks' /\ Owing \in Nat
        BY <1>2, <2>0, <2>1, <3>4 DEF Moves, Works
      <4>2. Bit(genStatus' = "learning") \in {0, 1}
        BY DEF Bit
      <4> QED BY <2>0, <2>2, <4>1, <4>2
    <3>5. CASE Moves(0, 0, 1, 0, 0) /\ Works(0, -1) /\ genStatus' = genStatus
      BY <1>2, <2>0, <2>1, <2>2, <3>5 DEF Moves, Works
    <3> QED BY <1>0, <3>1, <3>2, <3>3, <3>4, <3>5 DEF GenDoes
  <2>4. Ordered'
    <3>1. Owing <= 1
      BY <1>2, <2>0, <2>1, <2>2
    <3> QED BY <1>0, <2>0, <3>1, GenOrders
  <2>5. Sound'
    <3>2. CASE hubAst # "disabling"
      <4>1. Posts + Asks + Heard + Reading <= configLock + Preps
        BY <2>0, <3>2 DEF Sound
      <4>2. Posts' + Asks' + Heard' + Reading' <= configLock + Preps'
        <5>1. Posts + o + (Asks + a) + Heard + (Reading + r) <= configLock + (Preps + p)
          BY <1>2, <1>4, <4>1
        <5> QED BY <1>4, <5>1
      <4> QED BY <1>0, <3>2, <4>2 DEF Sound
    <3>3. CASE hubAst = "disabling" /\ Posts + Reading + 1 <= configLock
      <4>1. Posts + o + (Reading + r) + 1 <= configLock
        BY <1>2, <1>4, <3>3
      <4>2. Posts' + Reading' + 1 <= configLock
        BY <1>4, <4>1
      <4> QED BY <1>0, <3>3, <4>2 DEF Sound
    <3>4. CASE hubAst = "disabling" /\ Behind(msgQueue, "disable_ast", Answers)
      <4>1. PICK new \in Seq(Messages) : msgQueue' = msgQueue \o new /\ None(new, Answers)
        BY GenAppends
      <4>2. Behind(msgQueue, "disable_ast", Answers)
        BY <3>4
      <4>3. Behind(msgQueue \o new, "disable_ast", Answers)
        BY <1>0, <4>1, <4>2, BehindConcat
      <4> QED BY <1>0, <3>4, <4>1, <4>3 DEF Sound
    <3> QED BY <2>0, <3>2, <3>3, <3>4 DEF Sound
  <2> QED BY <2>3, <2>4, <2>5 DEF Conversing
<1>7. First' => First
  BY <1>0 DEF First
<1> QED BY <1>5, <1>6, <1>7

-----------------------------------------------------------------------------
LEMMA HubSays ==
    ASSUME TypeOK, HubStep, hubAst # "disabled"
    PROVE  \/ UNCHANGED msgQueue
           \/ \E m \in Messages : /\ msgQueue' = Append(msgQueue, m)
                                  /\ m \notin Prepares
                                  /\ m.type = "collect_OBJ_resp" => HubCollect
<1>0. hubQueue \in Seq(HubEvents) /\ hubQueue # <<>>
  BY HubFrame DEF TypeOK, HubTypeOK
<1>1. HubEvent \in HubEvents /\ HubEvent.sn \in Sessions
  BY <1>0, TailOfSeq, RecordFields DEF HubEvent, HubEvents
<1>2. \/ UNCHANGED msgQueue
      \/ msgQueue' = Append(msgQueue, Sent("disable_ast"))
      \/ msgQueue' = Append(msgQueue, Record("report_delete", FALSE, FALSE, 0))
      \/ \E ok \in BOOLEAN : msgQueue' = Append(msgQueue, Answer("collect_config_resp", ok, FALSE))
      \/ /\ HubCollect
         /\ \E ok, flag \in BOOLEAN :
               msgQueue' = Append(msgQueue, Answer("collect_OBJ_resp", ok, flag))
  BY DEF HubStep, HubPend, HubEnable, HubDisable, HubEnableEcho, HubDisableEcho,
     HubConfigView, HubPrepare, HubCollect, HubPost, HubChange
<1>3. /\ Sent("disable_ast") \in Messages /\ Sent("disable_ast").type = "disable_ast"
  BY SentTyped, SentIs DEF TypeOK
<1>4. ASSUME NEW ok \in BOOLEAN, NEW flag \in BOOLEAN, NEW sn \in Sessions,
             NEW type \in {"report_delete", "collect_config_resp", "collect_OBJ_resp"}
      PROVE  /\ Record(type, ok, flag, sn) \in Messages
             /\ Record(type, ok, flag, sn).type = type
  <2>1. Record(type, ok, flag, sn) \in Messages
    BY RecordTyped DEF Messages
  <2> QED BY <2>1, RecordIs
<1>5. CASE UNCHANGED msgQueue
  BY <1>5
<1>6. CASE msgQueue' = Append(msgQueue, Sent("disable_ast"))
  BY <1>3, <1>6 DEF Prepares
<1>7. CASE msgQueue' = Append(msgQueue, Record("report_delete", FALSE, FALSE, 0))
  BY <1>4, <1>7, ZeroSession DEF Prepares
<1>8. ASSUME NEW ok \in BOOLEAN,
             msgQueue' = Append(msgQueue, Answer("collect_config_resp", ok, FALSE))
      PROVE  \E m \in Messages : /\ msgQueue' = Append(msgQueue, m)
                                 /\ m \notin Prepares /\ m.type # "collect_OBJ_resp"
  BY <1>1, <1>4, <1>8 DEF Prepares, Answer
<1>9. ASSUME NEW ok \in BOOLEAN, NEW flag \in BOOLEAN,
             msgQueue' = Append(msgQueue, Answer("collect_OBJ_resp", ok, flag))
      PROVE  \E m \in Messages : msgQueue' = Append(msgQueue, m) /\ m \notin Prepares
  BY <1>1, <1>4, <1>9 DEF Prepares, Answer
<1> QED BY <1>2, <1>5, <1>6, <1>7, <1>8, <1>9

LEMMA HubOrders ==
    ASSUME TypeOK, PendsFew, First, OneRequestAtATime, Ordered, HubStep
    PROVE  Ordered'
<1>0. /\ msgQueue \in Seq(Messages) /\ hubQueue \in Seq(HubEvents) /\ hubQueue # <<>>
      /\ hubPending \in Seq(HubEvents)
  BY HubFrame DEF TypeOK, MsgTypeOK, HubTypeOK
<1>1. /\ HubEvent \in HubEvents /\ HubEvent = Head(hubQueue) /\ Tail(hubQueue) \in Seq(HubEvents)
  BY <1>0, TailOfSeq DEF HubEvent
<1>2. hubAst # "disabled"
  BY DEF OneRequestAtATime, First
<1> DEFINE q == Tail(hubQueue)
<1>3. \/ hubQueue' \in {hubQueue, q, hubPending \o q}
      \/ hubQueue' = Append(q, HubEvent) /\ HubEvent.type = "enable_ast"
  BY DEF HubStep, HubPend, HubEnable, HubDisable, HubEnableEcho, HubDisableEcho,
     HubConfigView, HubPrepare, HubCollect, HubPost, HubChange, HubHandles, HubEvent
<1>4. /\ Before(hubQueue, "io_normal", Begins) /\ Before(q, "io_normal", Begins)
      /\ Has(q, "io_normal") => Has(hubQueue, "io_normal")
  <2>1. Before(hubQueue, "io_normal", Begins)
    BY DEF Ordered
  <2> QED BY <1>0, <2>1, BeforeTail, HasAppendTail
<1>5. q \in Seq(HubEvents)
  BY <1>1
<1> HIDE DEF q
<1>6. ~Has(hubPending, "io_normal")
  BY DEF PendsFew, Has
<1>7. /\ Before(hubPending \o q, "io_normal", Begins)
      /\ Has(hubPending \o q, "io_normal") => Has(q, "io_normal")
  BY <1>0, <1>4, <1>5, <1>6, BeforeFront
<1>8. HubEvent.type = "enable_ast" =>
         /\ Before(Append(q, HubEvent), "io_normal", Begins)
         /\ Has(Append(q, HubEvent), "io_normal") => Has(q, "io_normal")
  <2> SUFFICES ASSUME HubEvent.type = "enable_ast"
               PROVE  /\ Before(Append(q, HubEvent), "io_normal", Begins)
                      /\ Has(Append(q, HubEvent), "io_normal") => Has(q, "io_normal")
    OBVIOUS
  <2>1. HubEvent \notin Begins
    BY DEF Begins
  <2>2. Before(Append(q, HubEvent), "io_normal", Begins)
    BY <1>1, <1>4, <1>5, <2>1, BeforeAppend
  <2>3. Has(Append(q, HubEvent), "io_normal") <=> Has(q, "io_normal") \/ HubEvent.type = "io_normal"
    BY <1>1, <1>5, HasAppendTail
  <2> QED BY <2>2, <2>3
<1>9. /\ Before(hubQueue', "io_normal", Begins)
      /\ Has(hubQueue', "io_normal") => Has(hubQueue, "io_normal")
  BY <1>3, <1>4, <1>7, <1>8
<1>10. \/ UNCHANGED msgQueue
       \/ \E m \in Messages : msgQueue' = Append(msgQueue, m) /\ m \notin Prepares
  BY <1>0, <1>2, HubSays
<1>11. /\ Before(msgQueue', "collect_OBJ_normal", Prepares)
       /\ None(msgQueue, Prepares) => None(msgQueue', Prepares)
  <2>1. Before(msgQueue, "collect_OBJ_normal", Prepares)
    BY DEF Ordered
  <2>2. ASSUME NEW m \in Messages, m \notin Prepares
        PROVE  /\ Before(Append(msgQueue, m), "collect_OBJ_normal", Prepares)
               /\ None(msgQueue, Prepares) => None(Append(msgQueue, m), Prepares)
    BY <1>0, <2>1, <2>2, BeforeAppend, NoneAppend
  <2> QED BY <1>10, <2>1, <2>2
<1> QED BY <1>9, <1>11 DEF Ordered

\* The HUB hears that AST is disabled only when it is.
LEMMA HubStaysOff ==
    ASSUME TypeOK, OneRequestAtATime, HubStep, hubAst = "disabling", astState = "enabled"
    PROVE  hubAst' = "disabling"
<1>1. hubQueue # <<>>
  BY HubFrame
<1>2. ~HubEnableEcho /\ ~HubDisableEcho
  BY <1>1, EchoSaysStatus DEF HubEnableEcho, HubDisableEcho, HubHandles, HubEvent, EchoEvents
<1> QED BY <1>2 DEF HubStep, HubPend, HubEnable, HubDisable, HubConfigView, HubPrepare,
           HubCollect, HubPost, HubChange

\* What collects has been begun.
LEMMA CollectBegun ==
    ASSUME TypeOK, Ordered, HubCollect
    PROVE  Preps = 0
<1>0. hubQueue \in Seq(HubEvents) /\ msgQueue \in Seq(Messages) /\ hubQueue # <<>>
  BY DEF TypeOK, MsgTypeOK, HubTypeOK, HubCollect, HubHandles
<1>1. Head(hubQueue).type = "io_normal"
  BY DEF HubCollect, HubHandles
<1>2. None(Tail(hubQueue), Begins) /\ Tail(hubQueue) \in Seq(HubEvents)
  <2>1. Before(hubQueue, "io_normal", Begins)
    BY DEF Ordered
  <2> QED BY <1>0, <1>1, <2>1, BeforeTail, TailOfSeq
<1>3. Has(hubQueue, "io_normal")
  <2>1. 1 \in DOMAIN hubQueue /\ hubQueue[1] = Head(hubQueue)
    BY <1>0
  <2> QED BY <1>1, <2>1 DEF Has
<1>4. None(msgQueue, Prepares)
  BY <1>3 DEF Ordered
<1>5. Number(msgQueue, "collect_OBJ_prepare") = 0
  <2>1. \A i \in DOMAIN msgQueue : msgQueue[i].type # "collect_OBJ_prepare"
    BY <1>0, <1>4 DEF None, Prepares
  <2> QED BY <1>0, <2>1, NumberWithout
<1> DEFINE q == Tail(hubQueue)
<1>6. \A i \in DOMAIN q : q[i].type # "io_prepare"
  BY <1>2 DEF None, Begins
<1>7. q \in Seq(HubEvents)
  BY <1>2
<1> HIDE DEF q
<1>8. Number(q, "io_prepare") = 0
  BY <1>6, <1>7, NumberWithout
<1>9. Number(hubQueue, "io_prepare") = Bit(Head(hubQueue).type = "io_prepare") + Number(q, "io_prepare")
  BY <1>0, NumberTail DEF q
<1> QED BY <1>1, <1>5, <1>8, <1>9 DEF Preps, Bit

LEMMA HubConverses ==
    ASSUME TypeOK, TypeOK', OneRequestAtATime, PendsFew, session = 1, Covered,
           First => Conversing, HubStep
    PROVE  Covered' /\ (First' => Conversing')
<1>0. /\ UNCHANGED <<genStatus, genQueue, genPending, genPc, genEv, session, astState, msgPc>>
      /\ HubDoes /\ hubQueue \in Seq(HubEvents) /\ msgQueue \in Seq(Messages) /\ hubQueue # <<>>
  BY HubFrame, HubCounts DEF TypeOK, HubTypeOK, MsgTypeOK
<1>1. /\ Handling("resolve_config")' = Handling("resolve_config") /\ Reading' = Reading
      /\ GenReleased' = GenReleased
  BY <1>0 DEF Handling, Reading, GenOn, GenReleased, ExeReleased
<1>2. /\ Views \in Nat /\ Preps \in Nat /\ Asks \in Nat /\ Heard \in Nat /\ Posts \in Nat
      /\ Handling("resolve_config") \in Nat /\ Reading \in Nat /\ configLock \in Int
  BY CountsNat
<1>3. PICK d \in Int : /\ configLock' = configLock + d
                       /\ HubPrepare => d = IF HubOff THEN 0 ELSE 1
                       /\ HubPost => d = -1
                       /\ ~HubPrepare /\ ~HubPost => d = 0
  <2>1. CASE HubPrepare
    <3>1. configLock' = configLock + (IF HubOff THEN 0 ELSE 1)
      BY <1>2, <2>1 DEF HubPrepare
    <3>2. ~HubPost
      BY <2>1 DEF HubPrepare, HubPost, HubHandles
    <3>3. (IF HubOff THEN 0 ELSE 1) \in Int
      OBVIOUS
    <3> QED BY <2>1, <3>1, <3>2, <3>3
  <2>2. CASE HubPost
    <3>1. configLock' = configLock + (-1)
      BY <1>2, <2>2 DEF HubPost
    <3>2. ~HubPrepare
      BY <2>2 DEF HubPrepare, HubPost, HubHandles
    <3> QED BY <2>2, <3>1, <3>2
  <2>3. CASE ~HubPrepare /\ ~HubPost
    <3>1. configLock' = configLock
      BY <2>3 DEF HubStep, HubPend, HubEnable, HubDisable, HubEnableEcho, HubDisableEcho,
         HubConfigView, HubCollect, HubChange
    <3>2. configLock' = configLock + 0
      BY <1>2, <3>1
    <3> QED BY <2>3, <3>2
  <2> QED BY <2>1, <2>2, <2>3
<1>4. Covered'
  <2>1. PICK o \in Int : Posts' = o /\ o <= Posts + (IF HubPost THEN -1 ELSE 0)
    <3>1. CASE HubEnable /\ hubAst = "disabled" /\ Posts' <= Posts
      <4>1. Posts' \in Nat
        BY CountsNext
      <4>2. ~HubPost
        BY <3>1 DEF HubEnable, HubPost, HubHandles
      <4>3. PICK n \in Nat : n = Posts'
        BY <4>1
      <4>4. n <= Posts + (IF HubPost THEN -1 ELSE 0)
        <5>1. n <= Posts
          BY <3>1, <4>3
        <5> QED BY <1>2, <4>2, <5>1
      <4> QED BY <4>3, <4>4
    <3>2. CASE HubPost
      <4>1. Moves(0, 0, 0, 0, -1)
        BY <3>2, HubPosts
      <4>2. Posts' = Posts + (-1) /\ Posts + (-1) \in Int
        BY <1>2, <4>1 DEF Moves
      <4> QED BY <1>2, <3>2, <4>2
    <3>3. CASE ~HubPost /\ ~(HubEnable /\ hubAst = "disabled" /\ Posts' <= Posts)
      <4>1. Posts' = Posts
        BY <1>0, <1>2, <3>3 DEF HubDoes, Moves
      <4> QED BY <1>2, <3>3, <4>1
    <3> QED BY <3>1, <3>2, <3>3
  <2>2. d >= IF HubPost THEN -1 ELSE 0
    BY <1>3
  <2>3. o <= configLock + d
    BY <1>2, <2>1, <2>2 DEF Covered
  <2>4. ~GenReleased => o + Reading <= configLock + d
    BY <1>2, <2>1, <2>2 DEF Covered
  <2> QED BY <1>1, <1>3, <2>1, <2>3, <2>4 DEF Covered
<1>5. ASSUME First PROVE Conversing'
  <2>0. /\ Owing <= Bit(genStatus = "learning") /\ Preps <= Asks /\ Ordered /\ Sound
        /\ Owing = Views + Handling("resolve_config") + Asks + Heard + Reading
        /\ Owing' = Views' + Handling("resolve_config")' + Asks' + Heard' + Reading'
        /\ Bit(genStatus = "learning") \in {0, 1}
    BY <1>5 DEF Conversing, Owing, Bit
  <2>1. hubAst # "disabled" /\ astState = "enabled"
    BY <1>5 DEF OneRequestAtATime, First
  <2>2. HubCollect => Preps = 0
    BY <2>0, CollectBegun
  <2>3. PICK p \in Int, a \in Int, h \in Int, o \in Int :
           /\ Moves(0, p, a, h, o)
           /\ HubPrepare => p = -1 /\ a = 0 /\ h = 0 /\ o = 0
           /\ HubCollect => p = 0 /\ a = -1 /\ h = 1 /\ o = 0
           /\ HubPost => p = 0 /\ a = 0 /\ h = 0 /\ o = -1
           /\ ~HubPrepare /\ ~HubCollect /\ ~HubPost => p = 0 /\ a = 0 /\ h = 0 /\ o = 0
    <3>1. /\ HubPrepare => ~HubCollect /\ ~HubPost
          /\ HubCollect => ~HubPost
      BY DEF HubPrepare, HubCollect, HubPost, HubHandles
    <3>2. HubPrepare => Moves(0, -1, 0, 0, 0)
      BY HubCollects
    <3>3. HubCollect => Moves(0, 0, -1, 1, 0)
      BY HubCollects
    <3>4. HubPost => Moves(0, 0, 0, 0, -1)
      BY HubPosts
    <3>5. ~HubPrepare /\ ~HubCollect /\ ~HubPost => Moves(0, 0, 0, 0, 0)
      BY <1>0, <2>1 DEF HubDoes
    <3> HIDE DEF Moves
    <3> QED BY <3>1, <3>2, <3>3, <3>4, <3>5
  <2>4. /\ Views' = Views + 0 /\ Preps' = Preps + p /\ Asks' = Asks + a /\ Heard' = Heard + h
        /\ Posts' = Posts + o
    BY <2>3 DEF Moves
  <2>5. Owing' <= Bit(genStatus' = "learning")
    <3>1. a + h <= 0
      BY <2>3
    <3>2. Views + 0 + Handling("resolve_config") + (Asks + a) + (Heard + h) + Reading
             <= Bit(genStatus = "learning")
      BY <1>2, <2>0, <3>1
    <3> QED BY <1>0, <1>1, <2>0, <2>4, <3>2
  <2>6. Preps' <= Asks'
    <3>1. Preps + p <= Asks + a
      <4>1. CASE HubCollect
        <5>1. Asks' \in Nat
          BY CountsNext
        <5> QED BY <1>2, <2>2, <2>3, <2>4, <4>1, <5>1
      <4>2. CASE ~HubCollect
        <5>1. p <= 0 /\ a = 0
          BY <2>3, <4>2
        <5> QED BY <1>2, <2>0, <5>1
      <4> QED BY <4>1, <4>2
    <3> QED BY <2>4, <3>1
  <2>7. Ordered'
    BY <1>5, <2>0, HubOrders
  <2>8. Sound'
    <3>1. CASE hubAst # "disabling" /\ hubAst' # "disabling"
      <4>1. ~HubOff
        BY <2>1, <3>1 DEF HubOff
      <4>2. d >= o + a + h - p
        BY <1>3, <2>3, <4>1
      <4>3. Posts + Asks + Heard + Reading <= configLock + Preps
        BY <2>0, <3>1 DEF Sound
      <4>4. Posts + o + (Asks + a) + (Heard + h) + Reading <= configLock + d + (Preps + p)
        BY <1>2, <4>2, <4>3
      <4> QED BY <1>1, <1>3, <2>4, <3>1, <4>4 DEF Sound
    <3>2. CASE hubAst = "disabling"
      <4>0. HubOff /\ d = o
        BY <1>3, <2>3, <3>2 DEF HubOff
      <4>1. CASE Posts + Reading + 1 <= configLock
        <5>1. Posts + o + Reading + 1 <= configLock + d
          BY <1>2, <4>0, <4>1
        <5>2. hubAst' = "disabling"
          BY <1>0, <2>1, <3>2, HubStaysOff
        <5> QED BY <1>1, <1>3, <2>4, <4>0, <5>1, <5>2 DEF Sound
      <4>2. CASE Behind(msgQueue, "disable_ast", Answers)
        <5>1. Has(msgQueue, "disable_ast")
          BY <2>1, <3>2, EchoIsComing
        <5>2. ASSUME NEW m \in Messages
              PROVE  Behind(Append(msgQueue, m), "disable_ast", Answers)
          BY <1>0, <4>2, <5>1, BehindAppend
        <5>3. Behind(msgQueue', "disable_ast", Answers)
          BY <2>1, <4>2, <5>2, HubSays
        <5>4. hubAst' = "disabling"
          BY <1>0, <2>1, <3>2, HubStaysOff
        <5> QED BY <5>3, <5>4 DEF Sound
      <4> QED BY <2>0, <3>2, <4>1, <4>2 DEF Sound
    <3>3. CASE hubAst # "disabling" /\ hubAst' = "disabling"
      <4>1. HubDisable /\ msgQueue' = Append(msgQueue, Sent("disable_ast"))
        BY <3>3 DEF HubStep, HubPend, HubEnable, HubDisable, HubEnableEcho, HubDisableEcho,
           HubConfigView, HubPrepare, HubCollect, HubPost, HubChange
      <4>2. o = 0 /\ d = 0
        BY <1>3, <2>3, <4>1
           DEF HubDisable, HubPrepare, HubCollect, HubPost, HubHandles
      <4>3. Posts + Asks + Heard + Reading <= configLock + Preps
        BY <2>0, <3>3 DEF Sound
      <4>4. CASE Heard = 0
        <5>1. \A i \in DOMAIN msgQueue : msgQueue[i].type # "collect_OBJ_resp"
          BY <1>0, <4>4, NumberWithout DEF Heard
        <5>2. None(msgQueue, Answers)
          BY <5>1 DEF None, Answers
        <5>3. Sent("disable_ast") \in Messages /\ Sent("disable_ast") \notin Answers
          BY SentTyped, SentIs DEF TypeOK, Answers
        <5>4. None(Append(msgQueue, Sent("disable_ast")), Answers)
          BY <1>0, <5>2, <5>3, NoneAppend
        <5>5. Behind(Append(msgQueue, Sent("disable_ast")), "disable_ast", Answers)
          BY <5>4, NoneBehind
        <5> QED BY <3>3, <4>1, <5>5 DEF Sound
      <4>5. CASE Heard # 0
        <5>1. Asks = 0 /\ Reading = 0 /\ Heard = 1
          BY <1>2, <2>0, <4>5
        <5>2. Preps = 0
          BY <1>2, <2>0, <5>1
        <5>3. Posts + o + Reading + 1 <= configLock + d
          BY <1>2, <4>2, <4>3, <5>1, <5>2
        <5> QED BY <1>1, <1>3, <2>4, <3>3, <5>3 DEF Sound
      <4> QED BY <4>4, <4>5
    <3> QED BY <3>1, <3>2, <3>3
  <2> QED BY <2>5, <2>6, <2>7, <2>8 DEF Conversing
<1>6. First' => First
  BY <1>0 DEF First
<1> QED BY <1>4, <1>5, <1>6

LEMMA MsgOrders ==
    ASSUME TypeOK, Ordered, ForwardToHub \/ ForwardToGen
    PROVE  Ordered'
<1>0. /\ msgQueue \in Seq(Messages) /\ hubQueue \in Seq(HubEvents) /\ msgQueue # <<>>
      /\ msgQueue' = Tail(msgQueue)
  BY DEF TypeOK, MsgTypeOK, HubTypeOK, ForwardToHub, ForwardToGen, MsgHandles
<1>1. Msg \in Messages /\ Msg = Head(msgQueue)
  BY <1>0, TailOfSeq DEF Msg
<1>2. /\ Before(Tail(msgQueue), "collect_OBJ_normal", Prepares)
      /\ Msg.type = "collect_OBJ_normal" => None(Tail(msgQueue), Prepares)
  <2>1. Before(msgQueue, "collect_OBJ_normal", Prepares)
    BY DEF Ordered
  <2> QED BY <1>0, <1>1, <2>1, BeforeTail
<1>3. None(msgQueue, Prepares) => Msg \notin Prepares /\ None(Tail(msgQueue), Prepares)
  BY <1>0, <1>1, NoneTail
<1>4. CASE ForwardToGen
  BY <1>0, <1>2, <1>3, <1>4 DEF ForwardToGen, hubVars, Ordered
<1>5. CASE ForwardToHub
  <2> DEFINE e == [Msg EXCEPT !.type = ToHub[Msg.type]]
  <2>1. hubQueue' = Append(hubQueue, e) /\ Msg.type \in DOMAIN ToHub
    BY <1>5 DEF ForwardToHub, MsgHandles, Msg
  <2>2. e \in HubEvents /\ e.type = ToHub[Msg.type]
    BY <1>1, <2>1, ForwardedIs
  <2> HIDE DEF e
  <2>3. /\ e \in Begins => Msg \in Prepares
        /\ e.type = "io_normal" => Msg.type = "collect_OBJ_normal"
    BY <1>1, <2>1, <2>2 DEF Begins, Prepares, ToHub
  <2>4. e \in Begins => ~Has(hubQueue, "io_normal")
    BY <1>3, <2>3 DEF Ordered
  <2>5. Before(hubQueue, "io_normal", Begins)
    BY DEF Ordered
  <2>6. Before(Append(hubQueue, e), "io_normal", Begins)
    BY <1>0, <2>2, <2>4, <2>5, BeforeAppend
  <2>7. Has(Append(hubQueue, e), "io_normal") <=> Has(hubQueue, "io_normal") \/ e.type = "io_normal"
    BY <1>0, <2>2, HasAppendTail
  <2>8. Has(Append(hubQueue, e), "io_normal") => None(Tail(msgQueue), Prepares)
    BY <1>2, <1>3, <2>3, <2>7 DEF Ordered
  <2> QED BY <1>0, <1>2, <2>1, <2>6, <2>8 DEF Ordered
<1> QED BY <1>4, <1>5

\* What delivering a message does to the counts.
Delivers(v, h) ==
    /\ Moves(0 - v, 0, 0, 0 - h, 0) /\ Works(v, h) /\ v + h <= 1
    /\ h = 1 <=> Msg.type = "collect_OBJ_resp"

LEMMA MsgCounts ==
    ASSUME TypeOK, ForwardToHub \/ ForwardToGen
    PROVE  \E v, h \in {0, 1} : Delivers(v, h)
<1>1. CASE ForwardToHub
  <2>1. Moves(0, 0, 0, 0, 0) /\ Works(0, 0)
    BY <1>1, HubHears
  <2>2. Msg.type # "collect_OBJ_resp"
    BY <1>1 DEF ForwardToHub, MsgHandles, Msg, ToHub
  <2>3. Delivers(0, 0)
    BY <2>1, <2>2 DEF Delivers
  <2> QED BY <2>3
<1>2. CASE ForwardToGen
  <2>1. GenHears
    BY <1>2, GenIsTold
  <2> HIDE DEF Moves, Works
  <2> QED BY <2>1 DEF GenHears, Delivers
<1> QED BY <1>1, <1>2

LEMMA MsgPasses ==
    ASSUME TypeOK, OneRequestAtATime, session = 1, Covered, First => Conversing,
           ForwardToHub \/ ForwardToGen
    PROVE  Covered' /\ (First' => Conversing')
<1>0. /\ UNCHANGED <<genStatus, hubPending, hubAst, configLock, session, astState, msgPc>>
      /\ msgQueue \in Seq(Messages) /\ msgQueue # <<>> /\ msgQueue' = Tail(msgQueue)
      /\ msgPc = "idle"
  BY DEF ForwardToHub, ForwardToGen, genVars, hubVars, TypeOK, MsgTypeOK, MsgHandles
<1>1. Msg \in Messages /\ Msg = Head(msgQueue)
  BY <1>0, TailOfSeq DEF Msg
<1>2. /\ Views \in Nat /\ Preps \in Nat /\ Asks \in Nat /\ Heard \in Nat /\ Posts \in Nat
      /\ Handling("resolve_config") \in Nat /\ Reading \in Nat /\ configLock \in Int
  BY CountsNat
<1>3. PICK v \in {0, 1}, h \in {0, 1} : Delivers(v, h)
  BY MsgCounts
<1>4. /\ Views' = Views + (0 - v) /\ Preps' = Preps + 0 /\ Asks' = Asks + 0
      /\ Heard' = Heard + (0 - h) /\ Posts' = Posts + 0 /\ Reading' = Reading + h
      /\ Handling("resolve_config")' = Handling("resolve_config") + v
  BY <1>3 DEF Delivers, Moves, Works
<1>5. GenReleased' = GenReleased
  BY <1>0 DEF GenReleased, ExeReleased
<1>6. ~GenReleased => astState = "enabled"
  BY <1>0 DEF OneRequestAtATime, GenReleased, ExeReleased
<1>7. h = 1 => Heard >= 1
  <2>1. Heard = Bit(Head(msgQueue).type = "collect_OBJ_resp") + Number(Tail(msgQueue), "collect_OBJ_resp")
    BY <1>0, NumberTail DEF Heard
  <2>2. Number(Tail(msgQueue), "collect_OBJ_resp") \in Nat
    BY <1>0, TailOfSeq, NumberIs
  <2> QED BY <1>1, <1>3, <2>1, <2>2 DEF Bit, Delivers
<1>8. ASSUME session = 1, astState = "enabled"
      PROVE  Posts + Reading + h <= configLock /\ Conversing'
  <2>0. /\ Owing <= Bit(genStatus = "learning") /\ Preps <= Asks /\ Ordered /\ Sound
        /\ Owing = Views + Handling("resolve_config") + Asks + Heard + Reading
        /\ Owing' = Views' + Handling("resolve_config")' + Asks' + Heard' + Reading'
        /\ Bit(genStatus = "learning") \in {0, 1}
        /\ Posts + Reading <= configLock
    <3>1. First /\ ~GenReleased
      BY <1>0, <1>8 DEF First, GenReleased, ExeReleased
    <3> QED BY <3>1 DEF Conversing, Owing, Bit, Covered
  <2>1. h = 1 => Asks = 0 /\ Reading = 0 /\ Heard = 1 /\ Preps = 0
    BY <1>2, <1>7, <2>0
  <2>2. ASSUME hubAst = "disabling", Behind(msgQueue, "disable_ast", Answers)
        PROVE  h = 0 /\ (Msg.type # "disable_ast" =>
                            Behind(Tail(msgQueue), "disable_ast", Answers))
    <3>1. Msg \notin Answers /\ (Msg.type # "disable_ast" =>
                                    Behind(Tail(msgQueue), "disable_ast", Answers))
      BY <1>0, <1>1, <2>2, BehindTail
    <3> QED BY <1>1, <1>3, <3>1 DEF Answers, Delivers
  <2>3. Msg.type # "disable_ast"
    BY <1>1 DEF ForwardToHub, ForwardToGen, MsgHandles, Msg, ToHub, ToGen
  <2>4. Posts + Reading + h <= configLock
    <3>1. CASE h = 0
      BY <1>2, <2>0, <3>1
    <3>2. CASE h = 1 /\ hubAst # "disabling"
      <4>1. Posts + Asks + Heard + Reading <= configLock + Preps
        BY <2>0, <3>2 DEF Sound
      <4> QED BY <1>2, <2>1, <3>2, <4>1
    <3>3. CASE h = 1 /\ hubAst = "disabling"
      <4>1. Posts + Reading + 1 <= configLock
        BY <2>0, <2>2, <3>3 DEF Sound
      <4> QED BY <3>3, <4>1
    <3> QED BY <3>1, <3>2, <3>3
  <2>5. Owing' <= Bit(genStatus' = "learning")
    <3>1. Views + (0 - v) + (Handling("resolve_config") + v) + (Asks + 0) + (Heard + (0 - h))
             + (Reading + h) = Owing
      BY <1>2, <2>0
    <3> QED BY <1>0, <1>4, <2>0, <3>1
  <2>6. Preps' <= Asks'
    <3>1. Preps + 0 <= Asks + 0
      BY <1>2, <2>0
    <3> QED BY <1>4, <3>1
  <2>7. Ordered'
    BY <2>0, MsgOrders
  <2>8. Sound'
    <3>1. CASE hubAst # "disabling"
      <4>1. Posts + Asks + Heard + Reading <= configLock + Preps
        BY <2>0, <3>1 DEF Sound
      <4>2. (Posts + 0) + (Asks + 0) + (Heard + (0 - h)) + (Reading + h) <= configLock + (Preps + 0)
        BY <1>2, <4>1
      <4> QED BY <1>0, <1>4, <3>1, <4>2 DEF Sound
    <3>2. CASE hubAst = "disabling" /\ Behind(msgQueue, "disable_ast", Answers)
      BY <1>0, <2>2, <2>3, <3>2 DEF Sound
    <3>3. CASE hubAst = "disabling" /\ Posts + Reading + 1 <= configLock /\ h = 0
      <4>1. Posts + 0 + (Reading + h) + 1 <= configLock
        BY <1>2, <3>3
      <4> QED BY <1>0, <1>4, <3>3, <4>1 DEF Sound
    <3>4. CASE hubAst = "disabling" /\ h = 1
      <4>1. Heard' = 0
        BY <1>4, <2>1, <3>4
      <4> DEFINE q == msgQueue'
      <4>2. q \in Seq(Messages) /\ Number(q, "collect_OBJ_resp") = 0
        BY <1>0, <4>1, TailOfSeq DEF Heard
      <4> HIDE DEF q
      <4>3. \A i \in DOMAIN q : q[i].type # "collect_OBJ_resp"
        BY <4>2, NumberWithout
      <4>4. None(q, Answers)
        BY <4>3 DEF None, Answers
      <4>5. Behind(q, "disable_ast", Answers)
        BY <4>4, NoneBehind
      <4> QED BY <1>0, <3>4, <4>5 DEF Sound, q
    <3> QED BY <1>3, <2>0, <3>1, <3>2, <3>3, <3>4 DEF Sound
  <2> QED BY <2>4, <2>5, <2>6, <2>7, <2>8 DEF Conversing
<1>9. Covered'
  <2>1. Posts + 0 <= configLock
    BY <1>2 DEF Covered
  <2>2. ~GenReleased => Posts + 0 + (Reading + h) <= configLock
    BY <1>2, <1>6, <1>8
  <2> QED BY <1>0, <1>4, <1>5, <2>1, <2>2 DEF Covered
<1> QED BY <1>0, <1>8, <1>9 DEF First

\* Switching AST off, or failing to switch it on.
Switching ==
    EnableFails \/ DisableBegin \/ GenStopBegin \/ GenStopEnd \/ ExeStopBegin \/ ExeStopEnd
        \/ DisableEnd

LEMMA SwitchingPosts ==
    ASSUME TypeOK, Switching
    PROVE  Posts' = Posts /\ UNCHANGED <<hubVars, session>>
<1>0. /\ msgQueue \in Seq(Messages) /\ session \in Sessions /\ UNCHANGED <<hubVars, session>>
      /\ UNCHANGED hubQueue
  BY DEF TypeOK, MsgTypeOK, Switching, EnableFails, DisableBegin, GenStopBegin, GenStopEnd,
         ExeStopBegin, ExeStopEnd, DisableEnd, hubVars
<1> DEFINE Post == {"collect_OBJ_post"}
<1>1. ASSUME NEW ok \in BOOLEAN, NEW type \in {"ast_enabled", "ast_disabled"}
      PROVE  /\ Record(type, ok, FALSE, session) \in Messages
             /\ Record(type, ok, FALSE, session).type \notin Post
  <2>1. Record(type, ok, FALSE, session) \in Messages
    BY <1>0, RecordTyped DEF Messages
  <2>2. Record(type, ok, FALSE, session).type = type
    BY Zenon DEF Record
  <2> QED BY <2>1, <2>2
<1>2. CASE UNCHANGED msgQueue
  BY <1>0, <1>2 DEF Posts
<1>3. ASSUME MsgHandles({"enable_ast", "disable_ast"})
      PROVE  /\ SameIn(msgQueue, Tail(msgQueue), Post) /\ Tail(msgQueue) \in Seq(Messages)
             /\ msgQueue # <<>>
  <2>1. msgQueue # <<>> /\ Head(msgQueue).type \notin Post
    BY <1>3 DEF MsgHandles
  <2> QED BY <1>0, <2>1, SameTail, TailOfSeq
<1>4. ASSUME NEW q \in Seq(Messages), NEW ok \in BOOLEAN,
             NEW type \in {"ast_enabled", "ast_disabled"}
      PROVE  SameIn(q, Append(q, Record(type, ok, FALSE, session)), Post)
  BY <1>1, SameAppend
<1>5. CASE EnableFails
  <2>1. msgQueue' = Append(Tail(msgQueue), Record("ast_enabled", FALSE, FALSE, session))
        /\ MsgHandles({"enable_ast", "disable_ast"})
    BY <1>5 DEF EnableFails, MsgHandles
  <2>2. SameIn(Tail(msgQueue), msgQueue', Post)
    BY <1>3, <1>4, <2>1
  <2> QED BY <1>0, <1>3, <2>1, <2>2 DEF SameIn, Posts
<1>6. CASE DisableBegin
  <2>1. /\ MsgHandles({"enable_ast", "disable_ast"})
        /\ \/ msgQueue' = Append(Tail(msgQueue), Record("ast_disabled", FALSE, FALSE, session))
           \/ msgQueue' = Tail(msgQueue)
    BY <1>6 DEF DisableBegin, MsgHandles
  <2>2. SameIn(Tail(msgQueue), msgQueue', Post)
    BY <1>3, <1>4, <2>1, SameSelf
  <2> QED BY <1>0, <1>3, <2>1, <2>2 DEF SameIn, Posts
<1>7. CASE DisableEnd
  <2>1. msgQueue' = Append(msgQueue, Record("ast_disabled", TRUE, FALSE, session))
    BY <1>7 DEF DisableEnd
  <2>2. SameIn(msgQueue, msgQueue', Post)
    BY <1>0, <1>4, <2>1
  <2> QED BY <1>0, <2>2 DEF SameIn, Posts
<1>8. GenStopBegin \/ GenStopEnd \/ ExeStopBegin \/ ExeStopEnd => UNCHANGED msgQueue
  BY DEF GenStopBegin, GenStopEnd, ExeStopBegin, ExeStopEnd
<1>9. Posts' = Posts
  BY <1>2, <1>5, <1>6, <1>7, <1>8 DEF Switching
<1> QED BY <1>0, <1>9

LEMMA SwitchingConverses ==
    ASSUME TypeOK, OneRequestAtATime, Covered, Switching
    PROVE  Covered' /\ ~First'
<1>0. Posts' = Posts /\ UNCHANGED configLock
  BY SwitchingPosts DEF hubVars
<1>1. GenReleased' \/ (~GenReleased /\ Reading' = Reading)
  <2>1. CASE EnableFails
    <3>1. Msg.type = "enable_ast" /\ msgQueue # <<>>
      BY <2>1 DEF EnableFails, MsgHandles, Msg
    <3>2. astState \in {"none", "disabled"}
      BY <3>1, MsgSaysStatus DEF ControlMsgs
    <3> QED BY <2>1, <3>2 DEF EnableFails, GenReleased, ExeReleased
  <2>2. CASE DisableBegin
    <3>1. Msg.type = "disable_ast" /\ msgQueue # <<>> /\ msgPc = "idle"
      BY <2>2 DEF DisableBegin, MsgHandles, Msg
    <3>2. astState = "enabled"
      BY <3>1, MsgSaysStatus DEF ControlMsgs
    <3>3. UNCHANGED <<genQueue, genPending, genPc, genEv, session>>
      BY <2>2 DEF DisableBegin, genVars
    <3> QED BY <3>1, <3>2, <3>3 DEF GenReleased, ExeReleased, Reading, Handling, GenOn
  <2>3. CASE GenStopBegin
    <3>1. msgPc = "gen_stop" /\ astState = "disabling"
      BY <2>3 DEF GenStopBegin, OneRequestAtATime
    <3>2. genQueue \in Seq(GenEvents) /\ genPending \in Seq(GenEvents)
      BY DEF TypeOK, GenTypeOK
    <3>3. StopGenEvent \in GenEvents /\ StopGenEvent.type \notin GenTalk
      <4>1. StopGenEvent \in GenEvents
        BY RecordTyped DEF TypeOK, MsgTypeOK, StopGenEvent, GenEvents
      <4>2. StopGenEvent.type = "stop"
        BY Zenon DEF StopGenEvent, Record
      <4> QED BY <4>1, <4>2 DEF GenTalk
    <3>4. /\ SameIn(genQueue, <<StopGenEvent>> \o genQueue, GenTalk)
          /\ SameIn(genPending, <<StopGenEvent>> \o genPending, GenTalk)
      BY <3>2, <3>3, SameFront
    <3>5. SameIn(genQueue, genQueue', GenTalk) /\ SameIn(genPending, genPending', GenTalk)
      BY <2>3, <3>4, SameSelf DEF GenStopBegin
    <3>6. UNCHANGED <<genPc, genEv, session>>
      BY <2>3 DEF GenStopBegin
    <3>7. Reading' = Reading + 0
      BY <3>5, <3>6, NothingWorks DEF Works
    <3> QED BY <3>1, <3>7, CountsNat DEF GenReleased, ExeReleased
  <2>4. CASE GenStopEnd \/ ExeStopBegin \/ ExeStopEnd \/ DisableEnd
    BY <2>4 DEF GenStopEnd, ExeStopBegin, ExeStopEnd, DisableEnd, GenReleased, ExeReleased
  <2> QED BY <2>1, <2>2, <2>3, <2>4 DEF Switching
<1>2. Covered'
  BY <1>0, <1>1 DEF Covered
<1>3. astState' # "enabled"
  <2>1. CASE EnableFails
    <3>1. Msg.type = "enable_ast" /\ msgQueue # <<>>
      BY <2>1 DEF EnableFails, MsgHandles, Msg
    <3>2. astState \in {"none", "disabled"}
      BY <3>1, MsgSaysStatus DEF ControlMsgs
    <3> QED BY <2>1, <3>2 DEF EnableFails
  <2>2. CASE DisableBegin \/ DisableEnd
    BY <2>2 DEF DisableBegin, DisableEnd
  <2>3. CASE GenStopBegin \/ GenStopEnd \/ ExeStopBegin \/ ExeStopEnd
    BY <2>3 DEF GenStopBegin, GenStopEnd, ExeStopBegin, ExeStopEnd, OneRequestAtATime
  <2> QED BY <2>1, <2>2, <2>3 DEF Switching
<1> QED BY <1>2, <1>3 DEF First

LEMMA ElseConverses ==
    ASSUME TypeOK, Covered, First => Conversing, ElseStep
    PROVE  Covered' /\ (First' => Conversing')
<1>0. /\ UNCHANGED <<msgQueue, hubAst, configLock, genStatus, session, astState>>
      /\ hubQueue \in Seq(HubEvents)
      /\ UNCHANGED msgPc \/ (msgPc = "exe_wait" /\ msgPc' = "exe_join")
  BY ElseFrame DEF TypeOK, HubTypeOK
<1>1. GenReleased' = GenReleased /\ First' = First
  BY <1>0 DEF GenReleased, ExeReleased, First
<1>2. /\ Views' = Views /\ Preps' = Preps /\ Asks' = Asks /\ Heard' = Heard /\ Posts' = Posts
      /\ Handling("resolve_config")' = Handling("resolve_config") /\ Reading' = Reading
  BY ElseCounts, CountsNat DEF Moves, Works
<1>3. Covered'
  BY <1>0, <1>1, <1>2 DEF Covered
<1>4. ASSUME Conversing PROVE Conversing'
  <2>1. Ordered
    BY <1>4 DEF Conversing
  <2>2. /\ Before(hubQueue', "io_normal", Begins)
        /\ Has(hubQueue', "io_normal") => Has(hubQueue, "io_normal")
    <3>1. CASE UNCHANGED hubQueue
      BY <2>1, <3>1 DEF Ordered
    <3>2. ASSUME NEW type \in {"enable_ast", "disable_ast", "change"}, NEW flag \in BOOLEAN,
                 hubQueue' = Append(hubQueue, Record(type, FALSE, flag, 0))
          PROVE  /\ Before(hubQueue', "io_normal", Begins)
                 /\ Has(hubQueue', "io_normal") => Has(hubQueue, "io_normal")
      <4> DEFINE e == Record(type, FALSE, flag, 0)
      <4>1. e \in HubEvents
        BY RecordTyped, ZeroSession DEF HubEvents
      <4>2. e.type = type /\ hubQueue' = Append(hubQueue, e)
        BY <3>2, Zenon DEF Record
      <4> HIDE DEF e
      <4>3. e \notin Begins /\ e.type # "io_normal"
        BY <4>2 DEF Begins
      <4>4. Before(hubQueue, "io_normal", Begins)
        BY <2>1 DEF Ordered
      <4>5. Before(Append(hubQueue, e), "io_normal", Begins)
        BY <1>0, <4>1, <4>3, <4>4, BeforeAppend
      <4>6. Has(Append(hubQueue, e), "io_normal") <=> Has(hubQueue, "io_normal") \/ e.type = "io_normal"
        BY <1>0, <4>1, HasAppendTail
      <4> QED BY <4>2, <4>3, <4>5, <4>6
    <3> QED BY <3>1, <3>2, ElseFrame
  <2>3. Ordered'
    BY <1>0, <2>1, <2>2 DEF Ordered
  <2>4. Sound'
    BY <1>0, <1>2, <1>4 DEF Conversing, Sound
  <2> QED BY <1>0, <1>2, <1>4, <2>3, <2>4 DEF Conversing, Owing
<1> QED BY <1>1, <1>3, <1>4

\* The first session begins in silence.
LEMMA SilentBeginning ==
    ASSUME TypeOK, TypeOK', OneRequestAtATime, NotYetMade, Unborn, session = 0, EnableSucceeds
    PROVE  /\ Views' = 0 /\ Preps' = 0 /\ Asks' = 0 /\ Heard' = 0 /\ Posts' = 0
           /\ Handling("resolve_config")' = 0 /\ Reading' = 0
           /\ None(msgQueue', Prepares) /\ ~Has(msgQueue', "collect_OBJ_normal")
           /\ ~Has(hubQueue', "io_normal")
           /\ configLock' = 0 /\ hubStatus' = "running" /\ hubAst' = "enabling"
           /\ None(msgQueue', Answers) /\ genPending' = <<>> /\ genPc'[1] = "idle"
           /\ \A i \in DOMAIN genQueue' : genQueue'[i].type = "collect_config"
<1>0. /\ hubQueue \in Seq(HubEvents) /\ msgQueue \in Seq(Messages)
      /\ configLock = 0 /\ hubStatus = "running" /\ hubPending = <<>>
      /\ None(hubQueue, Talk) /\ None(msgQueue, ForHub) /\ None(msgQueue, ForAst)
      /\ genPc \in [Threads -> {"none", "idle", "check", "assert", "act", "drain", "exited"}]
  BY DEF TypeOK, MsgTypeOK, HubTypeOK, GenTypeOK, Unborn
<1> DEFINE m == Record("ast_enabled", TRUE, FALSE, session + 1)
           e == Record("collect_config", FALSE, FALSE, session + 1)
<1>1. /\ msgQueue # <<>> /\ msgQueue' = Append(Tail(msgQueue), m)
      /\ genQueue' = <<>> \o <<e>> /\ genPending' = <<>>
      /\ session' = 1 /\ genPc' = [genPc EXCEPT ![1] = "idle"]
      /\ UNCHANGED <<hubQueue, hubPending, hubAst, hubStatus, configLock>>
      /\ Msg.type = "enable_ast"
  BY DEF EnableSucceeds, MsgHandles, Msg, ResetThreads, Emptied, hubVars
<1>2. m \in Messages /\ e \in GenEvents
  <2>1. session + 1 \in Sessions
    BY BoundsAssumption DEF EnableSucceeds, Sessions, BoundsAssumption
  <2> QED BY <2>1, RecordTyped DEF Messages, GenEvents
<1>3. m.type = "ast_enabled" /\ e.type = "collect_config"
  BY Zenon DEF Record
<1>4. <<>> \o <<e>> = <<e>>
  BY <1>2
<1> HIDE DEF m, e
<1>5. None(msgQueue', ForHub) /\ None(msgQueue', ForAst) /\ msgQueue' \in Seq(Messages)
  <2>1. m \notin ForHub /\ m \notin ForAst
    BY <1>3 DEF ForHub, ForAst
  <2>2. /\ None(Tail(msgQueue), ForHub) /\ None(Tail(msgQueue), ForAst)
        /\ Tail(msgQueue) \in Seq(Messages)
    BY <1>0, <1>1, NoneTail, TailOfSeq
  <2>3. None(Append(Tail(msgQueue), m), ForHub) /\ None(Append(Tail(msgQueue), m), ForAst)
    BY <1>2, <2>1, <2>2, NoneAppend
  <2> QED BY <1>1, <2>3 DEF TypeOK, MsgTypeOK
<1>6. ASSUME NEW type \in HubTalk
      PROVE  Number(hubQueue, type) = 0
  <2>1. \A i \in DOMAIN hubQueue : hubQueue[i].type # type
    BY <1>0 DEF None, Talk, HubTalk
  <2> QED BY <1>0, <2>1, NumberWithout
<1> DEFINE q == msgQueue'
<1>7. q \in Seq(Messages) /\ msgQueue' = q
  BY <1>5
<1>8. \A i \in DOMAIN q : q[i].type \notin MsgTalk
  BY <1>5 DEF None, ForHub, ForAst, MsgTalk
<1> HIDE DEF q
<1>9. ASSUME NEW type \in MsgTalk
      PROVE  Number(q, type) = 0
  <2>1. \A i \in DOMAIN q : q[i].type # type
    BY <1>8
  <2> QED BY <1>7, <2>1, NumberWithout
<1>10. ASSUME NEW type \in GenTalk
       PROVE  Handling(type)' = 0
  <2>1. Number(<<e>>, type) = Bit(e.type = type)
    BY <1>2, NumberSmall
  <2>2. Number(<<>>, type) = 0
    BY NumberSmall
  <2>3. ~GenOn({type})'
    <3>1. 1 \in Threads
      BY BoundsAssumption DEF EnableSucceeds, Threads, BoundsAssumption
    <3>2. genPc'[1] = "idle"
      BY <1>0, <1>1, <3>1
    <3> QED BY <1>1, <3>2 DEF GenOn
  <2>4. Number(genQueue', type) = 0
    BY <1>1, <1>3, <1>4, <2>1 DEF Bit, GenTalk
  <2> QED BY <1>1, <2>2, <2>3, <2>4 DEF Handling, Bit
<1>11. Handling("resolve_config")' = 0 /\ Reading' = 0
  BY <1>10 DEF GenTalk, Reading
<1>12. Number(hubPending, "config_view") = 0
  BY <1>0, NumberSmall
<1>13. /\ Number(hubQueue', "config_view") = 0 /\ Number(hubQueue', "io_prepare") = 0
       /\ Number(hubQueue', "io_normal") = 0 /\ Number(hubQueue', "io_post") = 0
  BY <1>1, <1>6 DEF HubTalk
<1>14. /\ Number(msgQueue', "collect_config_req") = 0
       /\ Number(msgQueue', "collect_config_resp") = 0
       /\ Number(msgQueue', "collect_OBJ_prepare") = 0
       /\ Number(msgQueue', "collect_OBJ_normal") = 0
       /\ Number(msgQueue', "collect_OBJ_resp") = 0
       /\ Number(msgQueue', "collect_OBJ_post") = 0
  BY <1>7, <1>9 DEF MsgTalk
<1>15. Views' = 0
  BY <1>1, <1>12, <1>13, <1>14 DEF Views
<1>16. Preps' = 0
  BY <1>13, <1>14 DEF Preps
<1>17. Asks' = 0
  BY <1>13, <1>14 DEF Asks
<1>18. Heard' = 0
  BY <1>14 DEF Heard
<1>19. Posts' = 0
  BY <1>13, <1>14 DEF Posts
<1>20. /\ None(msgQueue', Prepares) /\ ~Has(msgQueue', "collect_OBJ_normal")
       /\ None(msgQueue', Answers)
  BY <1>7, <1>8 DEF None, Has, Prepares, Answers, MsgTalk
<1>21. ~Has(hubQueue', "io_normal")
  BY <1>0, <1>1 DEF None, Has, Talk
<1>22. hubAst = "enabling"
  BY <1>1, MsgSaysStatus DEF ControlMsgs
<1>23. genPc'[1] = "idle"
  <2>1. 1 \in Threads
    BY BoundsAssumption DEF EnableSucceeds, Threads, BoundsAssumption
  <2> QED BY <1>0, <1>1, <2>1
<1>24. \A i \in DOMAIN genQueue' : genQueue'[i].type = "collect_config"
  BY <1>1, <1>3, <1>4
<1> QED BY <1>0, <1>1, <1>11, <1>20, <1>21, <1>22, <1>15, <1>16, <1>17, <1>18, <1>19, <1>23, <1>24

\* AST is enabled, and a session begins, in one step only.
LEMMA OnlyEnabling ==
    ASSUME [Next]_vars, ~EnableSucceeds
    PROVE  UNCHANGED session /\ (astState' = "enabled" => astState = "enabled")
<1>1. ASSUME NEW t \in Threads, GenStep(t) PROVE UNCHANGED <<session, astState>>
  BY <1>1, GenFrame
<1>2. HubStep \/ ElseStep => UNCHANGED <<session, astState>>
  BY HubFrame, ElseFrame
<1>3. MsgStep => UNCHANGED session /\ (astState' = "enabled" => astState = "enabled")
  BY DEF MsgStep, ForwardToHub, ForwardToGen, EnableFails, DisableBegin, GenStopBegin,
     GenStopEnd, ExeStopBegin, ExeStopEnd, DisableEnd
<1> QED BY <1>1, <1>2, <1>3 DEF Next, ElseStep

LEMMA ConvStep ==
    ASSUME NothingFails, TypeOK, TypeOK', OneRequestAtATime, NotYetMade, NeverNoop, NeverNoop',
           LifeCycle, FirstInv, ConvInv, [Next]_vars
    PROVE  ConvInv'
<1>0. session \in Nat /\ configLock \in Int
  BY StatesKnown DEF TypeOK, HubTypeOK
<1>1. session # 0 \/ (hubStatus = "running" /\ configLock = 0)
  BY DEF FirstInv, Unborn
<1>2. EnableSucceeds => session' = session + 1 /\ UNCHANGED hubVars
  BY DEF EnableSucceeds
<1>3. ~EnableSucceeds => UNCHANGED session
  BY OnlyEnabling
<1>4. Kept'
  BY <1>2, <1>3, KeptStep DEF ConvInv
<1>5. CASE session = 1 /\ session' = 1
  <2>1. Frozen /\ Covered /\ (First => Conversing) /\ (First => PhasesEnd) /\ PendsFew /\ Kept
    BY <1>5 DEF ConvInv, FirstInv
  <2>2. 0 <= configLock
    BY <1>0, <2>1, CountsNat DEF Covered
  <2>3. Frozen'
    BY <2>1, <2>2, FrozenStep
  <2>4. ~EnableSucceeds
    BY <1>2, <1>5
  <2>5. ASSUME NEW t \in Threads, GenStep(t)
        PROVE  Covered' /\ (First' => Conversing')
    BY <1>5, <2>1, <2>5, GenConverses
  <2>6. MsgStep => Covered' /\ (First' => Conversing')
    BY <1>5, <2>1, <2>4, MsgPasses, SwitchingConverses DEF MsgStep, Switching
  <2>7. HubStep => Covered' /\ (First' => Conversing')
    BY <1>5, <2>1, HubConverses
  <2>8. ElseStep => Covered' /\ (First' => Conversing')
    BY <2>1, ElseConverses
  <2>9. Covered' /\ (First' => Conversing')
    BY <2>5, <2>6, <2>7, <2>8 DEF Next, ElseStep
  <2> QED BY <1>4, <2>3, <2>9 DEF ConvInv
<1>6. CASE session = 0 /\ session' = 1
  <2>1. EnableSucceeds /\ Unborn
    BY <1>3, <1>6 DEF FirstInv
  <2>2. /\ Views' = 0 /\ Preps' = 0 /\ Asks' = 0 /\ Heard' = 0 /\ Posts' = 0
        /\ Handling("resolve_config")' = 0 /\ Reading' = 0
        /\ None(msgQueue', Prepares) /\ ~Has(msgQueue', "collect_OBJ_normal")
        /\ ~Has(hubQueue', "io_normal")
        /\ configLock' = 0 /\ hubStatus' = "running" /\ hubAst' = "enabling"
    BY <1>6, <2>1, SilentBeginning
  <2>3. Covered' /\ Frozen'
    BY <2>2 DEF Covered, Frozen
  <2>4. Ordered'
    BY <2>2 DEF Ordered, Before, Has
  <2>5. Sound'
    BY <2>2 DEF Sound
  <2>6. Owing' <= Bit(genStatus' = "learning") /\ Preps' <= Asks'
    BY <2>2 DEF Owing, Bit
  <2> QED BY <1>4, <2>3, <2>4, <2>5, <2>6 DEF ConvInv, Conversing
<1>7. CASE session' # 1
  BY <1>4, <1>7 DEF ConvInv, First
<1>8. session' = 1 => session \in {0, 1}
  BY <1>0, <1>2, <1>3
<1> QED BY <1>5, <1>6, <1>7, <1>8

LEMMA ConvAtFirst == Init => ConvInv
BY DEF Init, ConvInv, Kept, First

LEMMA FirstAtFirst == Init => FirstInv
BY NoneSmall DEF Init, FirstInv, Unborn, PendsFew, First

LEMMA LockedInFirst ==
    ASSUME TypeOK, FirstInv, ConvInv, session <= 1
    PROVE  LockedWhileCollecting
<1>0. session \in {0, 1} /\ configLock \in Int
  BY DEF TypeOK, MsgTypeOK, HubTypeOK, Sessions
<1>1. CASE session = 0
  BY <1>0, <1>1 DEF FirstInv, Unborn, LockedWhileCollecting, FrozenWhileCollecting,
                    UnlocksOnlyWhatIsLocked
<1>2. CASE session = 1
  <2>1. Frozen /\ Covered /\ Kept
    BY <1>2 DEF ConvInv
  <2>2. 0 <= configLock
    BY <1>0, <2>1, CountsNat DEF Covered
  <2> QED BY <2>1, <2>2 DEF Frozen, Kept, LockedWhileCollecting, FrozenWhileCollecting,
                            UnlocksOnlyWhatIsLocked
<1> QED BY <1>0, <1>1, <1>2

\* In the first session, if neither the resolution of a configuration nor that
\* of a batch fails, the configuration that the HUB has counted is locked until the
\* collection of its OBJs ends, and no lock is given back that is not held, AST being
\* disabled at any moment (HUB::Handle, ET_hub_collect_io; RelocationLearning::DoCycleWork).
THEOREM LockedUnlessFailure ==
    ASSUME NothingFails
    PROVE  Spec => [](session <= 1 => LockedWhileCollecting)
<1>1. TypeOK /\ FirstInv /\ ConvInv => (session <= 1 => LockedWhileCollecting)
  BY LockedInFirst
<1>2. /\ TypeOK /\ TypeOK' /\ OneRequestAtATime /\ NotYetMade /\ NeverNoop /\ NeverNoop'
      /\ LifeCycle /\ FirstInv /\ ConvInv /\ [Next]_vars
      => ConvInv'
  BY NothingFails, ConvStep
<1> QED
  BY <1>1, <1>2, FirstAtFirst, ConvAtFirst, FirstStep, TypesHold, OneRequestHolds,
     NotYetMadeHolds, ReplacedUnlessNoop, NeverOffUnlessFailure, PTL DEF Spec

-----------------------------------------------------------------------------
(* The answers that the HUB gives: while AST is enabled, each has a batch,   *)
(* and says whether it is the last one.                                      *)

Fits(e) == e.ok /\ (e.flag <=> collected = toCollect)
Misfits == {m \in Answers : ~Fits(m)}
\* Those that the generator has not resolved.
Reads    == {e \in GenEvents : e.type = "resolve_OBJ_io"}
BadReads == {e \in Reads : ~Fits(e)}
Holds(B) ==
    /\ None(genQueue, B) /\ None(genPending, B)
    /\ GenOn({"resolve_OBJ_io"}) => genEv[session] \notin B
\* Who asks for a batch finds one.
Promised == hubAst # "disabling" /\ Asks > 0 /\ Preps = 0 => collected < toCollect
\* No answer is put aside.
Awaited == {e \in GenEvents : e.type \in GenTalk}
Fitting ==
    /\ Holds(BadReads) /\ Behind(msgQueue, "disable_ast", Misfits) /\ Promised
    /\ Bit(genStatus = "learning") <= Owing /\ None(genPending, Awaited)

LEMMA GenHolds ==
    ASSUME TypeOK, NEW t \in Threads, t = session, GenStep(t), NEW B, B \subseteq Reads, Holds(B)
    PROVE  Holds(B)'
<1>0. /\ genQueue \in Seq(GenEvents) /\ genPending \in Seq(GenEvents)
      /\ genPc \in [Threads -> {"none", "idle", "check", "assert", "act", "drain", "exited"}]
      /\ genEv \in [Threads -> GenEvents] /\ session' = session /\ session = t
      /\ None(genQueue, B) /\ None(genPending, B)
      /\ GenOn({"resolve_OBJ_io"}) => genEv[t] \notin B
  BY GenFrame DEF TypeOK, GenTypeOK, Holds
<1>1. genPc[t] \in {"check", "assert", "act"} => genEv[t] \notin B
  BY <1>0 DEF GenOn, Reads
<1>2. CASE GenDequeue(t)
  <2>1. /\ genQueue # <<>> /\ genQueue' = Tail(genQueue) /\ UNCHANGED genPending
        /\ genEv'[t] = Head(genQueue)
    BY <1>0, <1>2 DEF GenDequeue
  <2>2. None(Tail(genQueue), B) /\ Head(genQueue) \notin B
    BY <1>0, <2>1, NoneTail
  <2> QED BY <1>0, <2>1, <2>2 DEF Holds
<1>3. CASE GenCheck(t)
  <2>1. /\ UNCHANGED <<genQueue, genEv>>
        /\ UNCHANGED genPending \/ genPending' = Append(genPending, genEv[t])
        /\ genPc[t] = "check"
    BY <1>3 DEF GenCheck
  <2>2. None(Append(genPending, genEv[t]), B)
    BY <1>0, <1>1, <2>1, NoneAppend
  <2> QED BY <1>0, <1>1, <2>1, <2>2 DEF Holds
<1>4. CASE GenDrain(t)
  <2>1. /\ genQueue' = genPending \o genQueue /\ genPending' = <<>>
        /\ genPc'[t] \notin {"check", "assert", "act"}
    BY <1>0, <1>4 DEF GenDrain, GenGoes
  <2>2. None(genPending \o genQueue, B)
    BY <1>0, NoneConcat
  <2>3. None(genPending', B)
    BY <2>1 DEF None
  <2> QED BY <1>0, <2>1, <2>2, <2>3 DEF Holds, GenOn
<1>5. CASE \/ GenAssert(t) \/ GenCollectConfig(t) \/ GenResolveConfig(t) \/ GenResolveIO(t)
           \/ GenResolveDeleted(t) \/ GenAdvise(t) \/ GenStop(t)
  <2>1. UNCHANGED <<genQueue, genPending, genEv>> /\ genPc[t] \in {"assert", "act"}
    BY <1>5 DEF GenAssert, GenCollectConfig, GenResolveConfig, GenResolveIO, GenFinishLearning,
                GenResolveDeleted, GenAdvise, GenStop, GenActs
  <2> QED BY <1>0, <1>1, <2>1 DEF Holds
<1> QED BY <1>2, <1>3, <1>4, <1>5 DEF GenStep

LEMMA GenFits ==
    ASSUME NothingFails, TypeOK, NotYetMade, NeverNoop, NeverNoop', Kept, First, PhasesEnd,
           Conversing, Fitting, NEW t \in Threads, GenStep(t)
    PROVE  Fitting'
<1>0. /\ t = session /\ UNCHANGED <<hubAst, collected, toCollect, session>> /\ GenDoes(t)
      /\ msgQueue \in Seq(Messages) /\ collected \in Nat /\ toCollect \in Nat
      /\ collected <= toCollect
  BY FirstThread, GenFrame, GenCounts DEF First, TypeOK, MsgTypeOK, HubTypeOK, Kept
<1>1. BadReads' = BadReads /\ Misfits' = Misfits /\ BadReads \subseteq Reads
  BY <1>0 DEF BadReads, Misfits, Fits
<1>2. Holds(BadReads)'
  <2> DEFINE B == BadReads
  <2>1. Holds(B) /\ B \subseteq Reads
    BY <1>1 DEF Fitting
  <2>2. B' = B
    BY <1>1
  <2> HIDE DEF B
  <2>3. /\ None(genQueue', B) /\ None(genPending', B)
        /\ GenOn({"resolve_OBJ_io"})' => genEv'[session'] \notin B
    BY <1>0, <2>1, GenHolds DEF Holds
  <2> QED BY <2>2, <2>3 DEF Holds, B
<1>3. Behind(msgQueue', "disable_ast", Misfits')
  <2>1. PICK new \in Seq(Messages) : msgQueue' = msgQueue \o new /\ None(new, Answers)
    BY GenAppends
  <2>2. None(new, Misfits) /\ Behind(msgQueue, "disable_ast", Misfits)
    BY <2>1 DEF None, Misfits, Fitting
  <2>3. Behind(msgQueue \o new, "disable_ast", Misfits)
    BY <1>0, <2>1, <2>2, BehindConcat
  <2> QED BY <1>1, <2>1, <2>3
<1>4. /\ Views \in Nat /\ Preps \in Nat /\ Asks \in Nat /\ Heard \in Nat
      /\ Handling("resolve_config") \in Nat /\ Reading \in Nat
      /\ Owing = Views + Handling("resolve_config") + Asks + Heard + Reading
      /\ Owing' = Views' + Handling("resolve_config")' + Asks' + Heard' + Reading'
      /\ Bit(genStatus = "learning") <= Owing /\ Bit(genStatus = "learning") \in {0, 1}
      /\ Promised
  BY CountsNat DEF Owing, Fitting, Bit
<1>5. Acted(t, "resolve_OBJ_io") => Fits(genEv[t])
  <2>1. genEv \in [Threads -> GenEvents]
    BY DEF TypeOK, GenTypeOK
  <2> QED BY <1>0, <2>1 DEF Fitting, Holds, GenOn, Acted, BadReads, Reads
<1>6. Bit(genStatus' = "learning") \in {0, 1}
  BY DEF Bit
<1>7. Promised' /\ Bit(genStatus' = "learning") <= Owing'
  <2>1. CASE Moves(0, 0, 0, 0, 0) /\ Works(0, 0)
             /\ (genStatus' = genStatus \/ (Acted(t, "advise") /\ genStatus' = "advising_done"))
    BY <1>0, <1>4, <2>1 DEF Moves, Works, Bit, Promised
  <2>2. CASE Moves(1, 0, 0, 0, 0) /\ Works(0, 0)
    BY <1>0, <1>4, <1>6, <2>2 DEF Moves, Works, Promised
  <2>3. CASE Moves(0, 1, 1, 0, 0) /\ Works(-1, 0) /\ genStatus' = genStatus
    <3>1. Owing' = Owing /\ Promised'
      BY <1>4, <2>3 DEF Moves, Works, Promised
    <3> QED BY <1>4, <2>3, <3>1
  <2>4. CASE Acted(t, "resolve_OBJ_io") /\ Moves(0, 0, 0, 0, 1) /\ Works(0, -1)
             /\ genStatus' \in {"advising", "learning_done"}
    <3>1. Views' + Handling("resolve_config")' + Asks' + Heard' + Reading' = Owing - 1
      BY <1>4, <2>4 DEF Moves, Works
    <3>2. Bit(genStatus' = "learning") = 0 /\ Promised'
      BY <1>0, <1>4, <2>4 DEF Moves, Bit, Promised
    <3>3. Owing >= 1
      <4>1. Bit(GenOn({"resolve_OBJ_io"})) = 1
        BY <1>0, <2>4 DEF Acted, GenOn, Bit
      <4>2. Number(genQueue, "resolve_OBJ_io") \in Nat /\ Number(genPending, "resolve_OBJ_io") \in Nat
        BY NumberIs DEF TypeOK, GenTypeOK
      <4>3. Reading >= 1
        BY <4>1, <4>2 DEF Reading, Handling
      <4> QED BY <1>4, <4>3
    <3> QED BY <1>4, <3>1, <3>2, <3>3
  <2>5. CASE Moves(0, 0, 1, 0, 0) /\ Works(0, -1) /\ Fits(genEv[t]) /\ ~genEv[t].flag
             /\ genStatus' = genStatus
    BY <1>0, <1>4, <2>5 DEF Moves, Works, Promised, Fits
  <2> QED BY <1>0, <1>5, <2>1, <2>2, <2>3, <2>4, <2>5 DEF GenDoes, AsksForIO, Fits
<1>8. None(genPending', Awaited)
  <2> DEFINE B == Awaited
  <2>1. None(genPending, B) /\ genPending \in Seq(GenEvents) /\ genEv[t] \in GenEvents
    BY DEF Fitting, TypeOK, GenTypeOK
  <2>2. UNCHANGED genPending \/ genPending' = <<>>
        \/ (GenCheck(t) /\ GenShouldPend(genEv[t].type) /\ genPending' = Append(genPending, genEv[t]))
    BY DEF GenStep, GenDequeue, GenCheck, GenAssert, GenCollectConfig, GenResolveConfig,
           GenResolveIO, GenResolveDeleted, GenAdvise, GenDrain, GenStop
  <2>3. ASSUME GenCheck(t), GenShouldPend(genEv[t].type)
        PROVE  genEv[t] \notin B
    <3> SUFFICES ASSUME NEW type \in GenTalk, genEv[t].type = type PROVE FALSE
      BY DEF Awaited
    <3>1. genStatus # "learning"
      BY <2>3 DEF GenShouldPend, GenTalk
    <3>2. Bit(GenOn({type})) = 1
      BY <1>0, <2>3 DEF GenCheck, GenOn, Bit
    <3>3. Number(genQueue, type) \in Nat /\ Number(genPending, type) \in Nat
      BY NumberIs DEF TypeOK, GenTypeOK
    <3>4. Handling(type) >= 1
      BY <3>2, <3>3 DEF Handling
    <3>5. Owing >= 1
      BY <1>4, <3>4 DEF GenTalk, Reading
    <3> QED BY <1>4, <3>1, <3>5 DEF Conversing, Bit
  <2> HIDE DEF B
  <2>4. genEv[t] \notin B => None(Append(genPending, genEv[t]), B)
    BY <2>1, NoneAppend
  <2>5. None(<<>>, B)
    BY DEF None
  <2>6. None(genPending', B)
    BY <2>1, <2>2, <2>3, <2>4, <2>5
  <2> QED BY <2>6 DEF B
<1> QED BY <1>2, <1>3, <1>7, <1>8 DEF Fitting, Awaited

\* Whoever asks for a batch has resolved the one before.
LEMMA Unheard ==
    ASSUME TypeOK, Owing <= 1, Asks >= 1
    PROVE  Holds(Reads) /\ None(msgQueue, Answers)
<1>0. msgQueue \in Seq(Messages) /\ genQueue \in Seq(GenEvents) /\ genPending \in Seq(GenEvents)
  BY DEF TypeOK, MsgTypeOK, GenTypeOK
<1>1. Heard = 0 /\ Reading = 0
  BY CountsNat DEF Owing
<1>2. /\ Number(genQueue, "resolve_OBJ_io") = 0 /\ Number(genPending, "resolve_OBJ_io") = 0
      /\ Bit(GenOn({"resolve_OBJ_io"})) = 0
  <2>1. /\ Number(genQueue, "resolve_OBJ_io") \in Nat /\ Number(genPending, "resolve_OBJ_io") \in Nat
        /\ Bit(GenOn({"resolve_OBJ_io"})) \in {0, 1}
    BY <1>0, NumberIs DEF Bit
  <2> QED BY <1>1, <2>1 DEF Reading, Handling
<1>3. /\ \A i \in DOMAIN genQueue : genQueue[i].type # "resolve_OBJ_io"
      /\ \A i \in DOMAIN genPending : genPending[i].type # "resolve_OBJ_io"
      /\ \A i \in DOMAIN msgQueue : msgQueue[i].type # "collect_OBJ_resp"
  BY <1>0, <1>1, <1>2, NumberWithout DEF Heard
<1> QED BY <1>2, <1>3 DEF Holds, Reads, Answers, None, Bit

LEMMA HubFits ==
    ASSUME TypeOK, TypeOK', OneRequestAtATime, PendsFew, First, Kept, 0 \notin ObjBatches,
           Conversing, Fitting, HubStep
    PROVE  Fitting'
<1>0. /\ UNCHANGED <<genStatus, genQueue, genPending, genPc, genEv, session, astState>>
      /\ hubQueue \in Seq(HubEvents) /\ hubQueue # <<>> /\ msgQueue \in Seq(Messages)
      /\ collected \in Nat /\ toCollect \in Nat /\ objs \in Nat \ {0} /\ collected <= toCollect
  BY HubFrame DEF TypeOK, HubTypeOK, MsgTypeOK, Kept
<1>1. /\ Views \in Nat /\ Preps \in Nat /\ Asks \in Nat /\ Heard \in Nat
      /\ Handling("resolve_config") \in Nat /\ Reading \in Nat
      /\ Owing = Views + Handling("resolve_config") + Asks + Heard + Reading
      /\ Owing' = Views' + Handling("resolve_config")' + Asks' + Heard' + Reading'
      /\ Preps <= Asks /\ Ordered /\ Promised
      /\ Bit(genStatus = "learning") <= Owing
  BY CountsNat DEF Owing, Conversing, Fitting
<1>2. hubAst # "disabled" /\ astState = "enabled" /\ (hubAst = "disabling" => hubAst' = "disabling")
  BY HubStaysOff DEF OneRequestAtATime, First
<1>3. Handling("resolve_config")' = Handling("resolve_config") /\ Reading' = Reading
  BY <1>0 DEF Handling, Reading, GenOn
<1>4. Owing <= 1
  BY <1>1 DEF Conversing, Bit
<1>5. HubPrepare \/ HubCollect => Holds(Reads) /\ None(msgQueue, Answers) /\ Asks <= 1
  <2> SUFFICES ASSUME HubPrepare \/ HubCollect PROVE Asks >= 1
    BY <1>1, <1>4, Unheard
  <2>1. CASE HubCollect
    <3>1. Asks' = Asks + (-1) /\ Asks' \in Nat
      BY <2>1, HubCollects, CountsNext DEF Moves
    <3> QED BY <1>1, <3>1
  <2>2. CASE HubPrepare
    <3>1. Preps' = Preps + (-1) /\ Preps' \in Nat
      BY <2>2, HubCollects, CountsNext DEF Moves
    <3> QED BY <1>1, <3>1
  <2> QED BY <2>1, <2>2
<1>6. Bit(genStatus' = "learning") <= Owing'
  <2>1. PICK a \in {0, 1} : Views' = Views /\ Asks' = Asks + (0 - a) /\ Heard' = Heard + a
    <3>1. HubDoes /\ ~(HubEnable /\ hubAst = "disabled")
      BY <1>2, HubCounts
    <3>2. CASE Moves(0, 0, -1, 1, 0)
      BY <1>1, <3>2 DEF Moves
    <3>3. CASE Moves(0, 0, 0, 0, 0) \/ Moves(0, -1, 0, 0, 0) \/ Moves(0, 0, 0, 0, -1)
      BY <1>1, <3>3 DEF Moves
    <3> HIDE DEF Moves
    <3> QED BY <3>1, <3>2, <3>3 DEF HubDoes
  <2>2. Views + Handling("resolve_config") + (Asks + (0 - a)) + (Heard + a) + Reading = Owing
    BY <1>1, <2>1
  <2>3. Owing' = Owing
    BY <1>1, <1>3, <2>1, <2>2
  <2> QED BY <1>0, <1>1, <2>3
<1>7. None(genPending', Awaited')
  BY <1>0 DEF Fitting, Awaited
<1>8. CASE HubPrepare
  <2>1. UNCHANGED <<msgQueue, hubAst>>
    BY <1>8 DEF HubPrepare
  <2>2. Holds(BadReads)'
    BY <1>0, <1>5, <1>8 DEF Holds, BadReads, None, GenOn
  <2>3. None(msgQueue', Misfits')
    BY <1>5, <1>8, <2>1 DEF None, Misfits
  <2>4. Promised'
    <3>1. CASE HubOff
      BY <1>2, <2>1, <3>1 DEF HubOff, Promised
    <3>2. CASE ~HubOff
      BY <1>0, <1>8, <3>2 DEF HubPrepare, Promised
    <3> QED BY <3>1, <3>2
  <2> QED BY <1>6, <1>7, <2>2, <2>3, <2>4, NoneBehind DEF Fitting
<1>9. CASE HubCollect
  <2>1. Asks' = Asks + (-1)
    BY <1>9, HubCollects DEF Moves
  <2>2. Holds(BadReads)'
    BY <1>0, <1>5, <1>9 DEF Holds, BadReads, None, GenOn
  <2>3. Promised'
    BY <1>1, <1>5, <1>9, <2>1 DEF Promised
  <2> DEFINE B == Misfits'
  <2>4. None(msgQueue, B)
    BY <1>5, <1>9 DEF None, Misfits
  <2>5. HubEvent.sn \in Sessions
    <3>1. HubEvent \in HubEvents
      BY <1>0, TailOfSeq DEF HubEvent
    <3> QED BY <3>1, RecordFields DEF HubEvents
  <2>6. ASSUME NEW ok \in BOOLEAN, NEW flag \in BOOLEAN
        PROVE  /\ Answer("collect_OBJ_resp", ok, flag) \in Messages
               /\ Answer("collect_OBJ_resp", ok, flag).ok = ok
               /\ Answer("collect_OBJ_resp", ok, flag).flag = flag
    <3>1. Answer("collect_OBJ_resp", ok, flag) \in Messages
      BY <2>5, RecordTyped DEF Answer, Messages
    <3> QED BY <3>1, Zenon DEF Answer, Record
  <2>7. CASE HubOff
    <3>1. Has(msgQueue, "disable_ast")
      BY <1>2, <2>7, EchoIsComing DEF HubOff
    <3> DEFINE m == Answer("collect_OBJ_resp", FALSE, FALSE)
    <3>2. m \in Messages /\ msgQueue' = Append(msgQueue, m)
      BY <1>9, <2>6, <2>7 DEF HubCollect
    <3> HIDE DEF m, B
    <3>3. Behind(msgQueue, "disable_ast", B)
      BY <2>4, NoneBehind
    <3>4. Behind(Append(msgQueue, m), "disable_ast", B)
      BY <1>0, <3>1, <3>2, <3>3, BehindAppend
    <3> QED BY <1>6, <1>7, <2>2, <2>3, <3>2, <3>4 DEF Fitting, B
  <2>8. CASE ~HubOff
    <3>1. collected < toCollect
      <4>1. Preps = 0 /\ Asks > 0
        <5>1. Asks' \in Nat
          BY CountsNext
        <5> QED BY <1>1, <1>9, <2>1, <5>1, CollectBegun
      <4> QED BY <1>1, <2>8, <4>1 DEF Promised, HubOff
    <3> DEFINE m == Answer("collect_OBJ_resp", TRUE, collected + 1 = toCollect)
    <3>2. /\ msgQueue' = Append(msgQueue, m) /\ collected' = collected + 1
          /\ toCollect' = toCollect
      <4>1. ~(HubOff \/ toCollect = 0 \/ collected = toCollect)
        BY <1>0, <2>8, <3>1
      <4> HIDE DEF HubOff
      <4> QED BY <1>9, <4>1 DEF HubCollect
    <3>3. m \in Messages /\ m.ok /\ (m.flag <=> collected' = toCollect')
      BY <2>6, <3>2
    <3> HIDE DEF m
    <3>4. m \notin B
      BY <3>3 DEF Misfits, Fits
    <3> HIDE DEF B
    <3>5. None(Append(msgQueue, m), B)
      BY <1>0, <2>4, <3>3, <3>4, NoneAppend
    <3> QED BY <1>6, <1>7, <2>2, <2>3, <3>2, <3>5, NoneBehind DEF Fitting, B
  <2> QED BY <2>7, <2>8
<1>10. CASE ~HubPrepare /\ ~HubCollect
  <2>1. UNCHANGED <<collected, toCollect>>
    BY <1>10 DEF HubStep, HubPend, HubEnable, HubDisable, HubEnableEcho, HubDisableEcho,
       HubConfigView, HubPost, HubChange
  <2>2. BadReads' = BadReads /\ Misfits' = Misfits
    BY <2>1 DEF BadReads, Misfits, Fits
  <2>3. Holds(BadReads)'
    BY <1>0, <2>2 DEF Holds, Fitting, GenOn
  <2>4. Behind(msgQueue', "disable_ast", Misfits')
    <3> DEFINE B == Misfits
    <3>1. Behind(msgQueue, "disable_ast", B)
      BY DEF Fitting
    <3>2. \A m \in B : m.type = "collect_OBJ_resp"
      BY DEF Misfits, Answers
    <3> HIDE DEF B
    <3>3. ASSUME NEW m \in Messages, m.type # "collect_OBJ_resp"
          PROVE  Behind(Append(msgQueue, m), "disable_ast", B)
      BY <1>0, <3>1, <3>2, <3>3, BehindAppend
    <3>4. Behind(msgQueue', "disable_ast", B)
      BY <1>2, <1>10, <3>1, <3>3, HubSays
    <3> QED BY <2>2, <3>4 DEF B
  <2>5. Promised'
    <3>1. Preps' = Preps /\ Asks' = Asks
      <4>1. HubDoes /\ ~(HubEnable /\ hubAst = "disabled")
        BY <1>2, HubCounts
      <4> QED BY <1>1, <1>10, <4>1 DEF HubDoes, Moves
    <3> QED BY <1>1, <1>2, <2>1, <3>1 DEF Promised
  <2> QED BY <1>6, <1>7, <2>3, <2>4, <2>5 DEF Fitting
<1> QED BY <1>8, <1>9, <1>10

LEMMA MsgFits ==
    ASSUME TypeOK, First, Conversing, Fitting, ForwardToHub \/ ForwardToGen
    PROVE  Fitting'
<1>0. /\ UNCHANGED <<genStatus, genPending, genPc, genEv, hubAst, collected, toCollect, session>>
      /\ msgQueue \in Seq(Messages) /\ msgQueue # <<>> /\ msgQueue' = Tail(msgQueue)
      /\ genQueue \in Seq(GenEvents)
  BY DEF ForwardToHub, ForwardToGen, genVars, hubVars, TypeOK, MsgTypeOK, GenTypeOK, MsgHandles
<1>1. Msg \in Messages /\ Msg = Head(msgQueue)
  BY <1>0, TailOfSeq DEF Msg
<1>2. BadReads' = BadReads /\ Misfits' = Misfits
  BY <1>0 DEF BadReads, Misfits, Fits
<1>3. Msg.type # "disable_ast"
  BY <1>1 DEF ForwardToHub, ForwardToGen, MsgHandles, Msg, ToHub, ToGen
<1>4. Behind(Tail(msgQueue), "disable_ast", Misfits) /\ Msg \notin Misfits
  <2> DEFINE B == Misfits
  <2>1. Behind(msgQueue, "disable_ast", B)
    BY DEF Fitting
  <2> HIDE DEF B
  <2>2. Head(msgQueue) \notin B
        /\ (Head(msgQueue).type # "disable_ast" => Behind(Tail(msgQueue), "disable_ast", B))
    BY <1>0, <2>1, BehindTail
  <2> QED BY <1>1, <1>3, <2>2 DEF B
<1>5. Holds(BadReads)'
  <2>1. CASE UNCHANGED genQueue
    BY <1>0, <1>2, <2>1 DEF Holds, Fitting, GenOn
  <2>2. CASE ForwardToGen
    <3> DEFINE e == [Msg EXCEPT !.type = ToGen[Msg.type]]
               B == BadReads
    <3>1. genQueue' = Append(genQueue, e) /\ Msg.type \in DOMAIN ToGen
      BY <2>2 DEF ForwardToGen, MsgHandles, Msg
    <3>2. /\ e.type = ToGen[Msg.type] /\ e.ok = Msg.ok /\ e.flag = Msg.flag
      BY <1>1 DEF Messages, RecordOf
    <3>3. e \in GenEvents
      <4>1. ToGen[Msg.type] \in {"resolve_config", "resolve_OBJ_io", "resolve_deleted"}
        BY <3>1 DEF ToGen
      <4> QED BY <1>1, <4>1, RecordFields DEF Messages, GenEvents
    <3> HIDE DEF e
    <3>4. e.type = "resolve_OBJ_io" => Msg.type = "collect_OBJ_resp"
      BY <3>1, <3>2 DEF ToGen
    <3>5. e \notin B
      BY <1>1, <1>4, <3>2, <3>4 DEF Misfits, Answers, BadReads, Reads, Fits
    <3>6. None(genQueue, B) /\ None(genPending, B) /\ (GenOn({"resolve_OBJ_io"}) => genEv[session] \notin B)
      BY DEF Fitting, Holds
    <3> HIDE DEF B
    <3>7. None(Append(genQueue, e), B)
      BY <1>0, <3>3, <3>5, <3>6, NoneAppend
    <3> QED BY <1>0, <1>2, <3>1, <3>6, <3>7 DEF Holds, GenOn, B
  <2> QED BY <2>1, <2>2 DEF ForwardToHub, genVars
<1>6. PICK v \in {0, 1}, h \in {0, 1} : Delivers(v, h)
  BY MsgCounts
<1>7. /\ Views' = Views + (0 - v) /\ Preps' = Preps + 0 /\ Asks' = Asks + 0
      /\ Heard' = Heard + (0 - h) /\ Reading' = Reading + h
      /\ Handling("resolve_config")' = Handling("resolve_config") + v
  BY <1>6 DEF Delivers, Moves, Works
<1>8. /\ Views \in Nat /\ Preps \in Nat /\ Asks \in Nat /\ Heard \in Nat
      /\ Handling("resolve_config") \in Nat /\ Reading \in Nat
      /\ Owing = Views + Handling("resolve_config") + Asks + Heard + Reading
      /\ Owing' = Views' + Handling("resolve_config")' + Asks' + Heard' + Reading'
      /\ Promised /\ Bit(genStatus = "learning") <= Owing
  BY CountsNat DEF Owing, Fitting
<1>9. Promised'
  BY <1>0, <1>7, <1>8 DEF Promised
<1>10. Bit(genStatus' = "learning") <= Owing'
  <2>1. Views + (0 - v) + (Handling("resolve_config") + v) + (Asks + 0) + (Heard + (0 - h))
           + (Reading + h) = Owing
    BY <1>8
  <2> QED BY <1>0, <1>7, <1>8, <2>1
<1> QED BY <1>0, <1>2, <1>4, <1>5, <1>9, <1>10 DEF Fitting

LEMMA ElseFits ==
    ASSUME TypeOK, Fitting, ElseStep
    PROVE  Fitting'
<1>0. /\ UNCHANGED <<msgQueue, hubAst, collected, toCollect, genStatus, genPending, genPc, genEv,
                     session>>
      /\ genQueue \in Seq(GenEvents) /\ session \in Sessions
  BY ElseFrame DEF TypeOK, MsgTypeOK, GenTypeOK
<1>1. BadReads' = BadReads /\ Misfits' = Misfits
  BY <1>0 DEF BadReads, Misfits, Fits
<1>2. /\ Views' = Views /\ Preps' = Preps /\ Asks' = Asks /\ Heard' = Heard
      /\ Handling("resolve_config")' = Handling("resolve_config") /\ Reading' = Reading
  BY ElseCounts, CountsNat DEF Moves, Works
<1> DEFINE B == BadReads
<1>3. None(genQueue, B) /\ \A e \in B : e.type = "resolve_OBJ_io"
  BY DEF Fitting, Holds, BadReads, Reads
<1>4. None(genQueue', B)
  <2> HIDE DEF B
  <2>1. ASSUME NEW e \in GenEvents, e.type # "resolve_OBJ_io", genQueue' = Append(genQueue, e)
        PROVE  None(genQueue', B)
    <3>1. e \notin B
      BY <1>3, <2>1
    <3>2. None(Append(genQueue, e), B)
      BY <1>0, <1>3, <3>1, NoneAppend
    <3> QED BY <2>1, <3>2
  <2>2. Sent("advise") \in GenEvents /\ Sent("advise").type = "advise"
    BY SentTyped, SentIs DEF TypeOK
  <2>3. ASSUME NEW flag \in AdviceChoices
        PROVE  /\ Record("collect_config", FALSE, flag, session) \in GenEvents
               /\ Record("collect_config", FALSE, flag, session).type = "collect_config"
    <3>1. Record("collect_config", FALSE, flag, session) \in GenEvents
      BY <1>0, RecordTyped, ChoicesAssumption DEF GenEvents, ChoicesAssumption
    <3> QED BY <3>1, Zenon DEF Record
  <2> QED BY <1>3, <2>1, <2>2, <2>3, ElseFrame
<1>5. Holds(BadReads)'
  BY <1>0, <1>1, <1>4 DEF Holds, Fitting, GenOn
<1> QED BY <1>0, <1>1, <1>2, <1>5 DEF Fitting, Promised, Owing

LEMMA FitStep ==
    ASSUME NothingFails, 0 \notin ObjBatches, TypeOK, TypeOK', OneRequestAtATime, NotYetMade,
           NeverNoop, NeverNoop', FirstInv, ConvInv, First => Fitting, [Next]_vars
    PROVE  First' => Fitting'
<1> SUFFICES ASSUME First' PROVE Fitting'
  OBVIOUS
<1>0. session \in Nat
  BY StatesKnown
<1>1. CASE First
  <2>1. Kept /\ Conversing /\ PhasesEnd /\ PendsFew /\ Fitting
    BY <1>1 DEF ConvInv, FirstInv
  <2>2. ASSUME NEW t \in Threads, GenStep(t) PROVE Fitting'
    BY <1>1, <2>1, <2>2, GenFits
  <2>3. HubStep => Fitting'
    BY <1>1, <2>1, HubFits
  <2>4. ElseStep => Fitting'
    BY <2>1, ElseFits
  <2>5. MsgStep => Fitting'
    <3>1. ~EnableSucceeds
      BY <1>1 DEF EnableSucceeds, First
    <3>2. ~Switching
      <4>1. Covered
        BY <1>1 DEF ConvInv, First
      <4> QED BY <4>1, SwitchingConverses
    <3> QED BY <1>1, <2>1, <3>1, <3>2, MsgFits DEF MsgStep, Switching
  <2> QED BY <2>2, <2>3, <2>4, <2>5 DEF Next, ElseStep
<1>2. CASE ~First
  <2>1. EnableSucceeds
    BY <1>2, OnlyEnabling DEF First
  <2>2. session = 0 /\ session' = 1 /\ genStatus' = "running"
    BY <1>0, <2>1 DEF EnableSucceeds, ResetThreads, First
  <2>3. Unborn
    BY DEF FirstInv
  <2>4. /\ Views' = 0 /\ Asks' = 0 /\ Heard' = 0
        /\ Handling("resolve_config")' = 0 /\ Reading' = 0
        /\ None(msgQueue', Answers) /\ genPending' = <<>> /\ genPc'[1] = "idle"
        /\ \A i \in DOMAIN genQueue' : genQueue'[i].type = "collect_config"
    BY <2>1, <2>2, <2>3, SilentBeginning
  <2>5. Holds(BadReads)'
    BY <2>2, <2>4 DEF Holds, None, GenOn, BadReads, Reads
  <2>6. None(msgQueue', Misfits')
    BY <2>4 DEF None, Misfits
  <2>7. None(genPending', Awaited')
    BY <2>4 DEF None
  <2> QED BY <2>2, <2>4, <2>5, <2>6, <2>7, NoneBehind DEF Fitting, Promised, Owing, Bit
<1> QED BY <1>1, <1>2

-----------------------------------------------------------------------------
(* What the generator is owed, counted by sets of types as Owed counts it,   *)
(* is what the steps have been followed by, type by type.                    *)

LEMMA CountSplits ==
    ASSUME NEW S, NEW q \in Seq(S), NEW A, NEW B, A \cap B = {}
    PROVE  Count(q, A \cup B) = Count(q, A) + Count(q, B)
<1> DEFINE n == Len(q)
<1>1. n \in Nat
  OBVIOUS
<1>2. IsFiniteSet(Hits(q, n, A)) /\ IsFiniteSet(Hits(q, n, B))
  BY <1>1, UptoNat
<1>3. /\ Hits(q, n, A \cup B) = Hits(q, n, A) \cup Hits(q, n, B)
      /\ Hits(q, n, A) \cap Hits(q, n, B) = {}
  BY DEF Hits
<1>4. Cardinality(Hits(q, n, A \cup B))
        = Cardinality(Hits(q, n, A)) + Cardinality(Hits(q, n, B)) - Cardinality({})
  <2> DEFINE X == Hits(q, n, A)
             Y == Hits(q, n, B)
  <2>1. IsFiniteSet(X) /\ IsFiniteSet(Y) /\ Hits(q, n, A \cup B) = X \cup Y /\ X \cap Y = {}
    BY <1>2, <1>3
  <2> HIDE DEF X, Y
  <2>2. Cardinality(X \cup Y) = Cardinality(X) + Cardinality(Y) - Cardinality(X \cap Y)
    BY ONLY <2>1, FS_Union
  <2> QED BY <2>1, <2>2 DEF X, Y
<1>5. /\ Cardinality(Hits(q, n, A)) \in Nat /\ Cardinality(Hits(q, n, B)) \in Nat
      /\ Cardinality({}) = 0
  BY <1>2, FS_CardinalityType, FS_EmptySet
<1>6. /\ Count(q, A \cup B) = Cardinality(Hits(q, n, A \cup B))
      /\ Count(q, A) = Cardinality(Hits(q, n, A)) /\ Count(q, B) = Cardinality(Hits(q, n, B))
  BY DEF Count, Hits
<1> QED BY <1>4, <1>5, <1>6

LEMMA CountTwo ==
    ASSUME NEW S, NEW q \in Seq(S), NEW a, NEW b, a # b
    PROVE  Count(q, {a, b}) = Number(q, a) + Number(q, b)
<1> DEFINE A == {a}
           B == {b}
<1>1. A \cap B = {} /\ {a, b} = A \cup B
  OBVIOUS
<1> HIDE DEF A, B
<1>2. Count(q, A \cup B) = Count(q, A) + Count(q, B)
  BY <1>1, CountSplits
<1> QED BY <1>1, <1>2 DEF Number, A, B

LEMMA CountFour ==
    ASSUME NEW S, NEW q \in Seq(S), NEW a, NEW b, NEW c, NEW d,
           a # b, c # d, {a, b} \cap {c, d} = {}
    PROVE  Count(q, {a, b, c, d}) = Number(q, a) + Number(q, b) + (Number(q, c) + Number(q, d))
<1> DEFINE A == {a, b}
           B == {c, d}
<1>1. A \cap B = {} /\ {a, b, c, d} = A \cup B
  OBVIOUS
<1>2. Count(q, A) = Number(q, a) + Number(q, b) /\ Count(q, B) = Number(q, c) + Number(q, d)
  BY CountTwo
<1> HIDE DEF A, B
<1>3. Count(q, A \cup B) = Count(q, A) + Count(q, B)
  BY <1>1, CountSplits
<1> QED BY <1>1, <1>2, <1>3

\* In the first session one thread holds what is held.
LEMMA HoldsOne ==
    ASSUME TypeOK, NotYetMade, session = 1
    PROVE  Cardinality(GenHolders(GenTalk))
             = Bit(GenOn({"resolve_config"})) + Bit(GenOn({"resolve_OBJ_io"}))
<1>1. \A t \in GenHolders(GenTalk) : t = session
  BY DEF NotYetMade, GenHolders, Threads
<1>2. session \in GenHolders(GenTalk) <=> GenOn({"resolve_config"}) \/ GenOn({"resolve_OBJ_io"})
  BY DEF GenHolders, GenOn, GenTalk
<1>3. ~(GenOn({"resolve_config"}) /\ GenOn({"resolve_OBJ_io"}))
  BY DEF GenOn
<1>4. CASE session \in GenHolders(GenTalk)
  <2>1. GenHolders(GenTalk) = {session}
    BY <1>1, <1>4
  <2> QED BY <1>2, <1>3, <1>4, <2>1, FS_Singleton DEF Bit
<1>5. CASE session \notin GenHolders(GenTalk)
  <2>1. GenHolders(GenTalk) = {}
    BY <1>1, <1>5
  <2> QED BY <1>2, <1>5, <2>1, FS_EmptySet DEF Bit
<1> QED BY <1>4, <1>5

LEMMA OwedIs ==
    ASSUME TypeOK, NotYetMade, PendsFew, session = 1
    PROVE  /\ Owed + Number(genPending, "resolve_config") + Number(genPending, "resolve_OBJ_io")
                = Owing
           /\ Owed \in Nat
<1>0. /\ msgQueue \in Seq(Messages) /\ hubQueue \in Seq(HubEvents)
      /\ hubPending \in Seq(HubEvents) /\ genQueue \in Seq(GenEvents)
      /\ genPending \in Seq(GenEvents)
  BY DEF TypeOK, MsgTypeOK, HubTypeOK, GenTypeOK
<1>1. Count(msgQueue, {"collect_config_req", "collect_config_resp", "collect_OBJ_normal",
                       "collect_OBJ_resp"})
        = Number(msgQueue, "collect_config_req") + Number(msgQueue, "collect_config_resp")
          + (Number(msgQueue, "collect_OBJ_normal") + Number(msgQueue, "collect_OBJ_resp"))
  BY <1>0, CountFour
<1>2. /\ Count(hubQueue, {"config_view", "io_normal"})
           = Number(hubQueue, "config_view") + Number(hubQueue, "io_normal")
      /\ Count(hubPending, {"config_view", "io_normal"})
           = Number(hubPending, "config_view") + Number(hubPending, "io_normal")
      /\ Count(genQueue, {"resolve_config", "resolve_OBJ_io"})
           = Number(genQueue, "resolve_config") + Number(genQueue, "resolve_OBJ_io")
  BY <1>0, CountTwo
<1>3. Number(hubPending, "io_normal") = 0
  <2>1. \A i \in DOMAIN hubPending : hubPending[i].type # "io_normal"
    BY DEF PendsFew
  <2> QED BY <1>0, <2>1, NumberWithout
<1>4. Cardinality(GenHolders({"resolve_config", "resolve_OBJ_io"}))
        = Bit(GenOn({"resolve_config"})) + Bit(GenOn({"resolve_OBJ_io"}))
  BY HoldsOne DEF GenTalk
<1>5. \A type : /\ Number(msgQueue, type) \in Nat /\ Number(hubQueue, type) \in Nat
                /\ Number(hubPending, type) \in Nat /\ Number(genQueue, type) \in Nat
                /\ Number(genPending, type) \in Nat
  BY <1>0, NumberIs
<1>6. Bit(GenOn({"resolve_config"})) \in Nat /\ Bit(GenOn({"resolve_OBJ_io"})) \in Nat
  BY DEF Bit
<1>7. Owed = Number(msgQueue, "collect_config_req") + Number(msgQueue, "collect_config_resp")
             + (Number(msgQueue, "collect_OBJ_normal") + Number(msgQueue, "collect_OBJ_resp"))
             + (Number(hubQueue, "config_view") + Number(hubQueue, "io_normal"))
             + Number(hubPending, "config_view")
             + (Number(genQueue, "resolve_config") + Number(genQueue, "resolve_OBJ_io"))
             + (Bit(GenOn({"resolve_config"})) + Bit(GenOn({"resolve_OBJ_io"})))
  BY <1>1, <1>2, <1>3, <1>4, <1>5 DEF Owed
<1> HIDE DEF Owed
<1> QED BY <1>5, <1>6, <1>7 DEF Owing, Views, Asks, Heard, Reading, Handling

LEMMA OneInFirst ==
    ASSUME TypeOK, NotYetMade, FirstInv, ConvInv, First => Fitting, session <= 1
    PROVE  OneConversation
<1>0. session \in {0, 1}
  BY DEF TypeOK, MsgTypeOK, Sessions
<1>1. CASE astState # "enabled"
  BY <1>1 DEF OneConversation, LearningIsOwedOneAnswer, OwedOnlyWhileLearning
<1>2. CASE First
  <2>1. /\ Owing <= Bit(genStatus = "learning") /\ Bit(genStatus = "learning") <= Owing
        /\ None(genPending, Awaited) /\ genPending \in Seq(GenEvents)
    BY <1>2 DEF ConvInv, Conversing, Fitting, TypeOK, GenTypeOK
  <2>2. /\ Number(genPending, "resolve_config") = 0
        /\ Number(genPending, "resolve_OBJ_io") = 0
    <3>1. \A i \in DOMAIN genPending : genPending[i].type \notin GenTalk
      BY <2>1 DEF None, Awaited
    <3>2. \A i \in DOMAIN genPending : /\ genPending[i].type # "resolve_config"
                                       /\ genPending[i].type # "resolve_OBJ_io"
      BY <3>1 DEF GenTalk
    <3> QED BY <2>1, <3>2, NumberWithout
  <2>3. Owed \in Nat /\ Owed + 0 + 0 = Owing
    BY <1>2, <2>2, OwedIs DEF First, FirstInv
  <2>4. Owed = Bit(genStatus = "learning")
    BY <2>1, <2>3 DEF Bit
  <2> QED BY <2>4 DEF OneConversation, LearningIsOwedOneAnswer, OwedOnlyWhileLearning, Bit
<1> QED BY <1>0, <1>1, <1>2 DEF First, FirstInv, Unborn

\* In the first session, if nothing fails and the HUB has OBJs, a generator that
\* is learning is owed exactly one answer and any other none: it never waits for
\* an answer that does not come, nor meets one that it has not asked for
\* (RelocationLearning::DoCycleWork; HUB::Handle, ET_hub_collect_io).
THEOREM ConversationUnlessFailure ==
    ASSUME NothingFails, 0 \notin ObjBatches
    PROVE  Spec => [](session <= 1 => OneConversation)
<1> DEFINE Goal == session <= 1 => OneConversation
           Fit  == First => Fitting
<1>1. TypeOK /\ NotYetMade /\ FirstInv /\ ConvInv /\ Fit => Goal
  BY OneInFirst
<1>2. /\ TypeOK /\ TypeOK' /\ OneRequestAtATime /\ NotYetMade /\ NeverNoop /\ NeverNoop'
      /\ LifeCycle /\ FirstInv /\ ConvInv /\ [Next]_vars
      => ConvInv'
  BY NothingFails, ConvStep
<1>3. /\ TypeOK /\ TypeOK' /\ OneRequestAtATime /\ NotYetMade /\ NeverNoop /\ NeverNoop'
      /\ FirstInv /\ ConvInv /\ Fit /\ [Next]_vars
      => Fit'
  BY NothingFails, FitStep
<1>4. Init => Fit
  BY DEF Init, First
<1> HIDE DEF Goal, Fit
<1>5. Spec => []Goal
  BY <1>1, <1>2, <1>3, <1>4, FirstAtFirst, ConvAtFirst, FirstStep, TypesHold, OneRequestHolds,
     NotYetMadeHolds, ReplacedUnlessNoop, NeverOffUnlessFailure, PTL DEF Spec
<1> QED BY <1>5 DEF Goal
===================================================================================
