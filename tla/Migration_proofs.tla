---------------------------- MODULE Migration_proofs ----------------------------
(***************************************************************************)
(* Migrations on their way, for any number of OBJs, disks, arbitratees,    *)
(* windows, failures and expiries.                                         *)
(***************************************************************************)
EXTENDS MigrationPipeline, FiniteSetTheorems, SequenceTheorems, TLAPS

\* A plan that wins over the arbitratee of its OBJ does not change its target,
\* because no plan wins or because there is no third disk: CheckConflict
\* retargets an arbitratee wherever it is, and the echo of one that is in flight
\* then frees the wrong disk.
NothingRetargets ==
    \/ TRUE \notin ConflictWins
    \/ \A a, b, c \in Disks : a = b \/ b = c \/ a = c

-----------------------------------------------------------------------------
(* The inductive invariant.                                                *)

\* An arbitratee is in flight under its own key.
Held(i) == KeyOf(i) \in DOMAIN inflight /\ inflight[KeyOf(i)] = i

QueuedAt(n) == container[n].type = "migrate"

\* The three places where an arbitratee in flight may be.
InContainer(i) == \E n \in DOMAIN container : QueuedAt(n) /\ container[n].item = i
InMigrator(i)  == \E k \in DOMAIN flying : flying[k] = i
InEchoes(i)    == \E n \in DOMAIN exeQueue : exeQueue[n].key = KeyOf(i)

\* What arbitratees are.
ItemsMove == \A i \in DOMAIN item : item[i].key[2] # item[i].target

\* IN of the arbitrator: every arbitratee under its key, not deleted and not OUT.
InIsLive ==
    \A k \in DOMAIN arbIn :
        /\ KeyOf(arbIn[k]) = k /\ Live(arbIn[k])
        /\ \A l \in DOMAIN arbOut : arbOut[l] # arbIn[k]

\* What is in flight is IN, its disk is busy, and no other goes to that disk.
InFlightIsIn ==
    \A k \in DOMAIN inflight :
        /\ k \in DOMAIN arbIn /\ arbIn[k] = inflight[k]
        /\ TargetOf(inflight[k]) \in disks \ free
        /\ \A l \in DOMAIN inflight :
              TargetOf(inflight[l]) = TargetOf(inflight[k]) => l = k

\* What waits for a disk goes there, is IN, is not in flight and waits once.
WaitingIsIn ==
    \A d \in Disks : \A n \in DOMAIN waiting[d] :
        LET i == waiting[d][n] IN
        /\ TargetOf(i) = d
        /\ KeyOf(i) \in DOMAIN arbIn /\ arbIn[KeyOf(i)] = i
        /\ KeyOf(i) \notin DOMAIN inflight
        /\ \A m \in DOMAIN waiting[d] : waiting[d][m] = i => m = n

\* Each of the three places holds arbitratees in flight, once.
ContainerIsHeld ==
    \A n \in DOMAIN container : QueuedAt(n) =>
        /\ Held(container[n].item)
        /\ \A m \in DOMAIN container :
              QueuedAt(m) /\ container[m].item = container[n].item => m = n
MigratorIsHeld ==
    \A k \in DOMAIN flying : Held(flying[k]) /\ TargetKeyOf(flying[k]) = k
EchoesAreHeld ==
    \A n \in DOMAIN exeQueue :
        LET k == exeQueue[n].key IN
        /\ k \in DOMAIN inflight
        /\ exeQueue[n].target = TargetOf(inflight[k])
        /\ \A m \in DOMAIN exeQueue : exeQueue[m].key = k => m = n

\* They do so exclusively, and there is no fourth.
Apart ==
    \A k \in DOMAIN inflight :
        LET i == inflight[k] IN
        /\ ~(InContainer(i) /\ InMigrator(i))
        /\ ~(InContainer(i) /\ InEchoes(i))
        /\ ~(InMigrator(i) /\ InEchoes(i))
Somewhere ==
    \A k \in DOMAIN inflight :
        LET i == inflight[k] IN InContainer(i) \/ InMigrator(i) \/ InEchoes(i)

\* The migrator's queue has arbitratees that exist.
ContainerTyped ==
    \A n \in DOMAIN container : QueuedAt(n) => container[n].item \in DOMAIN item
Typed == TypeOK /\ ContainerTyped

Places == ContainerIsHeld /\ MigratorIsHeld /\ EchoesAreHeld /\ Apart /\ Somewhere
PipelineInv == ItemsMove /\ InIsLive /\ InFlightIsIn /\ WaitingIsIn /\ Places

-----------------------------------------------------------------------------
(* Maps, and the heap of arbitratees.                                      *)

LEMMA InMaps ==
    ASSUME NEW K, NEW V, NEW m
    PROVE  m \in Maps(K, V) <=> DOMAIN m \subseteq K /\ m \in [DOMAIN m -> V]
  BY DEF Maps

LEMMA EmptyMap ==
    ASSUME NEW K, NEW V
    PROVE  <<>> \in Maps(K, V)
<1>1. <<>> \in Seq(V) /\ Len(<<>>) = 0
  OBVIOUS
<1>2. <<>> \in [1 .. 0 -> V] /\ 1 .. 0 = {}
  BY <1>1, LenProperties
<1> QED
  BY <1>2 DEF Maps

LEMMA InsertInMaps ==
    ASSUME NEW K, NEW V, NEW m \in Maps(K, V), NEW k \in K, NEW v \in V
    PROVE  Insert(m, k, v) \in Maps(K, V)
<1>1. DOMAIN m \subseteq K /\ m \in [DOMAIN m -> V]
  BY InMaps
<1>2. CASE k \in DOMAIN m
  BY <1>2 DEF Insert
<1>3. CASE k \notin DOMAIN m
  <2> DEFINE r == [x \in DOMAIN m \cup {k} |-> IF x = k THEN v ELSE m[x]]
  <2>1. Insert(m, k, v) = r
    BY <1>3 DEF Insert
  <2>2. r \in [DOMAIN m \cup {k} -> V] /\ DOMAIN r \subseteq K
    BY <1>1
  <2> QED
    BY <2>1, <2>2 DEF Maps
<1> QED
  BY <1>2, <1>3

LEMMA EraseInMaps ==
    ASSUME NEW K, NEW V, NEW m \in Maps(K, V), NEW k
    PROVE  Erase(m, k) \in Maps(K, V)
<1>1. DOMAIN m \subseteq K /\ m \in [DOMAIN m -> V]
  BY InMaps
<1> DEFINE r == [x \in DOMAIN m \ {k} |-> m[x]]
<1>2. r \in [DOMAIN m \ {k} -> V] /\ DOMAIN r \subseteq K
  BY <1>1
<1> QED
  BY <1>2, InMaps DEF Erase

\* Insert and Erase as lookups.
LEMMA Lookups ==
    ASSUME NEW m, NEW k, NEW v
    PROVE  /\ DOMAIN Insert(m, k, v) = DOMAIN m \cup {k}
           /\ k \notin DOMAIN m => Insert(m, k, v)[k] = v
           /\ \A x \in DOMAIN m : Insert(m, k, v)[x] = m[x]
           /\ DOMAIN Erase(m, k) = DOMAIN m \ {k}
           /\ \A x \in DOMAIN m \ {k} : Erase(m, k)[x] = m[x]
<1>1. CASE k \in DOMAIN m
  BY <1>1 DEF Insert, Erase
<1>2. CASE k \notin DOMAIN m
  BY <1>2 DEF Insert, Erase
<1> QED
  BY <1>1, <1>2

LEMMA MapsGrow ==
    ASSUME NEW K, NEW V, NEW W, V \subseteq W
    PROVE  Maps(K, V) \subseteq Maps(K, W)
  BY DEF Maps

ItemsTyped == item \in Seq(Arbitratees)

LEMMA DeleteKeeps ==
    ASSUME ItemsTyped, NEW S
    PROVE  /\ Delete(S) \in Seq(Arbitratees) /\ Len(Delete(S)) = Len(item)
           /\ DOMAIN Delete(S) = DOMAIN item
           /\ \A i \in DOMAIN item :
                 /\ Delete(S)[i].key = item[i].key
                 /\ Delete(S)[i].target = item[i].target
                 /\ Delete(S)[i].deleted = (item[i].deleted \/ i \in S)
<1>1. DOMAIN item = 1 .. Len(item) /\ Len(item) \in Nat
      /\ \A i \in DOMAIN item : item[i] \in Arbitratees
  BY LenProperties, ElementOfSeq DEF ItemsTyped
<1> DEFINE changed(i) == [item[i] EXCEPT !.deleted = @ \/ i \in S]
<1>2. Delete(S) = [i \in 1 .. Len(item) |-> changed(i)]
  BY <1>1 DEF Delete
<1>3. \A i \in DOMAIN item :
          /\ changed(i) \in Arbitratees /\ changed(i).key = item[i].key
          /\ changed(i).target = item[i].target
          /\ changed(i).deleted = (item[i].deleted \/ i \in S)
  <2> TAKE i \in DOMAIN item
  <2>1. item[i] \in Arbitratees
    BY <1>1
  <2>2. changed(i).deleted = (item[i].deleted \/ i \in S)
    BY <2>1 DEF Arbitratees
  <2>3. (item[i].deleted \/ i \in S) \in BOOLEAN
    OBVIOUS
  <2> QED
    BY <2>1, <2>2, <2>3 DEF Arbitratees
<1> HIDE DEF changed
<1>4. Delete(S) \in Seq(Arbitratees) /\ Len(Delete(S)) = Len(item)
  BY <1>1, <1>2, <1>3
<1> QED
  BY <1>1, <1>2, <1>3, <1>4

-----------------------------------------------------------------------------
(* Sequences.                                                              *)

LEMMA AppendAt ==
    ASSUME NEW S, NEW s \in Seq(S), NEW e \in S
    PROVE  /\ Append(s, e) \in Seq(S)
           /\ Len(s) + 1 \notin DOMAIN s
           /\ DOMAIN Append(s, e) = DOMAIN s \cup {Len(s) + 1}
           /\ Append(s, e)[Len(s) + 1] = e
           /\ \A n \in DOMAIN s : Append(s, e)[n] = s[n]
<1>1. /\ Append(s, e) \in Seq(S) /\ Len(Append(s, e)) = Len(s) + 1
      /\ Append(s, e)[Len(s) + 1] = e
      /\ \A n \in 1 .. Len(s) : Append(s, e)[n] = s[n]
  BY AppendProperties
<1>2. Len(s) \in Nat /\ DOMAIN s = 1 .. Len(s) /\ DOMAIN Append(s, e) = 1 .. Len(s) + 1
  BY <1>1, LenProperties
<1> QED
  BY <1>1, <1>2

LEMMA TailAt ==
    ASSUME NEW S, NEW s \in Seq(S), s # <<>>
    PROVE  /\ Head(s) \in S /\ Tail(s) \in Seq(S)
           /\ 1 \in DOMAIN s /\ Head(s) = s[1]
           /\ \A n \in DOMAIN Tail(s) :
                 n + 1 \in DOMAIN s /\ Tail(s)[n] = s[n + 1] /\ n \in Nat /\ n > 0
           /\ \A n \in DOMAIN s : n = 1 \/ (n \in Nat /\ n - 1 \in DOMAIN Tail(s))
<1>1. /\ Head(s) \in S /\ Tail(s) \in Seq(S) /\ Head(s) = s[1]
      /\ Len(Tail(s)) = Len(s) - 1
      /\ \A n \in 1 .. Len(Tail(s)) : Tail(s)[n] = s[n + 1]
  BY HeadTailProperties
<1>2. /\ Len(s) \in Nat /\ Len(s) # 0 /\ DOMAIN s = 1 .. Len(s)
      /\ DOMAIN Tail(s) = 1 .. Len(s) - 1
  BY <1>1, LenProperties, EmptySeq
<1> QED
  BY <1>1, <1>2

LEMMA SeqGrows ==
    ASSUME NEW S, NEW T, S \subseteq T
    PROVE  Seq(S) \subseteq Seq(T)
<1> SUFFICES ASSUME NEW s \in Seq(S) PROVE s \in Seq(T)
  OBVIOUS
<1>1. Len(s) \in Nat /\ s \in [1 .. Len(s) -> S]
  BY LenProperties
<1> QED
  BY <1>1

-----------------------------------------------------------------------------
(* Types.                                                                  *)

MapsTyped ==
    /\ arbIn \in Maps(OBJKeys, DOMAIN item) /\ arbOut \in Maps(OBJKeys, DOMAIN item)
    /\ inflight \in Maps(OBJKeys, DOMAIN item) /\ flying \in Maps(OBJKeys, DOMAIN item)
HeapTyped == ItemsTyped /\ Len(item) <= MaxItems /\ MapsTyped
DisksTyped ==
    /\ free \subseteq disks /\ disks \subseteq Disks
    /\ waiting \in [Disks -> Seq(DOMAIN item)]
    /\ \A d \in Disks \ disks : waiting[d] = <<>>
QueuesTyped ==
    /\ exeQueue \in Seq(Echoes) /\ hubQueue \in Seq(HubEvents)
    /\ container \in Seq(ContainerItems) /\ ContainerTyped
AstTyped ==
    /\ epoch \in 0 .. MaxEpochs /\ exePc \in {"idle", "planning"}
    /\ astDisks \subseteq Disks /\ astOBJs \subseteq OBJKeys
HubTyped ==
    /\ hubOBJs \subseteq OBJKeys /\ tierDisks \subseteq Disks
    /\ hubDisks \in [Disks -> {"present", "delayed", "gone"}]
    /\ pinned \in [Disks -> Nat]
    /\ moving \in Maps(OBJKeys, Disks)
    /\ asserted \subseteq {"no_entry", "no_disk", "no_source", "target_exists",
                           "freed_tier"}
ServiceTyped ==
    /\ procedures \in [OBJKeys -> Nat]
    /\ spent \in [Bounds -> Nat] /\ \A b \in Bounds : spent[b] <= BoundOf[b]

LEMMA TypedParts ==
    Typed <=> /\ HeapTyped /\ DisksTyped /\ QueuesTyped
              /\ AstTyped /\ HubTyped /\ ServiceTyped
  BY DEF Typed, TypeOK, HeapTyped, ItemsTyped, MapsTyped, DisksTyped, QueuesTyped,
         AstTyped, HubTyped, ServiceTyped

LEMMA TypedNext ==
    /\ HeapTyped' /\ DisksTyped' /\ QueuesTyped'
    /\ AstTyped' /\ HubTyped' /\ ServiceTyped'
    => Typed'
  BY DEF Typed, TypeOK, HeapTyped, ItemsTyped, MapsTyped, DisksTyped, QueuesTyped,
         AstTyped, HubTyped, ServiceTyped

LEMMA InitTyped == Init => Typed
<1> SUFFICES ASSUME Init PROVE Typed
  OBVIOUS
<1>1. HeapTyped
  <2>1. <<>> \in Maps(OBJKeys, {})
    BY EmptyMap
  <2>2. DOMAIN item = {} /\ Len(item) = 0 /\ item \in Seq(Arbitratees)
    BY DEF Init
  <2>3. 0 <= MaxItems
    BY MigrationBoundsAssumption
  <2> QED
    BY <2>1, <2>2, <2>3 DEF Init, HeapTyped, ItemsTyped, MapsTyped
<1>2. DisksTyped
  <2>1. <<>> \in Seq(DOMAIN item)
    OBVIOUS
  <2> QED
    BY <2>1 DEF Init, DisksTyped
<1>3. QueuesTyped
  BY DEF Init, QueuesTyped, ContainerTyped
<1>4. AstTyped
  BY MigrationBoundsAssumption DEF Init, AstTyped, OBJKeys
<1>5. HubTyped
  <2>1. <<>> \in Maps(OBJKeys, Disks)
    BY EmptyMap
  <2> QED
    BY <2>1 DEF Init, HubTyped, OBJKeys
<1>6. ServiceTyped
  BY MigrationBoundsAssumption DEF Init, ServiceTyped, Bounds, BoundOf
<1> QED
  BY <1>1, <1>2, <1>3, <1>4, <1>5, <1>6, TypedParts

-----------------------------------------------------------------------------
(* Types of the executor's steps.                                          *)

LEMMA ItemsAreItems ==
    ASSUME HeapTyped
    PROVE  /\ DOMAIN item = 1 .. Len(item) /\ Len(item) \in Nat
           /\ DOMAIN item \subseteq Items
           /\ \A i \in DOMAIN item : item[i] \in Arbitratees
  BY LenProperties, ElementOfSeq, MigrationBoundsAssumption
  DEF HeapTyped, ItemsTyped, Items

\* A heap with the same arbitratees, or with more, keeps the tables typed.
LEMMA LongerHeap ==
    ASSUME NEW D, DOMAIN item \subseteq D
    PROVE  /\ \A m \in Maps(OBJKeys, DOMAIN item) : m \in Maps(OBJKeys, D)
           /\ \A q \in Seq(DOMAIN item) : q \in Seq(D)
           /\ \A w \in [Disks -> Seq(DOMAIN item)] : w \in [Disks -> Seq(D)]
<1>1. Maps(OBJKeys, DOMAIN item) \subseteq Maps(OBJKeys, D)
  BY MapsGrow
<1>2. Seq(DOMAIN item) \subseteq Seq(D)
  BY SeqGrows
<1> QED
  BY <1>1, <1>2

\* What an arbitratee that is launched adds to the migrator's queue.
LEMMA LaunchTyped ==
    ASSUME QueuesTyped, NEW D, DOMAIN item \subseteq D, D \subseteq Items, NEW i \in D
    PROVE  /\ Append(container, Submitted(i)) \in Seq(ContainerItems)
           /\ \A n \in DOMAIN Append(container, Submitted(i)) :
                 Append(container, Submitted(i))[n].type = "migrate" =>
                    Append(container, Submitted(i))[n].item \in D
<1>1. Submitted(i) \in ContainerItems /\ Submitted(i).item = i
  BY DEF Submitted, ContainerItems
<1>2. container \in Seq(ContainerItems)
  BY DEF QueuesTyped
<1> DEFINE q == Append(container, Submitted(i))
<1>3. /\ q \in Seq(ContainerItems)
      /\ DOMAIN q = DOMAIN container \cup {Len(container) + 1}
      /\ q[Len(container) + 1] = Submitted(i)
      /\ \A n \in DOMAIN container : q[n] = container[n]
  BY <1>1, <1>2, AppendAt
<1>4. \A n \in DOMAIN container : container[n].type = "migrate" => container[n].item \in D
  BY DEF QueuesTyped, ContainerTyped, QueuedAt
<1> HIDE DEF q
<1>5. \A n \in DOMAIN q : q[n].type = "migrate" => q[n].item \in D
  BY <1>1, <1>3, <1>4
<1> QED
  BY <1>3, <1>5 DEF q

LEMMA StartWindowTyped == Typed /\ StartWindow => Typed'
<1> SUFFICES ASSUME Typed, StartWindow PROVE Typed'
  OBVIOUS
<1> USE TypedParts, TypedNext
<1>1. PICK ended \in SUBSET DOMAIN arbOut :
          /\ arbOut' = [k \in DOMAIN arbOut \ ended |-> arbOut[k]]
          /\ item' = Delete({arbOut[k] : k \in ended})
          /\ UNCHANGED arbIn
  BY DEF StartWindow, PrepareArbitrator
<1>2. item' \in Seq(Arbitratees) /\ Len(item') = Len(item) /\ DOMAIN item' = DOMAIN item
  BY <1>1, DeleteKeeps DEF HeapTyped
<1>3. HeapTyped'
  <2>1. DOMAIN arbOut \subseteq OBJKeys /\ arbOut \in [DOMAIN arbOut -> DOMAIN item]
    BY InMaps DEF HeapTyped, MapsTyped
  <2>2. DOMAIN arbOut' \subseteq OBJKeys /\ arbOut' \in [DOMAIN arbOut' -> DOMAIN item]
    BY <1>1, <2>1
  <2>3. arbOut' \in Maps(OBJKeys, DOMAIN item)
    BY <2>2, InMaps
  <2> QED
    BY <1>1, <1>2, <2>3
    DEF StartWindow, PrepareMigration, HeapTyped, ItemsTyped, MapsTyped, relocatorFrame,
        migVars
<1>4. DisksTyped'
  <2>1. <<>> \in Seq(DOMAIN item)
    OBVIOUS
  <2> QED
    BY <1>2, <2>1 DEF StartWindow, PrepareMigration, DisksTyped
<1>5. QueuesTyped'
  BY <1>2 DEF StartWindow, PrepareMigration, relocatorFrame, QueuesTyped, ContainerTyped,
              QueuedAt
<1>6. AstTyped'
  BY MigrationBoundsAssumption DEF StartWindow, relocatorFrame, astVars, AstTyped
<1>7. HubTyped' /\ ServiceTyped'
  BY DEF StartWindow, relocatorFrame, hubVars, viewVars, HubTyped, ServiceTyped
<1> QED
  BY <1>3, <1>4, <1>5, <1>6, <1>7

LEMMA ReceivePlanTyped ==
    ASSUME Typed, NEW key \in astOBJs, NEW d \in Disks, ReceivePlan(key, d)
    PROVE  Typed'
<1> USE TypedParts, TypedNext
<1> DEFINE i == Len(item) + 1
           old == IF key \in DOMAIN arbOut THEN {arbOut[key]} ELSE {}
           new == [key |-> key, target |-> d, deleted |-> FALSE]
<1>0. key \in OBJKeys
  BY DEF AstTyped
<1>1. /\ Delete(old) \in Seq(Arbitratees) /\ Len(Delete(old)) = Len(item)
      /\ DOMAIN Delete(old) = DOMAIN item
  BY DeleteKeeps DEF HeapTyped
<1>2. arbOut' \in Maps(OBJKeys, DOMAIN item)
  BY EraseInMaps DEF ReceivePlan, HeapTyped, MapsTyped
<1>3. AstTyped' /\ HubTyped' /\ ServiceTyped' /\ flying' = flying
      /\ exeQueue' = exeQueue /\ hubQueue' = hubQueue
  BY DEF ReceivePlan, relocatorFrame, astVars, migVars, hubVars, viewVars, AstTyped,
         HubTyped, ServiceTyped
<1>4. CASE item' = Delete(old) /\ UNCHANGED <<arbIn, disks, free, waiting, inflight, container>>
  <2>1. HeapTyped'
    BY <1>1, <1>2, <1>3, <1>4 DEF HeapTyped, ItemsTyped, MapsTyped
  <2>2. DisksTyped' /\ QueuesTyped'
    BY <1>1, <1>3, <1>4 DEF DisksTyped, QueuesTyped, ContainerTyped, QueuedAt
  <2> QED
    BY <1>3, <2>1, <2>2
<1>5. CASE /\ Len(item) < MaxItems /\ item' = Append(Delete(old), new)
           /\ arbIn' = Insert(arbIn, key, i) /\ ReceiveArbitratee(i, d)
  <2> DEFINE D == DOMAIN item \cup {i}
  <2>1. new \in Arbitratees
    BY <1>0 DEF Arbitratees
  <2>2. item' \in Seq(Arbitratees) /\ Len(item') = i /\ DOMAIN item' = D
    <3> DEFINE q == Delete(old)
    <3>1. q \in Seq(Arbitratees) /\ Len(q) = Len(item) /\ DOMAIN q = DOMAIN item
      BY <1>1
    <3> HIDE DEF q, new
    <3>2. /\ Append(q, new) \in Seq(Arbitratees) /\ Len(Append(q, new)) = Len(q) + 1
          /\ DOMAIN Append(q, new) = DOMAIN q \cup {Len(q) + 1}
      BY <3>1, <2>1, AppendAt, AppendProperties
    <3> QED
      BY <1>5, <3>1, <3>2 DEF q
  <2>3. D \subseteq Items /\ i \in Nat /\ DOMAIN item' = 1 .. i
        /\ \A j \in D : item'[j] \in Arbitratees
    BY <2>2, <1>5, ItemsAreItems, LenProperties, ElementOfSeq, MigrationBoundsAssumption
    DEF Items
  <2> DEFINE queue == Append(waiting[d], i)
  <2>4. waiting[d] \in Seq(D) /\ i \in D /\ waiting \in [Disks -> Seq(D)]
    BY LongerHeap DEF DisksTyped
  <2>5. queue \in Seq(D) /\ queue # <<>> /\ Head(queue) \in D /\ Tail(queue) \in Seq(D)
    <3>1. queue \in Seq(D) /\ Len(queue) = Len(waiting[d]) + 1 /\ Len(waiting[d]) \in Nat
      BY <2>4, AppendProperties, LenProperties DEF queue
    <3>2. queue # <<>>
      BY <3>1
    <3> QED
      BY <3>1, <3>2, TailAt
  <2> HIDE DEF queue
  <2>6. item'[Head(queue)].key \in OBJKeys
    BY <2>3, <2>5 DEF Arbitratees
  <2>7. /\ arbIn' \in Maps(OBJKeys, D) /\ inflight \in Maps(OBJKeys, D)
        /\ arbOut' \in Maps(OBJKeys, D) /\ flying' \in Maps(OBJKeys, D)
    <3>1. arbIn \in Maps(OBJKeys, D) /\ inflight \in Maps(OBJKeys, D)
          /\ arbOut' \in Maps(OBJKeys, D) /\ flying' \in Maps(OBJKeys, D)
      BY <1>2, <1>3, LongerHeap DEF HeapTyped, MapsTyped
    <3> QED
      BY <3>1, <1>0, <1>5, <2>4, InsertInMaps
  <2>8. CASE /\ free' = free \ {d}
             /\ waiting' = [waiting EXCEPT ![d] = Tail(queue)]
             /\ inflight' = Insert(inflight, item'[Head(queue)].key, Head(queue))
             /\ container' = Append(container, Submitted(Head(queue)))
    <3>1. inflight' \in Maps(OBJKeys, D)
      BY <2>5, <2>6, <2>7, <2>8, InsertInMaps
    <3>2. HeapTyped'
      BY <2>2, <2>3, <2>7, <3>1, <1>5, MigrationBoundsAssumption
      DEF HeapTyped, ItemsTyped, MapsTyped, Items
    <3>3. DisksTyped'
      BY <1>5, <2>2, <2>4, <2>5, <2>8 DEF ReceiveArbitratee, DisksTyped
    <3>4. QueuesTyped'
      <4>1. /\ container' \in Seq(ContainerItems)
            /\ \A n \in DOMAIN container' :
                  container'[n].type = "migrate" => container'[n].item \in D
        BY <2>3, <2>5, <2>8, LaunchTyped
      <4> QED
        BY <4>1, <1>3, <2>2 DEF QueuesTyped, ContainerTyped, QueuedAt
    <3> QED
      BY <1>3, <3>2, <3>3, <3>4
  <2>9. CASE /\ waiting' = [waiting EXCEPT ![d] = queue]
             /\ UNCHANGED <<free, inflight, container>>
    <3>1. HeapTyped'
      BY <2>2, <2>3, <2>7, <2>9, <1>5, MigrationBoundsAssumption
      DEF HeapTyped, ItemsTyped, MapsTyped, Items
    <3>2. DisksTyped'
      BY <1>5, <2>2, <2>4, <2>5, <2>9 DEF ReceiveArbitratee, DisksTyped
    <3>3. QueuesTyped'
      BY <1>3, <2>2, <2>9 DEF QueuesTyped, ContainerTyped, QueuedAt
    <3> QED
      BY <1>3, <3>1, <3>2, <3>3
  <2> QED
    BY <1>5, <2>8, <2>9 DEF ReceiveArbitratee, queue
<1> QED
  BY <1>4, <1>5 DEF ReceivePlan

LEMMA ConflictTyped ==
    ASSUME Typed, NEW key \in astOBJs, NEW d \in Disks, Conflict(key, d)
    PROVE  Typed'
<1> USE TypedParts, TypedNext
<1> DEFINE i == arbIn[key]
           moved == [item[i] EXCEPT !.target = d]
<1>1. i \in DOMAIN item
  BY InMaps DEF Conflict, HeapTyped, MapsTyped
<1>2. item[i] \in Arbitratees /\ DOMAIN item = 1 .. Len(item)
  BY <1>1, ItemsAreItems
<1>3. moved \in Arbitratees
  BY <1>2 DEF Arbitratees
<1>4. item' = [item EXCEPT ![i] = moved]
  BY DEF Conflict
<1> HIDE DEF moved, i
<1>5. item' \in Seq(Arbitratees) /\ Len(item') = Len(item) /\ DOMAIN item' = DOMAIN item
  BY <1>1, <1>2, <1>3, <1>4, ExceptSeq, ItemsAreItems DEF HeapTyped, ItemsTyped
<1>6. HeapTyped' /\ DisksTyped' /\ QueuesTyped'
  BY <1>5 DEF Conflict, relocatorFrame, migVars, HeapTyped, ItemsTyped, MapsTyped,
              DisksTyped, QueuesTyped, ContainerTyped, QueuedAt
<1>7. AstTyped' /\ HubTyped' /\ ServiceTyped'
  BY DEF Conflict, relocatorFrame, astVars, hubVars, viewVars, AstTyped, HubTyped,
         ServiceTyped
<1> QED
  BY <1>6, <1>7

LEMMA PlansDoneTyped == Typed /\ PlansDone => Typed'
<1> SUFFICES ASSUME Typed, PlansDone PROVE Typed'
  OBVIOUS
<1> USE TypedParts, TypedNext
<1>1. HeapTyped' /\ DisksTyped' /\ QueuesTyped'
  BY DEF PlansDone, relocatorFrame, migVars, HeapTyped, ItemsTyped, MapsTyped,
         DisksTyped, QueuesTyped, ContainerTyped, QueuedAt
<1>2. AstTyped' /\ HubTyped' /\ ServiceTyped'
  BY DEF PlansDone, relocatorFrame, astVars, hubVars, viewVars, AstTyped, HubTyped,
         ServiceTyped
<1> QED
  BY <1>1, <1>2

\* What Migration does with an echo keeps the types of its tables.
LEMMA NextOfDiskTyped ==
    ASSUME Typed, NEW key \in OBJKeys, NEW d \in Disks, NEW freed, NEW more,
           NextOfDisk(key, d, freed, more), DOMAIN item' = DOMAIN item
    PROVE  /\ inflight' \in Maps(OBJKeys, DOMAIN item) /\ DisksTyped'
           /\ container' \in Seq(ContainerItems) /\ ContainerTyped'
<1> USE TypedParts
<1> DEFINE rest == Erase(inflight, key)
<1>1. rest \in Maps(OBJKeys, DOMAIN item)
  BY EraseInMaps DEF HeapTyped, MapsTyped
<1>2. CASE /\ inflight' = rest /\ UNCHANGED container
           /\ \/ /\ free' = (IF freed /\ d \in disks THEN free \cup {d} ELSE free)
                 /\ UNCHANGED <<disks, waiting>>
              \/ /\ disks' = disks \ {d} /\ free' = free \ {d}
                 /\ waiting' = [waiting EXCEPT ![d] = <<>>]
  <2>1. <<>> \in Seq(DOMAIN item)
    OBVIOUS
  <2>2. DisksTyped'
    BY <1>2, <2>1 DEF DisksTyped
  <2> QED
    BY <1>1, <1>2, <2>2 DEF QueuesTyped, ContainerTyped, QueuedAt
<1>3. CASE /\ d \in disks /\ waiting[d] # <<>>
           /\ free' = (IF freed /\ d \in disks THEN free \cup {d} ELSE free) \ {d}
           /\ waiting' = [waiting EXCEPT ![d] = Tail(@)]
           /\ Launch(rest, Head(waiting[d]))
           /\ UNCHANGED disks
  <2>1. waiting[d] \in Seq(DOMAIN item)
    BY DEF DisksTyped
  <2>2. Head(waiting[d]) \in DOMAIN item /\ Tail(waiting[d]) \in Seq(DOMAIN item)
    BY <1>3, <2>1, TailAt
  <2>3. KeyOf(Head(waiting[d])) \in OBJKeys
    BY <2>2, ItemsAreItems DEF KeyOf, Arbitratees
  <2>4. inflight' \in Maps(OBJKeys, DOMAIN item)
    BY <1>1, <1>3, <2>2, <2>3, InsertInMaps DEF Launch
  <2>5. DisksTyped'
    BY <1>3, <2>2 DEF DisksTyped
  <2>6. /\ container' \in Seq(ContainerItems)
        /\ \A n \in DOMAIN container' :
              container'[n].type = "migrate" => container'[n].item \in DOMAIN item
    BY <1>3, <2>2, ItemsAreItems, LaunchTyped DEF Launch
  <2> QED
    BY <2>4, <2>5, <2>6 DEF ContainerTyped, QueuedAt
<1> QED
  BY <1>2, <1>3 DEF NextOfDisk

LEMMA HandleEchoTyped == Typed /\ HandleEcho => Typed'
<1> SUFFICES ASSUME Typed, HandleEcho PROVE Typed'
  OBVIOUS
<1> USE TypedParts, TypedNext
<1> DEFINE e == Head(exeQueue)
<1>1. e \in Echoes /\ exeQueue' \in Seq(Echoes)
  BY TailAt DEF HandleEcho, QueuesTyped
<1>2. e.key \in OBJKeys /\ e.target \in Disks
  BY <1>1 DEF Echoes
<1>3. ArbitratorExpire(e.key) \/ ArbitratorComplete(e.key, e.status)
  BY DEF HandleEcho
<1>4. PICK trigger \in TriggerChoices :
          NextOfDisk(e.key, e.target, e.type = "expired" \/ e.status = "ok",
                     trigger /\ (e.type = "expired" \/ e.status # "notdone"))
  BY DEF HandleEcho
<1> HIDE DEF e
<1>5. /\ item' \in Seq(Arbitratees) /\ Len(item') = Len(item)
      /\ DOMAIN item' = DOMAIN item
  BY <1>3, DeleteKeeps DEF ArbitratorExpire, ArbitratorComplete, HeapTyped, ItemsTyped
<1>6. arbIn' \in Maps(OBJKeys, DOMAIN item) /\ arbOut' \in Maps(OBJKeys, DOMAIN item)
  <2>1. arbIn \in Maps(OBJKeys, DOMAIN item) /\ arbOut \in Maps(OBJKeys, DOMAIN item)
    BY DEF HeapTyped, MapsTyped
  <2>2. e.key \in DOMAIN arbIn => arbIn[e.key] \in DOMAIN item
    BY <2>1, InMaps
  <2> QED
    BY <1>2, <1>3, <2>1, <2>2, InsertInMaps, EraseInMaps
    DEF ArbitratorExpire, ArbitratorComplete
<1>7. /\ inflight' \in Maps(OBJKeys, DOMAIN item) /\ DisksTyped'
      /\ container' \in Seq(ContainerItems) /\ ContainerTyped'
  BY <1>2, <1>4, <1>5, NextOfDiskTyped
<1>8. flying' = flying /\ hubQueue' = hubQueue
  BY DEF HandleEcho, relocatorFrame, migVars
<1>9. HeapTyped' /\ QueuesTyped'
  BY <1>1, <1>5, <1>6, <1>7, <1>8 DEF HeapTyped, ItemsTyped, MapsTyped, QueuesTyped
<1>10. AstTyped'
  BY DEF HandleEcho, relocatorFrame, astVars, AstTyped
<1>11. HubTyped' /\ ServiceTyped'
  BY DEF HandleEcho, relocatorFrame, hubVars, viewVars, HubTyped, ServiceTyped
<1> QED
  BY <1>7, <1>9, <1>10, <1>11

-----------------------------------------------------------------------------
(* Types of the steps of the other threads.                                *)

\* The executor's own tables and the heap.
LEMMA ExecutorKeeps ==
    Typed /\ UNCHANGED <<exeVars, migVars>> => HeapTyped' /\ DisksTyped'
  BY TypedParts DEF exeVars, itemVars, diskVars, migVars, HeapTyped, ItemsTyped, MapsTyped,
                    DisksTyped

LEMMA QueuesKept ==
    Typed /\ UNCHANGED <<item, exeQueue, container, hubQueue>> => QueuesTyped'
  BY TypedParts DEF QueuesTyped, ContainerTyped, QueuedAt

LEMMA AstKept == Typed /\ UNCHANGED <<epoch, exePc, astVars>> => AstTyped'
  BY TypedParts DEF astVars, AstTyped

LEMMA HubKept == Typed /\ UNCHANGED hubVars => HubTyped'
  BY TypedParts DEF hubVars, viewVars, HubTyped

LEMMA ServiceKept == Typed /\ UNCHANGED <<procedures, spent>> => ServiceTyped'
  BY TypedParts DEF ServiceTyped

LEMMA SpendTyped ==
    ASSUME Typed, NEW b \in Bounds, CanSpend(b), Spend(b), UNCHANGED procedures
    PROVE  ServiceTyped'
<1>1. spent \in [Bounds -> Nat] /\ \A c \in Bounds : spent[c] <= BoundOf[c]
  BY TypedParts DEF ServiceTyped
<1>2. BoundOf[b] \in Nat
  BY MigrationBoundsAssumption DEF Bounds, BoundOf
<1>3. spent[b] + 1 <= BoundOf[b]
  BY <1>1, <1>2 DEF CanSpend
<1> QED
  BY <1>1, <1>3, TypedParts DEF Spend, ServiceTyped

LEMMA StutterTyped == Typed /\ UNCHANGED vars => Typed'
<1> SUFFICES ASSUME Typed, UNCHANGED vars PROVE Typed'
  OBVIOUS
<1>1. /\ UNCHANGED <<exeVars, migVars>> /\ UNCHANGED <<item, exeQueue, container, hubQueue>>
      /\ UNCHANGED <<epoch, exePc, astVars>> /\ UNCHANGED hubVars
      /\ UNCHANGED <<procedures, spent>>
  BY DEF vars, exeVars, itemVars
<1> QED
  BY <1>1, ExecutorKeeps, QueuesKept, AstKept, HubKept, ServiceKept, TypedNext

LEMMA GeneratorTyped == Typed /\ GeneratorStep => Typed'
<1> SUFFICES ASSUME Typed, GeneratorStep PROVE Typed'
  OBVIOUS
<1>1. /\ UNCHANGED <<exeVars, migVars>> /\ UNCHANGED <<item, exeQueue, container, hubQueue>>
      /\ UNCHANGED hubVars
  BY DEF GeneratorStep, LearnConfig, ResolveDeletedDisk, exeVars, itemVars
<1>2. AstTyped'
  <2>1. CASE LearnConfig
    BY <2>1, TypedParts DEF LearnConfig, AstTyped, HubTyped, exeVars, Collected
  <2>2. CASE ResolveDeletedDisk
    BY <2>2, TypedParts DEF ResolveDeletedDisk, AstTyped, exeVars
  <2> QED
    BY <2>1, <2>2 DEF GeneratorStep
<1>3. ServiceTyped'
  <2>1. CASE LearnConfig
    BY <2>1, SpendTyped DEF LearnConfig, Bounds
  <2>2. CASE ResolveDeletedDisk
    BY <2>2, ServiceKept DEF ResolveDeletedDisk
  <2> QED
    BY <2>1, <2>2 DEF GeneratorStep
<1> QED
  BY <1>1, <1>2, <1>3, ExecutorKeeps, QueuesKept, HubKept, TypedNext

\* What the migrator adds to the executor's queue.
LEMMA EchoTyped ==
    ASSUME Typed, NEW i \in DOMAIN item, NEW type \in {"completed", "expired"},
           NEW status \in Outcomes
    PROVE  Append(exeQueue, EchoOf(type, i, status)) \in Seq(Echoes)
<1>1. item[i].key \in OBJKeys /\ item[i].target \in Disks
  BY TypedParts, ItemsAreItems DEF Arbitratees
<1>2. EchoOf(type, i, status) \in Echoes
  BY <1>1 DEF EchoOf, KeyOf, TargetOf, Echoes
<1> QED
  BY <1>2, TypedParts, AppendAt DEF QueuesTyped

LEMMA ContainerHead ==
    ASSUME Typed, container # <<>>
    PROVE  /\ Head(container) \in ContainerItems
           /\ Tail(container) \in Seq(ContainerItems)
           /\ Head(container).type = "migrate" => Head(container).item \in DOMAIN item
           /\ Head(container).type = "complete" =>
                 Head(container).key \in OBJKeys /\ Head(container).status \in Outcomes
           /\ \A n \in DOMAIN Tail(container) :
                 Tail(container)[n].type = "migrate" =>
                    Tail(container)[n].item \in DOMAIN item
<1>1. container \in Seq(ContainerItems) /\ ContainerTyped
  BY TypedParts DEF QueuesTyped
<1>2. /\ Head(container) \in ContainerItems /\ Tail(container) \in Seq(ContainerItems)
      /\ 1 \in DOMAIN container /\ Head(container) = container[1]
      /\ \A n \in DOMAIN Tail(container) :
            n + 1 \in DOMAIN container /\ Tail(container)[n] = container[n + 1]
  BY <1>1, TailAt
<1>3. Head(container).type = "complete" =>
          Head(container).key \in OBJKeys /\ Head(container).status \in Outcomes
  BY <1>2 DEF ContainerItems
<1> QED
  BY <1>1, <1>2, <1>3 DEF ContainerTyped, QueuedAt

LEMMA MigratorTyped == Typed /\ MigratorStep => Typed'
<1> SUFFICES ASSUME Typed, MigratorStep PROVE Typed'
  OBVIOUS
<1> USE TypedParts, TypedNext
<1>1. CASE DoMigration
  <2> DEFINE i == Head(container).item
  <2>1. container # <<>> /\ Head(container).type = "migrate"
    BY <1>1 DEF DoMigration, Migrates
  <2>2. i \in DOMAIN item
    BY <2>1, ContainerHead
  <2>3. /\ item[i].key \in OBJKeys /\ item[i].key[1] \in OBJs /\ item[i].target \in Disks
    BY <2>2, ItemsAreItems DEF Arbitratees, OBJKeys
  <2> HIDE DEF i
  <2>4. TargetKeyOf(i) \in OBJKeys
    BY <2>3 DEF TargetKeyOf, OBJKeys
  <2>5. flying' \in Maps(OBJKeys, DOMAIN item)
    BY <1>1, <2>2, <2>4, InsertInMaps DEF DoMigration, HeapTyped, MapsTyped, i
  <2>6. /\ UNCHANGED <<exeVars, exeQueue, astVars, hubVars, procedures, spent>>
        /\ UNCHANGED <<item, epoch, exePc>>
    BY <1>1 DEF DoMigration, migratorFrame, exeVars, itemVars
  <2>7. HeapTyped' /\ DisksTyped'
    BY <2>5, <2>6 DEF exeVars, itemVars, diskVars, HeapTyped, ItemsTyped, MapsTyped,
                      DisksTyped
  <2>8. QueuesTyped'
    <3> DEFINE x == [type |-> "migrate", key |-> KeyOf(i), target |-> TargetOf(i)]
    <3>1. x \in HubEvents
      BY <2>3 DEF HubEvents, KeyOf, TargetOf
    <3>2. hubQueue' = Append(hubQueue, x) /\ container' = Tail(container)
      BY <1>1 DEF DoMigration, i
    <3> HIDE DEF x
    <3>3. hubQueue' \in Seq(HubEvents)
      BY <3>1, <3>2, AppendAt DEF QueuesTyped
    <3> QED
      BY <2>1, <2>6, <3>2, <3>3, ContainerHead DEF QueuesTyped, ContainerTyped, QueuedAt
  <2> QED
    BY <2>6, <2>7, <2>8, AstKept, HubKept, ServiceKept
<1>2. CASE CompleteMigration
  <2> DEFINE e == Head(container)
  <2>1. container # <<>> /\ e.type = "complete"
    BY <1>2 DEF CompleteMigration, Migrates
  <2>2. e.key \in OBJKeys /\ e.status \in Outcomes
    BY <2>1, ContainerHead
  <2>3. flying' \in Maps(OBJKeys, DOMAIN item)
    BY <1>2, EraseInMaps DEF CompleteMigration, HeapTyped, MapsTyped
  <2>4. exeQueue' \in Seq(Echoes)
    <3>1. CASE e.key \in DOMAIN flying
      <4>1. flying[e.key] \in DOMAIN item
        BY <3>1, InMaps DEF HeapTyped, MapsTyped
      <4> QED
        BY <1>2, <2>2, <3>1, <4>1, EchoTyped DEF CompleteMigration
    <3>2. CASE e.key \notin DOMAIN flying
      BY <1>2, <3>2 DEF CompleteMigration, QueuesTyped
    <3> QED
      BY <3>1, <3>2
  <2>5. /\ UNCHANGED <<exeVars, astVars, hubVars, hubQueue, procedures, spent>>
        /\ UNCHANGED <<item, epoch, exePc>>
    BY <1>2 DEF CompleteMigration, migratorFrame, exeVars, itemVars
  <2>6. HeapTyped' /\ DisksTyped'
    BY <2>3, <2>5 DEF exeVars, itemVars, diskVars, HeapTyped, ItemsTyped, MapsTyped,
                      DisksTyped
  <2>7. QueuesTyped'
    <3>1. container' = Tail(container)
      BY <1>2 DEF CompleteMigration
    <3> QED
      BY <2>1, <2>4, <2>5, <3>1, ContainerHead DEF QueuesTyped, ContainerTyped, QueuedAt
  <2> QED
    BY <2>5, <2>6, <2>7, AstKept, HubKept, ServiceKept
<1>3. CASE CheckExpired
  <2>1. PICK k \in DOMAIN flying :
            /\ flying' = Erase(flying, k)
            /\ exeQueue' = Append(exeQueue, EchoOf("expired", flying[k], "failed"))
    BY <1>3 DEF CheckExpired
  <2>2. flying[k] \in DOMAIN item /\ "failed" \in Outcomes
    BY <2>1, InMaps DEF HeapTyped, MapsTyped, Outcomes
  <2>3. exeQueue' \in Seq(Echoes)
    BY <2>1, <2>2, EchoTyped
  <2>4. flying' \in Maps(OBJKeys, DOMAIN item)
    BY <2>1, EraseInMaps DEF HeapTyped, MapsTyped
  <2>5. /\ UNCHANGED <<exeVars, astVars, hubVars, container, hubQueue, procedures>>
        /\ UNCHANGED <<item, epoch, exePc>>
    BY <1>3 DEF CheckExpired, migratorFrame, exeVars, itemVars
  <2>6. HeapTyped' /\ DisksTyped'
    BY <2>4, <2>5 DEF exeVars, itemVars, diskVars, HeapTyped, ItemsTyped, MapsTyped,
                      DisksTyped
  <2>7. QueuesTyped'
    BY <2>3, <2>5 DEF QueuesTyped, ContainerTyped, QueuedAt
  <2>8. ServiceTyped'
    BY <1>3, <2>5, SpendTyped DEF CheckExpired, Bounds
  <2> QED
    BY <2>5, <2>6, <2>7, <2>8, AstKept, HubKept
<1> QED
  BY <1>1, <1>2, <1>3 DEF MigratorStep

\* What the HUB answers to the migrator.
LEMMA AnswerTyped ==
    ASSUME Typed, NEW key \in OBJKeys, NEW status \in Outcomes
    PROVE  /\ Append(container, Ended(key, status)) \in Seq(ContainerItems)
           /\ \A n \in DOMAIN Append(container, Ended(key, status)) :
                 Append(container, Ended(key, status))[n].type = "migrate" =>
                    Append(container, Ended(key, status))[n].item \in DOMAIN item
<1>1. container \in Seq(ContainerItems) /\ ContainerTyped
  BY TypedParts DEF QueuesTyped
<1>2. Ended(key, status) \in ContainerItems /\ Ended(key, status).type # "migrate"
  BY DEF Ended, ContainerItems
<1> DEFINE x == Ended(key, status)  q == Append(container, x)
<1> HIDE DEF x
<1>3. /\ q \in Seq(ContainerItems) /\ DOMAIN q = DOMAIN container \cup {Len(container) + 1}
      /\ q[Len(container) + 1] = x
      /\ \A n \in DOMAIN container : q[n] = container[n]
  BY <1>1, <1>2, AppendAt DEF x
<1> HIDE DEF q
<1>4. \A n \in DOMAIN q : q[n].type = "migrate" => q[n].item \in DOMAIN item
  BY <1>1, <1>2, <1>3 DEF ContainerTyped, QueuedAt, x
<1> QED
  BY <1>3, <1>4 DEF q, x

LEMMA HubHead ==
    ASSUME Typed, hubQueue # <<>>
    PROVE  /\ Head(hubQueue) \in HubEvents /\ Tail(hubQueue) \in Seq(HubEvents)
           /\ Head(hubQueue).type = "migrate" =>
                 Head(hubQueue).key \in OBJKeys /\ Head(hubQueue).target \in Disks
           /\ Head(hubQueue).type = "completed" =>
                 Head(hubQueue).key \in OBJKeys /\ Head(hubQueue).status \in Outcomes
<1>1. Head(hubQueue) \in HubEvents /\ Tail(hubQueue) \in Seq(HubEvents)
  BY TypedParts, TailAt DEF QueuesTyped
<1> QED
  BY <1>1 DEF HubEvents

LEMMA ViewsTyped ==
    ASSUME Typed, NEW S, RemoveViews(S)
    PROVE  /\ hubDisks' \in [Disks -> {"present", "delayed", "gone"}]
           /\ tierDisks' \subseteq Disks
  BY TypedParts DEF RemoveViews, HubTyped

LEMMA HubMigrateTyped == Typed /\ Migrate => Typed'
<1> SUFFICES ASSUME Typed, Migrate PROVE Typed'
  OBVIOUS
<1> USE TypedParts
<1> DEFINE e == Head(hubQueue)  key == <<e.key[1], e.target>>
<1>1. hubQueue # <<>> /\ e.type = "migrate"
  BY DEF Migrate, HubHandles
<1>2. /\ e.key \in OBJKeys /\ e.target \in Disks /\ hubQueue' \in Seq(HubEvents)
  BY <1>1, HubHead DEF Migrate
<1>3. key \in OBJKeys /\ e.key[2] \in Disks /\ TableKey(e) = key
  BY <1>2 DEF OBJKeys, TableKey
<1>4. /\ UNCHANGED <<exeVars, exeQueue, astVars, migVars>> /\ UNCHANGED spent
      /\ UNCHANGED <<hubOBJs, hubDisks, tierDisks, asserted>>
      /\ UNCHANGED <<item, epoch, exePc>>
  BY DEF Migrate, hubFrame, exeVars, itemVars
<1>5. CASE /\ pinned' = [d \in Disks |-> IF d \in {e.key[2], e.target}
                                         THEN pinned[d] + 1 ELSE pinned[d]]
           /\ moving' = Insert(moving, TableKey(e), e.key[2])
           /\ StartProcedure(key)
           /\ UNCHANGED container
  <2>1. moving' \in Maps(OBJKeys, Disks)
    BY <1>3, <1>5, InsertInMaps DEF HubTyped
  <2>2. HubTyped'
    <3>1. pinned' \in [Disks -> Nat]
      BY <1>5 DEF HubTyped
    <3> QED
      BY <1>4, <2>1, <3>1 DEF HubTyped
  <2>3. ServiceTyped'
    BY <1>3, <1>4, <1>5 DEF StartProcedure, ServiceTyped
  <2>4. QueuesTyped'
    BY <1>2, <1>4, <1>5 DEF QueuesTyped, ContainerTyped, QueuedAt
  <2> QED
    BY <1>4, <2>2, <2>3, <2>4, ExecutorKeeps, AstKept, TypedNext
<1>6. CASE /\ container' = Append(container, Ended(key, "notdone"))
           /\ UNCHANGED <<pinned, moving, procedures>>
  <2>1. "notdone" \in Outcomes
    BY DEF Outcomes
  <2>2. QueuesTyped'
    BY <1>2, <1>3, <1>4, <1>6, <2>1, AnswerTyped DEF QueuesTyped, ContainerTyped, QueuedAt
  <2>3. HubTyped' /\ ServiceTyped'
    BY <1>4, <1>6 DEF HubTyped, ServiceTyped
  <2> QED
    BY <1>4, <2>2, <2>3, ExecutorKeeps, AstKept, TypedNext
<1> QED
  BY <1>5, <1>6 DEF Migrate

LEMMA HubCompleteTyped == Typed /\ CompleteMigrate => Typed'
<1> SUFFICES ASSUME Typed, CompleteMigrate PROVE Typed'
  OBVIOUS
<1> USE TypedParts
<1> DEFINE e == Head(hubQueue)  source == moving[e.key]  target == e.key[2]
           ready == {d \in {source, target} : hubDisks[d] = "delayed" /\ pinned'[d] = 0}
<1>1. hubQueue # <<>> /\ e.type = "completed"
  BY DEF CompleteMigrate, HubHandles
<1>2. e.key \in OBJKeys /\ e.status \in Outcomes /\ hubQueue' \in Seq(HubEvents)
  BY <1>1, HubHead DEF CompleteMigrate
<1>3. target \in Disks
  BY <1>2 DEF OBJKeys
<1>4. /\ UNCHANGED <<exeVars, exeQueue, astVars, migVars>> /\ UNCHANGED <<procedures, spent>>
      /\ UNCHANGED <<item, epoch, exePc>>
  BY DEF CompleteMigrate, hubFrame, exeVars, itemVars
<1>5. ServiceTyped'
  BY <1>4, ServiceKept
<1>6. CASE /\ CompletionAsserts(e) # {}
           /\ asserted' = asserted \cup CompletionAsserts(e)
           /\ UNCHANGED <<viewVars, moving, container>>
  <2>1. CompletionAsserts(e) \subseteq {"no_entry", "no_disk", "no_source", "target_exists"}
    BY DEF CompletionAsserts
  <2>2. HubTyped'
    BY <1>6, <2>1 DEF HubTyped, viewVars
  <2>3. QueuesTyped'
    BY <1>2, <1>4, <1>6 DEF QueuesTyped, ContainerTyped, QueuedAt
  <2> QED
    BY <1>4, <1>5, <2>2, <2>3, ExecutorKeeps, AstKept, TypedNext
<1>7. CASE /\ CompletionAsserts(e) = {}
           /\ moving' = Erase(moving, e.key)
           /\ container' = Append(container, Ended(e.key, e.status))
           /\ pinned' = UnpinBoth(pinned, source, target)
           /\ RemoveViews(ready)
           /\ hubOBJs' = (IF e.status = "ok"
                          THEN (hubOBJs \ {<<e.key[1], source>>}) \cup {e.key}
                          ELSE hubOBJs) \ OnDisks(ready)
           /\ asserted' \in {asserted, asserted \cup {"freed_tier"}}
  <2>1. e.key \in DOMAIN moving
    BY <1>7 DEF CompletionAsserts
  <2>2. source \in Disks
    BY <2>1, InMaps DEF HubTyped
  <2> HIDE DEF source, target
  <2>3. pinned' \in [Disks -> Nat]
    <3>1. ASSUME NEW p \in [Disks -> Nat], NEW d \in Disks
          PROVE  Unpin(p, d) \in [Disks -> Nat]
      BY DEF Unpin
    <3> QED
      BY <1>3, <1>7, <2>2, <3>1 DEF UnpinBoth, HubTyped
  <2>4. moving' \in Maps(OBJKeys, Disks)
    BY <1>7, EraseInMaps DEF HubTyped
  <2>5. hubDisks' \in [Disks -> {"present", "delayed", "gone"}] /\ tierDisks' \subseteq Disks
    BY <1>7, ViewsTyped
  <2>6. hubOBJs' \subseteq OBJKeys
    BY <1>2, <1>7 DEF HubTyped
  <2>7. HubTyped'
    BY <1>7, <2>3, <2>4, <2>5, <2>6 DEF HubTyped
  <2>8. QueuesTyped'
    BY <1>2, <1>4, <1>7, AnswerTyped DEF QueuesTyped, ContainerTyped, QueuedAt
  <2> QED
    BY <1>4, <1>5, <2>7, <2>8, ExecutorKeeps, AstKept, TypedNext
<1> QED
  BY <1>6, <1>7 DEF CompleteMigrate

LEMMA HubChangesTyped ==
    ASSUME Typed,
           \/ \E d \in Disks : RemoveDisk(d)
           \/ \E key \in OBJKeys : DeleteOBJ(key)
    PROVE  Typed'
<1> USE TypedParts
<1>1. /\ UNCHANGED <<exeVars, migVars>> /\ UNCHANGED <<item, exeQueue, container, hubQueue>>
      /\ UNCHANGED <<epoch, exePc, astVars>> /\ UNCHANGED procedures
  BY DEF RemoveDisk, DeleteOBJ, hubFrame, exeVars, itemVars
<1>2. HubTyped' /\ ServiceTyped'
  <2>1. CASE \E d \in Disks : RemoveDisk(d)
    <3>1. PICK d \in Disks : RemoveDisk(d)
      BY <2>1
    <3>2. ServiceTyped'
      BY <1>1, <3>1, SpendTyped DEF RemoveDisk, Bounds
    <3>3. HubTyped'
      <4>1. CASE asserted' = asserted \cup {"freed_tier"} /\ UNCHANGED viewVars
        BY <3>1, <4>1 DEF RemoveDisk, HubTyped, viewVars
      <4>2. CASE UNCHANGED <<pinned, asserted>> /\ RemoveViews({d})
        BY <3>1, <4>2, ViewsTyped DEF RemoveDisk, HubTyped, viewVars
      <4> QED
        BY <3>1, <4>1, <4>2 DEF RemoveDisk
    <3> QED
      BY <3>2, <3>3
  <2>2. CASE \E key \in OBJKeys : DeleteOBJ(key)
    <3>1. PICK key \in OBJKeys : DeleteOBJ(key)
      BY <2>2
    <3>2. ServiceTyped'
      BY <1>1, <3>1, SpendTyped DEF DeleteOBJ, Bounds
    <3>3. HubTyped'
      BY <3>1 DEF DeleteOBJ, HubTyped
    <3> QED
      BY <3>2, <3>3
  <2> QED
    BY <2>1, <2>2
<1> QED
  BY <1>1, <1>2, ExecutorKeeps, QueuesKept, AstKept, TypedNext

LEMMA ServiceStepTyped == Typed /\ ServiceStep => Typed'
<1> SUFFICES ASSUME Typed, NEW key \in OBJKeys, Notify(key) \/ Lose(key) PROVE Typed'
  BY DEF ServiceStep
<1> USE TypedParts
<1>1. /\ UNCHANGED <<exeVars, migVars>> /\ UNCHANGED <<item, exeQueue, container>>
      /\ UNCHANGED <<epoch, exePc, astVars>> /\ UNCHANGED hubVars
  BY DEF Notify, Lose, hubFrame, exeVars, itemVars
<1>2. procedures' \in [OBJKeys -> Nat]
  BY DEF Notify, Lose, EndProcedure, ServiceTyped
<1>3. QueuesTyped' /\ ServiceTyped'
  <2>1. CASE Notify(key)
    <3>1. PICK status \in Results :
              hubQueue' = Append(hubQueue, [type |-> "completed", key |-> key,
                                            status |-> status])
      BY <2>1 DEF Notify
    <3> DEFINE x == [type |-> "completed", key |-> key, status |-> status]
    <3>2. x \in HubEvents
      BY SetsAssumption DEF HubEvents, Outcomes
    <3> HIDE DEF x
    <3>3. hubQueue' \in Seq(HubEvents)
      BY <3>1, <3>2, AppendAt DEF QueuesTyped, x
    <3> QED
      BY <1>1, <1>2, <2>1, <3>3 DEF Notify, QueuesTyped, ContainerTyped, QueuedAt,
                                    ServiceTyped
  <2>2. CASE Lose(key)
    <3>1. CanSpend("losses") /\ Spend("losses") /\ hubQueue' = hubQueue
      BY <2>2 DEF Lose
    <3>2. /\ spent \in [Bounds -> Nat] /\ \A c \in Bounds : spent[c] <= BoundOf[c]
          /\ BoundOf["losses"] \in Nat /\ "losses" \in Bounds
      BY MigrationBoundsAssumption DEF ServiceTyped, Bounds, BoundOf
    <3>3. spent["losses"] + 1 <= BoundOf["losses"]
      BY <3>1, <3>2 DEF CanSpend
    <3> QED
      BY <1>1, <1>2, <3>1, <3>2, <3>3 DEF Spend, QueuesTyped, ContainerTyped, QueuedAt,
                                          ServiceTyped
  <2> QED
    BY <2>1, <2>2
<1> QED
  BY <1>1, <1>2, <1>3, ExecutorKeeps, AstKept, HubKept, TypedNext

LEMMA StepTyped == Typed /\ [Next]_vars => Typed'
<1> SUFFICES ASSUME Typed, Next PROVE Typed'
  BY StutterTyped
<1>1. CASE ExecutorStep
  BY <1>1, StartWindowTyped, ReceivePlanTyped, ConflictTyped, PlansDoneTyped,
     HandleEchoTyped
  DEF ExecutorStep
<1>2. CASE HubStep
  BY <1>2, HubMigrateTyped, HubCompleteTyped, HubChangesTyped DEF HubStep
<1> QED
  BY <1>1, <1>2, GeneratorTyped, MigratorTyped, ServiceStepTyped DEF Next

LEMMA AlwaysTyped == Spec => []Typed
  BY InitTyped, StepTyped, PTL DEF Spec

(* Whatever fails, expires, is removed or retargeted: the tables of the    *)
(* four threads name OBJs, disks and arbitratees that were made, a disk    *)
(* that is free once had a migration, and pins do not become negative.     *)
THEOREM TypesHold == Spec => []TypeOK
<1>1. Typed => TypeOK
  BY DEF Typed
<1> QED
  BY <1>1, AlwaysTyped, PTL

-----------------------------------------------------------------------------
(* The invariant: what the steps of migrator and HUB do to the three       *)
(* places.                                                                 *)

Tables == ItemsMove /\ InIsLive /\ InFlightIsIn /\ WaitingIsIn

LEMMA InvParts == PipelineInv <=> Tables /\ Places
  BY DEF PipelineInv, Tables

LEMMA InvNext == Tables' /\ Places' => PipelineInv'
  BY DEF PipelineInv, Tables

\* What Typed says of one arbitratee.
LEMMA ItemFacts ==
    ASSUME Typed
    PROVE  /\ \A i \in DOMAIN item : /\ KeyOf(i) \in OBJKeys /\ TargetOf(i) \in Disks
                                     /\ TargetKeyOf(i) = <<KeyOf(i)[1], TargetOf(i)>>
                                     /\ TargetKeyOf(i) \in OBJKeys
           /\ \A k \in DOMAIN inflight : inflight[k] \in DOMAIN item
           /\ \A k \in DOMAIN flying : flying[k] \in DOMAIN item
           /\ \A k \in DOMAIN arbIn : arbIn[k] \in DOMAIN item
           /\ \A k \in DOMAIN arbOut : arbOut[k] \in DOMAIN item
<1>1. \A i \in DOMAIN item : item[i].key \in OBJKeys /\ item[i].target \in Disks
  BY TypedParts, ItemsAreItems DEF Arbitratees
<1>2. /\ \A k \in DOMAIN inflight : inflight[k] \in DOMAIN item
      /\ \A k \in DOMAIN flying : flying[k] \in DOMAIN item
      /\ \A k \in DOMAIN arbIn : arbIn[k] \in DOMAIN item
      /\ \A k \in DOMAIN arbOut : arbOut[k] \in DOMAIN item
  BY TypedParts, InMaps DEF HeapTyped, MapsTyped
<1> QED
  BY <1>1, <1>2 DEF KeyOf, TargetOf, TargetKeyOf, OBJKeys

LEMMA TablesSame ==
    Tables /\ UNCHANGED <<item, arbIn, arbOut, disks, free, waiting, inflight>> => Tables'
  BY DEF Tables, ItemsMove, InIsLive, InFlightIsIn, WaitingIsIn, KeyOf, TargetOf, Live

LEMMA TablesKept == Tables /\ UNCHANGED exeVars => Tables'
  BY TablesSame DEF exeVars, itemVars, diskVars

LEMMA PlacesKept ==
    Places /\ UNCHANGED <<item, inflight, container, flying, exeQueue>> => Places'
  BY DEF Places, ContainerIsHeld, MigratorIsHeld, EchoesAreHeld, Apart, Somewhere, Held,
         InContainer, InMigrator, InEchoes, QueuedAt, KeyOf, TargetOf, TargetKeyOf

\* Two arbitratees in flight that go to the same place are one.
LEMMA HeldAlone ==
    ASSUME Tables, NEW i, NEW j, Held(i), Held(j), TargetOf(i) = TargetOf(j)
    PROVE  i = j
  BY DEF Tables, InFlightIsIn, Held

\* An answer of the HUB changes nothing about the arbitratees in the queue.
LEMMA AnswerKeepsPlaces ==
    ASSUME Typed, Places, UNCHANGED <<item, inflight, flying, exeQueue>>,
           NEW key, NEW status, container' = Append(container, Ended(key, status)),
           Ended(key, status) \in ContainerItems
    PROVE  Places'
<1> DEFINE x == Ended(key, status)  last == Len(container) + 1
<1>1. /\ DOMAIN container' = DOMAIN container \cup {last} /\ container'[last] = x
      /\ last \notin DOMAIN container
      /\ \A n \in DOMAIN container : container'[n] = container[n]
  BY TypedParts, AppendAt DEF QueuesTyped
<1>2. x.type # "migrate"
  BY DEF Ended
<1> HIDE DEF x, last
<1>3. \A n : n \in DOMAIN container' /\ container'[n].type = "migrate"
                <=> n \in DOMAIN container /\ container[n].type = "migrate"
  BY <1>1, <1>2
<1>4. \A i : InContainer(i)' <=> InContainer(i)
  BY <1>1, <1>3 DEF InContainer, QueuedAt
<1>5. ContainerIsHeld'
  BY <1>1, <1>3 DEF Places, ContainerIsHeld, QueuedAt, Held, KeyOf
<1>6. MigratorIsHeld' /\ EchoesAreHeld'
  BY DEF Places, MigratorIsHeld, EchoesAreHeld, Held, KeyOf, TargetOf, TargetKeyOf
<1>7. Apart' /\ Somewhere'
  BY <1>4 DEF Places, Apart, Somewhere, InMigrator, InEchoes, KeyOf
<1> QED
  BY <1>5, <1>6, <1>7 DEF Places

LEMMA HubInv ==
    ASSUME Typed, PipelineInv, HubStep
    PROVE  PipelineInv'
<1> USE InvParts, InvNext
<1>1. UNCHANGED exeVars /\ UNCHANGED <<item, inflight, flying, exeQueue>>
  BY DEF HubStep, Migrate, CompleteMigrate, RemoveDisk, DeleteOBJ, hubFrame, exeVars,
         itemVars, migVars
<1>2. Tables'
  BY <1>1, TablesKept
<1>3. CASE UNCHANGED container
  BY <1>1, <1>2, <1>3, PlacesKept
<1>4. CASE Migrate /\ ~UNCHANGED container
  <2> DEFINE e == Head(hubQueue)
  <2>1. /\ hubQueue # <<>> /\ e.type = "migrate"
        /\ container' = Append(container, Ended(<<e.key[1], e.target>>, "notdone"))
    BY <1>4 DEF Migrate, HubHandles
  <2>2. <<e.key[1], e.target>> \in OBJKeys
    BY <2>1, HubHead DEF OBJKeys
  <2>3. Ended(<<e.key[1], e.target>>, "notdone") \in ContainerItems
    BY <2>2 DEF Ended, ContainerItems, Outcomes
  <2> QED
    BY <1>1, <1>2, <2>1, <2>3, AnswerKeepsPlaces
<1>5. CASE CompleteMigrate /\ ~UNCHANGED container
  <2> DEFINE e == Head(hubQueue)
  <2>1. /\ hubQueue # <<>> /\ e.type = "completed"
        /\ container' = Append(container, Ended(e.key, e.status))
    BY <1>5 DEF CompleteMigrate, HubHandles
  <2>2. Ended(e.key, e.status) \in ContainerItems
    BY <2>1, HubHead DEF Ended, ContainerItems
  <2> QED
    BY <1>1, <1>2, <2>1, <2>2, AnswerKeepsPlaces
<1> QED
  BY <1>3, <1>4, <1>5 DEF HubStep, RemoveDisk, DeleteOBJ

LEMMA OthersInv ==
    ASSUME PipelineInv, GeneratorStep \/ ServiceStep \/ PlansDone \/ UNCHANGED vars
    PROVE  PipelineInv'
<1>1. UNCHANGED <<item, arbIn, arbOut, disks, free, waiting, inflight, container, flying,
                  exeQueue>>
  BY DEF GeneratorStep, LearnConfig, ResolveDeletedDisk, ServiceStep, Notify, Lose,
         PlansDone, relocatorFrame, hubFrame, exeVars, itemVars, diskVars, migVars, vars
<1>2. Places'
  BY <1>1, InvParts, PlacesKept
<1>3. Tables'
  BY <1>1, InvParts, TablesSame
<1> QED
  BY <1>2, <1>3, InvNext

-----------------------------------------------------------------------------
(* The migrator's steps move an arbitratee from one place to the next.     *)

\* The head of the migrator's queue leaves it.
LEMMA ContainerTail ==
    ASSUME Typed, Places, container # <<>>, container' = Tail(container),
           UNCHANGED <<item, inflight>>
    PROVE  /\ ContainerIsHeld'
           /\ Head(container).type = "migrate" =>
                 /\ InContainer(Head(container).item) /\ Held(Head(container).item)
                 /\ \A j : InContainer(j)' <=> InContainer(j) /\ j # Head(container).item
           /\ Head(container).type # "migrate" => \A j : InContainer(j)' <=> InContainer(j)
<1>1. /\ 1 \in DOMAIN container /\ Head(container) = container[1]
      /\ \A n \in DOMAIN container' :
            n + 1 \in DOMAIN container /\ container'[n] = container[n + 1]
            /\ n \in Nat /\ n > 0
      /\ \A n \in DOMAIN container : n = 1 \/ (n \in Nat /\ n - 1 \in DOMAIN container')
  BY TypedParts, TailAt DEF QueuesTyped
<1>2. ContainerIsHeld
  BY DEF Places
<1>3. ContainerIsHeld'
  <2> SUFFICES ASSUME NEW n \in DOMAIN container', container'[n].type = "migrate"
               PROVE  /\ Held(container'[n].item)
                      /\ \A m \in DOMAIN container' :
                            container'[m].type = "migrate"
                            /\ container'[m].item = container'[n].item => m = n
    BY DEF ContainerIsHeld, QueuedAt, Held, KeyOf
  <2>1. Held(container[n + 1].item)
    BY <1>1, <1>2 DEF ContainerIsHeld, QueuedAt
  <2>2. ASSUME NEW m \in DOMAIN container', container'[m].type = "migrate",
               container'[m].item = container'[n].item
        PROVE  m = n
    <3>1. m + 1 = n + 1
      BY <1>1, <1>2, <2>2 DEF ContainerIsHeld, QueuedAt
    <3> QED
      BY <1>1, <3>1
  <2> QED
    BY <1>1, <2>1, <2>2
<1>4. ASSUME NEW j
      PROVE  /\ InContainer(j)' => InContainer(j)
             /\ InContainer(j) => \/ InContainer(j)'
                                  \/ container[1].type = "migrate" /\ j = container[1].item
             /\ container[1].type = "migrate" /\ j = container[1].item => ~InContainer(j)'
  <2>1. InContainer(j)' => InContainer(j)
    BY <1>1 DEF InContainer, QueuedAt
  <2>2. ASSUME InContainer(j), ~(container[1].type = "migrate" /\ j = container[1].item)
        PROVE  InContainer(j)'
    <3>1. PICK n \in DOMAIN container : container[n].type = "migrate" /\ container[n].item = j
      BY <2>2 DEF InContainer, QueuedAt
    <3>2. n - 1 \in DOMAIN container' /\ n \in Nat
      BY <1>1, <2>2, <3>1
    <3>3. container'[n - 1] = container[n]
      BY <1>1, <3>2
    <3> QED
      BY <3>1, <3>2, <3>3 DEF InContainer, QueuedAt
  <2>3. ASSUME container[1].type = "migrate", j = container[1].item, InContainer(j)'
        PROVE  FALSE
    <3>1. PICK n \in DOMAIN container' :
              container'[n].type = "migrate" /\ container'[n].item = j
      BY <2>3 DEF InContainer, QueuedAt
    <3>2. n + 1 = 1
      BY <1>1, <1>2, <2>3, <3>1 DEF ContainerIsHeld, QueuedAt
    <3> QED
      BY <1>1, <3>2
  <2> QED
    BY <2>1, <2>2, <2>3
<1>5. container[1].type = "migrate" =>
          InContainer(container[1].item) /\ Held(container[1].item)
  BY <1>1, <1>2 DEF InContainer, ContainerIsHeld, QueuedAt
<1> QED
  BY <1>1, <1>3, <1>4, <1>5

\* The executor's queue gets the echo of an arbitratee that the migrator gave up.
LEMMA EchoAppended ==
    ASSUME Typed, Places, NEW k \in DOMAIN flying, NEW type \in {"completed", "expired"},
           NEW status \in Outcomes,
           exeQueue' = Append(exeQueue, EchoOf(type, flying[k], status)),
           UNCHANGED <<item, inflight>>
    PROVE  /\ EchoesAreHeld'
           /\ \A j : InEchoes(j)' <=> InEchoes(j) \/ KeyOf(j) = KeyOf(flying[k])
<1> DEFINE i == flying[k]  x == EchoOf(type, i, status)  last == Len(exeQueue) + 1
<1>1. i \in DOMAIN item
  BY ItemFacts
<1>2. x \in Echoes /\ x.key = KeyOf(i) /\ x.target = TargetOf(i)
  BY <1>1, ItemFacts DEF EchoOf, Echoes
<1>3. Held(i) /\ InMigrator(i)
  BY DEF Places, MigratorIsHeld, InMigrator
<1>4. ~InEchoes(i)
  BY <1>3 DEF Places, Apart, Held
<1> HIDE DEF x, i
<1>5. /\ DOMAIN exeQueue' = DOMAIN exeQueue \cup {last} /\ exeQueue'[last] = x
      /\ last \notin DOMAIN exeQueue
      /\ \A n \in DOMAIN exeQueue : exeQueue'[n] = exeQueue[n]
  BY <1>2, TypedParts, AppendAt DEF QueuesTyped, x, i
<1> HIDE DEF last
<1>6. \A j : InEchoes(j)' <=> InEchoes(j) \/ KeyOf(j) = KeyOf(i)
  BY <1>2, <1>5 DEF InEchoes, KeyOf
<1>7. \A n \in DOMAIN exeQueue : exeQueue[n].key # KeyOf(i)
  BY <1>4 DEF InEchoes
<1>8. EchoesAreHeld'
  BY <1>2, <1>3, <1>5, <1>7 DEF Places, EchoesAreHeld, Held, TargetOf
<1> QED
  BY <1>6, <1>8 DEF i

\* What leaves the migrator's table is gone from it.
LEMMA MigratorErased ==
    ASSUME Typed, Places, NEW k \in DOMAIN flying, flying' = Erase(flying, k),
           UNCHANGED <<item, inflight>>
    PROVE  /\ MigratorIsHeld'
           /\ \A j : InMigrator(j)' <=> InMigrator(j) /\ j # flying[k]
<1>1. /\ DOMAIN flying' = DOMAIN flying \ {k}
      /\ \A x \in DOMAIN flying \ {k} : flying'[x] = flying[x]
  BY Lookups
<1>2. \A x, y \in DOMAIN flying : flying[x] = flying[y] => x = y
  BY DEF Places, MigratorIsHeld
<1>3. \A j : InMigrator(j)' <=> InMigrator(j) /\ j # flying[k]
  BY <1>1, <1>2 DEF InMigrator
<1>4. MigratorIsHeld'
  BY <1>1 DEF Places, MigratorIsHeld, Held, KeyOf, TargetKeyOf
<1> QED
  BY <1>3, <1>4

LEMMA DoMigrationInv ==
    ASSUME Typed, PipelineInv, DoMigration
    PROVE  PipelineInv'
<1> USE InvParts, InvNext
<1> DEFINE i == Head(container).item
<1>1. /\ UNCHANGED exeVars /\ UNCHANGED <<item, inflight, exeQueue>>
      /\ container # <<>> /\ Head(container).type = "migrate"
      /\ container' = Tail(container)
      /\ flying' = Insert(flying, TargetKeyOf(i), i)
  BY DEF DoMigration, migratorFrame, exeVars, itemVars, Migrates
<1>2. /\ ContainerIsHeld' /\ InContainer(i) /\ Held(i)
      /\ \A j : InContainer(j)' <=> InContainer(j) /\ j # i
  BY <1>1, ContainerTail
<1> HIDE DEF i
<1>3. ~InMigrator(i) /\ ~InEchoes(i)
  BY <1>2 DEF Places, Apart, Held
<1>4. TargetKeyOf(i) \notin DOMAIN flying
  <2> SUFFICES ASSUME TargetKeyOf(i) \in DOMAIN flying PROVE FALSE
    OBVIOUS
  <2> DEFINE j == flying[TargetKeyOf(i)]
  <2>1. Held(j) /\ TargetKeyOf(j) = TargetKeyOf(i) /\ InMigrator(j)
    BY DEF Places, MigratorIsHeld, InMigrator
  <2>2. TargetOf(j) = TargetOf(i)
    BY <2>1 DEF TargetKeyOf, TargetOf
  <2>3. j = i
    BY <1>2, <2>1, <2>2, HeldAlone
  <2> QED
    BY <1>3, <2>1, <2>3
<1>5. /\ DOMAIN flying' = DOMAIN flying \cup {TargetKeyOf(i)}
      /\ flying'[TargetKeyOf(i)] = i
      /\ \A x \in DOMAIN flying : flying'[x] = flying[x]
  <2> DEFINE t == TargetKeyOf(i)
  <2>1. flying' = Insert(flying, t, i) /\ t \notin DOMAIN flying
    BY <1>1, <1>4
  <2> HIDE DEF t
  <2>2. DOMAIN flying' = DOMAIN flying \cup {t} /\ flying'[t] = i
    BY <2>1, Lookups
  <2>3. \A x \in DOMAIN flying : Insert(flying, t, i)[x] = flying[x]
    BY <2>1 DEF Insert
  <2> QED
    BY <2>1, <2>2, <2>3 DEF t
<1>6. \A j : InMigrator(j)' <=> InMigrator(j) \/ j = i
  BY <1>4, <1>5 DEF InMigrator
<1>7. MigratorIsHeld'
  BY <1>1, <1>2, <1>5 DEF Places, MigratorIsHeld, Held, KeyOf, TargetKeyOf
<1>8. EchoesAreHeld' /\ (\A j : InEchoes(j)' <=> InEchoes(j))
  BY <1>1 DEF Places, EchoesAreHeld, InEchoes, KeyOf, TargetOf
<1>9. Apart' /\ Somewhere'
  BY <1>1, <1>2, <1>3, <1>6, <1>8 DEF Places, Apart, Somewhere
<1> QED
  BY <1>1, <1>2, <1>7, <1>8, <1>9, TablesKept DEF Places

LEMMA MigratorGivesUp ==
    ASSUME Typed, PipelineInv, NEW k \in DOMAIN flying, flying' = Erase(flying, k),
           NEW type \in {"completed", "expired"}, NEW status \in Outcomes,
           exeQueue' = Append(exeQueue, EchoOf(type, flying[k], status)),
           UNCHANGED <<item, inflight>>,
           ContainerIsHeld', \A j : InContainer(j)' <=> InContainer(j)
    PROVE  Places'
<1>1. Places
  BY InvParts
<1>2. /\ EchoesAreHeld'
      /\ \A j : InEchoes(j)' <=> InEchoes(j) \/ KeyOf(j) = KeyOf(flying[k])
  BY <1>1, EchoAppended
<1>3. /\ MigratorIsHeld'
      /\ \A j : InMigrator(j)' <=> InMigrator(j) /\ j # flying[k]
  BY <1>1, MigratorErased
<1>4. Held(flying[k]) /\ InMigrator(flying[k])
  BY <1>1 DEF Places, MigratorIsHeld, InMigrator
<1>5. \A l \in DOMAIN inflight :
          l = KeyOf(inflight[l])
  BY InvParts DEF Tables, InIsLive, InFlightIsIn
<1>6. \A l \in DOMAIN inflight :
          KeyOf(inflight[l]) = KeyOf(flying[k]) => inflight[l] = flying[k]
  BY <1>4, <1>5 DEF Held
<1>7. Apart' /\ Somewhere'
  BY <1>1, <1>2, <1>3, <1>4, <1>6 DEF Places, Apart, Somewhere
<1> QED
  BY <1>2, <1>3, <1>7 DEF Places

LEMMA MigratorInv ==
    ASSUME Typed, PipelineInv, MigratorStep
    PROVE  PipelineInv'
<1> USE InvParts, InvNext
<1>1. CASE CompleteMigration
  <2> DEFINE e == Head(container)
  <2>1. /\ UNCHANGED exeVars /\ UNCHANGED <<item, inflight>>
        /\ container # <<>> /\ e.type = "complete" /\ container' = Tail(container)
        /\ flying' = Erase(flying, e.key)
        /\ exeQueue' = IF e.key \in DOMAIN flying
                       THEN Append(exeQueue, EchoOf("completed", flying[e.key], e.status))
                       ELSE exeQueue
    BY <1>1 DEF CompleteMigration, migratorFrame, exeVars, itemVars, Migrates
  <2>2. ContainerIsHeld' /\ \A j : InContainer(j)' <=> InContainer(j)
    BY <2>1, ContainerTail
  <2>3. e.status \in Outcomes
    BY <2>1, ContainerHead
  <2> HIDE DEF e
  <2>4. CASE e.key \in DOMAIN flying
    <3>1. Places'
      BY <2>1, <2>2, <2>3, <2>4, MigratorGivesUp
    <3> QED
      BY <2>1, <3>1, TablesKept
  <2>5. CASE e.key \notin DOMAIN flying
    <3> DEFINE k0 == e.key
    <3>0. flying' = [x \in DOMAIN flying \ {k0} |-> flying[x]] /\ k0 \notin DOMAIN flying
      BY <2>1, <2>5 DEF Erase
    <3> HIDE DEF k0
    <3>1. \A k : k \in DOMAIN flying' <=> k \in DOMAIN flying
      BY <3>0
    <3>2. \A k \in DOMAIN flying : flying'[k] = flying[k]
      BY <3>0
    <3>3. MigratorIsHeld' /\ \A j : InMigrator(j)' <=> InMigrator(j)
      BY <2>1, <3>1, <3>2 DEF Places, MigratorIsHeld, InMigrator, Held, KeyOf, TargetKeyOf
    <3>4. EchoesAreHeld' /\ \A j : InEchoes(j)' <=> InEchoes(j)
      BY <2>1, <2>5 DEF Places, EchoesAreHeld, InEchoes, KeyOf, TargetOf
    <3>5. Apart' /\ Somewhere'
      BY <2>1, <2>2, <3>3, <3>4 DEF Places, Apart, Somewhere
    <3> QED
      BY <2>1, <2>2, <3>3, <3>4, <3>5, TablesKept DEF Places
  <2> QED
    BY <2>4, <2>5
<1>2. CASE CheckExpired
  <2>1. PICK k \in DOMAIN flying :
            /\ flying' = Erase(flying, k)
            /\ exeQueue' = Append(exeQueue, EchoOf("expired", flying[k], "failed"))
    BY <1>2 DEF CheckExpired
  <2>2. UNCHANGED exeVars /\ UNCHANGED <<item, inflight, container>>
    BY <1>2 DEF CheckExpired, migratorFrame, exeVars, itemVars
  <2>3. ContainerIsHeld' /\ \A j : InContainer(j)' <=> InContainer(j)
    BY <2>2 DEF Places, ContainerIsHeld, InContainer, QueuedAt, Held, KeyOf
  <2>4. "failed" \in Outcomes
    BY DEF Outcomes
  <2>5. Places'
    BY <2>1, <2>2, <2>3, <2>4, MigratorGivesUp
  <2> QED
    BY <2>2, <2>5, TablesKept
<1> QED
  BY <1>1, <1>2, DoMigrationInv DEF MigratorStep

-----------------------------------------------------------------------------
(* The invariant: the executor's steps.  Several of them forget one        *)
(* arbitratee and launch another, so the parts are stated for any heap it, *)
(* IN table in, table in flight m, and places c, f and e.                  *)

Busy(it, in, disksInUse, m) ==
    \A k \in DOMAIN m :
        /\ k \in DOMAIN in /\ in[k] = m[k]
        /\ it[m[k]].target \in disksInUse
        /\ \A l \in DOMAIN m : it[m[l]].target = it[m[k]].target => l = k

Lined(it, in, m, q, d) ==
    \A n \in DOMAIN q :
        /\ it[q[n]].target = d
        /\ it[q[n]].key \in DOMAIN in /\ in[it[q[n]].key] = q[n]
        /\ it[q[n]].key \notin DOMAIN m
        /\ \A x \in DOMAIN q : q[x] = q[n] => x = n

AreIn(c, i)  == \E n \in DOMAIN c : c[n].type = "migrate" /\ c[n].item = i
AreAt(f, i)  == \E k \in DOMAIN f : f[k] = i
AreEchoed(e, k) == \E n \in DOMAIN e : e[n].key = k
HeldIn(it, m, i) == it[i].key \in DOMAIN m /\ m[it[i].key] = i

PlacesOf(it, m, c, f, e) ==
    /\ \A n \in DOMAIN c : c[n].type = "migrate" =>
          /\ HeldIn(it, m, c[n].item)
          /\ \A x \in DOMAIN c :
                c[x].type = "migrate" /\ c[x].item = c[n].item => x = n
    /\ \A k \in DOMAIN f : /\ HeldIn(it, m, f[k])
                           /\ <<it[f[k]].key[1], it[f[k]].target>> = k
    /\ \A n \in DOMAIN e :
          /\ e[n].key \in DOMAIN m /\ e[n].target = it[m[e[n].key]].target
          /\ \A x \in DOMAIN e : e[x].key = e[n].key => x = n
    /\ \A k \in DOMAIN m :
          /\ AreIn(c, m[k]) \/ AreAt(f, m[k]) \/ AreEchoed(e, it[m[k]].key)
          /\ ~(AreIn(c, m[k]) /\ AreAt(f, m[k]))
          /\ ~(AreIn(c, m[k]) /\ AreEchoed(e, it[m[k]].key))
          /\ ~(AreAt(f, m[k]) /\ AreEchoed(e, it[m[k]].key))

LEMMA PlacesMean == Places <=> PlacesOf(item, inflight, container, flying, exeQueue)
  BY DEF Places, PlacesOf, HeldIn, AreIn, AreAt, AreEchoed, ContainerIsHeld,
         MigratorIsHeld, EchoesAreHeld, Apart, Somewhere, Held, InContainer, InMigrator,
         InEchoes, QueuedAt, KeyOf, TargetOf, TargetKeyOf

LEMMA PlacesMeanNext ==
    PlacesOf(item', inflight', container', flying', exeQueue') => Places'
  BY DEF Places, PlacesOf, HeldIn, AreIn, AreAt, AreEchoed, ContainerIsHeld,
         MigratorIsHeld, EchoesAreHeld, Apart, Somewhere, Held, InContainer, InMigrator,
         InEchoes, QueuedAt, KeyOf, TargetOf, TargetKeyOf

LEMMA TablesMean ==
    Tables => /\ Busy(item, arbIn, disks \ free, inflight)
              /\ \A d \in Disks : Lined(item, arbIn, inflight, waiting[d], d)
  BY DEF Tables, InFlightIsIn, WaitingIsIn, Busy, Lined, KeyOf, TargetOf

LEMMA TablesMeanNext ==
    /\ ItemsMove' /\ InIsLive' /\ Busy(item', arbIn', disks' \ free', inflight')
    /\ \A d \in Disks : Lined(item', arbIn', inflight', waiting'[d], d)
    => Tables'
  BY DEF Tables, InFlightIsIn, WaitingIsIn, Busy, Lined, KeyOf, TargetOf

\* A heap in which arbitratees in flight keep their keys and targets.
LEMMA SameInFlight ==
    ASSUME NEW it, NEW it2, NEW m, NEW c, NEW f, NEW e, PlacesOf(it, m, c, f, e),
           \A k \in DOMAIN m : /\ it2[m[k]].key = it[m[k]].key
                               /\ it2[m[k]].target = it[m[k]].target
    PROVE  PlacesOf(it2, m, c, f, e)
<1>1. \A n \in DOMAIN c : c[n].type = "migrate" =>
          /\ HeldIn(it2, m, c[n].item)
          /\ \A x \in DOMAIN c : c[x].type = "migrate" /\ c[x].item = c[n].item => x = n
  BY DEF PlacesOf, HeldIn
<1>2. \A k \in DOMAIN f : /\ HeldIn(it2, m, f[k])
                          /\ <<it2[f[k]].key[1], it2[f[k]].target>> = k
  <2> TAKE k \in DOMAIN f
  <2>1. HeldIn(it, m, f[k]) /\ <<it[f[k]].key[1], it[f[k]].target>> = k
    BY DEF PlacesOf
  <2>2. it2[f[k]].target = it[f[k]].target
    BY <2>1 DEF HeldIn
  <2> QED
    BY <2>1, <2>2 DEF HeldIn
<1>3. \A n \in DOMAIN e :
          /\ e[n].key \in DOMAIN m /\ e[n].target = it2[m[e[n].key]].target
          /\ \A x \in DOMAIN e : e[x].key = e[n].key => x = n
  BY DEF PlacesOf
<1>4. \A k \in DOMAIN m :
          /\ AreIn(c, m[k]) \/ AreAt(f, m[k]) \/ AreEchoed(e, it2[m[k]].key)
          /\ ~(AreIn(c, m[k]) /\ AreAt(f, m[k]))
          /\ ~(AreIn(c, m[k]) /\ AreEchoed(e, it2[m[k]].key))
          /\ ~(AreAt(f, m[k]) /\ AreEchoed(e, it2[m[k]].key))
  BY DEF PlacesOf
<1> QED
  BY <1>1, <1>2, <1>3, <1>4 DEF PlacesOf

\* The launch of the first arbitratee h of a queue for disk d, as the tables see it:
\* what is in flight, what is left of the queue, and the queues of other disks.
LEMMA LaunchFits ==
    ASSUME NEW it, NEW in, NEW m, NEW q, NEW d, Lined(it, in, m, q, d), 1 \in DOMAIN q
    PROVE  /\ it[q[1]].target = d
           /\ it[q[1]].key \in DOMAIN in /\ in[it[q[1]].key] = q[1]
           /\ it[q[1]].key \notin DOMAIN m
  BY DEF Lined

LEMMA LaunchBusy ==
    ASSUME NEW it, NEW in, NEW inUse, NEW m, NEW S, NEW q \in Seq(S), q # <<>>, NEW d,
           Busy(it, in, inUse, m), Lined(it, in, m, q, d),
           \A k \in DOMAIN m : it[m[k]].target # d
    PROVE  Busy(it, in, inUse \cup {d}, Insert(m, it[Head(q)].key, Head(q)))
<1> DEFINE h == Head(q)  k == it[h].key  r == Insert(m, k, h)
<1>0. 1 \in DOMAIN q /\ h = q[1]
  BY TailAt
<1> HIDE DEF h
<1>1. it[h].target = d /\ k \in DOMAIN in /\ in[k] = h /\ k \notin DOMAIN m
  BY <1>0, LaunchFits
<1> HIDE DEF k
<1>2. DOMAIN r = DOMAIN m \cup {k} /\ r[k] = h /\ \A x \in DOMAIN m : r[x] = m[x]
  BY <1>1 DEF Insert
<1> HIDE DEF r
<1>3. Busy(it, in, inUse \cup {d}, r)
  BY <1>1, <1>2 DEF Busy, k
<1> QED
  BY <1>3 DEF r, k, h

LEMMA LaunchLines ==
    ASSUME NEW it, NEW in, NEW inUse, NEW m, NEW S, NEW q \in Seq(S), q # <<>>, NEW d,
           Busy(it, in, inUse, m), Lined(it, in, m, q, d),
           \A k \in DOMAIN m : it[m[k]].target # d
    PROVE  Lined(it, in, Insert(m, it[Head(q)].key, Head(q)), Tail(q), d)
<1> DEFINE h == Head(q)  k == it[h].key  r == Insert(m, k, h)  t == Tail(q)
<1>0. 1 \in DOMAIN q /\ h = q[1]
  BY TailAt
<1> HIDE DEF h
<1>1. in[k] = h /\ k \notin DOMAIN m /\ DOMAIN r = DOMAIN m \cup {k}
  BY <1>0, LaunchFits DEF Insert
<1>2. \A n \in DOMAIN t : n + 1 \in DOMAIN q /\ t[n] = q[n + 1] /\ n \in Nat /\ n > 0
  BY TailAt
<1> HIDE DEF r, k, t
<1>3. SUFFICES ASSUME NEW n \in DOMAIN t
               PROVE  /\ it[t[n]].target = d
                      /\ it[t[n]].key \in DOMAIN in /\ in[it[t[n]].key] = t[n]
                      /\ it[t[n]].key \notin DOMAIN r
                      /\ \A x \in DOMAIN t : t[x] = t[n] => x = n
  BY DEF Lined, r, k, h, t
<1>4. n + 1 \in DOMAIN q /\ t[n] = q[n + 1] /\ n \in Nat /\ n > 0
  BY <1>2
<1>5. /\ it[q[n + 1]].target = d /\ it[q[n + 1]].key \in DOMAIN in
      /\ in[it[q[n + 1]].key] = q[n + 1] /\ it[q[n + 1]].key \notin DOMAIN m
      /\ \A x \in DOMAIN q : q[x] = q[n + 1] => x = n + 1
  BY <1>4 DEF Lined
<1>6. it[q[n + 1]].key # k
  BY <1>0, <1>1, <1>4, <1>5
<1>7. ASSUME NEW x \in DOMAIN t, t[x] = t[n] PROVE x = n
  <2>1. x + 1 \in DOMAIN q /\ t[x] = q[x + 1] /\ x \in Nat
    BY <1>2
  <2>2. x + 1 = n + 1
    BY <1>4, <1>5, <1>7, <2>1
  <2> QED
    BY <1>4, <2>1, <2>2
<1> QED
  BY <1>1, <1>4, <1>5, <1>6, <1>7

LEMMA LaunchOthers ==
    ASSUME NEW it, NEW in, NEW m, NEW S, NEW q \in Seq(S), q # <<>>, NEW d,
           Lined(it, in, m, q, d), NEW e, NEW p, e # d, Lined(it, in, m, p, e)
    PROVE  Lined(it, in, Insert(m, it[Head(q)].key, Head(q)), p, e)
<1> DEFINE h == Head(q)  k == it[h].key  r == Insert(m, k, h)
<1>0. 1 \in DOMAIN q /\ h = q[1]
  BY TailAt
<1> HIDE DEF h
<1>1. in[k] = h /\ it[h].target = d /\ DOMAIN r = DOMAIN m \cup {k}
  BY <1>0, LaunchFits DEF Insert
<1> HIDE DEF r
<1>2. \A n \in DOMAIN p : it[p[n]].key # k
  BY <1>1 DEF Lined
<1>3. Lined(it, in, r, p, e)
  BY <1>1, <1>2 DEF Lined
<1> QED
  BY <1>3 DEF r, h

\* The same, as the places see it.
LEMMA LaunchPlaces ==
    ASSUME Typed, NEW it, NEW m, NEW f, NEW e,
           PlacesOf(it, m, container, f, e), NEW h, Submitted(h) \in ContainerItems,
           it[h].key \notin DOMAIN m, \A k \in DOMAIN m : it[m[k]].key = k,
           NEW r, r = Insert(m, it[h].key, h)
    PROVE  PlacesOf(it, r, Append(container, Submitted(h)), f, e)
<1> DEFINE k == it[h].key  c == container  q == Append(c, Submitted(h))  last == Len(c) + 1
<1>1. /\ DOMAIN q = DOMAIN c \cup {last} /\ q[last] = Submitted(h) /\ last \notin DOMAIN c
      /\ \A n \in DOMAIN c : q[n] = c[n]
  BY TypedParts, AppendAt DEF QueuesTyped
<1> HIDE DEF q, last
<1>2. Submitted(h).type = "migrate" /\ Submitted(h).item = h
  BY DEF Submitted
<1>3. DOMAIN r = DOMAIN m \cup {k} /\ r[k] = h /\ \A x \in DOMAIN m : r[x] = m[x]
  BY DEF Insert
<1>4. \A i : HeldIn(it, m, i) => HeldIn(it, r, i) /\ i # h
  BY <1>3 DEF HeldIn
<1>5. HeldIn(it, r, h)
  BY <1>3 DEF HeldIn
<1>6. \A i : AreIn(q, i) <=> AreIn(c, i) \/ i = h
  BY <1>1, <1>2 DEF AreIn
<1>7. ~AreIn(c, h) /\ ~AreAt(f, h) /\ ~AreEchoed(e, k)
  BY <1>4 DEF PlacesOf, AreIn, AreAt, AreEchoed
<1> HIDE DEF c
<1>8. \A n \in DOMAIN q : q[n].type = "migrate" =>
          /\ HeldIn(it, r, q[n].item)
          /\ \A x \in DOMAIN q : q[x].type = "migrate" /\ q[x].item = q[n].item => x = n
  BY <1>1, <1>2, <1>4, <1>5 DEF PlacesOf, c
<1>9. \A x \in DOMAIN f : /\ HeldIn(it, r, f[x])
                          /\ <<it[f[x]].key[1], it[f[x]].target>> = x
  BY <1>4 DEF PlacesOf
<1>10. \A n \in DOMAIN e :
          /\ e[n].key \in DOMAIN r /\ e[n].target = it[r[e[n].key]].target
          /\ \A x \in DOMAIN e : e[x].key = e[n].key => x = n
  BY <1>3 DEF PlacesOf
<1>11. \A x \in DOMAIN r :
          /\ AreIn(q, r[x]) \/ AreAt(f, r[x]) \/ AreEchoed(e, it[r[x]].key)
          /\ ~(AreIn(q, r[x]) /\ AreAt(f, r[x]))
          /\ ~(AreIn(q, r[x]) /\ AreEchoed(e, it[r[x]].key))
          /\ ~(AreAt(f, r[x]) /\ AreEchoed(e, it[r[x]].key))
  <2> TAKE x \in DOMAIN r
  <2>1. CASE x = k
    BY <1>3, <1>6, <1>7, <2>1
  <2>2. CASE x # k
    <3>1. x \in DOMAIN m /\ r[x] = m[x] /\ r[x] # h
      BY <1>3, <2>2
    <3> QED
      BY <1>6, <3>1 DEF PlacesOf, c
  <2> QED
    BY <2>1, <2>2
<1> QED
  BY <1>8, <1>9, <1>10, <1>11 DEF PlacesOf, q, c

\* The end of the arbitratee under key k, as the tables see it.
LEMMA EndBusy ==
    ASSUME NEW it, NEW in, NEW inUse, NEW m, NEW k \in DOMAIN m, Busy(it, in, inUse, m),
           NEW d, d = it[m[k]].target
    PROVE  Busy(it, Erase(in, k), inUse \ {d}, Erase(m, k))
<1> DEFINE in2 == Erase(in, k)  m2 == Erase(m, k)
<1>1. /\ DOMAIN in2 = DOMAIN in \ {k} /\ DOMAIN m2 = DOMAIN m \ {k}
      /\ \A x \in DOMAIN in \ {k} : in2[x] = in[x]
      /\ \A x \in DOMAIN m \ {k} : m2[x] = m[x]
  BY DEF Erase
<1> HIDE DEF in2, m2
<1>2. \A x \in DOMAIN m2 : it[m2[x]].target # d
  BY <1>1 DEF Busy
<1>3. Busy(it, in2, inUse \ {d}, m2)
  BY <1>1, <1>2 DEF Busy
<1> QED
  BY <1>3 DEF in2, m2

LEMMA EndLines ==
    ASSUME NEW it, NEW in, NEW m, NEW q, NEW c, NEW k, k \in DOMAIN m, Lined(it, in, m, q, c)
    PROVE  Lined(it, Erase(in, k), Erase(m, k), q, c)
<1> DEFINE in2 == Erase(in, k)  m2 == Erase(m, k)
<1>1. /\ DOMAIN in2 = DOMAIN in \ {k} /\ DOMAIN m2 = DOMAIN m \ {k}
      /\ \A x \in DOMAIN in \ {k} : in2[x] = in[x]
  BY DEF Erase
<1> HIDE DEF in2, m2
<1>2. Lined(it, in2, m2, q, c)
  BY <1>1 DEF Lined
<1> QED
  BY <1>2 DEF in2, m2

\* The same, as the places see it: its echo is the first of the executor's queue.
LEMMA EndPlaces ==
    ASSUME NEW it, NEW m, NEW c, NEW f, NEW S, NEW e \in Seq(S), e # <<>>,
           PlacesOf(it, m, c, f, e), \A x \in DOMAIN m : it[m[x]].key = x
    PROVE  /\ Head(e).key \in DOMAIN m /\ Head(e).target = it[m[Head(e).key]].target
           /\ PlacesOf(it, Erase(m, Head(e).key), c, f, Tail(e))
<1> DEFINE k == Head(e).key  m2 == Erase(m, k)  t == Tail(e)
<1>1. /\ 1 \in DOMAIN e /\ Head(e) = e[1]
      /\ \A n \in DOMAIN t : n + 1 \in DOMAIN e /\ t[n] = e[n + 1] /\ n \in Nat /\ n > 0
      /\ \A n \in DOMAIN e : n = 1 \/ (n \in Nat /\ n - 1 \in DOMAIN t)
  BY TailAt
<1>2. /\ k \in DOMAIN m /\ Head(e).target = it[m[k]].target /\ AreEchoed(e, k)
      /\ \A n \in DOMAIN e : e[n].key = k => n = 1
  BY <1>1 DEF PlacesOf, AreEchoed
<1>3. DOMAIN m2 = DOMAIN m \ {k} /\ \A x \in DOMAIN m \ {k} : m2[x] = m[x]
  BY DEF Erase
<1>4. ~AreIn(c, m[k]) /\ ~AreAt(f, m[k])
  BY <1>2 DEF PlacesOf
<1> HIDE DEF m2, t, k
<1>5. \A i : HeldIn(it, m, i) /\ i # m[k] => HeldIn(it, m2, i)
  BY <1>3 DEF HeldIn
<1>6. \A y : y # k => (AreEchoed(t, y) <=> AreEchoed(e, y))
  <2> SUFFICES ASSUME NEW y, y # k PROVE AreEchoed(t, y) <=> AreEchoed(e, y)
    OBVIOUS
  <2>1. AreEchoed(t, y) => AreEchoed(e, y)
    BY <1>1 DEF AreEchoed
  <2>2. ASSUME AreEchoed(e, y) PROVE AreEchoed(t, y)
    <3>1. PICK n \in DOMAIN e : e[n].key = y
      BY <2>2 DEF AreEchoed
    <3>2. n # 1
      BY <1>1, <3>1 DEF k
    <3>3. n - 1 \in DOMAIN t /\ n \in Nat
      BY <1>1, <3>2
    <3>4. t[n - 1] = e[n]
      BY <1>1, <3>3
    <3> QED
      BY <3>1, <3>3, <3>4 DEF AreEchoed
  <2> QED
    BY <2>1, <2>2
<1>7. \A n \in DOMAIN t :
          /\ t[n].key \in DOMAIN m2 /\ t[n].target = it[m2[t[n].key]].target
          /\ \A x \in DOMAIN t : t[x].key = t[n].key => x = n
  <2> TAKE n \in DOMAIN t
  <2>1. n + 1 \in DOMAIN e /\ t[n] = e[n + 1] /\ n \in Nat /\ n > 0
    BY <1>1
  <2>2. /\ t[n].key \in DOMAIN m /\ t[n].target = it[m[t[n].key]].target
        /\ \A x \in DOMAIN e : e[x].key = t[n].key => x = n + 1
    BY <2>1 DEF PlacesOf
  <2>3. t[n].key # k
    BY <1>2, <2>1
  <2>4. ASSUME NEW x \in DOMAIN t, t[x].key = t[n].key PROVE x = n
    <3>1. x + 1 \in DOMAIN e /\ t[x] = e[x + 1] /\ x \in Nat
      BY <1>1
    <3>2. x + 1 = n + 1
      BY <2>2, <2>4, <3>1
    <3> QED
      BY <2>1, <3>1, <3>2
  <2> QED
    BY <1>3, <2>2, <2>3, <2>4
<1>8. \A n \in DOMAIN c : c[n].type = "migrate" => c[n].item # m[k]
  BY <1>4 DEF AreIn
<1>9. \A x \in DOMAIN f : f[x] # m[k]
  BY <1>4 DEF AreAt
<1>10. \A x \in DOMAIN m2 :
          /\ AreIn(c, m2[x]) \/ AreAt(f, m2[x]) \/ AreEchoed(t, it[m2[x]].key)
          /\ ~(AreIn(c, m2[x]) /\ AreAt(f, m2[x]))
          /\ ~(AreIn(c, m2[x]) /\ AreEchoed(t, it[m2[x]].key))
          /\ ~(AreAt(f, m2[x]) /\ AreEchoed(t, it[m2[x]].key))
  <2> TAKE x \in DOMAIN m2
  <2>1. x \in DOMAIN m /\ x # k /\ m2[x] = m[x] /\ it[m[x]].key = x
    BY <1>3
  <2>2. AreEchoed(t, x) <=> AreEchoed(e, x)
    BY <1>6, <2>1
  <2> QED
    BY <2>1, <2>2 DEF PlacesOf
<1>11. PlacesOf(it, m2, c, f, t)
  BY <1>5, <1>7, <1>8, <1>9, <1>10 DEF PlacesOf
<1> QED
  BY <1>2, <1>11 DEF k, m2, t

-----------------------------------------------------------------------------
(* The executor's steps.                                                   *)

\* Keys and targets of arbitratees that exist stay, and only those in S are deleted.
Marked(it, S) ==
    \A i \in DOMAIN item :
        /\ it[i].key = item[i].key /\ it[i].target = item[i].target
        /\ it[i].deleted = (item[i].deleted \/ i \in S)

\* The tables in flight and the queues only name arbitratees that exist.
LEMMA MarkedKeeps ==
    ASSUME Typed, PipelineInv, NEW it, NEW S, Marked(it, S)
    PROVE  /\ \A k \in DOMAIN inflight : it[inflight[k]].key = k
           /\ \A in : (\A k \in DOMAIN arbIn : k \in DOMAIN in /\ in[k] = arbIn[k]) =>
                 /\ Busy(it, in, disks \ free, inflight)
                 /\ \A d \in Disks : Lined(it, in, inflight, waiting[d], d)
           /\ PlacesOf(it, inflight, container, flying, exeQueue)
<1>1. \A k \in DOMAIN inflight :
          /\ inflight[k] \in DOMAIN item
          /\ it[inflight[k]].key = item[inflight[k]].key
          /\ it[inflight[k]].target = item[inflight[k]].target
  BY ItemFacts DEF Marked
<1>2. \A d \in Disks : \A n \in DOMAIN waiting[d] : waiting[d][n] \in DOMAIN item
  BY TypedParts, ElementOfSeq, LenProperties DEF DisksTyped
<1>3. \A k \in DOMAIN inflight : it[inflight[k]].key = k
  BY <1>1, InvParts DEF Tables, InIsLive, InFlightIsIn, KeyOf
<1>4. Busy(item, arbIn, disks \ free, inflight)
      /\ \A d \in Disks : Lined(item, arbIn, inflight, waiting[d], d)
  BY InvParts, TablesMean
<1>5. ASSUME NEW in, \A k \in DOMAIN arbIn : k \in DOMAIN in /\ in[k] = arbIn[k]
      PROVE  /\ Busy(it, in, disks \ free, inflight)
             /\ \A d \in Disks : Lined(it, in, inflight, waiting[d], d)
  <2>1. Busy(it, in, disks \ free, inflight)
    BY <1>1, <1>4, <1>5 DEF Busy
  <2>2. ASSUME NEW d \in Disks
        PROVE  Lined(it, in, inflight, waiting[d], d)
    <3>1. Lined(item, arbIn, inflight, waiting[d], d)
      BY <1>4
    <3>2. \A n \in DOMAIN waiting[d] :
              /\ it[waiting[d][n]].key = item[waiting[d][n]].key
              /\ it[waiting[d][n]].target = item[waiting[d][n]].target
      BY <1>2 DEF Marked
    <3> QED
      BY <1>5, <3>1, <3>2 DEF Lined
  <2> QED
    BY <2>1, <2>2
<1>6. PlacesOf(it, inflight, container, flying, exeQueue)
  <2>1. PlacesOf(item, inflight, container, flying, exeQueue)
    BY InvParts, PlacesMean
  <2> QED
    BY <1>1, <2>1, SameInFlight
<1> QED
  BY <1>3, <1>5, <1>6

LEMMA StartWindowInv ==
    ASSUME Typed, PipelineInv, StartWindow
    PROVE  PipelineInv'
<1>1. PICK ended \in SUBSET DOMAIN arbOut :
          /\ arbOut' = [k \in DOMAIN arbOut \ ended |-> arbOut[k]]
          /\ item' = Delete({arbOut[k] : k \in ended})
          /\ arbIn' = arbIn
  BY DEF StartWindow, PrepareArbitrator
<1> DEFINE S == {arbOut[k] : k \in ended}
<1>2. DOMAIN item' = DOMAIN item /\ Marked(item', S)
  BY <1>1, TypedParts, DeleteKeeps DEF HeapTyped, Marked
<1>3. /\ Busy(item', arbIn', disks \ free, inflight)
      /\ PlacesOf(item', inflight, container, flying, exeQueue)
  BY <1>1, <1>2, MarkedKeeps
<1>4. /\ inflight' = inflight /\ container' = container /\ flying' = flying
      /\ exeQueue' = exeQueue
      /\ waiting' = [d \in Disks |-> <<>>]
      /\ disks' = {d \in disks : d \notin free \/ d \in astDisks}
      /\ free' = disks' \ {TargetOf(i) : i \in Values(inflight)}
  BY DEF StartWindow, PrepareMigration, relocatorFrame, migVars
<1>5. ItemsMove'
  BY <1>2, InvParts DEF Tables, ItemsMove, Marked
<1>6. InIsLive'
  <2> SUFFICES ASSUME NEW k \in DOMAIN arbIn
               PROVE  /\ item'[arbIn[k]].key = k /\ ~item'[arbIn[k]].deleted
                      /\ \A l \in DOMAIN arbOut' : arbOut'[l] # arbIn[k]
    BY <1>1 DEF InIsLive, KeyOf, Live
  <2>1. /\ item[arbIn[k]].key = k /\ ~item[arbIn[k]].deleted
        /\ \A l \in DOMAIN arbOut : arbOut[l] # arbIn[k]
    BY InvParts DEF Tables, InIsLive, KeyOf, Live
  <2>2. arbIn[k] \in DOMAIN item /\ arbIn[k] \notin S
    BY <2>1, ItemFacts
  <2> QED
    BY <1>1, <1>2, <2>1, <2>2 DEF Marked
<1>7. Busy(item', arbIn', disks' \ free', inflight')
  <2>1. \A k \in DOMAIN inflight :
            /\ item'[inflight[k]].target = TargetOf(inflight[k])
            /\ TargetOf(inflight[k]) \in {TargetOf(i) : i \in Values(inflight)}
    BY <1>2, ItemFacts DEF Marked, TargetOf, Values
  <2>2. \A k \in DOMAIN inflight : item'[inflight[k]].target \in disks \ free
    BY <1>3 DEF Busy
  <2> QED
    BY <1>3, <1>4, <2>1, <2>2 DEF Busy
<1>8. \A d \in Disks : Lined(item', arbIn', inflight', waiting'[d], d)
  BY <1>4 DEF Lined
<1> QED
  BY <1>3, <1>4, <1>5, <1>6, <1>7, <1>8, TablesMeanNext, PlacesMeanNext, InvNext

LEMMA ConflictInv ==
    ASSUME NothingRetargets, Typed, PipelineInv, NEW key \in astOBJs, NEW d \in Disks,
           key[2] # d, Conflict(key, d)
    PROVE  PipelineInv'
<1> DEFINE i == arbIn[key]
<1>1. /\ key \in DOMAIN arbIn /\ TRUE \in ConflictWins
      /\ item' = [item EXCEPT ![i].target = d]
      /\ UNCHANGED <<arbIn, arbOut, disks, free, waiting, inflight, container, flying,
                     exeQueue>>
  BY DEF Conflict, relocatorFrame, migVars
<1>2. i \in DOMAIN item /\ item[i] \in Arbitratees /\ item[i].key = key
      /\ item[i].target # key[2]
  BY <1>1, ItemFacts, ItemsAreItems, TypedParts, InvParts
  DEF Tables, ItemsMove, InIsLive, KeyOf
<1>3. key[2] \in Disks /\ item[i].target \in Disks
  BY <1>2 DEF Arbitratees, OBJKeys
<1>4. item[i].target = d
  BY <1>1, <1>2, <1>3 DEF NothingRetargets
<1>5. [item[i] EXCEPT !.target = d] = item[i]
  BY <1>2, <1>4 DEF Arbitratees
<1>6. item' = item
  <2>1. item = [x \in DOMAIN item |-> item[x]]
    BY ItemsAreItems, TypedParts, LenProperties DEF HeapTyped, ItemsTyped
  <2> QED
    BY <1>1, <1>2, <1>5, <2>1
<1>7. Places'
  BY <1>1, <1>6, InvParts, PlacesKept
<1>8. Tables'
  BY <1>1, <1>6, InvParts, TablesSame
<1> QED
  BY <1>7, <1>8, InvNext

LEMMA ReceivePlanInv ==
    ASSUME Typed, PipelineInv, NEW key \in astOBJs, NEW d \in Disks, key[2] # d,
           ReceivePlan(key, d), Typed'
    PROVE  PipelineInv'
<1> USE InvParts, InvNext
<1> DEFINE i == Len(item) + 1
           old == IF key \in DOMAIN arbOut THEN {arbOut[key]} ELSE {}
           new == [key |-> key, target |-> d, deleted |-> FALSE]
<1>1. /\ key \notin DOMAIN arbIn /\ arbOut' = Erase(arbOut, key)
      /\ UNCHANGED <<flying, exeQueue>>
  BY DEF ReceivePlan, relocatorFrame, migVars
<1>2. /\ DOMAIN arbOut' = DOMAIN arbOut \ {key}
      /\ \A l \in DOMAIN arbOut' : arbOut'[l] = arbOut[l]
  BY <1>1 DEF Erase
<1>3. /\ DOMAIN Delete(old) = DOMAIN item /\ Marked(Delete(old), old)
      /\ Delete(old) \in Seq(Arbitratees) /\ Len(Delete(old)) = Len(item)
  BY TypedParts, DeleteKeeps DEF HeapTyped, Marked
<1>4. \A k \in DOMAIN arbIn :
          /\ arbIn[k] \in DOMAIN item /\ arbIn[k] \notin old
          /\ item[arbIn[k]].key = k /\ ~item[arbIn[k]].deleted
          /\ \A l \in DOMAIN arbOut' : arbOut'[l] # arbIn[k]
  BY <1>2, ItemFacts DEF Tables, InIsLive, KeyOf, Live
<1> HIDE DEF old
\* The plan is refused after its old arbitratee was deleted.
<1>5. CASE item' = Delete(old) /\ UNCHANGED <<arbIn, disks, free, waiting, inflight, container>>
  <2>1. Marked(item', old)
    BY <1>3, <1>5
  <2>2. /\ Busy(item', arbIn', disks' \ free', inflight')
        /\ \A e \in Disks : Lined(item', arbIn', inflight', waiting'[e], e)
        /\ PlacesOf(item', inflight', container', flying', exeQueue')
    BY <1>1, <1>5, <2>1, MarkedKeeps
  <2>3. ItemsMove'
    BY <1>3, <1>5, <2>1 DEF Tables, ItemsMove, Marked
  <2>4. InIsLive'
    BY <1>4, <1>5, <2>1 DEF InIsLive, Marked, KeyOf, Live
  <2> QED
    BY <2>2, <2>3, <2>4, TablesMeanNext, PlacesMeanNext
\* It becomes arbitratee i.
<1>6. CASE /\ item' = Append(Delete(old), new)
           /\ arbIn' = Insert(arbIn, key, i) /\ ReceiveArbitratee(i, d)
  <2>1. /\ DOMAIN item' = DOMAIN item \cup {i} /\ item'[i] = new /\ i \notin DOMAIN item
        /\ \A j \in DOMAIN item : item'[j] = Delete(old)[j]
    <3> DEFINE q == Delete(old)
    <3>1. new \in Arbitratees
      BY TypedParts DEF AstTyped, Arbitratees
    <3> HIDE DEF new, q
    <3>2. /\ DOMAIN Append(q, new) = DOMAIN q \cup {Len(q) + 1}
          /\ Append(q, new)[Len(q) + 1] = new /\ Len(q) + 1 \notin DOMAIN q
          /\ \A n \in DOMAIN q : Append(q, new)[n] = q[n]
      BY <1>3, <3>1, AppendAt DEF q
    <3> QED
      BY <1>3, <1>6, <3>2 DEF q
  <2>2. Marked(item', old)
    BY <1>3, <2>1 DEF Marked
  <2>3. /\ DOMAIN arbIn' = DOMAIN arbIn \cup {key} /\ arbIn'[key] = i
        /\ \A k \in DOMAIN arbIn : arbIn'[k] = arbIn[k]
    BY <1>1, <1>6 DEF Insert
  <2>4. /\ Busy(item', arbIn', disks \ free, inflight)
        /\ \A e \in Disks : Lined(item', arbIn', inflight, waiting[e], e)
        /\ PlacesOf(item', inflight, container, flying, exeQueue)
        /\ \A k \in DOMAIN inflight : item'[inflight[k]].key = k
    BY <2>2, <2>3, MarkedKeeps
  <2>5. item'[i].key = key /\ item'[i].target = d /\ ~item'[i].deleted
    BY <2>1
  <2>6. ItemsMove'
    BY <2>1, <2>2, <2>5 DEF Tables, ItemsMove, Marked
  <2>7. InIsLive'
    <3>1. \A k \in DOMAIN arbIn :
              /\ item'[arbIn[k]].key = k /\ ~item'[arbIn[k]].deleted
              /\ \A l \in DOMAIN arbOut' : arbOut'[l] # arbIn[k]
      BY <1>4, <2>2 DEF Marked
    <3>2. \A l \in DOMAIN arbOut' : arbOut'[l] # i
      BY <1>2, <2>1, ItemFacts
    <3> QED
      BY <2>3, <2>5, <3>1, <3>2 DEF InIsLive, KeyOf, Live
  <2> DEFINE queue == Append(waiting[d], i)
  <2>8. /\ queue \in Seq(DOMAIN item \cup {i}) /\ queue # <<>>
        /\ DOMAIN queue = DOMAIN waiting[d] \cup {Len(waiting[d]) + 1}
        /\ queue[Len(waiting[d]) + 1] = i
        /\ \A n \in DOMAIN waiting[d] : queue[n] = waiting[d][n] /\ queue[n] \in DOMAIN item
    <3>1. waiting[d] \in Seq(DOMAIN item)
      BY TypedParts DEF DisksTyped
    <3>2. waiting[d] \in Seq(DOMAIN item \cup {i})
      BY <3>1, SeqGrows
    <3>3. \A n \in DOMAIN waiting[d] : waiting[d][n] \in DOMAIN item
      BY <3>1, LenProperties, ElementOfSeq
    <3>4. /\ queue \in Seq(DOMAIN item \cup {i})
          /\ DOMAIN queue = DOMAIN waiting[d] \cup {Len(waiting[d]) + 1}
          /\ queue[Len(waiting[d]) + 1] = i
          /\ \A n \in DOMAIN waiting[d] : queue[n] = waiting[d][n]
      BY <3>2, AppendAt
    <3> QED
      BY <3>3, <3>4
  <2>9. Lined(item', arbIn', inflight, queue, d)
    <3> HIDE DEF queue
    <3>1. key \notin DOMAIN inflight
      BY <1>1 DEF Tables, InFlightIsIn
    <3>2. Lined(item', arbIn', inflight, waiting[d], d)
      BY <2>4
    <3> QED
      BY <2>1, <2>3, <2>5, <2>8, <3>1, <3>2 DEF Lined
  <2>10. CASE /\ d \in free \/ d \notin disks
              /\ free' = free \ {d}
              /\ waiting' = [waiting EXCEPT ![d] = Tail(queue)]
              /\ inflight' = Insert(inflight, item'[Head(queue)].key, Head(queue))
              /\ container' = Append(container, Submitted(Head(queue)))
    <3> HIDE DEF queue
    <3>1. \A k \in DOMAIN inflight : item'[inflight[k]].target # d
      BY <2>4, <2>10 DEF Busy
    <3>2. /\ item'[Head(queue)].key \notin DOMAIN inflight
          /\ Busy(item', arbIn', (disks \ free) \cup {d}, inflight')
          /\ Lined(item', arbIn', inflight', Tail(queue), d)
          /\ \A e, p : e # d /\ Lined(item', arbIn', inflight, p, e)
                          => Lined(item', arbIn', inflight', p, e)
      <4>1. /\ Busy(item', arbIn', disks \ free, inflight)
            /\ Lined(item', arbIn', inflight, queue, d)
            /\ queue \in Seq(DOMAIN item \cup {i}) /\ queue # <<>>
            /\ inflight' = Insert(inflight, item'[Head(queue)].key, Head(queue))
        BY <2>4, <2>8, <2>9, <2>10
      <4>2. item'[Head(queue)].key \notin DOMAIN inflight
        <5>1. 1 \in DOMAIN queue /\ Head(queue) = queue[1]
          BY <2>8, TailAt
        <5> QED
          BY <4>1, <5>1, LaunchFits
      <4>3. Busy(item', arbIn', (disks \ free) \cup {d}, inflight')
        BY <3>1, <4>1, LaunchBusy
      <4>4. Lined(item', arbIn', inflight', Tail(queue), d)
        BY <3>1, <4>1, LaunchLines
      <4>5. \A e, p : e # d /\ Lined(item', arbIn', inflight, p, e)
                          => Lined(item', arbIn', inflight', p, e)
        BY <4>1, LaunchOthers
      <4> QED
        BY <4>2, <4>3, <4>4, <4>5
    <3>3. disks' \ free' = (disks \ free) \cup {d}
      BY <1>6, <2>10 DEF ReceiveArbitratee
    <3>4. \A e \in Disks : Lined(item', arbIn', inflight', waiting'[e], e)
      BY <2>4, <2>10, <3>2, TypedParts DEF DisksTyped
    <3>5. Submitted(Head(queue)) \in ContainerItems
      <4>1. Head(queue) \in DOMAIN item'
        BY <2>1, <2>8, TailAt
      <4>2. item' \in Seq(Arbitratees) /\ Len(item') <= MaxItems
        BY DEF Typed, TypeOK
      <4>3. DOMAIN item' \subseteq Items
        BY <4>2, LenProperties, MigrationBoundsAssumption DEF Items
      <4> QED
        BY <4>1, <4>3 DEF Submitted, ContainerItems
    <3>6. PlacesOf(item', inflight', container', flying', exeQueue')
      BY <1>1, <2>4, <2>10, <3>2, <3>5, LaunchPlaces
    <3> QED
      BY <2>6, <2>7, <3>2, <3>3, <3>4, <3>6, TablesMeanNext, PlacesMeanNext
  <2>11. CASE /\ d \in disks \ free /\ waiting' = [waiting EXCEPT ![d] = queue]
              /\ UNCHANGED <<free, inflight, container>>
    <3> HIDE DEF queue
    <3>1. disks' = disks
      BY <1>6, <2>11 DEF ReceiveArbitratee
    <3>2. \A e \in Disks : Lined(item', arbIn', inflight', waiting'[e], e)
      BY <2>4, <2>9, <2>11, TypedParts DEF DisksTyped
    <3> QED
      BY <1>1, <2>4, <2>6, <2>7, <2>11, <3>1, <3>2, TablesMeanNext, PlacesMeanNext
  <2> QED
    BY <1>6, <2>10, <2>11 DEF ReceiveArbitratee
<1> QED
  BY <1>5, <1>6 DEF ReceivePlan, old

\* The arbitrator forgets the arbitratee of an echo that had its place in IN.
LEMMA ArbitratorForgets ==
    ASSUME Typed, PipelineInv, NEW key \in DOMAIN arbIn, NEW status,
           ArbitratorExpire(key) \/ ArbitratorComplete(key, status)
    PROVE  /\ arbIn' = Erase(arbIn, key)
           /\ DOMAIN item' = DOMAIN item /\ \E S : Marked(item', S) /\ S \subseteq {arbIn[key]}
           /\ ItemsMove' /\ InIsLive'
<1> USE InvParts
<1>1. arbIn' = Erase(arbIn, key)
  BY DEF ArbitratorExpire, ArbitratorComplete
<1>2. DOMAIN arbIn' = DOMAIN arbIn \ {key}
      /\ \A k \in DOMAIN arbIn' : arbIn'[k] = arbIn[k]
  BY <1>1 DEF Erase
<1>3. PICK S : /\ DOMAIN item' = DOMAIN item /\ Marked(item', S) /\ S \subseteq {arbIn[key]}
  <2>1. CASE item' = Delete({arbIn[key]})
    <3> DEFINE T == {arbIn[key]}
    <3>1. item' = Delete(T) /\ T \subseteq {arbIn[key]}
      BY <2>1
    <3> HIDE DEF T
    <3>2. ItemsTyped
      BY TypedParts DEF HeapTyped
    <3>3. DOMAIN item' = DOMAIN item /\ Marked(item', T)
      BY <3>1, <3>2, DeleteKeeps DEF Marked
    <3> QED
      BY <3>1, <3>3
  <2>2. CASE item' = item
    <3>1. \A j \in DOMAIN item : item[j].deleted \in BOOLEAN
      BY TypedParts, ItemsAreItems DEF Arbitratees
    <3>2. Marked(item', {})
      BY <2>2, <3>1 DEF Marked
    <3> QED
      BY <2>2, <3>2
  <2> QED
    BY <2>1, <2>2 DEF ArbitratorExpire, ArbitratorComplete
<1>4. \A l \in DOMAIN arbOut' : (l \in DOMAIN arbOut /\ arbOut'[l] = arbOut[l])
                                \/ arbOut'[l] = arbIn[key]
  BY DEF ArbitratorExpire, ArbitratorComplete, Insert
<1>5. \A k \in DOMAIN arbIn' :
          /\ arbIn[k] \in DOMAIN item /\ item[arbIn[k]].key = k /\ ~item[arbIn[k]].deleted
          /\ arbIn[k] # arbIn[key]
          /\ \A l \in DOMAIN arbOut : arbOut[l] # arbIn[k]
  BY <1>2, ItemFacts DEF Tables, InIsLive, KeyOf, Live
<1>6. InIsLive'
  <2> SUFFICES ASSUME NEW k \in DOMAIN arbIn'
               PROVE  /\ item'[arbIn[k]].key = k /\ ~item'[arbIn[k]].deleted
                      /\ \A l \in DOMAIN arbOut' : arbOut'[l] # arbIn[k]
    BY <1>2 DEF InIsLive, KeyOf, Live
  <2>1. item'[arbIn[k]].key = k /\ ~item'[arbIn[k]].deleted
    BY <1>3, <1>5 DEF Marked
  <2>2. \A l \in DOMAIN arbOut' : arbOut'[l] # arbIn[k]
    BY <1>4, <1>5
  <2> QED
    BY <2>1, <2>2
<1>7. ItemsMove'
  BY <1>3 DEF Tables, ItemsMove, Marked
<1> QED
  BY <1>1, <1>3, <1>6, <1>7

LEMMA HandleEchoInv ==
    ASSUME Typed, PipelineInv, HandleEcho, Typed'
    PROVE  PipelineInv'
<1> USE InvParts, InvNext
<1> DEFINE e == Head(exeQueue)  key == e.key  d == e.target
           m == Erase(inflight, key)
<1>1. /\ exeQueue # <<>> /\ exeQueue' = Tail(exeQueue) /\ flying' = flying
      /\ ArbitratorExpire(key) \/ ArbitratorComplete(key, e.status)
  BY DEF HandleEcho, relocatorFrame, migVars
<1>2. exeQueue \in Seq(Echoes) /\ e \in Echoes
  BY <1>1, TypedParts, TailAt DEF QueuesTyped
<1>3. PICK freed, more : NextOfDisk(key, d, freed, more)
  BY DEF HandleEcho
<1> HIDE DEF e
<1>4. \A k \in DOMAIN inflight : item[inflight[k]].key = k
  BY DEF Tables, InIsLive, InFlightIsIn, KeyOf
<1>5. PlacesOf(item, inflight, container, flying, exeQueue)
  BY PlacesMean
<1>6. key \in DOMAIN inflight /\ d = item[inflight[key]].target
      /\ PlacesOf(item, m, container, flying, exeQueue')
  BY <1>1, <1>2, <1>4, <1>5, EndPlaces DEF e
<1>7. key \in DOMAIN arbIn /\ arbIn[key] = inflight[key]
  BY <1>6 DEF Tables, InFlightIsIn
<1>8. /\ arbIn' = Erase(arbIn, key) /\ ItemsMove' /\ InIsLive'
      /\ DOMAIN item' = DOMAIN item /\ \E S : Marked(item', S)
  BY <1>1, <1>7, ArbitratorForgets
<1>9. PICK S : Marked(item', S)
  BY <1>8
\* Without the arbitratee of the echo, but with nothing launched yet.
<1>10. DOMAIN m = DOMAIN inflight \ {key} /\ \A k \in DOMAIN m : m[k] = inflight[k]
  BY DEF Erase
<1>11. PlacesOf(item', m, container, flying, exeQueue')
  <2>1. \A k \in DOMAIN m : /\ item'[m[k]].key = item[m[k]].key
                            /\ item'[m[k]].target = item[m[k]].target
    BY <1>9, <1>10, ItemFacts DEF Marked
  <2> QED
    BY <1>6, <2>1, SameInFlight
<1>12. /\ \A k \in DOMAIN m : item'[m[k]].key = k
       /\ item'[inflight[key]].target = d
  BY <1>4, <1>6, <1>9, <1>10, ItemFacts DEF Marked
<1>13. /\ Busy(item', arbIn, disks \ free, inflight)
       /\ \A c \in Disks : Lined(item', arbIn, inflight, waiting[c], c)
  BY <1>9, MarkedKeeps
<1>14. /\ Busy(item', arbIn', (disks \ free) \ {d}, m)
       /\ \A k \in DOMAIN m : item'[m[k]].target # d
       /\ \A c \in Disks : Lined(item', arbIn', m, waiting[c], c)
  <2>1. Busy(item', arbIn', (disks \ free) \ {d}, m)
    <3> HIDE DEF key, d
    <3>1. key \in DOMAIN inflight /\ d = item'[inflight[key]].target
      BY <1>6, <1>12
    <3>2. Busy(item', Erase(arbIn, key), (disks \ free) \ {d}, Erase(inflight, key))
      BY <3>1, <1>13, EndBusy
    <3> QED
      BY <3>2, <1>8
  <2>2. \A k \in DOMAIN m : item'[m[k]].target # d
    BY <2>1 DEF Busy
  <2>3. ASSUME NEW c \in Disks PROVE Lined(item', arbIn', m, waiting[c], c)
    <3> HIDE DEF key, d
    <3>1. Lined(item', arbIn, inflight, waiting[c], c)
      BY <1>13
    <3>2. Lined(item', Erase(arbIn, key), Erase(inflight, key), waiting[c], c)
      BY <3>1, <1>6, EndLines
    <3> QED
      BY <3>2, <1>8
  <2> QED
    BY <2>2, <2>3, <2>1
<1>15. d \in Disks
  BY <1>2 DEF Echoes
\* What is in use when nothing is launched.
<1>16. CASE /\ inflight' = m /\ container' = container /\ disks' = disks
            /\ waiting' = waiting
            /\ free' = IF freed /\ d \in disks THEN free \cup {d} ELSE free
  <2>1. Busy(item', arbIn', disks' \ free', inflight')
    BY <1>14, <1>16 DEF Busy
  <2> QED
    BY <1>1, <1>8, <1>11, <1>14, <1>16, <2>1, TablesMeanNext, PlacesMeanNext
\* The disk is gone, and what waited for it.
<1>17. CASE /\ inflight' = m /\ container' = container /\ disks' = disks \ {d}
            /\ waiting' = [waiting EXCEPT ![d] = <<>>] /\ free' = free \ {d}
  <2>1. Busy(item', arbIn', disks' \ free', inflight')
    BY <1>14, <1>17 DEF Busy
  <2>2. \A c \in Disks : Lined(item', arbIn', inflight', waiting'[c], c)
    <3>1. waiting'[d] = <<>> /\ \A c \in Disks \ {d} : waiting'[c] = waiting[c]
      BY <1>15, <1>17, TypedParts DEF DisksTyped
    <3>2. Lined(item', arbIn', inflight', <<>>, d)
      BY DEF Lined
    <3> QED
      BY <1>14, <1>17, <3>1, <3>2
  <2> QED
    BY <1>1, <1>8, <1>11, <1>17, <2>1, <2>2, TablesMeanNext, PlacesMeanNext
\* The next arbitratee of the disk is launched.
<1>18. CASE /\ d \in disks /\ waiting[d] # <<>> /\ disks' = disks
            /\ free' = (IF freed /\ d \in disks THEN free \cup {d} ELSE free) \ {d}
            /\ waiting' = [waiting EXCEPT ![d] = Tail(@)]
            /\ Launch(m, Head(waiting[d]))
  <2> DEFINE q == waiting[d]  h == Head(q)
  <2>1. q \in Seq(DOMAIN item) /\ q # <<>> /\ h \in DOMAIN item
    BY <1>15, <1>18, TypedParts, TailAt DEF DisksTyped
  <2>2. Lined(item', arbIn', m, q, d)
    BY <1>14, <1>15
  <2>3. inflight' = Insert(m, item'[h].key, h) /\ container' = Append(container, Submitted(h))
    BY <1>9, <1>18, <2>1 DEF Launch, Marked, KeyOf
  <2>4. item'[h].key \notin DOMAIN m
    <3>1. 1 \in DOMAIN q /\ h = q[1]
      BY <2>1, TailAt
    <3> HIDE DEF q, h
    <3> QED
      BY <2>2, <3>1, LaunchFits
  <2>5. waiting'[d] = Tail(q) /\ \A c \in Disks \ {d} : waiting'[c] = waiting[c]
    BY <1>15, <1>18, TypedParts DEF DisksTyped
  <2> HIDE DEF q, m
  <2>6. Busy(item', arbIn', ((disks \ free) \ {d}) \cup {d}, inflight')
    BY <1>14, <2>1, <2>2, <2>3, LaunchBusy
  <2>7. disks' \ free' = ((disks \ free) \ {d}) \cup {d}
    BY <1>18
  <2>8. Lined(item', arbIn', inflight', Tail(q), d)
    BY <1>14, <2>1, <2>2, <2>3, LaunchLines
  <2>9. \A c \in Disks : Lined(item', arbIn', inflight', waiting'[c], c)
    <3>1. ASSUME NEW c \in Disks, c # d
          PROVE  Lined(item', arbIn', inflight', waiting[c], c)
      BY <1>14, <2>1, <2>2, <2>3, <3>1, LaunchOthers
    <3> QED
      BY <2>5, <2>8, <3>1
  <2>10. PlacesOf(item', inflight', container', flying', exeQueue')
    <3>1. Submitted(h) \in ContainerItems
      BY <2>1, TypedParts, ItemsAreItems DEF Submitted, ContainerItems
    <3> QED
      BY <1>1, <1>11, <1>12, <2>3, <2>4, <3>1, LaunchPlaces
  <2> QED
    BY <1>8, <2>6, <2>7, <2>9, <2>10, TablesMeanNext, PlacesMeanNext
<1> QED
  BY <1>3, <1>16, <1>17, <1>18 DEF NextOfDisk

-----------------------------------------------------------------------------
(* The invariant holds.                                                    *)

LEMMA StepInv ==
    ASSUME NothingRetargets, Typed, PipelineInv, [Next]_vars
    PROVE  PipelineInv'
<1>1. Typed'
  BY StepTyped
<1>2. CASE UNCHANGED vars
  BY <1>2, OthersInv
<1>3. CASE ExecutorStep
  <2>1. CASE StartWindow
    BY <2>1, StartWindowInv
  <2>2. CASE PlansDone
    BY <2>2, OthersInv
  <2>3. CASE HandleEcho
    BY <1>1, <2>3, HandleEchoInv
  <2>4. ASSUME NEW key \in astOBJs, NEW d \in Disks, key[2] # d, ReceivePlan(key, d)
        PROVE  PipelineInv'
    BY <1>1, <2>4, ReceivePlanInv
  <2>5. ASSUME NEW key \in astOBJs, NEW d \in Disks, key[2] # d, Conflict(key, d)
        PROVE  PipelineInv'
    BY <2>5, ConflictInv
  <2> QED
    BY <1>3, <2>1, <2>2, <2>3, <2>4, <2>5 DEF ExecutorStep
<1>4. CASE GeneratorStep \/ ServiceStep
  BY <1>4, OthersInv
<1>5. CASE MigratorStep
  BY <1>5, MigratorInv
<1>6. CASE HubStep
  BY <1>6, HubInv
<1> QED
  BY <1>2, <1>3, <1>4, <1>5, <1>6 DEF Next

LEMMA InitInv == Init => PipelineInv
<1> SUFFICES ASSUME Init PROVE PipelineInv
  OBVIOUS
<1>1. DOMAIN <<>> = {}
  OBVIOUS
<1>2. /\ item = <<>> /\ arbIn = <<>> /\ arbOut = <<>> /\ inflight = <<>>
      /\ container = <<>> /\ flying = <<>> /\ exeQueue = <<>>
      /\ waiting = [d \in Disks |-> <<>>]
  BY DEF Init
<1>3. ItemsMove /\ InIsLive /\ InFlightIsIn /\ WaitingIsIn
  BY <1>1, <1>2 DEF ItemsMove, InIsLive, InFlightIsIn, WaitingIsIn
<1>4. Places
  BY <1>1, <1>2 DEF Places, ContainerIsHeld, MigratorIsHeld, EchoesAreHeld, Apart, Somewhere
<1> QED
  BY <1>3, <1>4 DEF PipelineInv

LEMMA AlwaysInv == NothingRetargets => (Spec => [](Typed /\ PipelineInv))
<1> SUFFICES ASSUME NothingRetargets PROVE Spec => [](Typed /\ PipelineInv)
  OBVIOUS
<1>1. Typed /\ PipelineInv /\ [Next]_vars => (Typed /\ PipelineInv)'
  BY StepTyped, StepInv
<1>2. Init => Typed /\ PipelineInv
  BY InitTyped, InitInv
<1> QED
  BY <1>1, <1>2, PTL DEF Spec

(* One migration at a time writes to a disk, and none to a free one, for   *)
(* every number of OBJs, disks, windows, failures, expiries, losses and    *)
(* removals, if no plan that wins changes the target of a migration.       *)
THEOREM OneMigrationHolds == NothingRetargets => (Spec => []OneMigrationPerDisk)
<1>1. PipelineInv => OneMigrationPerDisk
  BY DEF PipelineInv, InFlightIsIn, OneMigrationPerDisk, Values
<1> QED
  BY <1>1, AlwaysInv, PTL

-----------------------------------------------------------------------------
(* What the runs check.                                                    *)

LEMMA QueuedIs == \A i : i \in Queued <=> InContainer(i)
  BY DEF Queued, InContainer, QueuedAt

LEMMA FlyingIs == \A i : i \in Values(flying) <=> InMigrator(i)
  BY DEF Values, InMigrator

\* The three places are one place.
LEMMA OnePlace ==
    ASSUME NEW A, NEW B, NEW C,
           A \/ B \/ C, ~(A /\ B), ~(A /\ C), ~(B /\ C)
    PROVE  Cardinality({p \in 1 .. 3 : (p = 1 /\ A) \/ (p = 2 /\ B) \/ (p = 3 /\ C)}) = 1
<1> DEFINE S == {p \in 1 .. 3 : (p = 1 /\ A) \/ (p = 2 /\ B) \/ (p = 3 /\ C)}
<1>1. \E x : S = {x}
  <2>1. CASE A
    BY <2>1
  <2>2. CASE B
    BY <2>2
  <2>3. CASE C
    BY <2>3
  <2> QED
    BY <2>1, <2>2, <2>3
<1> QED
  BY <1>1, FS_Singleton

LEMMA SomewhereOnce ==
    ASSUME Typed, PipelineInv
    PROVE  InFlightIsSomewhere
<1> USE InvParts
<1>1. \A k \in DOMAIN inflight : KeyOf(inflight[k]) = k
  BY DEF Tables, InFlightIsIn, InIsLive
<1>2. ASSUME NEW k \in DOMAIN inflight
      PROVE  Cardinality({p \in 1 .. 3 :
                  \/ p = 1 /\ inflight[k] \in Queued
                  \/ p = 2 /\ inflight[k] \in Values(flying)
                  \/ p = 3 /\ k \in EchoedKeys}) = 1
  <2> DEFINE A == inflight[k] \in Queued  B == inflight[k] \in Values(flying)
             C == k \in EchoedKeys
  <2>1. /\ A <=> InContainer(inflight[k])
        /\ B <=> InMigrator(inflight[k])
        /\ C <=> InEchoes(inflight[k])
    <3>1. C <=> InEchoes(inflight[k])
      BY <1>1 DEF EchoedKeys, InEchoes
    <3> QED
      BY <3>1, QueuedIs, FlyingIs
  <2>2. (A \/ B \/ C) /\ ~(A /\ B) /\ ~(A /\ C) /\ ~(B /\ C)
    BY <2>1 DEF Places, Apart, Somewhere
  <2> HIDE DEF A, B, C
  <2>3. Cardinality({p \in 1 .. 3 : (p = 1 /\ A) \/ (p = 2 /\ B) \/ (p = 3 /\ C)}) = 1
    BY <2>2, OnePlace
  <2> QED
    BY <2>3 DEF A, B, C
<1>3. \A i : Held(i) => i \in Values(inflight)
  BY DEF Held, Values
<1>4. Queued \cup Values(flying) \subseteq Values(inflight)
  BY <1>3 DEF Queued, Values, Places, ContainerIsHeld, MigratorIsHeld, QueuedAt
<1>5. EchoedKeys \subseteq DOMAIN inflight
  BY DEF EchoedKeys, Places, EchoesAreHeld
<1> QED
  BY <1>2, <1>4, <1>5 DEF InFlightIsSomewhere

LEMMA NoneDeleted ==
    ASSUME Typed, PipelineInv
    PROVE  NobodyHoldsDeleted
<1> USE InvParts
<1>1. \A i \in Values(inflight) : Live(i)
  BY DEF Values, Tables, InFlightIsIn, InIsLive
<1>2. \A i \in Waiting : Live(i)
  <2>1. \A d \in Disks : \A n \in DOMAIN waiting[d] : Live(waiting[d][n])
    BY DEF Tables, WaitingIsIn, InIsLive
  <2> QED
    BY <2>1 DEF Waiting
<1>3. Queued \cup Values(flying) \subseteq Values(inflight)
  BY SomewhereOnce DEF InFlightIsSomewhere
<1> QED
  BY <1>1, <1>2, <1>3 DEF NobodyHoldsDeleted

(* Executor and migrator agree about every migration in flight: it is at   *)
(* exactly one of three places, and nobody holds an arbitratee that was    *)
(* deleted, under the same assumption on plans.                            *)
THEOREM InFlightIsKnownHolds == NothingRetargets => (Spec => []InFlightIsKnown)
<1>1. Typed /\ PipelineInv => InFlightIsKnown
  BY SomewhereOnce, NoneDeleted DEF InFlightIsKnown, Typed
<1> QED
  BY <1>1, AlwaysInv, PTL

-----------------------------------------------------------------------------
(***************************************************************************)
(* The HUB's side of migrations: its pins are its migrations, and every    *)
(* answer of the storage service finds what CompleteMigrate asserts, for   *)
(* any number of OBJs, disks, windows, failures, losses and removals.      *)
(***************************************************************************)

\* The key on the target that an event of the HUB is about.
EventKey(e) == IF e.type = "migrate" THEN <<e.key[1], e.target>> ELSE e.key

\* The HUB has an event about key k; the migrator has an answer about it.
AtHub(k) == \E n \in DOMAIN hubQueue : EventKey(hubQueue[n]) = k
Answers(n) == container[n].type = "complete"
Told(k) == \E n \in DOMAIN container : Answers(n) /\ container[n].key = k

-----------------------------------------------------------------------------
(* The inductive invariant: where a migration is between the migrator's    *)
(* table and its answer, as long as none expires.                          *)

\* The HUB is asked for a migration that has not begun, under the key of its
\* arbitratee, and told the end of one that it moves.
EventFits(e) ==
    /\ EventKey(e) \in DOMAIN flying
    /\ e.type = "migrate" => /\ EventKey(e) \notin DOMAIN moving
                             /\ e.key = KeyOf(flying[EventKey(e)])
    /\ e.type = "completed" => EventKey(e) \in DOMAIN moving
EventsOnce ==
    \A n, m \in DOMAIN hubQueue : EventKey(hubQueue[m]) = EventKey(hubQueue[n]) => m = n
EventsFit == EventsOnce /\ \A n \in DOMAIN hubQueue : EventFits(hubQueue[n])

\* The service migrates what the HUB moves, once, and has not told its end.
ProceduresFit ==
    \A k \in OBJKeys : procedures[k] > 0 =>
        procedures[k] = 1 /\ k \in DOMAIN moving /\ ~AtHub(k)

\* The migrator is answered once, when the HUB is done with the migration.
AnswersOnce ==
    \A n, m \in DOMAIN container :
        Answers(n) /\ Answers(m) /\ container[m].key = container[n].key => m = n
AnswersFit ==
    /\ AnswersOnce
    /\ \A k : Told(k) => k \in DOMAIN flying /\ k \notin DOMAIN moving /\ ~AtHub(k)

\* What the HUB moves is what the migrator waits for, from its source.
MovingFits ==
    \A k \in DOMAIN moving : k \in DOMAIN flying /\ moving[k] = KeyOf(flying[k])[2]

NoneExpired == spent["expiries"] = 0
Stages == EventsFit /\ ProceduresFit /\ AnswersFit /\ MovingFits
StagesInv == NoneExpired => Stages

-----------------------------------------------------------------------------
(* The two queues.                                                         *)

LEMMA SeqWith ==
    ASSUME NEW S, NEW s \in Seq(S), NEW e
    PROVE  s \in Seq(S \cup {e}) /\ e \in S \cup {e}
<1>1. Seq(S) \subseteq Seq(S \cup {e})
  BY SeqGrows
<1> QED
  BY <1>1

LEMMA HubAppended ==
    ASSUME Typed, EventsOnce, NEW e, ~AtHub(EventKey(e)), hubQueue' = Append(hubQueue, e)
    PROVE  /\ EventsOnce'
           /\ \A k : AtHub(k)' <=> AtHub(k) \/ k = EventKey(e)
           /\ \A n \in DOMAIN hubQueue' :
                 \/ hubQueue'[n] = e
                 \/ \E m \in DOMAIN hubQueue : hubQueue'[n] = hubQueue[m]
<1> DEFINE last == Len(hubQueue) + 1
<1>1. hubQueue \in Seq(HubEvents)
  BY TypedParts DEF QueuesTyped
<1>2. /\ DOMAIN hubQueue' = DOMAIN hubQueue \cup {last} /\ hubQueue'[last] = e
      /\ last \notin DOMAIN hubQueue
      /\ \A n \in DOMAIN hubQueue : hubQueue'[n] = hubQueue[n]
  BY <1>1, SeqWith, AppendAt
<1> HIDE DEF last
<1>3. \A k : AtHub(k)' <=> AtHub(k) \/ k = EventKey(e)
  BY <1>2 DEF AtHub
<1>4. EventsOnce'
  BY <1>2 DEF EventsOnce, AtHub
<1> QED
  BY <1>2, <1>3, <1>4

LEMMA HubShortened ==
    ASSUME Typed, EventsOnce, hubQueue # <<>>, hubQueue' = Tail(hubQueue)
    PROVE  /\ EventsOnce'
           /\ AtHub(EventKey(Head(hubQueue)))
           /\ \E m \in DOMAIN hubQueue : Head(hubQueue) = hubQueue[m]
           /\ \A k : AtHub(k)' <=> AtHub(k) /\ k # EventKey(Head(hubQueue))
           /\ \A n \in DOMAIN hubQueue' : \E m \in DOMAIN hubQueue :
                 hubQueue'[n] = hubQueue[m]
<1>1. hubQueue \in Seq(HubEvents)
  BY TypedParts DEF QueuesTyped
<1>2. /\ 1 \in DOMAIN hubQueue /\ Head(hubQueue) = hubQueue[1]
      /\ \A n \in DOMAIN hubQueue' :
            n + 1 \in DOMAIN hubQueue /\ hubQueue'[n] = hubQueue[n + 1]
            /\ n \in Nat /\ n > 0
      /\ \A n \in DOMAIN hubQueue : n = 1 \/ (n \in Nat /\ n - 1 \in DOMAIN hubQueue')
  BY <1>1, TailAt
<1>3. EventsOnce'
  <2> SUFFICES ASSUME NEW n \in DOMAIN hubQueue', NEW m \in DOMAIN hubQueue',
                      EventKey(hubQueue'[m]) = EventKey(hubQueue'[n])
               PROVE  m = n
    BY DEF EventsOnce
  <2>1. m + 1 = n + 1
    BY <1>2 DEF EventsOnce
  <2> QED
    BY <1>2, <2>1
<1>4. ASSUME NEW k, AtHub(k)'
      PROVE  AtHub(k) /\ k # EventKey(Head(hubQueue))
  <2>1. PICK n \in DOMAIN hubQueue' : EventKey(hubQueue'[n]) = k
    BY <1>4 DEF AtHub
  <2>2. n + 1 \in DOMAIN hubQueue /\ EventKey(hubQueue[n + 1]) = k /\ n + 1 # 1
    BY <1>2, <2>1
  <2> QED
    BY <1>2, <2>2 DEF AtHub, EventsOnce
<1>5. ASSUME NEW k, AtHub(k), k # EventKey(Head(hubQueue))
      PROVE  AtHub(k)'
  <2>1. PICK n \in DOMAIN hubQueue : EventKey(hubQueue[n]) = k
    BY <1>5 DEF AtHub
  <2>2. n # 1
    BY <1>2, <1>5, <2>1
  <2>3. n - 1 \in DOMAIN hubQueue' /\ hubQueue'[n - 1] = hubQueue[n]
    BY <1>2, <2>2
  <2> QED
    BY <2>1, <2>3 DEF AtHub
<1> QED
  BY <1>2, <1>3, <1>4, <1>5 DEF AtHub

LEMMA ContainerAppended ==
    ASSUME Typed, AnswersOnce, NEW e, container' = Append(container, e),
           e.type = "complete" => ~Told(e.key)
    PROVE  /\ AnswersOnce'
           /\ \A k : Told(k)' <=> Told(k) \/ (e.type = "complete" /\ k = e.key)
<1> DEFINE last == Len(container) + 1
<1>1. container \in Seq(ContainerItems)
  BY TypedParts DEF QueuesTyped
<1>2. /\ DOMAIN container' = DOMAIN container \cup {last} /\ container'[last] = e
      /\ last \notin DOMAIN container
      /\ \A n \in DOMAIN container : container'[n] = container[n]
  BY <1>1, SeqWith, AppendAt
<1> HIDE DEF last
<1>3. \A k : Told(k)' <=> Told(k) \/ (e.type = "complete" /\ k = e.key)
  BY <1>2 DEF Told, Answers
<1>4. AnswersOnce'
  BY <1>2 DEF AnswersOnce, Told, Answers
<1> QED
  BY <1>3, <1>4

LEMMA ContainerShortened ==
    ASSUME Typed, AnswersOnce, container # <<>>, container' = Tail(container)
    PROVE  /\ AnswersOnce'
           /\ Head(container).type = "complete" => Told(Head(container).key)
           /\ \A k : Told(k)' <=>
                 Told(k) /\ ~(Head(container).type = "complete" /\ k = Head(container).key)
<1>1. container \in Seq(ContainerItems)
  BY TypedParts DEF QueuesTyped
<1>2. /\ 1 \in DOMAIN container /\ Head(container) = container[1]
      /\ \A n \in DOMAIN container' :
            n + 1 \in DOMAIN container /\ container'[n] = container[n + 1]
            /\ n \in Nat /\ n > 0
      /\ \A n \in DOMAIN container : n = 1 \/ (n \in Nat /\ n - 1 \in DOMAIN container')
  BY <1>1, TailAt
<1>3. AnswersOnce'
  <2> SUFFICES ASSUME NEW n \in DOMAIN container', NEW m \in DOMAIN container',
                      Answers(n)', Answers(m)', container'[m].key = container'[n].key
               PROVE  m = n
    BY DEF AnswersOnce
  <2>1. Answers(n + 1) /\ Answers(m + 1)
    BY <1>2 DEF Answers
  <2>2. m + 1 = n + 1
    BY <1>2, <2>1 DEF AnswersOnce
  <2> QED
    BY <1>2, <2>2
<1>4. ASSUME NEW k, Told(k)'
      PROVE  Told(k) /\ ~(Head(container).type = "complete" /\ k = Head(container).key)
  <2>1. PICK n \in DOMAIN container' : Answers(n)' /\ container'[n].key = k
    BY <1>4 DEF Told
  <2>2. n + 1 \in DOMAIN container /\ Answers(n + 1) /\ container[n + 1].key = k
      /\ n + 1 # 1
    BY <1>2, <2>1 DEF Answers
  <2> QED
    BY <1>2, <2>2 DEF Told, AnswersOnce, Answers
<1>5. ASSUME NEW k, Told(k), ~(Head(container).type = "complete" /\ k = Head(container).key)
      PROVE  Told(k)'
  <2>1. PICK n \in DOMAIN container : Answers(n) /\ container[n].key = k
    BY <1>5 DEF Told
  <2>2. n # 1
    BY <1>2, <1>5, <2>1 DEF Answers
  <2>3. n - 1 \in DOMAIN container' /\ container'[n - 1] = container[n]
    BY <1>2, <2>2
  <2> QED
    BY <2>1, <2>3 DEF Told, Answers
<1> QED
  BY <1>2, <1>3, <1>4, <1>5 DEF Told, Answers

-----------------------------------------------------------------------------
(* The executor's steps: arbitratees keep their keys, and what the         *)
(* executor adds to the migrator's queue is not an answer.                 *)

LEMMA KeysStay ==
    ASSUME Typed, ExecutorStep
    PROVE  \A i \in DOMAIN item : item'[i].key = item[i].key
<1>1. ItemsTyped /\ MapsTyped
  BY TypedParts DEF HeapTyped
<1>2. \A S : /\ DOMAIN Delete(S) = DOMAIN item /\ Delete(S) \in Seq(Arbitratees)
             /\ \A i \in DOMAIN item : Delete(S)[i].key = item[i].key
  BY <1>1, DeleteKeeps
<1>3. CASE StartWindow \/ PlansDone \/ HandleEcho
  BY <1>2, <1>3 DEF StartWindow, PrepareArbitrator, PlansDone, HandleEcho, ArbitratorExpire,
                    ArbitratorComplete
<1>4. ASSUME NEW key \in astOBJs, NEW d \in Disks, ReceivePlan(key, d)
      PROVE  \A i \in DOMAIN item : item'[i].key = item[i].key
  <2> DEFINE old == IF key \in DOMAIN arbOut THEN {arbOut[key]} ELSE {}
             new == [key |-> key, target |-> d, deleted |-> FALSE]
  <2>1. item' = Delete(old) \/ item' = Append(Delete(old), new)
    BY <1>4 DEF ReceivePlan
  <2>2. \A i \in DOMAIN item : Append(Delete(old), new)[i] = Delete(old)[i]
    <3> HIDE DEF old, new
    <3> QED
      BY <1>2, SeqWith, AppendAt
  <2> HIDE DEF old, new
  <2> QED
    BY <1>2, <2>1, <2>2
<1>5. ASSUME NEW key \in astOBJs, NEW d \in Disks, Conflict(key, d)
      PROVE  \A i \in DOMAIN item : item'[i].key = item[i].key
  <2>1. \A i \in DOMAIN item : item[i] \in Arbitratees
    BY TypedParts, ItemsAreItems
  <2>2. item' = [item EXCEPT ![arbIn[key]] = [item[arbIn[key]] EXCEPT !.target = d]]
    BY <1>5 DEF Conflict
  <2>3. \A i \in DOMAIN item : [item[i] EXCEPT !.target = d].key = item[i].key
    BY <2>1 DEF Arbitratees
  <2> QED
    BY <2>2, <2>3
<1> QED
  BY <1>3, <1>4, <1>5 DEF ExecutorStep

LEMMA ExecutorLaunches ==
    ASSUME ExecutorStep
    PROVE  /\ UNCHANGED <<hubQueue, flying, hubVars, procedures, spent>>
           /\ container' = container \/ \E i : container' = Append(container, Submitted(i))
<1>1. UNCHANGED <<hubQueue, flying, hubVars, procedures, spent>>
  BY DEF ExecutorStep, StartWindow, PlansDone, HandleEcho, ReceivePlan, Conflict,
         relocatorFrame, migVars
<1> DEFINE launches ==
             container' = container \/ \E i : container' = Append(container, Submitted(i))
<1>2. StartWindow \/ PlansDone => launches
  BY DEF StartWindow, PrepareMigration, PlansDone
<1>3. HandleEcho => launches
  <2>1. \A k, d, freed, more : NextOfDisk(k, d, freed, more) => launches
    BY DEF NextOfDisk, Launch
  <2> HIDE DEF launches
  <2> QED
    BY <2>1 DEF HandleEcho
<1>4. \A key, d : ReceivePlan(key, d) \/ Conflict(key, d) => launches
  BY DEF ReceivePlan, ReceiveArbitratee, Conflict
<1> HIDE DEF launches
<1>5. launches
  BY <1>2, <1>3, <1>4 DEF ExecutorStep
<1> QED
  BY <1>1, <1>5 DEF launches

\* Steps that leave the events, the tables and the answers alone.
LEMMA StagesKept ==
    ASSUME Typed, Stages, UNCHANGED <<hubQueue, flying, moving, procedures>>,
           \A i \in DOMAIN item : item'[i].key = item[i].key,
           container' = container \/ \E i : container' = Append(container, Submitted(i))
    PROVE  Stages'
<1>1. \A k \in DOMAIN flying : KeyOf(flying[k])' = KeyOf(flying[k])
  BY ItemFacts DEF KeyOf
<1>2. AnswersOnce' /\ \A k : Told(k)' <=> Told(k)
  <2>1. CASE container' = container
    BY <2>1 DEF Stages, AnswersFit, AnswersOnce, Told, Answers
  <2>2. ASSUME NEW i, container' = Append(container, Submitted(i))
        PROVE  AnswersOnce' /\ \A k : Told(k)' <=> Told(k)
    <3>1. Submitted(i).type = "migrate"
      BY DEF Submitted
    <3> QED
      BY <2>2, <3>1, ContainerAppended DEF Stages, AnswersFit
  <2> QED
    BY <2>1, <2>2
<1>3. \A k : AtHub(k)' <=> AtHub(k)
  BY DEF AtHub
<1>4. EventsFit' /\ MovingFits'
  BY <1>1 DEF Stages, EventsFit, EventsOnce, EventFits, MovingFits
<1>5. ProceduresFit' /\ AnswersFit'
  BY <1>2, <1>3 DEF Stages, ProceduresFit, AnswersFit
<1> QED
  BY <1>4, <1>5 DEF Stages

-----------------------------------------------------------------------------
(* The migrator's steps.                                                   *)

\* What the migrator launches, nobody has heard of.
LEMMA DoMigrationStages ==
    ASSUME Typed, PipelineInv, Stages, DoMigration
    PROVE  Stages'
<1>1. /\ UNCHANGED <<item, inflight, moving, procedures>>
      /\ container # <<>> /\ Head(container).type = "migrate"
      /\ container' = Tail(container)
  BY DEF DoMigration, migratorFrame, exeVars, itemVars, Migrates, hubVars
<1>2. PICK i, t, e :
          /\ i = Head(container).item /\ t = TargetKeyOf(i)
          /\ e = [type |-> "migrate", key |-> KeyOf(i), target |-> TargetOf(i)]
          /\ hubQueue' = Append(hubQueue, e) /\ flying' = Insert(flying, t, i)
  BY DEF DoMigration
<1>3. InContainer(i) /\ Held(i)
  BY <1>1, <1>2, InvParts, ContainerTail
<1>4. t \notin DOMAIN flying
  <2> SUFFICES ASSUME t \in DOMAIN flying PROVE FALSE
    OBVIOUS
  <2>1. Held(flying[t]) /\ TargetKeyOf(flying[t]) = t /\ InMigrator(flying[t])
    BY InvParts DEF Places, MigratorIsHeld, InMigrator
  <2>2. TargetOf(flying[t]) = TargetOf(i)
    BY <1>2, <2>1 DEF TargetKeyOf, TargetOf
  <2>3. flying[t] = i
    BY <1>3, <2>1, <2>2, HeldAlone, InvParts
  <2> QED
    BY <1>3, <2>1, <2>3, InvParts DEF Places, Apart, Held
<1>5. e.type = "migrate" /\ EventKey(e) = t /\ e.key = KeyOf(i)
  BY <1>2 DEF EventKey, KeyOf, TargetOf, TargetKeyOf
<1>6. DOMAIN flying' = DOMAIN flying \cup {t} /\ flying'[t] = i
      /\ \A x \in DOMAIN flying : flying'[x] = flying[x]
  <2>1. DOMAIN flying' = DOMAIN flying \cup {t} /\ flying'[t] = i
    BY <1>2, <1>4, Lookups
  <2>2. \A x \in DOMAIN flying : Insert(flying, t, i)[x] = flying[x]
    BY <1>4 DEF Insert
  <2> QED
    BY <1>2, <2>1, <2>2
<1>7. t \notin DOMAIN moving /\ ~AtHub(t) /\ ~Told(t)
  BY <1>4 DEF Stages, MovingFits, EventsFit, EventFits, AtHub, AnswersFit
<1>8. /\ EventsOnce'
      /\ \A k : AtHub(k)' <=> AtHub(k) \/ k = t
      /\ \A n \in DOMAIN hubQueue' :
            hubQueue'[n] = e \/ \E m \in DOMAIN hubQueue : hubQueue'[n] = hubQueue[m]
  BY <1>2, <1>5, <1>7, HubAppended DEF Stages, EventsFit
<1>9. AnswersOnce' /\ \A k : Told(k)' => Told(k)
  BY <1>1, ContainerShortened DEF Stages, AnswersFit
<1>10. \A k \in DOMAIN flying : KeyOf(flying[k])' = KeyOf(flying[k])
  BY <1>1, <1>6 DEF KeyOf
<1>11. KeyOf(flying[t])' = KeyOf(i)
  BY <1>1, <1>6 DEF KeyOf
<1>12. EventFits(e)'
  BY <1>1, <1>5, <1>6, <1>7, <1>11 DEF EventFits
<1>13. \A m \in DOMAIN hubQueue : EventFits(hubQueue[m])
  BY DEF Stages, EventsFit
<1>14. ASSUME NEW x, EventFits(x) PROVE EventFits(x)'
  BY <1>1, <1>6, <1>10, <1>14 DEF EventFits
<1>15. EventsFit'
  BY <1>8, <1>12, <1>13, <1>14 DEF EventsFit
<1>16. MovingFits'
  BY <1>1, <1>6, <1>10 DEF Stages, MovingFits
<1>17. ProceduresFit' /\ AnswersFit'
  BY <1>1, <1>4, <1>6, <1>7, <1>8, <1>9 DEF Stages, ProceduresFit, AnswersFit
<1> QED
  BY <1>15, <1>16, <1>17 DEF Stages

LEMMA CompleteMigrationStages ==
    ASSUME Typed, Stages, CompleteMigration
    PROVE  Stages'
<1> DEFINE k == Head(container).key
<1>1. /\ UNCHANGED <<item, hubQueue, moving, procedures>>
      /\ container # <<>> /\ Head(container).type = "complete"
      /\ container' = Tail(container)
      /\ flying' = Erase(flying, k)
  BY DEF CompleteMigration, migratorFrame, exeVars, itemVars, Migrates, hubVars
<1> HIDE DEF k
<1>2. /\ DOMAIN flying' = DOMAIN flying \ {k}
      /\ \A x \in DOMAIN flying \ {k} : flying'[x] = flying[x]
  BY <1>1, Lookups
<1>3. Told(k) /\ AnswersOnce' /\ \A l : Told(l)' <=> Told(l) /\ l # k
  BY <1>1, ContainerShortened DEF Stages, AnswersFit, k
<1>4. k \notin DOMAIN moving /\ ~AtHub(k)
  BY <1>3 DEF Stages, AnswersFit
<1>5. \A l : AtHub(l)' <=> AtHub(l)
  BY <1>1 DEF AtHub
<1>6. \A l \in DOMAIN flying \ {k} : KeyOf(flying[l])' = KeyOf(flying[l])
  BY <1>1, <1>2 DEF KeyOf
<1>7. \A n \in DOMAIN hubQueue : EventKey(hubQueue[n]) # k
  BY <1>4 DEF AtHub
<1>8. EventsFit'
  BY <1>1, <1>2, <1>6, <1>7 DEF Stages, EventsFit, EventsOnce, EventFits
<1>9. MovingFits'
  BY <1>1, <1>2, <1>4, <1>6 DEF Stages, MovingFits
<1>10. ProceduresFit' /\ AnswersFit'
  BY <1>1, <1>2, <1>3, <1>5 DEF Stages, ProceduresFit, AnswersFit
<1> QED
  BY <1>8, <1>9, <1>10 DEF Stages

-----------------------------------------------------------------------------
(* The steps of the HUB and of the storage service.                        *)

\* Before the HUB migrates, nobody but the migrator knows of it.
LEMMA MigrateFacts ==
    ASSUME Typed, Stages, Migrate, NEW e, e = Head(hubQueue)
    PROVE  /\ e.type = "migrate" /\ EventKey(e) = <<e.key[1], e.target>>
           /\ TableKey(e) = EventKey(e) /\ EventKey(e) \in OBJKeys
           /\ e.key \in OBJKeys /\ e.target \in Disks /\ e.key[2] \in Disks
           /\ EventKey(e) \in DOMAIN flying /\ e.key = KeyOf(flying[EventKey(e)])
           /\ EventKey(e) \notin DOMAIN moving /\ AtHub(EventKey(e))
           /\ procedures[EventKey(e)] = 0
           /\ EventsOnce'
           /\ \A k : AtHub(k)' <=> AtHub(k) /\ k # EventKey(e)
           /\ \A n \in DOMAIN hubQueue' : /\ EventFits(hubQueue'[n])
                                          /\ EventKey(hubQueue'[n]) # EventKey(e)
<1>1. hubQueue # <<>> /\ e.type = "migrate" /\ hubQueue' = Tail(hubQueue)
  BY DEF Migrate, HubHandles
<1>2. e.key \in OBJKeys /\ e.target \in Disks
  BY <1>1, HubHead
<1>3. /\ EventKey(e) = <<e.key[1], e.target>> /\ TableKey(e) = EventKey(e)
      /\ EventKey(e) \in OBJKeys /\ e.key[2] \in Disks
  BY <1>1, <1>2 DEF EventKey, TableKey, OBJKeys
<1>4. /\ EventsOnce' /\ AtHub(EventKey(e))
      /\ \E m \in DOMAIN hubQueue : e = hubQueue[m]
      /\ \A k : AtHub(k)' <=> AtHub(k) /\ k # EventKey(e)
      /\ \A n \in DOMAIN hubQueue' : \E m \in DOMAIN hubQueue : hubQueue'[n] = hubQueue[m]
  BY <1>1, HubShortened DEF Stages, EventsFit
<1>5. EventFits(e)
  BY <1>4 DEF Stages, EventsFit
<1>6. procedures[EventKey(e)] = 0
  <2>1. procedures[EventKey(e)] \in Nat
    BY <1>3, TypedParts DEF ServiceTyped
  <2> QED
    BY <1>3, <1>4, <2>1 DEF Stages, ProceduresFit
<1>7. \A n \in DOMAIN hubQueue' : EventFits(hubQueue'[n])
  BY <1>4 DEF Stages, EventsFit
<1>8. \A n \in DOMAIN hubQueue' : AtHub(EventKey(hubQueue[n]))'
  BY DEF AtHub
<1> QED
  BY <1>1, <1>2, <1>3, <1>4, <1>5, <1>6, <1>7, <1>8 DEF EventFits

LEMMA MigrateStages ==
    ASSUME Typed, Stages, Migrate
    PROVE  Stages'
<1>1. PICK e, t : e = Head(hubQueue) /\ t = EventKey(e)
  OBVIOUS
<1>2. /\ e.type = "migrate" /\ t = <<e.key[1], e.target>>
      /\ TableKey(e) = t /\ t \in OBJKeys
      /\ t \in DOMAIN flying /\ e.key = KeyOf(flying[t])
      /\ t \notin DOMAIN moving /\ AtHub(t) /\ procedures[t] = 0
      /\ EventsOnce' /\ \A k : AtHub(k)' <=> AtHub(k) /\ k # t
      /\ \A n \in DOMAIN hubQueue' : /\ EventFits(hubQueue'[n])
                                     /\ EventKey(hubQueue'[n]) # t
  BY <1>1, MigrateFacts
<1>3. UNCHANGED <<item, flying>>
  BY DEF Migrate, hubFrame, exeVars, itemVars, migVars
<1>4. \A k \in DOMAIN flying : KeyOf(flying[k])' = KeyOf(flying[k])
  BY <1>3 DEF KeyOf
<1>5. ~Told(t)
  BY <1>2 DEF Stages, AnswersFit
<1>6. CASE moving' = Insert(moving, t, e.key[2]) /\ StartProcedure(t) /\ UNCHANGED container
  <2>1. DOMAIN moving' = DOMAIN moving \cup {t} /\ moving'[t] = e.key[2]
        /\ \A x \in DOMAIN moving : moving'[x] = moving[x]
    BY <1>2, <1>6 DEF Insert
  <2>2. procedures \in [OBJKeys -> Nat]
    BY TypedParts DEF ServiceTyped
  <2>3. procedures'[t] = 1 /\ \A k \in OBJKeys : k # t => procedures'[k] = procedures[k]
    <3>1. procedures' = [procedures EXCEPT ![t] = procedures[t] + 1]
      BY <1>6 DEF StartProcedure
    <3>2. procedures[t] + 1 = 1 /\ t \in OBJKeys
      BY <1>2
    <3> QED
      BY <2>2, <3>1, <3>2
  <2>4. EventsFit'
    <3>1. \A n \in DOMAIN hubQueue' : EventFits(hubQueue[n])'
      BY <1>2, <1>3, <1>4, <2>1 DEF EventFits
    <3> QED
      BY <1>2, <3>1 DEF EventsFit
  <2>5. MovingFits'
    BY <1>2, <1>3, <1>4, <2>1 DEF Stages, MovingFits
  <2>6. ProceduresFit'
    BY <1>2, <2>1, <2>2, <2>3 DEF Stages, ProceduresFit
  <2>7. AnswersFit'
    <3>1. AnswersOnce' /\ \A k : Told(k)' <=> Told(k)
      BY <1>6 DEF Stages, AnswersFit, AnswersOnce, Told, Answers
    <3> QED
      BY <1>2, <1>3, <1>5, <2>1, <3>1 DEF Stages, AnswersFit
  <2> QED
    BY <2>4, <2>5, <2>6, <2>7 DEF Stages
<1>7. CASE container' = Append(container, Ended(t, "notdone"))
          /\ UNCHANGED <<moving, procedures>>
  <2>1. Ended(t, "notdone").key = t
    BY DEF Ended
  <2>2. AnswersOnce' /\ \A k : Told(k)' => Told(k) \/ k = t
    BY <1>5, <1>7, <2>1, ContainerAppended DEF Stages, AnswersFit
  <2>3. EventsFit'
    <3>1. \A n \in DOMAIN hubQueue' : EventFits(hubQueue[n])'
      BY <1>2, <1>3, <1>4, <1>7 DEF EventFits
    <3> QED
      BY <1>2, <3>1 DEF EventsFit
  <2>4. MovingFits' /\ ProceduresFit'
    BY <1>2, <1>3, <1>4, <1>7 DEF Stages, MovingFits, ProceduresFit
  <2>5. AnswersFit'
    BY <1>2, <1>3, <1>7, <2>2 DEF Stages, AnswersFit
  <2> QED
    BY <2>3, <2>4, <2>5 DEF Stages
<1> QED
  BY <1>1, <1>2, <1>6, <1>7 DEF Migrate

\* The end of a migration that the HUB moves, and of which nobody else knows.
LEMMA CompleteFacts ==
    ASSUME Typed, Stages, CompleteMigrate, NEW e, e = Head(hubQueue)
    PROVE  /\ e.type = "completed" /\ EventKey(e) = e.key
           /\ e.key \in OBJKeys /\ e.key[2] \in Disks /\ e.status \in Outcomes
           /\ e.key \in DOMAIN moving /\ moving[e.key] \in Disks
           /\ e.key \in DOMAIN flying /\ moving[e.key] = KeyOf(flying[e.key])[2]
           /\ ~Told(e.key) /\ ~(procedures[e.key] > 0)
           /\ EventsOnce'
           /\ \A k : AtHub(k)' <=> AtHub(k) /\ k # e.key
           /\ \A n \in DOMAIN hubQueue' : /\ EventFits(hubQueue'[n])
                                          /\ EventKey(hubQueue'[n]) # e.key
<1>1. hubQueue # <<>> /\ e.type = "completed" /\ hubQueue' = Tail(hubQueue)
  BY DEF CompleteMigrate, HubHandles
<1>2. e.key \in OBJKeys /\ e.status \in Outcomes
      /\ EventKey(e) = e.key /\ e.key[2] \in Disks
  BY <1>1, HubHead DEF EventKey, OBJKeys
<1>3. /\ EventsOnce' /\ AtHub(e.key)
      /\ \E m \in DOMAIN hubQueue : e = hubQueue[m]
      /\ \A k : AtHub(k)' <=> AtHub(k) /\ k # e.key
      /\ \A n \in DOMAIN hubQueue' : \E m \in DOMAIN hubQueue : hubQueue'[n] = hubQueue[m]
  BY <1>1, <1>2, HubShortened DEF Stages, EventsFit
<1>4. EventFits(e)
  BY <1>3 DEF Stages, EventsFit
<1>5. e.key \in DOMAIN moving
  BY <1>1, <1>2, <1>4 DEF EventFits
<1>6. moving[e.key] \in Disks
  BY <1>5, TypedParts, InMaps DEF HubTyped
<1>7. ~Told(e.key) /\ ~(procedures[e.key] > 0)
  BY <1>2, <1>3 DEF Stages, AnswersFit, ProceduresFit
<1>8. \A n \in DOMAIN hubQueue' : EventFits(hubQueue'[n])
  BY <1>3 DEF Stages, EventsFit
<1>9. \A n \in DOMAIN hubQueue' : AtHub(EventKey(hubQueue[n]))'
  BY DEF AtHub
<1> QED
  BY <1>1, <1>2, <1>3, <1>5, <1>6, <1>7, <1>8, <1>9 DEF Stages, MovingFits

LEMMA CompleteMigrateStages ==
    ASSUME Typed, Stages, CompleteMigrate
    PROVE  Stages'
<1>1. PICK e, t : e = Head(hubQueue) /\ t = e.key
  OBVIOUS
<1>2. /\ t \in OBJKeys /\ t \in DOMAIN moving /\ t \in DOMAIN flying
      /\ ~Told(t) /\ ~(procedures[t] > 0)
      /\ EventsOnce' /\ \A k : AtHub(k)' <=> AtHub(k) /\ k # t
      /\ \A n \in DOMAIN hubQueue' : /\ EventFits(hubQueue'[n])
                                     /\ EventKey(hubQueue'[n]) # t
  BY <1>1, CompleteFacts
<1>3. UNCHANGED <<item, flying, procedures>>
  BY DEF CompleteMigrate, hubFrame, exeVars, itemVars, migVars
<1>4. \A k \in DOMAIN flying : KeyOf(flying[k])' = KeyOf(flying[k])
  BY <1>3 DEF KeyOf
<1>5. CASE UNCHANGED <<moving, container>>
  <2>1. EventsFit'
    <3>1. ASSUME NEW x, EventFits(x) PROVE EventFits(x)'
      BY <1>3, <1>4, <1>5, <3>1 DEF EventFits
    <3> QED
      BY <1>2, <3>1 DEF EventsFit
  <2>2. AnswersOnce' /\ \A k : Told(k)' <=> Told(k)
    BY <1>5 DEF Stages, AnswersFit, AnswersOnce, Told, Answers
  <2>3. MovingFits' /\ ProceduresFit' /\ AnswersFit'
    BY <1>2, <1>3, <1>4, <1>5, <2>2 DEF Stages, MovingFits, ProceduresFit, AnswersFit
  <2> QED
    BY <2>1, <2>3 DEF Stages
<1>6. CASE moving' = Erase(moving, t) /\ container' = Append(container, Ended(t, e.status))
  <2>1. /\ DOMAIN moving' = DOMAIN moving \ {t}
        /\ \A x \in DOMAIN moving \ {t} : moving'[x] = moving[x]
    BY <1>6, Lookups
  <2>2. Ended(t, e.status).key = t
    BY DEF Ended
  <2>3. AnswersOnce' /\ \A k : Told(k)' => Told(k) \/ k = t
    BY <1>2, <1>6, <2>2, ContainerAppended DEF Stages, AnswersFit
  <2>4. EventsFit'
    <3>1. \A n \in DOMAIN hubQueue' : EventFits(hubQueue[n])'
      BY <1>2, <1>3, <1>4, <2>1 DEF EventFits
    <3> QED
      BY <1>2, <3>1 DEF EventsFit
  <2>5. MovingFits' /\ ProceduresFit'
    BY <1>2, <1>3, <1>4, <2>1 DEF Stages, MovingFits, ProceduresFit
  <2>6. AnswersFit'
    BY <1>2, <1>3, <2>1, <2>3 DEF Stages, AnswersFit
  <2> QED
    BY <2>4, <2>5, <2>6 DEF Stages
<1> QED
  BY <1>1, <1>5, <1>6 DEF CompleteMigrate

LEMMA ServiceStages ==
    ASSUME Typed, Stages, ServiceStep
    PROVE  Stages'
<1>1. UNCHANGED <<item, flying, moving, container>>
  BY DEF ServiceStep, Notify, Lose, hubFrame, exeVars, itemVars, migVars, hubVars
<1>2. PICK k \in OBJKeys : Notify(k) \/ Lose(k)
  BY DEF ServiceStep
<1>3. /\ procedures[k] = 1 /\ k \in DOMAIN moving /\ ~AtHub(k)
      /\ procedures' = [procedures EXCEPT ![k] = 0]
  <2>1. procedures[k] > 0 /\ EndProcedure(k)
    BY <1>2 DEF Notify, Lose
  <2>2. procedures[k] = 1 /\ k \in DOMAIN moving /\ ~AtHub(k)
    BY <2>1 DEF Stages, ProceduresFit
  <2> QED
    BY <2>1, <2>2 DEF EndProcedure
<1>4. k \in DOMAIN flying /\ ~Told(k)
  BY <1>3 DEF Stages, MovingFits, AnswersFit
<1>5. procedures \in [OBJKeys -> Nat]
  BY TypedParts DEF ServiceTyped
<1>6. \A l \in DOMAIN flying : KeyOf(flying[l])' = KeyOf(flying[l])
  BY <1>1 DEF KeyOf
<1>7. AnswersOnce' /\ \A l : Told(l)' <=> Told(l)
  BY <1>1 DEF Stages, AnswersFit, AnswersOnce, Told, Answers
<1>8. ASSUME NEW x, EventFits(x) PROVE EventFits(x)'
  BY <1>1, <1>6, <1>8 DEF EventFits
<1>9. EventsOnce' /\ (\A n \in DOMAIN hubQueue' : EventFits(hubQueue[n])')
      /\ \A l : AtHub(l)' => AtHub(l) \/ l = k
  <2>1. CASE Notify(k)
    <3>1. PICK status \in Results :
              hubQueue' = Append(hubQueue,
                  [type |-> "completed", key |-> k, status |-> status])
      BY <2>1 DEF Notify
    <3> DEFINE e == [type |-> "completed", key |-> k, status |-> status]
    <3>2. e.type = "completed" /\ EventKey(e) = k
      BY DEF EventKey
    <3>3. EventFits(e)'
      BY <1>1, <1>3, <1>4, <3>2 DEF EventFits
    <3> HIDE DEF e
    <3>4. /\ EventsOnce'
          /\ \A l : AtHub(l)' <=> AtHub(l) \/ l = k
          /\ \A n \in DOMAIN hubQueue' :
                hubQueue'[n] = e \/ \E m \in DOMAIN hubQueue : hubQueue'[n] = hubQueue[m]
      BY <1>3, <3>1, <3>2, HubAppended DEF Stages, EventsFit, e
    <3> QED
      BY <1>8, <3>3, <3>4 DEF Stages, EventsFit
  <2>2. CASE Lose(k)
    BY <1>8, <2>2 DEF Lose, Stages, EventsFit, EventsOnce, AtHub
  <2> QED
    BY <1>2, <2>1, <2>2
<1>10. EventsFit'
  BY <1>9 DEF EventsFit
<1>11. MovingFits'
  BY <1>1, <1>6 DEF Stages, MovingFits
<1>12. ProceduresFit'
  BY <1>1, <1>3, <1>5, <1>9 DEF Stages, ProceduresFit
<1>13. AnswersFit'
  BY <1>1, <1>4, <1>7, <1>9 DEF Stages, AnswersFit
<1> QED
  BY <1>10, <1>11, <1>12, <1>13 DEF Stages

\* Once expired, always expired.
LEMMA NoExpiry ==
    ASSUME Typed, NoneExpired'
    PROVE  ~CheckExpired
<1>1. spent["expiries"] \in Nat /\ spent \in [Bounds -> Nat] /\ "expiries" \in Bounds
  BY TypedParts DEF ServiceTyped, Bounds
<1> QED
  BY <1>1 DEF CheckExpired, Spend, NoneExpired

LEMMA NoneExpiredBefore ==
    ASSUME Typed, NoneExpired', [Next]_vars
    PROVE  NoneExpired
<1>1. spent \in [Bounds -> Nat] /\ "expiries" \in Bounds
  BY TypedParts DEF ServiceTyped, Bounds
<1>2. \A b : b # "expiries" /\ Spend(b) => NoneExpired
  BY <1>1 DEF Spend, NoneExpired
<1>3. ExecutorStep => NoneExpired
  BY ExecutorLaunches DEF NoneExpired
<1>4. GeneratorStep => NoneExpired
  BY <1>2 DEF GeneratorStep, LearnConfig, ResolveDeletedDisk, NoneExpired
<1>5. MigratorStep \/ UNCHANGED vars => NoneExpired
  BY NoExpiry DEF MigratorStep, DoMigration, CompleteMigration, vars, NoneExpired
<1>6. ServiceStep => NoneExpired
  BY <1>2 DEF ServiceStep, Notify, Lose, NoneExpired
<1>7. HubStep => NoneExpired
  BY <1>2 DEF HubStep, Migrate, CompleteMigrate, RemoveDisk, DeleteOBJ, NoneExpired
<1> QED
  BY <1>3, <1>4, <1>5, <1>6, <1>7 DEF Next

LEMMA StagesStep ==
    ASSUME Typed, PipelineInv, StagesInv, [Next]_vars
    PROVE  StagesInv'
<1> SUFFICES ASSUME NoneExpired' PROVE Stages'
  BY DEF StagesInv
<1> DEFINE keys == \A i \in DOMAIN item : item'[i].key = item[i].key
           quiet == /\ UNCHANGED <<hubQueue, flying, moving, procedures>>
                    /\ \/ container' = container
                       \/ \E i : container' = Append(container, Submitted(i))
<1>1. \/ ExecutorStep
      \/ DoMigration \/ CompleteMigration \/ CheckExpired
      \/ Migrate \/ CompleteMigrate \/ ServiceStep
      \/ GeneratorStep \/ (\E d \in Disks : RemoveDisk(d)) \/ UNCHANGED vars
      \/ \E key \in OBJKeys : DeleteOBJ(key)
  BY DEF Next, MigratorStep, HubStep
<1>2. ~CheckExpired
  BY NoExpiry
<1>3. NoneExpired
  BY NoneExpiredBefore
<1>4. Stages
  BY <1>3 DEF StagesInv
<1>5. CASE ExecutorStep
  BY <1>4, <1>5, ExecutorLaunches, KeysStay, StagesKept DEF hubVars
<1>6. CASE DoMigration
  BY <1>4, <1>6, DoMigrationStages
<1>7. CASE CompleteMigration
  BY <1>4, <1>7, CompleteMigrationStages
<1>8. CASE Migrate
  BY <1>4, <1>8, MigrateStages
<1>9. CASE CompleteMigrate
  BY <1>4, <1>9, CompleteMigrateStages
<1>10. CASE ServiceStep
  BY <1>4, <1>10, ServiceStages
<1>11. CASE \/ GeneratorStep \/ (\E d \in Disks : RemoveDisk(d)) \/ UNCHANGED vars
            \/ \E key \in OBJKeys : DeleteOBJ(key)
  <2>1. UNCHANGED <<item, hubQueue, flying, moving, procedures, container>>
    BY <1>11 DEF GeneratorStep, LearnConfig, ResolveDeletedDisk,
        RemoveDisk, DeleteOBJ, vars,
                 exeVars, itemVars, migVars, hubVars, hubFrame
  <2> QED
    BY <1>4, <2>1, StagesKept
<1> QED
  BY <1>1, <1>2, <1>5, <1>6, <1>7, <1>8, <1>9, <1>10, <1>11

-----------------------------------------------------------------------------
(* Pins.                                                                   *)

GoingTo(m, d) == {k \in DOMAIN m : k[2] = d}
ComingFrom(m, d) == {k \in DOMAIN m : m[k] = d}

OneMore(m, n, k, d) ==
    /\ Cardinality(GoingTo(m, d)) \in Nat /\ Cardinality(ComingFrom(m, d)) \in Nat
    /\ Cardinality(GoingTo(n, d)) = Cardinality(GoingTo(m, d)) + (IF k[2] = d THEN 1 ELSE 0)
    /\ Cardinality(ComingFrom(n, d)) = Cardinality(ComingFrom(m, d))
                                       + (IF n[k] = d THEN 1 ELSE 0)

\* One more entry adds one to the counts of its two disks.
LEMMA OneMoreMoves ==
    ASSUME NEW m, NEW n, NEW k, NEW d, IsFiniteSet(DOMAIN m), k \notin DOMAIN m,
           DOMAIN n = DOMAIN m \cup {k}, \A x \in DOMAIN m : n[x] = m[x]
    PROVE  OneMore(m, n, k, d)
<1>1. IsFiniteSet(GoingTo(m, d)) /\ IsFiniteSet(ComingFrom(m, d))
  BY FS_Subset DEF GoingTo, ComingFrom
<1>2. Cardinality(GoingTo(m, d)) \in Nat /\ Cardinality(ComingFrom(m, d)) \in Nat
  BY <1>1, FS_CardinalityType
<1>3. Cardinality(GoingTo(n, d)) = Cardinality(GoingTo(m, d)) + (IF k[2] = d THEN 1 ELSE 0)
  <2>1. CASE k[2] = d
    <3>1. GoingTo(n, d) = GoingTo(m, d) \cup {k} /\ k \notin GoingTo(m, d)
      BY <2>1 DEF GoingTo
    <3> QED
      BY <1>1, <2>1, <3>1, FS_AddElement
  <2>2. CASE k[2] # d
    <3>1. GoingTo(n, d) = GoingTo(m, d)
      BY <2>2 DEF GoingTo
    <3> QED
      BY <1>2, <2>2, <3>1
  <2> QED
    BY <2>1, <2>2
<1>4. Cardinality(ComingFrom(n, d)) = Cardinality(ComingFrom(m, d))
                                      + (IF n[k] = d THEN 1 ELSE 0)
  <2>1. CASE n[k] = d
    <3>1. ComingFrom(n, d) = ComingFrom(m, d) \cup {k} /\ k \notin ComingFrom(m, d)
      BY <2>1 DEF ComingFrom
    <3> QED
      BY <1>1, <2>1, <3>1, FS_AddElement
  <2>2. CASE n[k] # d
    <3>1. ComingFrom(n, d) = ComingFrom(m, d)
      BY <2>2 DEF ComingFrom
    <3> QED
      BY <1>2, <2>2, <3>1
  <2> QED
    BY <2>1, <2>2
<1> QED
  BY <1>2, <1>3, <1>4 DEF OneMore

PinsAre(p, m) ==
    \A d \in Disks : p[d] = Cardinality(GoingTo(m, d)) + Cardinality(ComingFrom(m, d))
PinsInv == IsFiniteSet(DOMAIN moving) /\ (NoneExpired => PinsAre(pinned, moving))

LEMMA MigratePins ==
    ASSUME Typed, PipelineInv, Stages, PinsAre(pinned, moving),
           IsFiniteSet(DOMAIN moving), Migrate
    PROVE  PinsAre(pinned, moving)'
<1>1. PICK e, t : e = Head(hubQueue) /\ t = EventKey(e)
  OBVIOUS
<1>2. /\ t = <<e.key[1], e.target>> /\ TableKey(e) = t
      /\ t \in DOMAIN flying /\ e.key = KeyOf(flying[t]) /\ t \notin DOMAIN moving
      /\ e.key \in OBJKeys /\ e.target \in Disks /\ e.key[2] \in Disks
  BY <1>1, MigrateFacts
<1>3. e.key[2] # e.target
  <2>1. Held(flying[t]) /\ TargetKeyOf(flying[t]) = t /\ flying[t] \in DOMAIN item
    BY <1>2, ItemFacts, InvParts DEF Places, MigratorIsHeld
  <2>2. KeyOf(flying[t])[2] # TargetOf(flying[t])
    BY <2>1, InvParts DEF Tables, ItemsMove, KeyOf, TargetOf
  <2>3. TargetOf(flying[t]) = e.target
    BY <1>2, <2>1 DEF TargetKeyOf, TargetOf
  <2> QED
    BY <1>2, <2>2, <2>3
<1>4. CASE /\ pinned' = [d \in Disks |-> IF d \in {e.key[2], e.target}
                                         THEN pinned[d] + 1 ELSE pinned[d]]
           /\ moving' = Insert(moving, t, e.key[2])
  <2>1. DOMAIN moving' = DOMAIN moving \cup {t} /\ moving'[t] = e.key[2]
        /\ \A x \in DOMAIN moving : moving'[x] = moving[x]
    BY <1>2, <1>4 DEF Insert
  <2>2. ASSUME NEW d \in Disks
        PROVE  pinned'[d] = Cardinality(GoingTo(moving', d))
                            + Cardinality(ComingFrom(moving', d))
    <3>1. /\ Cardinality(GoingTo(moving, d)) \in Nat
          /\ Cardinality(ComingFrom(moving, d)) \in Nat
          /\ Cardinality(GoingTo(moving', d)) = Cardinality(GoingTo(moving, d))
                                                + (IF t[2] = d THEN 1 ELSE 0)
          /\ Cardinality(ComingFrom(moving', d)) = Cardinality(ComingFrom(moving, d))
                                                   + (IF moving'[t] = d THEN 1 ELSE 0)
      BY <1>2, <2>1, OneMoreMoves DEF OneMore
    <3>2. t[2] = e.target
      BY <1>2
    <3>3. pinned[d] = Cardinality(GoingTo(moving, d)) + Cardinality(ComingFrom(moving, d))
      BY DEF PinsAre
    <3>4. pinned'[d] = IF d \in {e.key[2], e.target} THEN pinned[d] + 1 ELSE pinned[d]
      BY <1>4
    <3> QED
      BY <1>3, <2>1, <3>1, <3>2, <3>3, <3>4
  <2> QED
    BY <2>2 DEF PinsAre
<1>5. CASE UNCHANGED <<pinned, moving>>
  BY <1>5 DEF PinsAre
<1> QED
  BY <1>1, <1>2, <1>4, <1>5 DEF Migrate

\* The pins of two disks, each pinned, go down by one.
LEMMA UnpinTwo ==
    ASSUME NEW p \in [Disks -> Nat], NEW a \in Disks, NEW b \in Disks, a # b,
           p[a] > 0, p[b] > 0
    PROVE  /\ UnpinBoth(p, a, b) \in [Disks -> Nat]
           /\ \A d \in Disks : UnpinBoth(p, a, b)[d] =
                 IF d \in {a, b} THEN p[d] - 1 ELSE p[d]
<1> DEFINE q == Unpin(p, a)
<1>1. q \in [Disks -> Nat] /\ \A d \in Disks : q[d] = IF d = a THEN p[d] - 1 ELSE p[d]
  BY DEF Unpin
<1> HIDE DEF q
<1>2. /\ Unpin(q, b) \in [Disks -> Nat]
      /\ \A d \in Disks : Unpin(q, b)[d] = IF d = b THEN q[d] - 1 ELSE q[d]
  BY <1>1 DEF Unpin
<1>3. UnpinBoth(p, a, b) = Unpin(q, b)
  BY DEF UnpinBoth, q
<1> QED
  BY <1>1, <1>2, <1>3

LEMMA CompletePins ==
    ASSUME Typed, PipelineInv, Stages, PinsAre(pinned, moving), IsFiniteSet(DOMAIN moving),
           CompleteMigrate
    PROVE  PinsAre(pinned, moving)'
<1>1. PICK e, t, s : e = Head(hubQueue) /\ t = e.key /\ s = moving[t]
  OBVIOUS
<1>2. /\ t \in DOMAIN flying /\ s = KeyOf(flying[t])[2] /\ t \in DOMAIN moving
      /\ t \in OBJKeys /\ s \in Disks /\ t[2] \in Disks
  BY <1>1, CompleteFacts
<1>3. s # t[2]
  <2>1. Held(flying[t]) /\ TargetKeyOf(flying[t]) = t /\ flying[t] \in DOMAIN item
    BY <1>2, ItemFacts, InvParts DEF Places, MigratorIsHeld
  <2>2. KeyOf(flying[t])[2] # TargetOf(flying[t])
    BY <2>1, InvParts DEF Tables, ItemsMove, KeyOf, TargetOf
  <2>3. TargetOf(flying[t]) = t[2]
    BY <2>1 DEF TargetKeyOf, TargetOf
  <2> QED
    BY <1>2, <2>2, <2>3
<1>4. CASE UNCHANGED <<pinned, moving>>
  BY <1>4 DEF PinsAre
<1>5. CASE pinned' = UnpinBoth(pinned, s, t[2]) /\ moving' = Erase(moving, t)
  <2>1. /\ DOMAIN moving' = DOMAIN moving \ {t}
        /\ \A x \in DOMAIN moving \ {t} : moving'[x] = moving[x]
    BY <1>5, Lookups
  <2>2. IsFiniteSet(DOMAIN moving')
    BY <2>1, FS_Subset
  <2>3. ASSUME NEW d \in Disks
        PROVE  /\ Cardinality(GoingTo(moving', d)) \in Nat
               /\ Cardinality(ComingFrom(moving', d)) \in Nat
               /\ Cardinality(GoingTo(moving, d)) = Cardinality(GoingTo(moving', d))
                                                    + (IF t[2] = d THEN 1 ELSE 0)
               /\ Cardinality(ComingFrom(moving, d)) = Cardinality(ComingFrom(moving', d))
                                                       + (IF s = d THEN 1 ELSE 0)
    <3>1. PICK m, n : m = moving' /\ n = moving
      OBVIOUS
    <3>2. /\ DOMAIN n = DOMAIN m \cup {t} /\ t \notin DOMAIN m /\ IsFiniteSet(DOMAIN m)
          /\ \A x \in DOMAIN m : n[x] = m[x]
      BY <1>2, <2>1, <2>2, <3>1
    <3>3. OneMore(m, n, t, d)
      BY <3>2, OneMoreMoves
    <3> QED
      BY <1>1, <3>1, <3>3 DEF OneMore
  <2>4. \A d \in Disks : pinned[d] = Cardinality(GoingTo(moving, d))
                                     + Cardinality(ComingFrom(moving, d))
    BY DEF PinsAre
  <2>5. pinned \in [Disks -> Nat] /\ pinned[s] > 0 /\ pinned[t[2]] > 0
    BY <1>2, <2>3, <2>4, TypedParts DEF HubTyped
  <2>6. \A d \in Disks : pinned'[d] = IF d \in {s, t[2]} THEN pinned[d] - 1 ELSE pinned[d]
    BY <1>2, <1>3, <1>5, <2>5, UnpinTwo
  <2>7. ASSUME NEW d \in Disks
        PROVE  pinned'[d] = Cardinality(GoingTo(moving', d))
                            + Cardinality(ComingFrom(moving', d))
    BY <1>3, <2>3, <2>4, <2>6
  <2> QED
    BY <2>7 DEF PinsAre
<1> QED
  BY <1>1, <1>4, <1>5 DEF CompleteMigrate, viewVars

LEMMA PinsStep ==
    ASSUME Typed, PipelineInv, StagesInv, PinsInv, [Next]_vars
    PROVE  PinsInv'
<1>1. CASE UNCHANGED <<pinned, moving>>
  <2>1. NoneExpired' => NoneExpired
    BY NoneExpiredBefore
  <2> QED
    BY <1>1, <2>1 DEF PinsInv, PinsAre
<1>2. CASE Migrate \/ CompleteMigrate
  <2>1. NoneExpired' <=> NoneExpired
    BY <1>2 DEF Migrate, CompleteMigrate, NoneExpired
  <2>2. IsFiniteSet(DOMAIN moving')
    <3>1. \E k : DOMAIN moving' \subseteq DOMAIN moving \cup {k}
      <4>1. CASE UNCHANGED moving
        BY <4>1
      <4>2. ASSUME NEW k, NEW v, moving' = Insert(moving, k, v)
            PROVE  \E l : DOMAIN moving' \subseteq DOMAIN moving \cup {l}
        <5>1. DOMAIN moving' = DOMAIN moving \cup {k}
          BY <4>2, Lookups
        <5> QED
          BY <5>1
      <4>3. ASSUME NEW k, moving' = Erase(moving, k)
            PROVE  \E l : DOMAIN moving' \subseteq DOMAIN moving \cup {l}
        BY <4>3, Lookups
      <4> QED
        BY <1>2, <4>1, <4>2, <4>3 DEF Migrate, CompleteMigrate
    <3>2. PICK k : DOMAIN moving' \subseteq DOMAIN moving \cup {k}
      BY <3>1
    <3>3. IsFiniteSet(DOMAIN moving \cup {k})
      BY FS_AddElement DEF PinsInv
    <3> QED
      BY <3>2, <3>3, FS_Subset
  <2>3. NoneExpired => PinsAre(pinned, moving)'
    BY <1>2, MigratePins, CompletePins DEF PinsInv, StagesInv
  <2> QED
    BY <2>1, <2>2, <2>3 DEF PinsInv
<1>3. UNCHANGED <<pinned, moving>> \/ Migrate \/ CompleteMigrate
  <2>1. ExecutorStep \/ GeneratorStep \/ MigratorStep \/ ServiceStep \/ UNCHANGED vars
        => UNCHANGED <<pinned, moving>>
    BY ExecutorLaunches DEF GeneratorStep, LearnConfig, ResolveDeletedDisk, MigratorStep,
       DoMigration, CompleteMigration, CheckExpired, migratorFrame,
       ServiceStep, Notify, Lose,
       hubVars, viewVars, vars
  <2>2. HubStep => UNCHANGED <<pinned, moving>> \/ Migrate \/ CompleteMigrate
    BY DEF HubStep, RemoveDisk, DeleteOBJ, viewVars
  <2> QED
    BY <2>1, <2>2 DEF Next
<1> QED
  BY <1>1, <1>2, <1>3

-----------------------------------------------------------------------------
(* Views.                                                                  *)

\* A view that is gone stays so, and one goes no sooner than its last pin.
LEMMA DelayedStep ==
    ASSUME Typed, DelayedWhilePinned, [Next]_vars
    PROVE  DelayedWhilePinned'
<1>1. hubDisks \in [Disks -> {"present", "delayed", "gone"}] /\ pinned \in [Disks -> Nat]
  BY TypedParts DEF HubTyped
<1>2. CASE UNCHANGED <<pinned, hubDisks>>
  BY <1>2 DEF DelayedWhilePinned
<1>3. CASE Migrate
  <2>1. PICK e : e = Head(hubQueue)
    OBVIOUS
  <2>2. CASE /\ HasView(e.key[2]) /\ HasView(e.target) /\ UNCHANGED hubDisks
             /\ pinned' = [d \in Disks |-> IF d \in {e.key[2], e.target}
                                           THEN pinned[d] + 1 ELSE pinned[d]]
    BY <1>1, <2>2 DEF DelayedWhilePinned, HasView
  <2> QED
    BY <1>2, <1>3, <2>1, <2>2 DEF Migrate
<1>4. CASE CompleteMigrate
  <2>1. PICK e, t, s : e = Head(hubQueue) /\ t = e.key[2] /\ s = moving[e.key]
    OBVIOUS
  <2> DEFINE ready == {d \in {s, t} : hubDisks[d] = "delayed" /\ pinned'[d] = 0}
  <2>2. CASE /\ HasView(s) /\ HasView(t) /\ RemoveViews(ready)
             /\ pinned' = UnpinBoth(pinned, s, t)
    <3>1. \A d \in Disks : d \notin {s, t} => pinned'[d] = pinned[d]
      BY <1>1, <2>2 DEF UnpinBoth, Unpin
    <3>2. \A d \in Disks : pinned'[d] \in Nat
      <4>1. Typed'
        BY StepTyped
      <4> QED
        BY <4>1, TypedParts DEF Typed, TypeOK
    <3>3. \A d \in Disks : hubDisks'[d] = IF d \notin ready THEN hubDisks[d]
                                          ELSE IF pinned'[d] = 0 THEN "gone" ELSE "delayed"
      BY <2>2 DEF RemoveViews
    <3>4. ASSUME NEW d \in Disks
          PROVE  /\ hubDisks'[d] = "delayed" => pinned'[d] > 0
                 /\ hubDisks'[d] = "gone" => pinned'[d] = 0
      <4>1. CASE d \in ready
        BY <3>3, <4>1
      <4>2. CASE d \notin ready /\ d \in {s, t}
        BY <2>2, <3>2, <3>3, <4>2 DEF HasView
      <4>3. CASE d \notin {s, t}
        BY <3>1, <3>3, <4>3 DEF DelayedWhilePinned
      <4> QED
        BY <4>1, <4>2, <4>3
    <3> QED
      BY <3>4 DEF DelayedWhilePinned
  <2>3. CompletionAsserts(e) = {} => HasView(s) /\ HasView(t)
    BY <2>1 DEF CompletionAsserts
  <2> QED
    BY <1>2, <1>4, <2>1, <2>2, <2>3 DEF CompleteMigrate, viewVars
<1>5. ASSUME NEW d \in Disks, RemoveDisk(d)
      PROVE  DelayedWhilePinned'
  <2>1. CASE UNCHANGED pinned /\ RemoveViews({d})
    BY <1>1, <1>5, <2>1 DEF RemoveDisk, RemoveViews, DelayedWhilePinned
  <2> QED
    BY <1>2, <1>5, <2>1 DEF RemoveDisk, viewVars
<1>6. ExecutorStep \/ GeneratorStep \/ MigratorStep \/ ServiceStep \/ UNCHANGED vars
      \/ (\E key \in OBJKeys : DeleteOBJ(key))
      => UNCHANGED <<pinned, hubDisks>>
  BY ExecutorLaunches DEF GeneratorStep, LearnConfig, ResolveDeletedDisk, MigratorStep,
     DoMigration, CompleteMigration, CheckExpired, migratorFrame, ServiceStep, Notify, Lose,
     hubVars, viewVars, vars, DeleteOBJ
<1> QED
  BY <1>2, <1>3, <1>4, <1>5, <1>6 DEF Next, HubStep

-----------------------------------------------------------------------------
(* OBJs.                                                                   *)

\* An OBJ is in one place, and one that moves is on its source.
OneHome == \A a, b \in hubOBJs : a[1] = b[1] => a = b
SourcesThere == \A k \in DOMAIN moving : <<k[1], moving[k]>> \in hubOBJs
HomesInv == OneHome /\ (NoneAbandoned => SourcesThere /\ asserted \subseteq {"freed_tier"})

LEMMA NoneAbandonedBefore ==
    ASSUME Typed, NoneAbandoned', [Next]_vars
    PROVE  NoneAbandoned /\ NoneExpired /\ ~(\E key \in OBJKeys : DeleteOBJ(key))
<1>1. NoneExpired'
  BY DEF NoneAbandoned, NoneExpired
<1>2. NoneExpired
  BY <1>1, NoneExpiredBefore
<1>3. spent \in [Bounds -> Nat] /\ {"expiries", "deletions"} \subseteq Bounds
      /\ spent["deletions"] \in Nat
  BY TypedParts DEF ServiceTyped, Bounds
<1>4. \A b : b # "deletions" /\ Spend(b) => spent["deletions"] = 0
  BY <1>3 DEF Spend, NoneAbandoned
<1>5. ~(\E key \in OBJKeys : DeleteOBJ(key))
  BY <1>3 DEF DeleteOBJ, Spend, NoneAbandoned
<1>6. ExecutorStep => spent["deletions"] = 0
  BY ExecutorLaunches DEF NoneAbandoned
<1>7. GeneratorStep \/ ServiceStep => spent["deletions"] = 0
  BY <1>4 DEF GeneratorStep, LearnConfig, ResolveDeletedDisk, ServiceStep, Notify, Lose,
              NoneAbandoned
<1>8. MigratorStep \/ UNCHANGED vars => spent["deletions"] = 0
  BY <1>4 DEF MigratorStep, DoMigration, CompleteMigration, CheckExpired,
      vars, NoneAbandoned
<1>9. HubStep => spent["deletions"] = 0
  BY <1>4, <1>5 DEF HubStep, Migrate, CompleteMigrate, RemoveDisk, NoneAbandoned
<1> QED
  BY <1>2, <1>5, <1>6, <1>7, <1>8, <1>9 DEF Next, NoneAbandoned, NoneExpired

\* Migrations that the migrator waits for differ in their source keys.
LEMMA SourceKeys ==
    ASSUME Typed, PipelineInv, Stages
    PROVE  /\ \A k \in DOMAIN moving : /\ k \in OBJKeys /\ moving[k] \in Disks
                                       /\ <<k[1], moving[k]>> = KeyOf(flying[k])
                                       /\ moving[k] # k[2]
           /\ \A k, l \in DOMAIN moving :
                 k[1] = l[1] /\ moving[k] = moving[l] => k = l
<1>1. \A k \in DOMAIN moving : k \in OBJKeys /\ moving[k] \in Disks
  BY TypedParts, InMaps DEF HubTyped
<1>2. ASSUME NEW k \in DOMAIN moving
      PROVE  /\ Held(flying[k]) /\ TargetKeyOf(flying[k]) = k
             /\ <<k[1], moving[k]>> = KeyOf(flying[k]) /\ moving[k] # k[2]
  <2>1. /\ Held(flying[k]) /\ TargetKeyOf(flying[k]) = k /\ flying[k] \in DOMAIN item
        /\ moving[k] = KeyOf(flying[k])[2]
    BY ItemFacts, InvParts DEF Places, MigratorIsHeld, Stages, MovingFits
  <2>2. KeyOf(flying[k]) \in OBJKeys /\ k = <<KeyOf(flying[k])[1], TargetOf(flying[k])>>
    BY <2>1, ItemFacts
  <2>3. KeyOf(flying[k])[2] # TargetOf(flying[k])
    BY <2>1, InvParts DEF Tables, ItemsMove, KeyOf, TargetOf
  <2> QED
    BY <2>1, <2>2, <2>3 DEF OBJKeys
<1>3. ASSUME NEW k \in DOMAIN moving, NEW l \in DOMAIN moving,
             k[1] = l[1], moving[k] = moving[l]
      PROVE  k = l
  <2>1. KeyOf(flying[k]) = KeyOf(flying[l])
    BY <1>2, <1>3
  <2>2. flying[k] = flying[l]
    BY <1>2, <2>1 DEF Held
  <2> QED
    BY <1>2, <2>2
<1> QED
  BY <1>1, <1>2, <1>3

\* A disk with a migration is pinned.
LEMMA MovingPins ==
    ASSUME NEW p, NEW m, IsFiniteSet(DOMAIN m), PinsAre(p, m), NEW k \in DOMAIN m
    PROVE  /\ m[k] \in Disks => p[m[k]] > 0
           /\ k[2] \in Disks => p[k[2]] > 0
<1>1. ASSUME NEW d \in Disks, d \in {m[k], k[2]}
      PROVE  p[d] > 0
  <2>1. IsFiniteSet(GoingTo(m, d)) /\ IsFiniteSet(ComingFrom(m, d))
    BY FS_Subset DEF GoingTo, ComingFrom
  <2>2. GoingTo(m, d) # {} \/ ComingFrom(m, d) # {}
    BY <1>1 DEF GoingTo, ComingFrom
  <2>3. Cardinality(GoingTo(m, d)) \in Nat /\ Cardinality(ComingFrom(m, d)) \in Nat
    BY <2>1, FS_CardinalityType
  <2>4. Cardinality(GoingTo(m, d)) # 0 \/ Cardinality(ComingFrom(m, d)) # 0
    BY <2>1, <2>2, FS_EmptySet
  <2> QED
    BY <2>3, <2>4 DEF PinsAre
<1> QED
  BY <1>1

\* Every answer finds what it asserts.
LEMMA AnswersFind ==
    ASSUME Typed, PipelineInv, Stages, PinsInv, NoneExpired, DelayedWhilePinned, OneHome,
           SourcesThere, CompleteMigrate, NEW e, e = Head(hubQueue)
    PROVE  CompletionAsserts(e) = {}
<1>1. e.key \in DOMAIN moving /\ e.key \in OBJKeys /\ e.key[2] \in Disks
      /\ moving[e.key] \in Disks
  BY CompleteFacts
<1>2. pinned[moving[e.key]] > 0 /\ pinned[e.key[2]] > 0
  BY <1>1, MovingPins DEF PinsInv
<1>3. HasView(moving[e.key]) /\ HasView(e.key[2])
  BY <1>1, <1>2 DEF DelayedWhilePinned, HasView
<1>4. <<e.key[1], moving[e.key]>> \in hubOBJs
  BY <1>1 DEF SourcesThere
<1>5. e.key \notin hubOBJs
  BY <1>1, <1>4, SourceKeys DEF OneHome
<1> QED
  BY <1>1, <1>3, <1>4, <1>5 DEF CompletionAsserts

LEMMA OneHomeStep ==
    ASSUME Typed, OneHome, [Next]_vars
    PROVE  OneHome'
<1>1. CASE hubOBJs' \subseteq hubOBJs
  BY <1>1 DEF OneHome
<1>2. CASE CompleteMigrate
  <2>1. PICK e, key : e = Head(hubQueue) /\ key = <<e.key[1], moving[e.key]>>
    OBVIOUS
  <2>2. CASE e.status = "ok" /\ CompletionAsserts(e) = {}
    <3>1. key \in hubOBJs /\ key[1] = e.key[1]
      BY <2>1, <2>2 DEF CompletionAsserts
    <3>2. hubOBJs' \subseteq (hubOBJs \ {key}) \cup {e.key}
      BY <1>2, <2>1, <2>2 DEF CompleteMigrate
    <3> QED
      BY <3>1, <3>2 DEF OneHome
  <2>3. CASE ~(e.status = "ok" /\ CompletionAsserts(e) = {})
    BY <1>1, <1>2, <2>1, <2>3 DEF CompleteMigrate, viewVars
  <2> QED
    BY <2>2, <2>3
<1>3. ExecutorStep \/ GeneratorStep \/ MigratorStep \/ ServiceStep \/ UNCHANGED vars
      => hubOBJs' \subseteq hubOBJs
  BY ExecutorLaunches DEF GeneratorStep, LearnConfig, ResolveDeletedDisk, MigratorStep,
     DoMigration, CompleteMigration, CheckExpired, migratorFrame, ServiceStep, Notify, Lose,
     hubVars, viewVars, vars
<1>4. HubStep => hubOBJs' \subseteq hubOBJs \/ CompleteMigrate
  BY DEF HubStep, Migrate, RemoveDisk, DeleteOBJ, viewVars
<1> QED
  BY <1>1, <1>2, <1>3, <1>4 DEF Next

LEMMA HomesStep ==
    ASSUME Typed, PipelineInv, StagesInv, PinsInv, DelayedWhilePinned, HomesInv, [Next]_vars
    PROVE  HomesInv'
<1>1. OneHome'
  BY OneHomeStep DEF HomesInv
<1> SUFFICES ASSUME NoneAbandoned' PROVE SourcesThere' /\ asserted' \subseteq {"freed_tier"}
  BY <1>1 DEF HomesInv
<1>2. NoneAbandoned /\ NoneExpired /\ ~(\E key \in OBJKeys : DeleteOBJ(key))
  BY NoneAbandonedBefore
<1>3. Stages /\ PinsAre(pinned, moving) /\ IsFiniteSet(DOMAIN moving)
      /\ OneHome /\ SourcesThere /\ asserted \subseteq {"freed_tier"}
  BY <1>2 DEF StagesInv, PinsInv, HomesInv
<1>4. CASE UNCHANGED <<moving, hubOBJs, asserted>>
  BY <1>3, <1>4 DEF SourcesThere
<1>5. CASE Migrate
  <2>1. PICK e, t : e = Head(hubQueue) /\ t = EventKey(e)
    OBVIOUS
  <2>2. t = <<e.key[1], e.target>> /\ TableKey(e) = t /\ t \notin DOMAIN moving
      /\ e.key \in OBJKeys
    BY <1>3, <1>5, <2>1, MigrateFacts
  <2>3. CASE e.key \in hubOBJs /\ moving' = Insert(moving, t, e.key[2]) /\ UNCHANGED hubOBJs
    <3>1. DOMAIN moving' = DOMAIN moving \cup {t} /\ moving'[t] = e.key[2]
          /\ \A x \in DOMAIN moving : moving'[x] = moving[x]
      BY <2>2, <2>3 DEF Insert
    <3>2. <<t[1], e.key[2]>> = e.key
      BY <2>2 DEF OBJKeys
    <3>3. SourcesThere'
      BY <1>3, <2>3, <3>1, <3>2 DEF SourcesThere
    <3> QED
      BY <1>3, <1>5, <3>3 DEF Migrate
  <2> QED
    BY <1>4, <1>5, <2>1, <2>2, <2>3 DEF Migrate
<1>6. CASE CompleteMigrate
  <2>1. PICK e, t, key : e = Head(hubQueue) /\ t = e.key /\ key = <<t[1], moving[t]>>
    OBVIOUS
  <2>2. CompletionAsserts(e) = {}
    BY <1>2, <1>3, <1>6, <2>1, AnswersFind
  <2> DEFINE ready == {d \in {moving[t], t[2]} : hubDisks[d] = "delayed" /\ pinned'[d] = 0}
  <2>3. /\ moving' = Erase(moving, t)
        /\ asserted' \in {asserted, asserted \cup {"freed_tier"}}
        /\ \A k \in hubOBJs : k # key /\ k[2] \notin ready => k \in hubOBJs'
    BY <1>6, <2>1, <2>2 DEF CompleteMigrate, OnDisks
  <2>4. /\ DOMAIN moving' = DOMAIN moving \ {t}
        /\ \A x \in DOMAIN moving \ {t} : moving'[x] = moving[x]
    BY <2>3, Lookups
  <2>5. PinsInv'
    BY <1>2, <1>3, PinsStep
  <2>6. NoneExpired'
    BY DEF NoneAbandoned, NoneExpired
  <2>7. t \in DOMAIN moving
    BY <1>3, <1>6, <2>1, CompleteFacts
  <2>8. ASSUME NEW k \in DOMAIN moving'
        PROVE  <<k[1], moving[k]>> \in hubOBJs'
    <3>1. k \in DOMAIN moving /\ k # t /\ moving'[k] = moving[k] /\ moving[k] \in Disks
      BY <1>3, <2>4, SourceKeys
    <3>2. <<k[1], moving[k]>> \in hubOBJs /\ <<k[1], moving[k]>> # key
      BY <1>3, <2>1, <2>7, <3>1, SourceKeys DEF SourcesThere
    <3>3. pinned'[moving[k]] > 0
      <4>1. PICK p, m : p = pinned' /\ m = moving'
        OBVIOUS
      <4>2. PinsAre(p, m) /\ IsFiniteSet(DOMAIN m) /\ k \in DOMAIN m
        BY <2>5, <2>6, <4>1 DEF PinsInv, PinsAre
      <4> QED
        BY <3>1, <4>1, <4>2, MovingPins
    <3> QED
      BY <2>3, <3>2, <3>3
  <2> QED
    BY <1>3, <2>3, <2>4, <2>8 DEF SourcesThere
<1>7. ASSUME NEW d \in Disks, RemoveDisk(d)
      PROVE  SourcesThere' /\ asserted' \subseteq {"freed_tier"}
  <2>1. UNCHANGED moving /\ asserted' \in {asserted, asserted \cup {"freed_tier"}}
    BY <1>7 DEF RemoveDisk
  <2>2. \A k \in hubOBJs : k[2] # d \/ pinned[d] # 0 => k \in hubOBJs'
    BY <1>7 DEF RemoveDisk, OnDisks, viewVars
  <2>3. \A k \in DOMAIN moving : moving[k] = d => pinned[d] # 0
    <3>1. \A k \in DOMAIN moving : moving[k] \in Disks => pinned[moving[k]] > 0
      BY <1>3, MovingPins
    <3>2. pinned[d] \in Nat
      BY TypedParts DEF HubTyped
    <3> QED
      BY <3>1, <3>2
  <2> QED
    BY <1>3, <2>1, <2>2, <2>3 DEF SourcesThere
<1>8. ExecutorStep \/ GeneratorStep \/ MigratorStep \/ ServiceStep \/ UNCHANGED vars
      => UNCHANGED <<moving, hubOBJs, asserted>>
  BY ExecutorLaunches DEF GeneratorStep, LearnConfig, ResolveDeletedDisk, MigratorStep,
     DoMigration, CompleteMigration, CheckExpired, migratorFrame, ServiceStep, Notify, Lose,
     hubVars, viewVars, vars
<1> QED
  BY <1>2, <1>4, <1>5, <1>6, <1>7, <1>8 DEF Next, HubStep

-----------------------------------------------------------------------------
(* The theorems.                                                           *)

HubFits == Typed /\ PipelineInv /\ StagesInv /\ PinsInv /\ DelayedWhilePinned /\ HomesInv

LEMMA InitFits == Init => HubFits
<1> SUFFICES ASSUME Init PROVE HubFits
  OBVIOUS
<1>1. DOMAIN <<>> = {} /\ IsFiniteSet({}) /\ Cardinality({}) = 0
  BY FS_EmptySet
<1>2. /\ hubQueue = <<>> /\ container = <<>> /\ moving = <<>> /\ asserted = {}
      /\ procedures = [k \in OBJKeys |-> 0] /\ pinned = [d \in Disks |-> 0]
      /\ hubDisks = [d \in Disks |-> "present"]
  BY DEF Init
<1>3. StagesInv
  BY <1>1, <1>2 DEF StagesInv, Stages, EventsFit, EventsOnce, ProceduresFit, AnswersFit,
                    AnswersOnce, MovingFits, Told
<1>4. PinsInv
  <2>1. \A d \in Disks : GoingTo(moving, d) = {} /\ ComingFrom(moving, d) = {}
    BY <1>1, <1>2 DEF GoingTo, ComingFrom
  <2>2. IsFiniteSet(DOMAIN moving)
    BY <1>1, <1>2
  <2>3. PinsAre(pinned, moving)
    <3>1. \A d \in Disks : pinned[d] = 0
      BY <1>2
    <3>2. \A d \in Disks : Cardinality(GoingTo(moving, d)) = 0
                           /\ Cardinality(ComingFrom(moving, d)) = 0
      BY <1>1, <2>1
    <3> QED
      BY <3>1, <3>2 DEF PinsAre
  <2> QED
    BY <2>2, <2>3 DEF PinsInv
<1>5. DelayedWhilePinned
  BY <1>2 DEF DelayedWhilePinned
<1>6. HomesInv
  <2>1. OneHome
    BY DEF Init, OneHome
  <2> QED
    BY <1>1, <1>2, <2>1 DEF HomesInv, SourcesThere
<1> QED
  BY <1>3, <1>4, <1>5, <1>6, InitTyped, InitInv DEF HubFits

LEMMA AlwaysFits == NothingRetargets => (Spec => []HubFits)
<1> SUFFICES ASSUME NothingRetargets PROVE Spec => []HubFits
  OBVIOUS
<1>1. HubFits /\ [Next]_vars => HubFits'
  <2> SUFFICES ASSUME HubFits, [Next]_vars PROVE HubFits'
    OBVIOUS
  <2>1. Typed' /\ PipelineInv'
    BY StepTyped, StepInv DEF HubFits
  <2>2. StagesInv' /\ PinsInv' /\ DelayedWhilePinned' /\ HomesInv'
    BY StagesStep, PinsStep, DelayedStep, HomesStep DEF HubFits
  <2> QED
    BY <2>1, <2>2 DEF HubFits
<1> QED
  BY <1>1, InitFits, PTL DEF Spec

(* Views live as long as migrations need them: a view whose disk was       *)
(* removed (HUB::RemoveDisk) is pinned until the last migration from or to *)
(* it ends, and without expiries and deletions the pins of every disk are  *)
(* its entries in the table of moving OBJs, for every number of OBJs,      *)
(* disks, windows, failures, losses and removals, if no plan that wins     *)
(* changes the target of a migration.                                      *)
THEOREM PinsHoldAlways == NothingRetargets => (Spec => []PinsHold)
<1>1. HubFits => PinsHold
  BY DEF HubFits, PinsHold, PinsInv, PinsAre, GoingTo, ComingFrom, PinsAreMigrations,
         NoneAbandoned, NoneExpired
<1> QED
  BY <1>1, AlwaysFits, PTL

(* Without expiries and deletions of OBJs, every answer of the service     *)
(* finds its entry, both disks, the OBJ on its source and not on its       *)
(* target: what CompleteMigrate and MoveOBJFromSrc2Tgt assert, but for the *)
(* lookup of a tier that was emptied, under the same assumption on plans.  *)
THEOREM CompletionsFitAlways == NothingRetargets => (Spec => []CompletionsFit)
<1>1. HubFits => CompletionsFit
  BY DEF HubFits, HomesInv, CompletionsFit
<1> QED
  BY <1>1, AlwaysFits, PTL
================================================================================
