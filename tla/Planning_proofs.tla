----------------------------- MODULE Planning_proofs -----------------------------
(*******************************************************************************)
(* Proofs about the planner: what waits in its queues can be scheduled, the     *)
(* arbitrator has no OBJ IN twice, and no two plans of a first batch write to   *)
(* one disk.                                                                    *)
(*                                                                              *)
(* Of the calls that are left of a handler only the first one can be a search   *)
(* (Placed), each is about a SubPool that has plans (SoundCall), and a queue    *)
(* that is being drained has more entries than tries are left.  As long as a    *)
(* first batch goes on, the targets of its plans are unavailable (BatchHeld).   *)
(*******************************************************************************)
EXTENDS Planning, WellFoundedInduction, TLAPS

--------------------------------------------------------------------------------
(* Least elements, and what rests on them                                      *)

LEMMA LeastExists ==
    ASSUME NEW T, T \subseteq Nat, T # {}
    PROVE  \E n \in T : \A m \in T : n <= m
<1>1. PICK R : IsWellFoundedOn(R, Nat) /\ \A a, b \in Nat : a < b => <<a, b>> \in R
  <2> DEFINE W == OpToRel(<, Nat)
  <2>1. IsWellFoundedOn(W, Nat)
    BY NatLessThanWellFounded
  <2>2. \A a, b \in Nat : a < b => <<a, b>> \in W
    BY DEF OpToRel
  <2> HIDE DEF W
  <2> QED BY <2>1, <2>2
<1>2. PICK x \in T : \A y \in T : ~(<<y, x>> \in R)
  <2>1. IsWellFoundedOn(R, Nat)
    BY <1>1
  <2>2. T \subseteq Nat /\ T # {}
    OBVIOUS
  <2> HIDE <1>1
  <2> QED BY <2>1, <2>2, WFMin, ZenonT(30)
<1>3. \A y \in T : ~(y < x)
  BY <1>1, <1>2
<1> QED BY <1>3

LEMMA BestIs ==
    ASSUME NEW S \in SUBSET Disks, S # {}
    PROVE  Best(S) \in S
<1> DEFINE T == {Rank[d] : d \in S}
<1>1. T \subseteq Nat /\ T # {}
  BY PlanAssumption
<1>2. PICK n \in T : \A m \in T : n <= m
  <2> HIDE DEF T
  <2> QED BY <1>1, LeastExists
<1>3. PICK d \in S : n = Rank[d]
  BY <1>2
<1>4. \A e \in S : Rank[d] <= Rank[e]
  BY <1>2, <1>3
<1> QED BY <1>4, Zenon DEF Best

\* The lists that Kept goes through.
KeptStep(list, S, i, before) == IF list[i] \in S THEN Append(before, list[i]) ELSE before
KeptOf(list, S, n, g) ==
    g = [i \in 0 .. n |-> IF i = 0 THEN <<>> ELSE KeptStep(list, S, i, g[i - 1])]

LEMMA KeptExists ==
    ASSUME NEW list, NEW S, NEW n \in Nat
    PROVE  \E g : KeptOf(list, S, n, g)
<1> DEFINE B == {i \in Nat : ~\E g : KeptOf(list, S, i, g)}
<1>1. ASSUME B # {} PROVE FALSE
  <2>0. B \subseteq Nat
    OBVIOUS
  <2>1. PICK i \in B : \A j \in B : i <= j
    <3> HIDE DEF B
    <3> QED BY <1>1, <2>0, LeastExists
  <2>2. CASE i = 0
    <3> DEFINE g == [j \in 0 .. 0 |-> <<>>]
    <3>1. g = [j \in 0 .. i |-> IF j = 0 THEN <<>>
                 ELSE KeptStep(list, S, j, g[j - 1])]
      BY <2>2
    <3> HIDE DEF g
    <3>2. KeptOf(list, S, i, g)
      BY <3>1 DEF KeptOf
    <3> QED BY <2>1, <3>2
  <2>3. CASE i # 0
    <3>1. i - 1 \in Nat /\ i - 1 \notin B /\ i \in Nat
      BY <2>1, <2>3
    <3>2. PICK g : KeptOf(list, S, i - 1, g)
      BY <3>1
    <3> DEFINE h == [j \in 0 .. i |-> IF j = 0 THEN <<>>
                 ELSE KeptStep(list, S, j, g[j - 1])]
    <3>3. \A j \in 0 .. i - 1 : g[j] = h[j]
      BY <3>1, <3>2 DEF KeptOf
    <3>4. h = [j \in 0 .. i |-> IF j = 0 THEN <<>>
                 ELSE KeptStep(list, S, j, h[j - 1])]
      <4>1. ASSUME NEW j \in 0 .. i, j # 0 PROVE h[j - 1] = g[j - 1]
        <5>1. j - 1 \in 0 .. i - 1
          BY <3>1, <4>1
        <5> HIDE DEF h
        <5> QED BY <3>3, <5>1
      <4> QED BY <4>1
    <3> HIDE DEF h
    <3>5. KeptOf(list, S, i, h)
      BY <3>4 DEF KeptOf
    <3> QED BY <2>1, <3>5
  <2> QED BY <2>2, <2>3
<1> QED BY <1>1

LEMMA KeptIs ==
    ASSUME NEW T, NEW list \in Seq(T), NEW S
    PROVE  Kept(list, S) \in Seq(T \cap S)
<1> DEFINE n == Len(list)
<1>0. n \in Nat /\ \A i \in 1 .. n : list[i] \in T
  OBVIOUS
<1>1. PICK g : KeptOf(list, S, n, g) /\ Kept(list, S) = g[n]
  <2> DEFINE q == CHOOSE f : f = [i \in 0 .. n |-> IF i = 0 THEN <<>>
                          ELSE IF list[i] \in S THEN Append(f[i - 1], list[i]) ELSE f[i - 1]]
  <2>1. Kept(list, S) = q[n]
    BY Zenon DEF Kept
  <2>2. \E f : f = [i \in 0 .. n |-> IF i = 0 THEN <<>>
                          ELSE IF list[i] \in S THEN Append(f[i - 1], list[i]) ELSE f[i - 1]]
    <3> HIDE DEF n
    <3>1. PICK f : KeptOf(list, S, n, f)
      BY <1>0, KeptExists
    <3> QED BY <3>1, Zenon DEF KeptOf, KeptStep
  <2>3. q = [i \in 0 .. n |-> IF i = 0 THEN <<>>
                          ELSE IF list[i] \in S THEN Append(q[i - 1], list[i]) ELSE q[i - 1]]
    BY <2>2, Zenon
  <2> HIDE DEF q, n
  <2>4. KeptOf(list, S, n, q)
    BY <2>3, Zenon DEF KeptOf, KeptStep
  <2> QED BY <2>1, <2>4
<1> HIDE DEF n
<1>2. /\ g[0] = <<>>
      /\ \A i \in 1 .. n : g[i] = KeptStep(list, S, i, g[i - 1])
  BY <1>0, <1>1 DEF KeptOf
<1> DEFINE U == T \cap S
           B == {i \in 0 .. n : g[i] \notin Seq(U)}
<1>3. ASSUME B # {} PROVE FALSE
  <2>0. B \subseteq Nat
    BY <1>0
  <2>1. PICK i \in B : \A j \in B : i <= j
    <3> HIDE DEF B
    <3> QED BY <1>3, <2>0, LeastExists
  <2>2. i # 0
    <3>1. <<>> \in Seq(U)
      OBVIOUS
    <3>2. i \in 0 .. n /\ g[i] \notin Seq(U)
      BY <2>1
    <3> HIDE DEF U
    <3> QED BY <1>2, <3>1, <3>2
  <2>3. i \in 1 .. n /\ i - 1 \in 0 .. n /\ ~(i <= i - 1)
    BY <1>0, <2>1, <2>2
  <2>4. g[i - 1] \in Seq(U)
    BY <2>1, <2>3
  <2>5. list[i] \in T
    BY <1>0, <2>3
  <2> HIDE DEF U
  <2>6. CASE list[i] \in S
    <3>1. list[i] \in U
      BY <2>5, <2>6 DEF U
    <3>2. g[i] = Append(g[i - 1], list[i])
      BY <1>2, <2>3, <2>6 DEF KeptStep
    <3>3. g[i] \in Seq(U)
      BY <2>4, <3>1, <3>2
    <3> QED BY <2>1, <3>3 DEF U
  <2>7. CASE list[i] \notin S
    <3>1. g[i] = g[i - 1]
      BY <1>2, <2>3, <2>7 DEF KeptStep
    <3> QED BY <2>1, <2>4, <3>1 DEF U
  <2> QED BY <2>6, <2>7
<1>4. n \in 0 .. n
  BY <1>0
<1> QED BY <1>1, <1>3, <1>4

\* Every entry of what is kept is one of the list.
LEMMA KeptFrom ==
    ASSUME NEW T, NEW list \in Seq(T), NEW S
    PROVE  \A k \in 1 .. Len(Kept(list, S)) : \E j \in 1 .. Len(list) : Kept(list, S)[k] = list[j]
<1> DEFINE R == {list[j] : j \in 1 .. Len(list)}
<1>1. list \in Seq(R)
  OBVIOUS
<1> HIDE DEF R
<1>2. Kept(list, S) \in Seq(R \cap S)
  BY <1>1, KeptIs
<1>3. \A k \in 1 .. Len(Kept(list, S)) : Kept(list, S)[k] \in R
  BY <1>2
<1> QED BY <1>3 DEF R

\* What FirstFit finds is an advice with a disk to write to.
LEMMA FirstFitIs ==
    ASSUME NEW p, NEW offers, NEW tries \in Nat, NEW lacking, NEW i, i = FirstFit(p, offers, tries, lacking)
    PROVE  i = 0 \/ (i \in 1 .. tries /\ Comparable(offers[i], p) # {})
<1> DEFINE goesOn(j) == Comparable(offers[j], p) # {}
           fits(j) == goesOn(j) /\ Best(Comparable(offers[j], p)) \notin lacking
<1>1. CASE \E j \in 1 .. tries : fits(j) /\ \A k \in 1 .. j - 1 : goesOn(k)
  <2>1. PICK m \in 1 .. tries : fits(m) /\ \A k \in 1 .. m - 1 : goesOn(k)
    BY <1>1
  <2> DEFINE B == {j \in 1 .. tries : fits(j)}
  <2>2. B \subseteq Nat /\ m \in B /\ m \in Nat
    BY <2>1
  <2>3. PICK j \in B : \A k \in B : j <= k
    <3> HIDE DEF B
    <3> QED BY <2>2, LeastExists
  <2>4. j \in 1 .. tries /\ fits(j) /\ j <= m
    BY <2>2, <2>3
  <2>5. ASSUME NEW k \in 1 .. j - 1 PROVE goesOn(k) /\ ~fits(k)
    <3>1. k \in 1 .. tries /\ k \in 1 .. m - 1 /\ ~(j <= k)
      BY <2>2, <2>4
    <3>2. k \notin B
      BY <2>3, <3>1
    <3> QED BY <2>1, <3>1, <3>2
  <2> HIDE DEF goesOn, fits, B
  <2>6. \E l \in 1 .. tries : fits(l) /\ \A k \in 1 .. l - 1 : goesOn(k) /\ ~fits(k)
    BY <2>4, <2>5
  <2>7. i = CHOOSE l \in 1 .. tries : fits(l) /\ \A k \in 1 .. l - 1 : goesOn(k) /\ ~fits(k)
    BY <1>1, Zenon DEF FirstFit, fits, goesOn
  <2>8. i \in 1 .. tries /\ fits(i)
    BY <2>6, <2>7
  <2> QED BY <2>8 DEF fits, goesOn
<1>2. CASE ~\E j \in 1 .. tries : fits(j) /\ \A k \in 1 .. j - 1 : goesOn(k)
  <2>1. i = 0
    BY <1>2, Zenon DEF FirstFit
  <2> QED BY <2>1
<1> QED BY <1>1, <1>2


--------------------------------------------------------------------------------
(* The calls that are left                                                     *)

ScheduleOps == {"first", "more", "search", "next"}
PoolOps == ScheduleOps \cup {"firstDone", "nextDone", "requeue", "expired"}

\* A call that may be made: of a SubPool with plans, of a search that is one of
\* the three, of a queue that has more entries than tries are left.
SoundCall(call, pl, dl) ==
    /\ call.op \in PoolOps => call.pool \in Pools /\ pl[call.pool].exists
    /\ call.op = "search" => call.mode \in {"first", "more", "next"}
    /\ call.op \in {"drain", "drained"} => call.mode \in Queues
    /\ call.op = "drained" => call.tries < Len(dl[call.mode])

\* Searches are for the head; what is drained was tried just before.
Placed(calls) ==
    \A i \in 1 .. Len(calls) :
        /\ calls[i].op \in {"more", "search"} => i = 1
        /\ calls[i].op = "drained" => i <= 2 /\ (i = 2 => calls[1].op \in ScheduleOps)

HandledBy(calls, pl, dl) ==
    /\ \A i \in 1 .. Len(calls) : SoundCall(calls[i], pl, dl)
    /\ Placed(calls)

\* A first batch goes on.
Batches(calls) ==
    /\ calls # <<>>
    /\ \/ Head(calls).op = "more"
       \/ Head(calls).op = "search" /\ Head(calls).mode # "next"

BatchHeld == Batches(todo) => \A x \in batch : x.to \in unavail

Inv ==
    /\ TypeOK /\ WaitingHavePlans /\ InOnce /\ BatchUsesTargetsOnce
    /\ HandledBy(todo, plans, delayed) /\ BatchHeld

\* The calls of a handler after its head, with what the head adds.
LEMMA Appended ==
    ASSUME NEW T, NEW c \in Seq(T), NEW t \in Seq(T), t # <<>>
    PROVE  /\ c \o Tail(t) \in Seq(T)
           /\ Len(c \o Tail(t)) = Len(c) + Len(t) - 1
           /\ \A i \in 1 .. Len(c) : (c \o Tail(t))[i] = c[i]
           /\ \A i \in Len(c) + 1 .. Len(c) + Len(t) - 1 : (c \o Tail(t))[i] = t[i - Len(c) + 1]
<1>1. /\ Tail(t) \in Seq(T) /\ Len(Tail(t)) = Len(t) - 1 /\ Len(t) \in Nat /\ Len(c) \in Nat
      /\ \A i \in 1 .. Len(t) - 1 : Tail(t)[i] = t[i + 1]
  OBVIOUS
<1>2. /\ c \o Tail(t) \in Seq(T)
      /\ Len(c \o Tail(t)) = Len(c) + Len(t) - 1
      /\ \A i \in 1 .. Len(c) : (c \o Tail(t))[i] = c[i]
  BY <1>1
<1>3. ASSUME NEW i \in Len(c) + 1 .. Len(c) + Len(t) - 1
      PROVE  (c \o Tail(t))[i] = t[i - Len(c) + 1]
  <2>1. (c \o Tail(t))[i] = Tail(t)[i - Len(c)]
    BY <1>1
  <2>2. i - Len(c) \in 1 .. Len(t) - 1
    BY <1>1
  <2> QED BY <1>1, <2>1, <2>2
<1> QED BY <1>2, <1>3

\* A step of a search adds at most one call, of a search.
LEMMA SearchesOn ==
    ASSUME NEW t \in Seq(Calls), t # <<>>, NEW c \in Seq(Calls),
           NEW pl, NEW pl2, NEW dl, HandledBy(t, pl, dl),
           \A p \in Pools : pl[p].exists => pl2[p].exists,
           Len(c) <= 1,
           \A i \in 1 .. Len(c) : c[i].op \in ScheduleOps /\ SoundCall(c[i], pl2, dl)
    PROVE  HandledBy(c \o Tail(t), pl2, dl)
<1> DEFINE r == c \o Tail(t)
<1>1. /\ Len(r) = Len(c) + Len(t) - 1 /\ Len(c) \in Nat /\ Len(t) \in Nat
      /\ \A i \in 1 .. Len(c) : r[i] = c[i]
      /\ \A i \in Len(c) + 1 .. Len(c) + Len(t) - 1 : r[i] = t[i - Len(c) + 1]
  BY Appended
<1> HIDE DEF r
<1>2. ASSUME NEW i \in 1 .. Len(r)
      PROVE  /\ SoundCall(r[i], pl2, dl)
             /\ r[i].op \in {"more", "search"} => i = 1
             /\ r[i].op = "drained" => i <= 2 /\ (i = 2 => r[1].op \in ScheduleOps)
  <2>1. CASE i <= Len(c)
    <3>1. i \in 1 .. Len(c) /\ i = 1
      BY <1>1, <2>1
    <3>2. r[i] = c[i]
      BY <1>1, <3>1
    <3> QED BY <3>1, <3>2
  <2>2. CASE ~(i <= Len(c))
    <3>1. /\ i \in Len(c) + 1 .. Len(c) + Len(t) - 1
          /\ i - Len(c) + 1 \in 2 .. Len(t)
      BY <1>1, <2>2
    <3> DEFINE j == i - Len(c) + 1
    <3>2. /\ r[i] = t[j] /\ j \in 2 .. Len(t) /\ j # 1 /\ j \in 1 .. Len(t)
      BY <1>1, <3>1
    <3>3. i = j + Len(c) - 1 /\ (i = 2 => j = 2 \/ Len(c) = 0)
      BY <1>1, <3>1
    <3>5. /\ SoundCall(t[j], pl, dl)
          /\ ~(t[j].op \in {"more", "search"})
          /\ t[j].op = "drained" => j <= 2
      BY <3>2 DEF HandledBy, Placed
    <3>6. SoundCall(r[i], pl2, dl)
      BY <3>2, <3>5 DEF SoundCall
    <3>7. ASSUME r[i].op = "drained" PROVE i <= 2 /\ (i = 2 => r[1].op \in ScheduleOps)
      <4>1. j = 2
        BY <3>2, <3>5, <3>7
      <4>2. i = Len(c) + 1
        BY <3>3, <4>1, <1>1
      <4>3. i <= 2
        BY <4>2, <1>1
      <4>4. ASSUME i = 2 PROVE r[1].op \in ScheduleOps
        <5>0. Len(c) \in Nat
          BY <1>1
        <5>1. PICK m \in Nat : m = Len(c)
          BY <5>0
        <5>2. m + 1 = 2
          BY <4>2, <4>4, <5>1
        <5>3. m = 1
          BY <5>1, <5>2
        <5>4. 1 \in 1 .. m
          BY <5>3
        <5> QED BY <1>1, <5>1, <5>3, <5>4
      <4> QED BY <4>3, <4>4
    <3> QED BY <3>2, <3>5, <3>6, <3>7
  <2> QED BY <2>1, <2>2
<1>3. HandledBy(r, pl2, dl)
  BY <1>2 DEF HandledBy, Placed
<1> QED BY <1>3 DEF r

\* What any other step adds is handled by itself: nothing behind it drains.
LEMMA HandlesOn ==
    ASSUME NEW t \in Seq(Calls), t # <<>>, NEW c \in Seq(Calls),
           NEW pl, NEW pl2, NEW dl, NEW dl2, HandledBy(t, pl, dl),
           \A p \in Pools : pl[p].exists => pl2[p].exists,
           Head(t).op \notin ScheduleOps,
           HandledBy(c, pl2, dl2)
    PROVE  HandledBy(c \o Tail(t), pl2, dl2)
<1> DEFINE r == c \o Tail(t)
<1>0. Head(t) = t[1]
  OBVIOUS
<1>1. /\ Len(r) = Len(c) + Len(t) - 1 /\ Len(c) \in Nat /\ Len(t) \in Nat
      /\ \A i \in 1 .. Len(c) : r[i] = c[i]
      /\ \A i \in Len(c) + 1 .. Len(c) + Len(t) - 1 : r[i] = t[i - Len(c) + 1]
  BY Appended
<1> HIDE DEF r
<1>2. ASSUME NEW i \in 1 .. Len(r)
      PROVE  /\ SoundCall(r[i], pl2, dl2)
             /\ r[i].op \in {"more", "search"} => i = 1
             /\ r[i].op = "drained" => i <= 2 /\ (i = 2 => r[1].op \in ScheduleOps)
  <2>1. CASE i <= Len(c)
    <3>1. i \in 1 .. Len(c) /\ 1 \in 1 .. Len(c)
      BY <1>1, <2>1
    <3>2. r[i] = c[i] /\ r[1] = c[1]
      BY <1>1, <3>1
    <3> QED BY <3>1, <3>2 DEF HandledBy, Placed
  <2>2. CASE ~(i <= Len(c))
    <3>1. /\ i \in Len(c) + 1 .. Len(c) + Len(t) - 1
          /\ i - Len(c) + 1 \in 2 .. Len(t)
      BY <1>1, <2>2
    <3> DEFINE j == i - Len(c) + 1
    <3>2. /\ r[i] = t[j] /\ j \in 2 .. Len(t) /\ j # 1 /\ j \in 1 .. Len(t)
      BY <1>1, <3>1
    <3>5. /\ SoundCall(t[j], pl, dl)
          /\ ~(t[j].op \in {"more", "search"})
          /\ t[j].op = "drained" => j <= 2 /\ (j = 2 => t[1].op \in ScheduleOps)
      BY <3>2 DEF HandledBy, Placed
    <3>6. t[j].op # "drained"
      BY <1>0, <3>2, <3>5
    <3>7. SoundCall(r[i], pl2, dl2)
      BY <3>2, <3>5, <3>6 DEF SoundCall
    <3> QED BY <3>2, <3>5, <3>6, <3>7
  <2> QED BY <2>1, <2>2
<1>3. HandledBy(r, pl2, dl2)
  BY <1>2 DEF HandledBy, Placed
<1> QED BY <1>3 DEF r

\* Without a search at its head a step ends a first batch.
LEMMA NoBatchBehind ==
    ASSUME NEW t \in Seq(Calls), t # <<>>, NEW c \in Seq(Calls),
           NEW pl, NEW dl, HandledBy(t, pl, dl), ~Batches(c)
    PROVE  ~Batches(c \o Tail(t))
<1> DEFINE r == c \o Tail(t)
<1>1. /\ r \in Seq(Calls)
      /\ Len(r) = Len(c) + Len(t) - 1 /\ Len(c) \in Nat /\ Len(t) \in Nat
      /\ \A i \in 1 .. Len(c) : r[i] = c[i]
      /\ \A i \in Len(c) + 1 .. Len(c) + Len(t) - 1 : r[i] = t[i - Len(c) + 1]
  BY Appended
<1> HIDE DEF r
<1>2. SUFFICES ASSUME r # <<>> PROVE ~(Head(r).op = "more" \/ (Head(r).op = "search" /\ Head(r).mode # "next"))
  BY DEF Batches, r
<1>3. Len(r) \in Nat \ {0} /\ Head(r) = r[1]
  BY <1>1, <1>2
<1>4. CASE c # <<>>
  <2>1. Len(c) \in Nat \ {0} /\ Head(c) = c[1] /\ 1 \in 1 .. Len(c)
    BY <1>4
  <2> QED BY <1>1, <1>3, <1>4, <2>1 DEF Batches
<1>5. CASE c = <<>>
  <2>1. Len(c) = 0
    BY <1>5
  <2>2. 2 \in 1 .. Len(t) /\ 1 \in Len(c) + 1 .. Len(c) + Len(t) - 1
    BY <1>1, <1>3, <2>1
  <2>3. r[1] = t[2]
    <3>1. r[1] = t[1 - Len(c) + 1]
      BY <1>1, <2>2
    <3> QED BY <2>1, <3>1
  <2> QED BY <1>3, <2>2, <2>3 DEF HandledBy, Placed
<1> QED BY <1>4, <1>5

--------------------------------------------------------------------------------
(* What the operators of the planner yield                                     *)

SubPlans ==
    [exists : BOOLEAN, list : Seq(Plans), mark : Nat, noMore : BOOLEAN,
     deleted : BOOLEAN, stat : Stats, chosen : SUBSET OBJs]

LEMMA CallIs ==
    ASSUME NEW op \in Ops, NEW p \in Pools \cup {NoPool}
    PROVE  /\ Call(op, p) \in Calls /\ Call(op, p).op = op /\ Call(op, p).pool = p
           /\ Call(op, p).mode = "none" /\ Call(op, p).tries = 0
  BY DEF Call, Calls

LEMMA SearchIs ==
    ASSUME NEW p \in Pools, NEW dirs \in SUBSET Directions, NEW named \in SUBSET Directions,
           NEW mode \in {"first", "more", "next"}
    PROVE  /\ Search(p, dirs, named, mode) \in Calls
           /\ Search(p, dirs, named, mode).op = "search"
           /\ Search(p, dirs, named, mode).pool = p
           /\ Search(p, dirs, named, mode).mode = mode
  BY DEF Search, Call, Calls, Ops

LEMMA MoreIs ==
    ASSUME NEW p \in Pools, NEW dirs \in SUBSET Directions
    PROVE  /\ More(p, dirs) \in Calls /\ More(p, dirs).op = "more" /\ More(p, dirs).pool = p
  BY DEF More, Call, Calls, Ops

LEMMA DrainIs ==
    ASSUME NEW queue \in Queues
    PROVE  /\ Drain(queue) \in Calls /\ Drain(queue).op = "drain" /\ Drain(queue).mode = queue
  BY DEF Drain, Call, Calls, Ops

LEMMA GoingIs ==
    ASSUME NEW p \in Pools, NEW call, call = [Call("submit", p) EXCEPT !.mode = "going"]
    PROVE  call \in Calls /\ call.op = "submit"
  BY DEF Call, Calls, Ops

LEMMA NewPlansAre == NoPlans \in SubPlans /\ NewPlans \in SubPlans /\ NewPlans.exists
<1>1. NewStat \in Stats
  BY DEF NewStat, Stats, Directions
<1>2. <<>> \in Seq(Plans)
  OBVIOUS
<1> QED BY <1>1, <1>2 DEF NoPlans, NewPlans, SubPlans

LEMMA RecalculatedIs ==
    ASSUME NEW stat \in Stats
    PROVE  Recalculated(stat) \in Stats
  BY DEF Recalculated, Stats

LEMMA ScheduledIs ==
    ASSUME NEW stat \in Stats, NEW dir \in Directions
    PROVE  Scheduled(stat, dir) \in Stats
<1> DEFINE f == [stat.times EXCEPT ![dir] = @ + 1]
<1>1. stat.times \in [Directions -> Nat]
  BY DEF Stats
<1>2. f \in [Directions -> Nat]
  BY <1>1
<1>3. Scheduled(stat, dir) = [stat EXCEPT !.times = f, !.missed = "none"]
  BY DEF Scheduled, Stats
<1> HIDE DEF f
<1> QED BY <1>2, <1>3 DEF Stats

LEMMA ExcludedIs ==
    ASSUME NEW stat \in Stats, NEW dir \in Directions
    PROVE  Excluded(stat, dir) \in Stats
  BY DEF Excluded, Stats

LEMMA MissedIs ==
    ASSUME NEW stat \in Stats, NEW dir \in Directions
    PROVE  Missed(stat, dir) \in Stats
<1> DEFINE f == [other \in Directions |->
                   IF other = dir THEN stat.penalty[other] + (IF stat.missed = dir THEN 1 ELSE 0)
                   ELSE IF stat.missed = dir THEN stat.penalty[other] ELSE 0]
<1>1. stat.penalty \in [Directions -> Nat]
  BY DEF Stats
<1>2. f \in [Directions -> Nat]
  BY <1>1
<1>3. Missed(stat, dir) = [stat EXCEPT !.penalty = f, !.missed = dir]
  <2>1. f = [other \in Directions |->
            IF other = dir THEN stat.penalty[dir] + (IF stat.missed = dir THEN 1 ELSE 0)
            ELSE IF stat.missed = dir THEN stat.penalty[other] ELSE 0]
    OBVIOUS
  <2> QED BY <2>1, Zenon DEF Missed
<1> HIDE DEF f
<1> QED BY <1>2, <1>3 DEF Stats

\* The plans of one SubPool change.
LEMMA PlansChange ==
    ASSUME NEW pl \in [Pools -> SubPlans], NEW p \in Pools, NEW r \in SubPlans, NEW pl2,
           pl2 = [pl EXCEPT ![p] = r], r.exists = pl[p].exists
    PROVE  /\ pl2 \in [Pools -> SubPlans]
           /\ \A q \in Pools : pl2[q].exists = pl[q].exists
  OBVIOUS

\* The first queue to be drained in turn, and what is put into a queue.
LEMMA WaitingStays ==
    ASSUME NEW dl \in [Queues -> Seq(Pools)], NEW pl, NEW queue \in Queues, NEW p \in Pools,
           NEW dl2, dl2 = [dl EXCEPT ![queue] = Append(@, p)], pl[p].exists,
           \A other \in Queues : \A i \in 1 .. Len(dl[other]) : pl[dl[other][i]].exists
    PROVE  /\ dl2 \in [Queues -> Seq(Pools)]
           /\ \A other \in Queues : \A i \in 1 .. Len(dl2[other]) : pl[dl2[other][i]].exists
<1>1. Append(dl[queue], p) \in Seq(Pools)
  OBVIOUS
<1>2. dl2 \in [Queues -> Seq(Pools)]
  BY <1>1
<1>3. ASSUME NEW other \in Queues, NEW i \in 1 .. Len(dl2[other])
      PROVE  pl[dl2[other][i]].exists
  <2>1. CASE other # queue
    BY <2>1
  <2>2. CASE other = queue
    <3>1. dl2[other] = Append(dl[queue], p)
      BY <2>2
    <3>2. dl[queue] \in Seq(Pools) /\ Len(dl[queue]) \in Nat
      OBVIOUS
    <3>3. Len(dl2[other]) = Len(dl[queue]) + 1
      BY <3>1, <3>2
    <3>4. CASE i = Len(dl[queue]) + 1
      <4>1. dl2[other][i] = p
        BY <3>1, <3>2, <3>4
      <4> QED BY <4>1
    <3>5. CASE i # Len(dl[queue]) + 1
      <4>1. i \in 1 .. Len(dl[queue])
        BY <3>2, <3>3, <3>5
      <4>2. dl2[other][i] = dl[queue][i]
        BY <3>1, <3>2, <4>1
      <4> QED BY <4>1, <4>2
    <3> QED BY <3>4, <3>5
  <2> QED BY <2>1, <2>2
<1> QED BY <1>2, <1>3

--------------------------------------------------------------------------------
(* What every call knows                                                       *)

LEMMA HeadIsSound ==
    ASSUME Inv, todo # <<>>
    PROVE  Head(todo) \in Calls /\ SoundCall(Head(todo), plans, delayed)
<1>1. todo \in Seq(Calls)
  BY DEF Inv, TypeOK
<1>2. Head(todo) = todo[1] /\ 1 \in 1 .. Len(todo) /\ todo[1] \in Calls
  BY <1>1
<1> QED BY <1>2 DEF Inv, HandledBy

LEMMA Types ==
    ASSUME Inv
    PROVE  /\ plans \in [Pools -> SubPlans] /\ delayed \in [Queues -> Seq(Pools)]
           /\ todo \in Seq(Calls)
  BY DEF Inv, TypeOK, SubPlans


--------------------------------------------------------------------------------
(* Scheduling keeps the invariant                                              *)

LEMMA SearchKeeps ==
    ASSUME Inv, todo # <<>>, NEW c \in Seq(Calls), todo' = c \o Tail(todo), Len(c) <= 1,
           \A i \in 1 .. Len(c) : c[i].op \in ScheduleOps /\ SoundCall(c[i], plans', delayed),
           plans' \in [Pools -> SubPlans],
           \A q \in Pools : plans'[q].exists = plans[q].exists,
           UNCHANGED searchFrame,
           avail' \subseteq Disks /\ unavail' \subseteq Disks /\ avail' \cap unavail' = {},
           err' \in {"ok", "timed", "noMore", "memory"} /\ ret' \in BOOLEAN,
           used' \in 0 .. MaxMishaps, batch' \subseteq Plans, BatchUsesTargetsOnce',
           Batches(c) => \A x \in batch' : x.to \in unavail'
    PROVE  Inv'
<1>1. delayed \in [Queues -> Seq(Pools)] /\ todo \in Seq(Calls)
  BY Types
<1>2. todo' \in Seq(Calls)
  BY <1>1, Appended
<1>3. UNCHANGED <<present, noMigration, delayed, key, flying, window>>
  BY DEF searchFrame, configVars
<1>4. TypeOK'
  BY <1>2, <1>3 DEF Inv, TypeOK, SubPlans
<1>5. WaitingHavePlans'
  <2>1. ASSUME NEW queue \in Queues, NEW i \in 1 .. Len(delayed[queue])
        PROVE  plans'[delayed[queue][i]].exists
    <3>1. delayed[queue][i] \in Pools
      BY <1>1
    <3>2. plans[delayed[queue][i]].exists
      BY DEF Inv, WaitingHavePlans
    <3> QED BY <3>1, <3>2
  <2> QED BY <1>3, <2>1 DEF WaitingHavePlans
<1>6. InOnce'
  BY <1>3 DEF Inv, InOnce
<1>7. HandledBy(todo', plans', delayed')
  <2>1. HandledBy(todo, plans, delayed)
    BY DEF Inv
  <2>2. HandledBy(c \o Tail(todo), plans', delayed)
    BY <1>1, <2>1, SearchesOn
  <2> QED BY <1>3, <2>2
<1>8. BatchHeld'
  <2>1. HandledBy(todo, plans, delayed)
    BY DEF Inv
  <2>2. ASSUME ~Batches(c) PROVE ~Batches(todo')
    <3>1. ~Batches(c \o Tail(todo))
      BY <1>1, <2>1, <2>2, NoBatchBehind
    <3> QED BY <3>1
  <2>3. Batches(todo') => \A x \in batch' : x.to \in unavail'
    BY <2>2
  <2> QED BY <2>3 DEF BatchHeld, Batches
<1> QED BY <1>4, <1>5, <1>6, <1>7, <1>8 DEF Inv, HandledBy, Placed, SoundCall

LEMMA BeginScheduleKeeps ==
    ASSUME Inv, NEW op, NEW mode, BeginSchedule(op, mode),
           op = mode /\ mode \in {"first", "more", "next"}
    PROVE  Inv'
<1> DEFINE p == Head(todo).pool
           h == Head(todo)
<1>1. todo # <<>> /\ h.op = op /\ plans[p].exists
  BY DEF BeginSchedule, Does
<1>2. h \in Calls /\ SoundCall(h, plans, delayed)
  BY <1>1, HeadIsSound
<1>3. p \in Pools /\ h.named \in SUBSET Directions
  BY <1>1, <1>2 DEF SoundCall, PoolOps, ScheduleOps, Calls
<1>4. plans \in [Pools -> SubPlans] /\ todo \in Seq(Calls)
  BY Types
<1>5. UNCHANGED searchFrame /\ UNCHANGED <<avail, unavail, used>>
  BY DEF BeginSchedule, diskVars
<1>6. batch' = IF mode = "first" THEN {} ELSE batch
  BY DEF BeginSchedule
<1>7. batch' \subseteq Plans /\ BatchUsesTargetsOnce'
  BY <1>6 DEF Inv, TypeOK, BatchUsesTargetsOnce
<1>8. /\ avail' \subseteq Disks /\ unavail' \subseteq Disks /\ avail' \cap unavail' = {}
      /\ used' \in 0 .. MaxMishaps
  BY <1>5 DEF Inv, TypeOK
<1>9. CASE \E e \in {"ok", "timed", "noMore"} :
              /\ Returns(mode = "more", IF mode = "more" THEN "ok" ELSE e)
              /\ Then(<<>>)
              /\ plans' = plans \/ plans' = [plans EXCEPT ![p].deleted = TRUE]
  <2> DEFINE c == <<>>
  <2>1. c \in Seq(Calls) /\ Len(c) = 0 /\ ~Batches(c)
    BY DEF Batches
  <2>2. todo' = c \o Tail(todo)
    BY <1>9 DEF Then
  <2>3. err' \in {"ok", "timed", "noMore", "memory"} /\ ret' \in BOOLEAN
    BY <1>9 DEF Returns
  <2>4. plans' \in [Pools -> SubPlans] /\ \A q \in Pools : plans'[q].exists = plans[q].exists
    <3>1. CASE plans' = plans
      BY <1>4, <3>1
    <3>2. CASE plans' = [plans EXCEPT ![p].deleted = TRUE]
      <4> DEFINE r == [plans[p] EXCEPT !.deleted = TRUE]
      <4>1. r \in SubPlans /\ r.exists = plans[p].exists
        BY <1>3, <1>4 DEF SubPlans
      <4>2. plans' = [plans EXCEPT ![p] = r]
        BY <3>2
      <4> HIDE DEF r
      <4> QED BY <1>3, <1>4, <4>1, <4>2, PlansChange
    <3> QED BY <1>9, <3>1, <3>2
  <2>5. /\ Len(c) <= 1
        /\ \A i \in 1 .. Len(c) : c[i].op \in ScheduleOps /\ SoundCall(c[i], plans', delayed)
    BY <2>1
  <2> HIDE DEF c
  <2> QED BY <1>1, <1>5, <1>7, <1>8, <2>1, <2>2, <2>3, <2>4, <2>5, SearchKeeps
<1>10. CASE /\ err' = "ok"
            /\ \E dirs \in SUBSET Directions : Then(<<Search(p, dirs, dirs, mode)>>)
            /\ UNCHANGED <<plans, ret>>
  <2>1. PICK dirs \in SUBSET Directions : Then(<<Search(p, dirs, dirs, mode)>>)
    BY <1>10
  <2> DEFINE s == Search(p, dirs, dirs, mode)
             c == <<s>>
  <2>2. s \in Calls /\ s.op = "search" /\ s.pool = p /\ s.mode = mode
    BY <1>3, SearchIs
  <2> HIDE DEF s
  <2>3. c \in Seq(Calls) /\ Len(c) = 1 /\ c[1] = s /\ Head(c) = s
    BY <2>2
  <2>4. todo' = c \o Tail(todo)
    BY <2>1 DEF Then, s
  <2>5. SoundCall(s, plans', delayed) /\ s.op \in ScheduleOps
    BY <1>1, <1>3, <1>10, <2>2 DEF SoundCall, ScheduleOps
  <2>6. Batches(c) => \A x \in batch' : x.to \in unavail'
    <3>1. CASE mode = "more"
      <4>1. Batches(todo)
        BY <1>1, <3>1 DEF Batches
      <4> QED BY <1>5, <1>6, <3>1, <4>1 DEF Inv, BatchHeld
    <3>2. CASE mode = "next"
      BY <2>2, <2>3, <3>2 DEF Batches
    <3>3. CASE mode = "first"
      BY <1>6, <3>3
    <3> QED BY <3>1, <3>2, <3>3
  <2>7. err' \in {"ok", "timed", "noMore", "memory"} /\ ret' \in BOOLEAN
    BY <1>10 DEF Inv, TypeOK
  <2>8. /\ Len(c) <= 1
        /\ \A i \in 1 .. Len(c) : c[i].op \in ScheduleOps /\ SoundCall(c[i], plans', delayed)
    BY <2>3, <2>5
  <2>9. plans' \in [Pools -> SubPlans] /\ \A q \in Pools : plans'[q].exists = plans[q].exists
    BY <1>4, <1>10
  <2> HIDE DEF c
  <2> QED BY <1>1, <1>5, <1>7, <1>8, <2>3, <2>4, <2>6, <2>7, <2>8, <2>9, SearchKeeps
<1>11. plans[p].stat.usable \in SUBSET Directions
  BY <1>3, <1>4 DEF SubPlans, Stats
<1> QED BY <1>3, <1>9, <1>10, <1>11 DEF BeginSchedule

LEMMA OfferedAre ==
    ASSUME NEW p \in Pools, NEW dir \in Directions, NEW mode
    PROVE  Offered(p, dir, mode) \in Seq(OBJs)
<1> DEFINE advices == Advices[p][dir]
           left == OBJs \ plans[p].chosen
<1>1. advices \in Seq(OBJs)
  BY PlanAssumption
<1>2. Kept(advices, left) \in Seq(OBJs)
  <2> HIDE DEF advices, left
  <2>1. Kept(advices, left) \in Seq(OBJs \cap left)
    BY <1>1, KeptIs
  <2> QED BY <2>1
<1>3. Offered(p, dir, mode) = IF mode = "first" THEN advices ELSE Kept(advices, left)
  BY Zenon DEF Offered
<1> HIDE DEF advices, left
<1> QED BY <1>1, <1>2, <1>3

LEMMA TriesAre ==
    ASSUME NEW offers \in Seq(OBJs), NEW mode
    PROVE  Tries(mode, offers) \in Nat /\ Tries(mode, offers) <= Len(offers)
<1>1. Len(offers) \in Nat /\ RetryTimes + 1 \in Nat
  BY PlanAssumption
<1> QED BY <1>1 DEF Tries

\* A disk that is compared is available.
LEMMA ComparableAre ==
    ASSUME Inv, NEW o, NEW p
    PROVE  Comparable(o, p) \in SUBSET Disks /\ \A d \in Comparable(o, p) : d \notin unavail
<1>1. avail \cap unavail = {}
  BY DEF Inv, TypeOK
<1> QED BY <1>1 DEF Comparable

\* What a plan that was found does to the disks and to the first batch.
LEMMA PlanMade ==
    ASSUME Inv, NEW p \in Pools, NEW o \in OBJs, NEW dir \in Directions, NEW mode,
           NEW d \in Disks, d \notin unavail, MakePlan(p, o, dir, d, mode),
           mode # "next" => Batches(todo)
    PROVE  /\ plans' \in [Pools -> SubPlans]
           /\ \A q \in Pools : plans'[q].exists = plans[q].exists
           /\ avail' \subseteq Disks /\ unavail' \subseteq Disks /\ avail' \cap unavail' = {}
           /\ batch' \subseteq Plans /\ BatchUsesTargetsOnce'
           /\ mode # "next" => \A x \in batch' : x.to \in unavail'
<1>1. plans \in [Pools -> SubPlans]
  BY Types
<1> DEFINE made == [obj |-> o, to |-> d, dir |-> dir]
<1>2. made \in Plans /\ made.to = d
  BY DEF Plans
<1>3. /\ plans' \in [Pools -> SubPlans]
      /\ \A q \in Pools : plans'[q].exists = plans[q].exists
  <2>1. plans[p].stat \in Stats /\ plans[p].list \in Seq(Plans) /\ plans[p] \in SubPlans
    BY <1>1 DEF SubPlans
  <2> DEFINE stat == Scheduled(Recalculated(plans[p].stat), dir)
             list == Append(plans[p].list, made)
             r == [plans[p] EXCEPT !.list = list, !.stat = stat, !.chosen = @ \cup {o}]
  <2>2. stat \in Stats
    BY <2>1, RecalculatedIs, ScheduledIs
  <2>3. list \in Seq(Plans)
    BY <1>2, <2>1
  <2>4. plans' = [plans EXCEPT ![p] = r]
    BY <1>1 DEF MakePlan
  <2> HIDE DEF stat, list
  <2>5. r \in SubPlans /\ r.exists = plans[p].exists
    BY <2>1, <2>2, <2>3 DEF SubPlans
  <2> HIDE DEF r
  <2> QED BY <1>1, <2>4, <2>5, PlansChange
<1>4. Source[o] \in Disks
  BY PlanAssumption
<1>5. /\ avail' = avail \ {Source[o], d} /\ unavail' = unavail \cup {Source[o], d}
      /\ batch' = IF mode = "next" THEN batch ELSE batch \cup {made}
  BY DEF MakePlan
<1> HIDE DEF made
<1>6. /\ avail \subseteq Disks /\ unavail \subseteq Disks /\ avail \cap unavail = {}
      /\ batch \subseteq Plans
      /\ \A x, y \in batch : x.to = y.to => x = y
      /\ mode # "next" => \A x \in batch : x.to \in unavail
  BY DEF Inv, TypeOK, BatchUsesTargetsOnce, BatchHeld
<1>7. avail' \subseteq Disks /\ unavail' \subseteq Disks /\ avail' \cap unavail' = {}
  BY <1>4, <1>5, <1>6
<1>8. batch' \subseteq Plans
  BY <1>2, <1>5, <1>6
<1>9. \A x, y \in batch' : x.to = y.to => x = y
  <2>1. ASSUME mode # "next", NEW x \in batch PROVE x.to # made.to
    BY <1>2, <1>6, <2>1
  <2> QED BY <1>5, <1>6, <2>1
<1>10. mode # "next" => \A x \in batch' : x.to \in unavail'
  BY <1>2, <1>5, <1>6
<1> QED BY <1>3, <1>7, <1>8, <1>9, <1>10 DEF BatchUsesTargetsOnce

LEMMA SearchDirectionKeeps ==
    ASSUME Inv, SearchDirection
    PROVE  Inv'
<1> DEFINE h == Head(todo)
           p == Head(todo).pool
           mode == Head(todo).mode
           dirs == Head(todo).dirs
           named == Head(todo).named
           stat == Recalculated(plans[p].stat)
<1>1. todo # <<>> /\ h.op = "search" /\ UNCHANGED searchFrame
  BY DEF SearchDirection, Does
<1>2. h \in Calls /\ SoundCall(h, plans, delayed)
  BY <1>1, HeadIsSound
<1>3. /\ p \in Pools /\ plans[p].exists /\ mode \in {"first", "more", "next"}
      /\ dirs \in SUBSET Directions /\ named \in SUBSET Directions
  BY <1>1, <1>2 DEF SoundCall, PoolOps, ScheduleOps, Calls
<1>4. plans \in [Pools -> SubPlans] /\ todo \in Seq(Calls)
  BY Types
<1>5. plans[p] \in SubPlans /\ plans[p].stat \in Stats /\ stat \in Stats
  BY <1>3, <1>4, RecalculatedIs DEF SubPlans
<1>6. mode # "next" => Batches(todo)
  BY <1>1 DEF Batches
<1>7. /\ avail \subseteq Disks /\ unavail \subseteq Disks /\ avail \cap unavail = {}
      /\ used \in 0 .. MaxMishaps /\ batch \subseteq Plans /\ BatchUsesTargetsOnce
      /\ err \in {"ok", "timed", "noMore", "memory"} /\ ret \in BOOLEAN
      /\ Batches(todo) => \A x \in batch : x.to \in unavail
  BY DEF Inv, TypeOK, BatchHeld
<1>8. PICK dir \in Prior(stat, dirs), lacking \in Lacking :
        LET offers == Offered(p, dir, mode)
            i == FirstFit(p, offers, Tries(mode, offers), lacking)
            o == offers[i]
            d == Best(Comparable(o, p))
        IN \/ /\ i # 0
              /\ MakePlan(p, o, dir, d, mode)
              /\ ret' = TRUE
              /\ Then(CASE mode = "first" -> <<More(p, dirs)>>
                        [] mode = "more"  -> <<More(p, named)>>
                        [] mode = "next"  -> <<>>)
              /\ UNCHANGED <<err, used>>
           \/ /\ i # 0 /\ used < MaxMishaps /\ used' = used + 1
              /\ plans' = [plans EXCEPT ![p].stat = Scheduled(stat, dir),
                                        ![p].chosen = @ \cup {o}]
              /\ Returns(mode = "more", IF mode = "more" THEN "ok" ELSE "memory")
              /\ Then(<<>>) /\ UNCHANGED <<diskVars, batch>>
           \/ /\ i = 0
              /\ plans' = [plans EXCEPT ![p].stat =
                    Missed(IF offers = <<>> THEN Excluded(stat, dir) ELSE stat, dir)]
              /\ Then(<<Search(p, dirs \ {dir}, named, mode)>>)
              /\ UNCHANGED <<diskVars, ret, err, used, batch>>
  BY Zenon DEF SearchDirection
<1> DEFINE offers == Offered(p, dir, mode)
           i == FirstFit(p, offers, Tries(mode, offers), lacking)
           o == offers[i]
           d == Best(Comparable(o, p))
<1>9. dir \in Directions /\ dir \in dirs
  BY <1>3 DEF Prior
<1>10. offers \in Seq(OBJs)
  <2> HIDE DEF p, mode
  <2> QED BY <1>3, <1>9, OfferedAre
<1> HIDE DEF offers, stat
<1>11. ASSUME i # 0 PROVE o \in OBJs /\ d \in Disks /\ d \notin unavail
  <2> DEFINE n == Tries(mode, offers)
  <2>1. n \in Nat /\ n <= Len(offers) /\ Len(offers) \in Nat
    BY <1>10, TriesAre
  <2>2. i = FirstFit(p, offers, n, lacking)
    OBVIOUS
  <2> HIDE DEF i, n, p, mode, o, d
  <2>3. i \in 1 .. n /\ Comparable(offers[i], p) # {}
    BY <1>11, <2>1, <2>2, FirstFitIs
  <2>4. offers[i] \in OBJs
    BY <1>10, <2>1, <2>3
  <2>5. Comparable(o, p) \in SUBSET Disks /\ Comparable(o, p) # {}
    BY <2>3, ComparableAre DEF o
  <2>6. d \in Comparable(o, p)
    BY <2>5, BestIs DEF d
  <2> QED BY <2>4, <2>5, <2>6, ComparableAre DEF o
<1> HIDE DEF i
<1>12. CASE /\ i # 0
            /\ MakePlan(p, o, dir, d, mode)
            /\ ret' = TRUE
            /\ Then(CASE mode = "first" -> <<More(p, dirs)>>
                      [] mode = "more"  -> <<More(p, named)>>
                      [] mode = "next"  -> <<>>)
            /\ UNCHANGED <<err, used>>
  <2>1. o \in OBJs /\ d \in Disks /\ d \notin unavail
    BY <1>11, <1>12
  <2>2. MakePlan(p, o, dir, d, mode)
    BY <1>12
  <2>3. /\ plans' \in [Pools -> SubPlans]
        /\ \A q \in Pools : plans'[q].exists = plans[q].exists
        /\ avail' \subseteq Disks /\ unavail' \subseteq Disks /\ avail' \cap unavail' = {}
        /\ batch' \subseteq Plans /\ BatchUsesTargetsOnce'
        /\ mode # "next" => \A x \in batch' : x.to \in unavail'
    <3> HIDE DEF p, mode, o, d
    <3> QED BY <1>3, <1>6, <1>9, <2>1, <2>2, PlanMade
  <2>4. /\ err' \in {"ok", "timed", "noMore", "memory"} /\ ret' \in BOOLEAN
        /\ used' \in 0 .. MaxMishaps
    BY <1>7, <1>12
  <2> HIDE DEF o, d
  <2>5. CASE mode = "next"
    <3> DEFINE c == <<>>
    <3>1. c \in Seq(Calls) /\ Len(c) <= 1 /\ ~Batches(c)
          /\ \A k \in 1 .. Len(c) : c[k].op \in ScheduleOps /\ SoundCall(c[k], plans', delayed)
      BY DEF Batches
    <3>2. todo' = c \o Tail(todo)
      BY <1>12, <2>5 DEF Then
    <3> HIDE DEF c
    <3> QED BY <1>1, <2>3, <2>4, <3>1, <3>2, SearchKeeps
  <2>6. CASE mode # "next"
    <3>1. PICK ds \in SUBSET Directions : todo' = <<More(p, ds)>> \o Tail(todo)
      BY <1>3, <1>12, <2>6 DEF Then
    <3> DEFINE s == More(p, ds)
               c == <<s>>
    <3>2. s \in Calls /\ s.op = "more" /\ s.pool = p
      BY <1>3, MoreIs
    <3>3. todo' = c \o Tail(todo)
      BY <3>1
    <3> HIDE DEF s
    <3>4. c \in Seq(Calls) /\ Len(c) = 1 /\ c[1] = s
      BY <3>2
    <3>5. SoundCall(s, plans', delayed) /\ s.op \in ScheduleOps
      BY <1>3, <2>3, <3>2 DEF SoundCall, ScheduleOps
    <3>6. /\ Len(c) <= 1
          /\ \A k \in 1 .. Len(c) : c[k].op \in ScheduleOps /\ SoundCall(c[k], plans', delayed)
      BY <3>4, <3>5
    <3> HIDE DEF c
    <3> QED BY <1>1, <2>3, <2>4, <2>6, <3>3, <3>4, <3>6, SearchKeeps
  <2> QED BY <2>5, <2>6
<1>13. CASE /\ i # 0 /\ used < MaxMishaps /\ used' = used + 1
            /\ plans' = [plans EXCEPT ![p].stat = Scheduled(stat, dir),
                                      ![p].chosen = @ \cup {o}]
            /\ Returns(mode = "more", IF mode = "more" THEN "ok" ELSE "memory")
            /\ Then(<<>>) /\ UNCHANGED <<diskVars, batch>>
  <2> DEFINE st == Scheduled(stat, dir)
             r == [plans[p] EXCEPT !.stat = st, !.chosen = @ \cup {o}]
             c == <<>>
  <2>1. st \in Stats /\ o \in OBJs
    BY <1>5, <1>9, <1>11, <1>13, ScheduledIs
  <2>2. plans' = [plans EXCEPT ![p] = r]
    BY <1>4, <1>13
  <2> HIDE DEF st, o
  <2>3. r \in SubPlans /\ r.exists = plans[p].exists
    BY <1>5, <2>1 DEF SubPlans
  <2> HIDE DEF r
  <2>4. plans' \in [Pools -> SubPlans] /\ \A q \in Pools : plans'[q].exists = plans[q].exists
    BY <1>3, <1>4, <2>2, <2>3, PlansChange
  <2>5. c \in Seq(Calls) /\ Len(c) <= 1 /\ ~Batches(c)
        /\ \A k \in 1 .. Len(c) : c[k].op \in ScheduleOps /\ SoundCall(c[k], plans', delayed)
    BY DEF Batches
  <2>6. todo' = c \o Tail(todo)
    BY <1>13 DEF Then
  <2>7. /\ err' \in {"ok", "timed", "noMore", "memory"} /\ ret' \in BOOLEAN
    BY <1>13 DEF Returns
  <2>8. used' \in 0 .. MaxMishaps
    BY <1>7, <1>13, PlanAssumption
  <2>9. /\ avail' \subseteq Disks /\ unavail' \subseteq Disks /\ avail' \cap unavail' = {}
        /\ batch' \subseteq Plans /\ BatchUsesTargetsOnce'
    BY <1>7, <1>13 DEF diskVars, BatchUsesTargetsOnce
  <2> HIDE DEF c
  <2> QED BY <1>1, <2>4, <2>5, <2>6, <2>7, <2>8, <2>9, SearchKeeps
<1>14. CASE /\ i = 0
            /\ plans' = [plans EXCEPT ![p].stat =
                  Missed(IF offers = <<>> THEN Excluded(stat, dir) ELSE stat, dir)]
            /\ Then(<<Search(p, dirs \ {dir}, named, mode)>>)
            /\ UNCHANGED <<diskVars, ret, err, used, batch>>
  <2> DEFINE st == Missed(IF offers = <<>> THEN Excluded(stat, dir) ELSE stat, dir)
             r == [plans[p] EXCEPT !.stat = st]
             s == Search(p, dirs \ {dir}, named, mode)
             c == <<s>>
  <2>1. st \in Stats
    BY <1>5, <1>9, ExcludedIs, MissedIs
  <2>2. plans' = [plans EXCEPT ![p] = r]
    BY <1>4, <1>14
  <2> HIDE DEF st
  <2>3. r \in SubPlans /\ r.exists = plans[p].exists
    BY <1>5, <2>1 DEF SubPlans
  <2> HIDE DEF r
  <2>4. plans' \in [Pools -> SubPlans] /\ \A q \in Pools : plans'[q].exists = plans[q].exists
    BY <1>3, <1>4, <2>2, <2>3, PlansChange
  <2>5. s \in Calls /\ s.op = "search" /\ s.pool = p /\ s.mode = mode
    BY <1>3, SearchIs
  <2>6. todo' = c \o Tail(todo)
    BY <1>14 DEF Then
  <2> HIDE DEF s
  <2>7. c \in Seq(Calls) /\ Len(c) = 1 /\ c[1] = s /\ Head(c) = s
    BY <2>5
  <2>8. SoundCall(s, plans', delayed) /\ s.op \in ScheduleOps
    BY <1>3, <2>4, <2>5 DEF SoundCall, ScheduleOps
  <2>9. /\ Len(c) <= 1
        /\ \A k \in 1 .. Len(c) : c[k].op \in ScheduleOps /\ SoundCall(c[k], plans', delayed)
    BY <2>7, <2>8
  <2>10. /\ avail' \subseteq Disks /\ unavail' \subseteq Disks /\ avail' \cap unavail' = {}
         /\ batch' \subseteq Plans /\ BatchUsesTargetsOnce'
         /\ used' \in 0 .. MaxMishaps
         /\ err' \in {"ok", "timed", "noMore", "memory"} /\ ret' \in BOOLEAN
    BY <1>7, <1>14 DEF diskVars, BatchUsesTargetsOnce
  <2>11. Batches(c) => \A x \in batch' : x.to \in unavail'
    <3>1. Batches(c) => mode # "next"
      BY <2>5, <2>7 DEF Batches
    <3> QED BY <1>6, <1>7, <1>14, <3>1 DEF diskVars
  <2> HIDE DEF c
  <2> QED BY <1>1, <2>4, <2>6, <2>7, <2>9, <2>10, <2>11, SearchKeeps
<1> QED BY <1>8, <1>12, <1>13, <1>14 DEF offers, i, stat

LEMMA SearchEndsKeeps ==
    ASSUME Inv, SearchEnds
    PROVE  Inv'
<1> DEFINE h == Head(todo)
           p == Head(todo).pool
           mode == Head(todo).mode
<1>1. todo # <<>> /\ h.op = "search" /\ UNCHANGED searchFrame
  BY DEF SearchEnds, Does
<1>2. h \in Calls /\ SoundCall(h, plans, delayed)
  BY <1>1, HeadIsSound
<1>3. p \in Pools
  BY <1>1, <1>2 DEF SoundCall, PoolOps, ScheduleOps
<1>4. plans \in [Pools -> SubPlans] /\ todo \in Seq(Calls)
  BY Types
<1>5. plans[p] \in SubPlans /\ plans[p].stat \in Stats
  BY <1>3, <1>4 DEF SubPlans
<1> DEFINE st == IF h.dirs = {} THEN plans[p].stat ELSE Recalculated(plans[p].stat)
           b == plans[p].noMore \/ mode = "first"
           r == [plans[p] EXCEPT !.noMore = b, !.stat = st]
           c == <<>>
<1>6. st \in Stats
  BY <1>5, RecalculatedIs
<1>7. plans' = [plans EXCEPT ![p] = r]
  BY <1>4 DEF SearchEnds
<1> HIDE DEF st
<1>8. r \in SubPlans /\ r.exists = plans[p].exists
  BY <1>5, <1>6 DEF SubPlans
<1> HIDE DEF r
<1>9. plans' \in [Pools -> SubPlans] /\ \A q \in Pools : plans'[q].exists = plans[q].exists
  BY <1>3, <1>4, <1>7, <1>8, PlansChange
<1>10. c \in Seq(Calls) /\ Len(c) <= 1 /\ ~Batches(c)
       /\ \A k \in 1 .. Len(c) : c[k].op \in ScheduleOps /\ SoundCall(c[k], plans', delayed)
  BY DEF Batches
<1>11. todo' = c \o Tail(todo)
  BY DEF SearchEnds, Then
<1>12. /\ err' \in {"ok", "timed", "noMore", "memory"} /\ ret' \in BOOLEAN
  BY DEF SearchEnds, Returns
<1>13. /\ avail' \subseteq Disks /\ unavail' \subseteq Disks /\ avail' \cap unavail' = {}
       /\ batch' \subseteq Plans /\ BatchUsesTargetsOnce' /\ used' \in 0 .. MaxMishaps
  BY DEF SearchEnds, diskVars, Inv, TypeOK, BatchUsesTargetsOnce
<1> HIDE DEF c
<1> QED BY <1>1, <1>9, <1>10, <1>11, <1>12, <1>13, SearchKeeps

--------------------------------------------------------------------------------
(* What a step without a search adds                                           *)

LEMMA NoneHandled ==
    ASSUME NEW pl, NEW dl, NEW c, c = <<>>
    PROVE  c \in Seq(Calls) /\ ~Batches(c) /\ HandledBy(c, pl, dl)
  BY DEF Batches, HandledBy, Placed

LEMMA OneHandled ==
    ASSUME NEW pl, NEW dl, NEW x \in Calls, SoundCall(x, pl, dl), x.op \notin {"more", "search"},
           NEW c, c = <<x>>
    PROVE  c \in Seq(Calls) /\ ~Batches(c) /\ HandledBy(c, pl, dl)
<1>1. c \in Seq(Calls) /\ Len(c) = 1 /\ c[1] = x /\ Head(c) = x
  OBVIOUS
<1>2. \A i \in 1 .. Len(c) : i = 1 /\ c[i] = x
  BY <1>1
<1> QED
  BY ONLY <1>1, <1>2, x \in Calls, SoundCall(x, pl, dl), x.op \notin {"more", "search"}
  DEF Batches, HandledBy, Placed

LEMMA TwoHandled ==
    ASSUME NEW pl, NEW dl, NEW x \in Calls, SoundCall(x, pl, dl), x.op \notin {"more", "search"},
           NEW y \in Calls, SoundCall(y, pl, dl), y.op \notin {"more", "search"},
           y.op = "drained" => x.op \in ScheduleOps,
           NEW c, c = <<x, y>>
    PROVE  c \in Seq(Calls) /\ ~Batches(c) /\ HandledBy(c, pl, dl)
<1>1. c \in Seq(Calls) /\ Len(c) = 2 /\ c[1] = x /\ c[2] = y /\ Head(c) = x
  OBVIOUS
<1>2. \A i \in 1 .. Len(c) : (i = 1 /\ c[i] = x) \/ (i = 2 /\ c[i] = y)
  BY <1>1
<1> QED
  BY ONLY <1>1, <1>2, x \in Calls, SoundCall(x, pl, dl), x.op \notin {"more", "search"},
          y \in Calls, SoundCall(y, pl, dl), y.op \notin {"more", "search"},
          y.op = "drained" => x.op \in ScheduleOps
  DEF Batches, HandledBy, Placed

LEMMA CallKeeps ==
    ASSUME Inv, todo # <<>>, Head(todo).op \notin ScheduleOps,
           NEW c \in Seq(Calls), todo' = c \o Tail(todo), ~Batches(c),
           HandledBy(c, plans', delayed'),
           plans' \in [Pools -> SubPlans],
           \A q \in Pools : plans'[q].exists = plans[q].exists,
           delayed' \in [Queues -> Seq(Pools)],
           \A queue \in Queues : \A i \in 1 .. Len(delayed'[queue]) :
               plans[delayed'[queue][i]].exists,
           UNCHANGED <<configVars, window>>,
           avail' \subseteq Disks /\ unavail' \subseteq Disks /\ avail' \cap unavail' = {},
           err' \in {"ok", "timed", "noMore", "memory"} /\ ret' \in BOOLEAN,
           key' \in Pools \cup {NoPool},
           flying' \subseteq [plan : Plans, window : Nat, known : BOOLEAN], InOnce',
           used' \in 0 .. MaxMishaps, batch' = batch \/ batch' = {}
    PROVE  Inv'
<1>1. todo \in Seq(Calls) /\ HandledBy(todo, plans, delayed)
  BY Types DEF Inv
<1>2. todo' \in Seq(Calls)
  BY <1>1, Appended
<1>3. batch' \subseteq Plans /\ BatchUsesTargetsOnce'
  BY DEF Inv, TypeOK, BatchUsesTargetsOnce
<1>4. TypeOK'
  BY <1>2, <1>3 DEF Inv, TypeOK, SubPlans, configVars
<1>5. WaitingHavePlans'
  <2>1. ASSUME NEW queue \in Queues, NEW i \in 1 .. Len(delayed'[queue])
        PROVE  plans'[delayed'[queue][i]].exists
    <3>1. delayed'[queue] \in Seq(Pools)
      OBVIOUS
    <3>2. delayed'[queue][i] \in Pools
      BY <3>1
    <3> QED BY <3>2
  <2> QED BY <2>1 DEF WaitingHavePlans
<1>6. HandledBy(todo', plans', delayed')
  <2>1. HandledBy(c \o Tail(todo), plans', delayed')
    BY <1>1, HandlesOn
  <2> QED BY <2>1
<1>7. BatchHeld'
  <2>1. ~Batches(c \o Tail(todo))
    BY <1>1, NoBatchBehind
  <2>2. ~Batches(todo')
    BY <2>1
  <2> QED BY <2>2 DEF BatchHeld, Batches
<1> QED BY <1>3, <1>4, <1>5, <1>6, <1>7 DEF Inv, HandledBy, Placed, SoundCall

\* A call that moves SubPools between queues at most.
LEMMA FrameKeeps ==
    ASSUME Inv, todo # <<>>, Head(todo).op \notin ScheduleOps,
           NEW c \in Seq(Calls), todo' = c \o Tail(todo), ~Batches(c),
           HandledBy(c, plans, delayed'),
           delayed' \in [Queues -> Seq(Pools)],
           \A queue \in Queues : \A i \in 1 .. Len(delayed'[queue]) :
               plans[delayed'[queue][i]].exists,
           UNCHANGED <<configVars, plans, diskVars, flying, window, used>>,
           err' \in {"ok", "timed", "noMore", "memory"} /\ ret' \in BOOLEAN,
           key' \in Pools \cup {NoPool}, batch' = batch \/ batch' = {}
    PROVE  Inv'
<1>1. /\ avail' \subseteq Disks /\ unavail' \subseteq Disks /\ avail' \cap unavail' = {}
      /\ flying' \subseteq [plan : Plans, window : Nat, known : BOOLEAN]
      /\ used' \in 0 .. MaxMishaps
  BY DEF Inv, TypeOK, diskVars
<1>2. InOnce'
  BY DEF Inv, InOnce
<1>3. /\ plans' = plans /\ plans' \in [Pools -> SubPlans]
      /\ \A q \in Pools : plans'[q].exists = plans[q].exists
      /\ UNCHANGED <<configVars, window>>
  BY Types
<1>4. HandledBy(c, plans', delayed')
  BY <1>3
<1> QED BY <1>1, <1>2, <1>3, <1>4, CallKeeps

LEMMA Waiting ==
    ASSUME Inv
    PROVE  \A queue \in Queues : \A i \in 1 .. Len(delayed[queue]) : plans[delayed[queue][i]].exists
  BY DEF Inv, WaitingHavePlans

\* Nothing but the calls, the error and the SubPool just scheduled changes.
LEMMA QueuesStay ==
    ASSUME Inv, todo # <<>>, Head(todo).op \notin ScheduleOps,
           NEW c \in Seq(Calls), todo' = c \o Tail(todo), ~Batches(c),
           HandledBy(c, plans, delayed), UNCHANGED <<callFrame, delayed, ret>>,
           err' \in {"ok", "timed", "noMore", "memory"}, key' \in Pools \cup {NoPool}
    PROVE  Inv'
<1>1. UNCHANGED <<configVars, plans, diskVars, flying, window, used>> /\ batch' = batch
      /\ delayed' = delayed
  BY DEF callFrame
<1>2. /\ delayed' \in [Queues -> Seq(Pools)]
      /\ \A queue \in Queues : \A i \in 1 .. Len(delayed'[queue]) :
            plans[delayed'[queue][i]].exists
  BY <1>1, Types, Waiting
<1>3. HandledBy(c, plans, delayed') /\ ret' \in BOOLEAN
  BY <1>1 DEF Inv, TypeOK
<1> QED BY <1>1, <1>2, <1>3, FrameKeeps

\* A SubPool with plans is put into a queue.
LEMMA OneWaits ==
    ASSUME Inv, todo # <<>>, Head(todo).op \notin ScheduleOps,
           NEW p \in Pools, plans[p].exists, NEW queue \in Queues, Waits(queue, p),
           Then(<<>>), UNCHANGED <<configVars, plans, diskVars, flying, window, used>>,
           UNCHANGED <<err, ret, key>>, batch' = batch \/ batch' = {}
    PROVE  Inv'
<1>1. /\ delayed' \in [Queues -> Seq(Pools)]
      /\ \A other \in Queues : \A i \in 1 .. Len(delayed'[other]) :
            plans[delayed'[other][i]].exists
  BY Types, Waiting, WaitingStays DEF Waits
<1> DEFINE c == <<>>
<1>2. c \in Seq(Calls) /\ ~Batches(c) /\ HandledBy(c, plans, delayed')
  BY NoneHandled
<1>3. todo' = c \o Tail(todo)
  BY DEF Then
<1>4. /\ err' \in {"ok", "timed", "noMore", "memory"} /\ ret' \in BOOLEAN
      /\ key' \in Pools \cup {NoPool}
  BY DEF Inv, TypeOK
<1> HIDE DEF c
<1> QED BY <1>1, <1>2, <1>3, <1>4, FrameKeeps

LEMMA FirstDoneKeeps ==
    ASSUME Inv, FirstDone
    PROVE  Inv'
<1> DEFINE p == Head(todo).pool
<1>1. todo # <<>> /\ Head(todo).op = "firstDone"
  BY DEF FirstDone, Does
<1>2. p \in Pools /\ plans[p].exists /\ Head(todo).op \notin ScheduleOps
  BY <1>1, HeadIsSound DEF SoundCall, PoolOps, ScheduleOps
<1>3. /\ UNCHANGED <<configVars, plans, diskVars, flying, window, used>>
      /\ UNCHANGED <<err, ret, key>> /\ batch' = {}
  BY DEF FirstDone
<1>4. CASE \E queue \in {"first", "timedFirst"} : Waits(queue, p) /\ Then(<<>>)
  <2>1. PICK queue \in Queues : Waits(queue, p) /\ Then(<<>>)
    BY <1>4 DEF Queues
  <2> HIDE DEF p
  <2> QED BY <1>1, <1>2, <1>3, <2>1, OneWaits
<1>5. CASE /\ Then(<<Call("submit", p)>>) \/ Then(<<>>)
           /\ UNCHANGED delayed
  <2>1. PICK c \in Seq(Calls) : /\ c = <<>> \/ c = <<Call("submit", p)>>
                                /\ todo' = c \o Tail(todo)
    <3>1. <<>> \in Seq(Calls) /\ <<Call("submit", p)>> \in Seq(Calls)
      BY <1>2, CallIs DEF Ops
    <3> QED BY <1>5, <3>1 DEF Then
  <2>2. ~Batches(c) /\ HandledBy(c, plans, delayed)
    <3> DEFINE x == Call("submit", p)
    <3>1. x \in Calls /\ x.op = "submit"
      BY <1>2, CallIs DEF Ops
    <3> HIDE DEF x
    <3>2. SoundCall(x, plans, delayed) /\ x.op \notin {"more", "search"}
      BY <3>1 DEF SoundCall, PoolOps, ScheduleOps
    <3>3. c = <<>> \/ c = <<x>>
      BY <2>1 DEF x
    <3> QED BY <3>1, <3>2, <3>3, NoneHandled, OneHandled
  <2>3. /\ err' \in {"ok", "timed", "noMore", "memory"} /\ ret' \in BOOLEAN
        /\ key' \in Pools \cup {NoPool}
    BY <1>3 DEF Inv, TypeOK
  <2>4. /\ delayed' \in [Queues -> Seq(Pools)] /\ HandledBy(c, plans, delayed')
        /\ \A other \in Queues : \A i \in 1 .. Len(delayed'[other]) :
              plans[delayed'[other][i]].exists
    BY <1>5, <2>2, Types, Waiting
  <2> QED BY <1>1, <1>2, <1>3, <2>1, <2>2, <2>3, <2>4, FrameKeeps
<1> QED BY <1>4, <1>5 DEF FirstDone

LEMMA ScheduleDelayedKeeps ==
    ASSUME Inv, ScheduleDelayed
    PROVE  Inv'
<1>1. todo # <<>> /\ Head(todo).op = "delayed" /\ Head(todo).op \notin ScheduleOps
  BY DEF ScheduleDelayed, Does, ScheduleOps
<1> DEFINE c == DelayedStages
<1>2. c \in Seq(Calls) /\ Len(c) = 4
      /\ \A i \in 1 .. Len(c) : \E queue \in Queues : c[i] = Drain(queue)
  <2>1. \A queue \in Queues : Drain(queue) \in Calls
    BY DrainIs
  <2>2. {"first", "next", "timedFirst", "timedNext"} = Queues
    BY DEF Queues
  <2> QED BY <2>1, <2>2 DEF DelayedStages
<1>3. todo' = c \o Tail(todo)
  BY DEF ScheduleDelayed, Then
<1> HIDE DEF c
<1>4. \A i \in 1 .. Len(c) : c[i].op = "drain" /\ c[i].mode \in Queues
  BY <1>2, DrainIs
<1>5. HandledBy(c, plans, delayed)
  BY <1>4 DEF HandledBy, Placed, SoundCall, PoolOps, ScheduleOps
<1>6. ~Batches(c)
  <2>1. Head(c) = c[1] /\ 1 \in 1 .. Len(c)
    BY <1>2
  <2> QED BY <1>4, <2>1 DEF Batches
<1>7. /\ UNCHANGED <<callFrame, delayed, ret>>
      /\ err' \in {"ok", "timed", "noMore", "memory"} /\ key' \in Pools \cup {NoPool}
  BY DEF ScheduleDelayed, Inv, TypeOK
<1> QED BY <1>1, <1>2, <1>3, <1>5, <1>6, <1>7, QueuesStay

LEMMA NextDoneKeeps ==
    ASSUME Inv, NextDone
    PROVE  Inv'
<1> DEFINE p == Head(todo).pool
           x == Call("submitNext", p)
           y == Call("delayed", p)
           z == Call("requeue", p)
<1>1. todo # <<>> /\ Head(todo).op = "nextDone"
  BY DEF NextDone, Does
<1>2. p \in Pools /\ plans[p].exists /\ Head(todo).op \notin ScheduleOps
  BY <1>1, HeadIsSound DEF SoundCall, PoolOps, ScheduleOps
<1>3. /\ x \in Calls /\ x.op = "submitNext" /\ y \in Calls /\ y.op = "delayed"
      /\ z \in Calls /\ z.op = "requeue" /\ z.pool = p
  BY <1>2, CallIs DEF Ops
<1>4. todo' = (IF ret THEN <<x>> ELSE <<y, z>>) \o Tail(todo)
  BY DEF NextDone, Then
<1> HIDE DEF x, y, z
<1>5. /\ SoundCall(x, plans, delayed) /\ SoundCall(y, plans, delayed)
      /\ SoundCall(z, plans, delayed)
  BY <1>2, <1>3 DEF SoundCall, PoolOps, ScheduleOps
<1>6. PICK c \in Seq(Calls) : /\ todo' = c \o Tail(todo) /\ ~Batches(c)
                              /\ HandledBy(c, plans, delayed)
  <2>1. CASE ret
    BY <1>3, <1>4, <1>5, <2>1, OneHandled
  <2>2. CASE ~ret
    BY <1>3, <1>4, <1>5, <2>2, TwoHandled
  <2> QED BY <2>1, <2>2
<1>7. /\ UNCHANGED <<callFrame, delayed, ret>>
      /\ err' \in {"ok", "timed", "noMore", "memory"} /\ key' \in Pools \cup {NoPool}
  BY DEF NextDone, Inv, TypeOK
<1> QED BY <1>1, <1>2, <1>6, <1>7, QueuesStay

LEMMA RequeueKeeps ==
    ASSUME Inv, Requeue
    PROVE  Inv'
<1> DEFINE p == Head(todo).pool
<1>1. todo # <<>> /\ Head(todo).op = "requeue"
  BY DEF Requeue, Does
<1>2. p \in Pools /\ plans[p].exists /\ Head(todo).op \notin ScheduleOps
  BY <1>1, HeadIsSound DEF SoundCall, PoolOps, ScheduleOps
<1>3. /\ UNCHANGED <<configVars, plans, diskVars, flying, window, used>>
      /\ UNCHANGED callFrame /\ UNCHANGED <<err, ret, key>> /\ batch' = batch /\ Then(<<>>)
  BY DEF Requeue, callFrame
<1>4. CASE \E queue \in {"timedFirst", "next"} : Waits(queue, p)
  <2>1. PICK queue \in Queues : Waits(queue, p)
    BY <1>4 DEF Queues
  <2> HIDE DEF p
  <2> QED BY <1>1, <1>2, <1>3, <2>1, OneWaits
<1>5. CASE UNCHANGED delayed
  <2> DEFINE c == <<>>
  <2>1. c \in Seq(Calls) /\ ~Batches(c) /\ HandledBy(c, plans, delayed)
    BY NoneHandled
  <2>2. todo' = c \o Tail(todo)
    BY <1>3 DEF Then
  <2>3. err' \in {"ok", "timed", "noMore", "memory"} /\ key' \in Pools \cup {NoPool}
    BY <1>3 DEF Inv, TypeOK
  <2> HIDE DEF c
  <2> QED BY <1>1, <1>2, <1>3, <1>5, <2>1, <2>2, <2>3, QueuesStay
<1> QED BY <1>4, <1>5 DEF Requeue

LEMMA ExpiredDoneKeeps ==
    ASSUME Inv, ExpiredDone
    PROVE  Inv'
<1> DEFINE p == Head(todo).pool
<1>1. todo # <<>> /\ Head(todo).op = "expired"
  BY DEF ExpiredDone, Does
<1>2. p \in Pools /\ plans[p].exists /\ Head(todo).op \notin ScheduleOps
  BY <1>1, HeadIsSound DEF SoundCall, PoolOps, ScheduleOps
<1>3. /\ UNCHANGED <<configVars, plans, diskVars, flying, window, used>>
      /\ UNCHANGED <<err, ret, key>> /\ batch' = batch /\ Then(<<>>)
      /\ Waits("timedNext", p) /\ "timedNext" \in Queues
  BY DEF ExpiredDone, callFrame, Queues
<1> HIDE DEF p
<1> QED BY <1>1, <1>2, <1>3, OneWaits

--------------------------------------------------------------------------------
(* Draining a queue                                                            *)

LEMMA TriedIs ==
    ASSUME NEW queue \in Queues, NEW p \in Pools \cup {NoPool}
    PROVE  /\ Call(Tried(queue), p) \in Calls /\ Call(Tried(queue), p).pool = p
           /\ Call(Tried(queue), p).op \in {"first", "next"}
           /\ Call(Submits(queue), p) \in Calls
           /\ Call(Submits(queue), p).op \in {"submit", "submitNext"}
<1>1. /\ Tried(queue) \in {"first", "next"} /\ Tried(queue) \in Ops
      /\ Submits(queue) \in {"submit", "submitNext"} /\ Submits(queue) \in Ops
  BY DEF Tried, Submits, Ops
<1> QED BY <1>1, CallIs

\* A queue's next entry is tried, and so many after it.
LEMMA TryNext ==
    ASSUME NEW dl \in [Queues -> Seq(Pools)],
           \A other \in Queues : \A i \in 1 .. Len(dl[other]) : plans[dl[other][i]].exists,
           NEW queue \in Queues, NEW n \in Nat, n < Len(dl[queue]), NEW call,
           call = [Drain(queue) EXCEPT !.op = "drained", !.tries = n],
           NEW c, c = <<Call(Tried(queue), Head(dl[queue])), call>>
    PROVE  c \in Seq(Calls) /\ ~Batches(c) /\ HandledBy(c, plans, dl)
<1> DEFINE p == Head(dl[queue])
           x == Call(Tried(queue), p)
<1>1. p \in Pools /\ plans[p].exists
  <2>1. dl[queue] \in Seq(Pools) /\ Len(dl[queue]) \in Nat /\ 1 \in 1 .. Len(dl[queue])
    OBVIOUS
  <2>2. p = dl[queue][1]
    BY <2>1
  <2> QED BY <2>1, <2>2
<1> HIDE DEF p
<1>2. x \in Calls /\ x.pool = p /\ x.op \in {"first", "next"}
  BY <1>1, TriedIs
<1>3. call \in Calls /\ call.op = "drained" /\ call.mode = queue /\ call.tries = n
  <2>1. [Drain(queue) EXCEPT !.op = "drained", !.tries = n] \in Calls
        /\ call = [Drain(queue) EXCEPT !.op = "drained", !.tries = n]
    BY DEF Drain, Call, Calls, Ops
  <2> QED BY <2>1 DEF Drain, Call
<1>4. c = <<x, call>>
  BY DEF p
<1> HIDE DEF x
<1>5. SoundCall(x, plans, dl) /\ SoundCall(call, plans, dl)
  BY <1>1, <1>2, <1>3 DEF SoundCall, PoolOps, ScheduleOps
<1>6. x.op \in ScheduleOps /\ x.op \notin {"more", "search"} /\ call.op \notin {"more", "search"}
  BY <1>2, <1>3 DEF ScheduleOps
<1> QED BY <1>2, <1>3, <1>4, <1>5, <1>6, TwoHandled

LEMMA SubmitHandled ==
    ASSUME NEW queue \in Queues, NEW p \in Pools \cup {NoPool}, NEW dl,
           NEW c, c = <<Call(Submits(queue), p)>>
    PROVE  c \in Seq(Calls) /\ ~Batches(c) /\ HandledBy(c, plans, dl)
<1> DEFINE x == Call(Submits(queue), p)
<1>1. x \in Calls /\ x.op \in {"submit", "submitNext"}
  BY TriedIs
<1>2. c = <<x>>
  OBVIOUS
<1> HIDE DEF x
<1>3. SoundCall(x, plans, dl) /\ x.op \notin {"more", "search"}
  BY <1>1 DEF SoundCall, PoolOps, ScheduleOps
<1> QED BY <1>1, <1>2, <1>3, OneHandled

LEMMA BeginDrainKeeps ==
    ASSUME Inv, BeginDrain
    PROVE  Inv'
<1> DEFINE queue == Head(todo).mode
           waiting == delayed[queue]
           tries == IF Len(waiting) < RetryTimes THEN Len(waiting) ELSE RetryTimes
           call == [Drain(queue) EXCEPT !.op = "drained", !.tries = tries - 1]
<1>1. todo # <<>> /\ Head(todo).op = "drain"
  BY DEF BeginDrain, Does
<1>2. queue \in Queues /\ Head(todo).op \notin ScheduleOps
  BY <1>1, HeadIsSound DEF SoundCall, ScheduleOps
<1>3. delayed \in [Queues -> Seq(Pools)] /\ key \in Pools \cup {NoPool}
      /\ err \in {"ok", "timed", "noMore", "memory"}
  BY DEF Inv, TypeOK
<1>4. /\ UNCHANGED <<callFrame, delayed, ret>> /\ key' = key
      /\ err' \in {"ok", "timed", "noMore", "memory"}
  BY <1>3 DEF BeginDrain
<1>5. CASE waiting = <<>> /\ Then(<<>>)
  <2> DEFINE c == <<>>
  <2>1. c \in Seq(Calls) /\ ~Batches(c) /\ HandledBy(c, plans, delayed)
    BY NoneHandled
  <2>2. todo' = c \o Tail(todo)
    BY <1>5 DEF Then
  <2> HIDE DEF c
  <2> QED BY <1>1, <1>2, <1>3, <1>4, <2>1, <2>2, QueuesStay
<1>6. CASE Then(<<Call(Submits(queue), key)>>)
  <2> DEFINE c == <<Call(Submits(queue), key)>>
  <2>1. c \in Seq(Calls) /\ ~Batches(c) /\ HandledBy(c, plans, delayed)
    BY <1>2, <1>3, SubmitHandled
  <2>2. todo' = c \o Tail(todo)
    BY <1>6 DEF Then
  <2> HIDE DEF c
  <2> QED BY <1>1, <1>2, <1>3, <1>4, <2>1, <2>2, QueuesStay
<1>7. CASE waiting # <<>> /\ Then(<<Call(Tried(queue), Head(waiting)), call>>)
  <2> DEFINE c == <<Call(Tried(queue), Head(waiting)), call>>
             n == tries - 1
  <2>1. n \in Nat /\ n < Len(delayed[queue])
    <3>1. waiting \in Seq(Pools) /\ Len(waiting) \in Nat \ {0}
      BY <1>2, <1>3, <1>7
    <3> QED BY <3>1, PlanAssumption
  <2>2. call = [Drain(queue) EXCEPT !.op = "drained", !.tries = n]
    OBVIOUS
  <2>3. c = <<Call(Tried(queue), Head(delayed[queue])), call>>
    OBVIOUS
  <2>4. todo' = c \o Tail(todo)
    BY <1>7 DEF Then
  <2> HIDE DEF c, n, call, queue
  <2>5. c \in Seq(Calls) /\ ~Batches(c) /\ HandledBy(c, plans, delayed)
    BY <1>2, <1>3, <2>1, <2>2, <2>3, Waiting, TryNext
  <2> QED BY <1>1, <1>2, <1>3, <1>4, <2>4, <2>5, QueuesStay
<1> QED BY <1>5, <1>6, <1>7 DEF BeginDrain

\* What is left of a queue after an entry was tried.
LEMMA RestIs ==
    ASSUME NEW q \in Seq(Pools), q # <<>>, NEW rest,
           rest = Tail(q) \/ rest = Append(Tail(q), Head(q))
    PROVE  /\ rest \in Seq(Pools) /\ Len(rest) \in {Len(q) - 1, Len(q)}
           /\ \A i \in 1 .. Len(rest) : \E j \in 1 .. Len(q) : rest[i] = q[j]
<1>1. /\ Tail(q) \in Seq(Pools) /\ Len(Tail(q)) = Len(q) - 1 /\ Len(q) \in Nat \ {0}
      /\ \A i \in 1 .. Len(q) - 1 : Tail(q)[i] = q[i + 1]
      /\ Head(q) = q[1] /\ Head(q) \in Pools
  OBVIOUS
<1>2. CASE rest = Tail(q)
  <2>1. ASSUME NEW i \in 1 .. Len(rest) PROVE \E j \in 1 .. Len(q) : rest[i] = q[j]
    <3>1. i + 1 \in 1 .. Len(q) /\ rest[i] = q[i + 1]
      BY <1>1, <1>2
    <3> QED BY <3>1
  <2> QED BY <1>1, <1>2, <2>1
<1>3. CASE rest = Append(Tail(q), Head(q))
  <2>1. rest \in Seq(Pools) /\ Len(rest) = Len(q)
    BY <1>1, <1>3
  <2>2. ASSUME NEW i \in 1 .. Len(rest) PROVE \E j \in 1 .. Len(q) : rest[i] = q[j]
    <3>1. CASE i = Len(q)
      <4>1. rest[i] = Head(q)
        BY <1>1, <1>3, <3>1
      <4>2. 1 \in 1 .. Len(q)
        BY <1>1
      <4> QED BY <1>1, <4>1, <4>2
    <3>2. CASE i # Len(q)
      <4>0. PICK n \in Nat \ {0} : n = Len(q)
        BY <1>1
      <4>1. i \in 1 .. Len(q) - 1
        <5>1. i \in 1 .. n /\ i # n
          BY <2>1, <3>2, <4>0
        <5> QED BY <4>0, <5>1
      <4>2. rest[i] = Tail(q)[i]
        BY <1>1, <1>3, <4>1
      <4>3. i + 1 \in 1 .. Len(q) /\ rest[i] = q[i + 1]
        BY <1>1, <4>1, <4>2
      <4> QED BY <4>3
    <3> QED BY <3>1, <3>2
  <2> QED BY <2>1, <2>2
<1> QED BY <1>2, <1>3

LEMMA DrainedKeeps ==
    ASSUME Inv, Drained
    PROVE  Inv'
<1> DEFINE call == Head(todo)
           queue == Head(todo).mode
           p == Head(delayed[queue])
           rest == IF ret \/ err = "noMore" THEN Tail(delayed[queue])
                   ELSE Append(Tail(delayed[queue]), p)
<1>1. todo # <<>> /\ call.op = "drained"
  BY DEF Drained, Does
<1>2. /\ call \in Calls /\ queue \in Queues /\ call.op \notin ScheduleOps
      /\ call.tries \in Nat /\ call.tries < Len(delayed[queue])
  BY <1>1, HeadIsSound DEF SoundCall, ScheduleOps, Calls
<1>3. /\ delayed \in [Queues -> Seq(Pools)] /\ key \in Pools \cup {NoPool}
      /\ err \in {"ok", "timed", "noMore", "memory"} /\ ret \in BOOLEAN
  BY DEF Inv, TypeOK
<1>4. /\ UNCHANGED <<configVars, plans, diskVars, flying, window, used>>
      /\ batch' = batch /\ err' = err /\ ret' = ret
      /\ delayed' = [delayed EXCEPT ![queue] = rest]
  BY DEF Drained, callFrame
<1>5. delayed[queue] \in Seq(Pools) /\ Len(delayed[queue]) \in Nat \ {0} /\ delayed[queue] # <<>>
  BY <1>2, <1>3
<1>6. p \in Pools
  BY <1>5
<1>7. rest = Tail(delayed[queue]) \/ rest = Append(Tail(delayed[queue]), Head(delayed[queue]))
  OBVIOUS
<1> HIDE DEF rest
<1>8. /\ rest \in Seq(Pools) /\ Len(rest) \in {Len(delayed[queue]) - 1, Len(delayed[queue])}
      /\ \A i \in 1 .. Len(rest) : \E j \in 1 .. Len(delayed[queue]) :
            rest[i] = delayed[queue][j]
  BY <1>5, <1>7, RestIs
<1> HIDE DEF queue
<1>9. delayed' \in [Queues -> Seq(Pools)] /\ delayed'[queue] = rest
  BY <1>2, <1>3, <1>4, <1>8
<1>10. \A other \in Queues : \A i \in 1 .. Len(delayed'[other]) :
            plans[delayed'[other][i]].exists
  <2>1. ASSUME NEW other \in Queues, NEW i \in 1 .. Len(delayed'[other])
        PROVE  plans[delayed'[other][i]].exists
    <3>1. CASE other = queue
      <4>1. i \in 1 .. Len(rest)
        BY <1>9, <3>1
      <4>2. PICK j \in 1 .. Len(delayed[queue]) : rest[i] = delayed[queue][j]
        BY <1>8, <4>1
      <4>3. plans[delayed[queue][j]].exists
        BY <1>2, Waiting
      <4> QED BY <1>9, <3>1, <4>2, <4>3
    <3>2. CASE other # queue
      <4>1. delayed'[other] = delayed[other]
        BY <1>3, <1>4, <3>2
      <4> QED BY <4>1, Waiting
    <3> QED BY <3>1, <3>2
  <2> QED BY <2>1
<1>11. CASE ret /\ key' = p /\ Then(<<Call(Submits(queue), p)>>)
  <2> DEFINE c == <<Call(Submits(queue), p)>>
  <2>1. c \in Seq(Calls) /\ ~Batches(c) /\ HandledBy(c, plans, delayed')
    BY <1>2, <1>6, SubmitHandled
  <2>2. todo' = c \o Tail(todo)
    BY <1>11 DEF Then
  <2>3. /\ err' \in {"ok", "timed", "noMore", "memory"} /\ ret' \in BOOLEAN
        /\ key' \in Pools \cup {NoPool}
    BY <1>3, <1>4, <1>6, <1>11
  <2> HIDE DEF c
  <2> QED BY <1>1, <1>2, <1>4, <1>9, <1>10, <2>1, <2>2, <2>3, FrameKeeps
<1>12. CASE UNCHANGED key /\ Then(<<>>)
  <2> DEFINE c == <<>>
  <2>1. c \in Seq(Calls) /\ ~Batches(c) /\ HandledBy(c, plans, delayed')
    BY NoneHandled
  <2>2. todo' = c \o Tail(todo)
    BY <1>12 DEF Then
  <2>3. /\ err' \in {"ok", "timed", "noMore", "memory"} /\ ret' \in BOOLEAN
        /\ key' \in Pools \cup {NoPool}
    BY <1>3, <1>4, <1>12
  <2> HIDE DEF c
  <2> QED BY <1>1, <1>2, <1>4, <1>9, <1>10, <2>1, <2>2, <2>3, FrameKeeps
<1>13. CASE /\ TriesLeft(call) /\ UNCHANGED key
            /\ Then(<<Call(Tried(queue), Head(rest)), [call EXCEPT !.tries = @ - 1]>>)
  <2> DEFINE n == call.tries - 1
  <2>1. n \in Nat /\ n < Len(delayed'[queue])
    BY <1>2, <1>5, <1>8, <1>9, <1>13 DEF TriesLeft
  <2>2. PICK next : next = [call EXCEPT !.tries = @ - 1]
    OBVIOUS
  <2>3. next \in Calls /\ next.op = "drained" /\ next.mode = queue /\ next.tries = n
    BY <1>1, <1>2, <2>1, <2>2 DEF Calls, queue
  <2> DEFINE s == <<Call(Tried(queue), Head(rest)), next>>
  <2>4. Head(rest) \in Pools /\ plans[Head(rest)].exists
    <3>1. rest # <<>> /\ 1 \in 1 .. Len(rest) /\ Head(rest) = rest[1]
      BY <1>8, <1>9, <2>1
    <3> QED BY <1>2, <1>8, <1>9, <1>10, <3>1
  <2> DEFINE x == Call(Tried(queue), Head(rest))
  <2>5. x \in Calls /\ x.pool = Head(rest) /\ x.op \in {"first", "next"}
    BY <1>2, <2>4, TriedIs
  <2>6. todo' = s \o Tail(todo) /\ s = <<x, next>>
    BY <1>13, <2>2 DEF Then
  <2> HIDE DEF x, s, n
  <2>7. SoundCall(x, plans, delayed') /\ SoundCall(next, plans, delayed')
    BY <1>2, <2>1, <2>3, <2>4, <2>5 DEF SoundCall, PoolOps, ScheduleOps
  <2>8. x.op \in ScheduleOps /\ x.op \notin {"more", "search"} /\ next.op \notin {"more", "search"}
    BY <2>3, <2>5 DEF ScheduleOps
  <2>9. s \in Seq(Calls) /\ ~Batches(s) /\ HandledBy(s, plans, delayed')
    BY <2>3, <2>5, <2>6, <2>7, <2>8, TwoHandled
  <2>10. /\ err' \in {"ok", "timed", "noMore", "memory"} /\ ret' \in BOOLEAN
         /\ key' \in Pools \cup {NoPool}
    BY <1>3, <1>4, <1>13
  <2> QED BY <1>1, <1>2, <1>4, <1>9, <1>10, <2>6, <2>9, <2>10, FrameKeeps
<1> QED BY <1>11, <1>12, <1>13 DEF Drained, queue, rest

--------------------------------------------------------------------------------
(* Submitting                                                                  *)

Flights == [plan : Plans, window : Nat, known : BOOLEAN]

LEMMA Received ==
    ASSUME Inv, NEW p \in Pools, NEW at \in Nat \ {0}, at <= Len(plans[p].list),
           NEW answer, Receive(p, at, answer)
    PROVE  /\ plans' \in [Pools -> SubPlans]
           /\ \A q \in Pools : plans'[q].exists = plans[q].exists
           /\ avail' \subseteq Disks /\ unavail' \subseteq Disks /\ avail' \cap unavail' = {}
           /\ flying' \subseteq Flights /\ InOnce' /\ used' \in 0 .. MaxMishaps
<1> DEFINE plan == plans[p].list[at]
<1>1. plans \in [Pools -> SubPlans] /\ plans[p] \in SubPlans
  BY Types
<1>2. plan \in Plans
  <2>1. plans[p].list \in Seq(Plans)
    BY <1>1 DEF SubPlans
  <2>2. at \in 1 .. Len(plans[p].list)
    BY <2>1
  <2> QED BY <2>1, <2>2
<1>3. /\ plans' \in [Pools -> SubPlans]
      /\ \A q \in Pools : plans'[q].exists = plans[q].exists
  <2> DEFINE b == plans[p].deleted \/ answer = "subpool"
             r == [plans[p] EXCEPT !.mark = at, !.deleted = b]
  <2>1. plans' = [plans EXCEPT ![p] = r]
    BY <1>1 DEF Receive
  <2>2. r \in SubPlans /\ r.exists = plans[p].exists
    BY <1>1 DEF SubPlans
  <2> HIDE DEF r
  <2> QED BY <1>1, <2>1, <2>2, PlansChange
<1>4. plan.to \in Disks /\ Source[plan.obj] \in Disks
  BY <1>2, PlanAssumption DEF Plans
<1>5. /\ answer \in Answers(plan) /\ OnFailToSubmit(plan, answer)
      /\ used' = used + IF answer = "refused" THEN 1 ELSE 0
      /\ flying' = IF answer = "accepted"
                   THEN flying \cup {[plan |-> plan, window |-> window, known |-> TRUE]}
                   ELSE IF answer = "subpool"
                   THEN {[f EXCEPT !.known = @ /\ PoolOfPlan(f.plan) # p] : f \in flying}
                   ELSE flying
  BY Zenon DEF Receive
<1> HIDE DEF plan
<1>6. /\ avail \subseteq Disks /\ unavail \subseteq Disks /\ avail \cap unavail = {}
      /\ flying \subseteq Flights /\ window \in Nat /\ used \in 0 .. MaxMishaps
      /\ \A f, g \in flying : f.known /\ g.known /\ f.plan.obj = g.plan.obj => f = g
  BY PlanAssumption DEF Inv, TypeOK, InOnce, Flights
<1>7. avail' \subseteq Disks /\ unavail' \subseteq Disks /\ avail' \cap unavail' = {}
  <2>1. PICK freed \in SUBSET Disks : avail' = avail \cup freed /\ unavail' = unavail \ freed
    BY <1>4, <1>5 DEF OnFailToSubmit
  <2> QED BY <1>6, <2>1
<1>8. used' \in 0 .. MaxMishaps
  <2>1. answer = "refused" => used < MaxMishaps
    BY <1>5 DEF Answers
  <2> QED BY <1>5, <1>6, <2>1, PlanAssumption
<1>9. flying' \subseteq Flights /\ \A f, g \in flying' : f.known /\ g.known /\ f.plan.obj = g.plan.obj => f = g
  <2>1. CASE answer = "accepted"
    <3> DEFINE new == [plan |-> plan, window |-> window, known |-> TRUE]
    <3>1. new \in Flights /\ new.plan = plan
      BY <1>2, <1>6 DEF Flights
    <3>2. flying' = flying \cup {new}
      BY <1>5, <2>1
    <3> HIDE DEF new
    <3>3. \A f \in flying : f.known => f.plan.obj # plan.obj
      BY <1>5, <2>1 DEF Answers
    <3> QED BY <1>6, <3>1, <3>2, <3>3
  <2>2. CASE answer = "subpool"
    <3> DEFINE left(f) == [f EXCEPT !.known = @ /\ PoolOfPlan(f.plan) # p]
    <3>1. flying' = {left(f) : f \in flying}
      BY <1>5, <2>2
    <3>2. ASSUME NEW f \in flying
          PROVE  left(f) \in Flights /\ (left(f).known => left(f) = f)
      <4>1. f \in Flights
        BY <1>6
      <4> QED BY <4>1 DEF Flights
    <3> HIDE DEF left
    <3>3. \A f \in flying' : f \in Flights /\ (f.known => f \in flying)
      BY <3>1, <3>2
    <3> QED BY <1>6, <3>3
  <2>3. CASE answer \notin {"accepted", "subpool"}
    BY <1>5, <1>6, <2>3
  <2> QED BY <2>1, <2>2, <2>3
<1> QED BY <1>3, <1>7, <1>8, <1>9 DEF InOnce

LEMMA SubmitFirstBatchKeeps ==
    ASSUME Inv, SubmitFirstBatch
    PROVE  Inv'
<1> DEFINE p == Head(todo).pool
           at == IF Head(todo).mode = "going" THEN NextPlan(p) ELSE 1
<1>1. todo # <<>> /\ Head(todo).op = "submit" /\ Head(todo).op \notin ScheduleOps
  BY DEF SubmitFirstBatch, Does, ScheduleOps
<1>2. p \in Pools \cup {NoPool}
  BY <1>1, HeadIsSound DEF Calls
<1>3. UNCHANGED <<configVars, delayed, err, ret, key, window, batch>>
  BY DEF SubmitFirstBatch
<1>4. /\ delayed' \in [Queues -> Seq(Pools)]
      /\ \A queue \in Queues : \A i \in 1 .. Len(delayed'[queue]) :
               plans[delayed'[queue][i]].exists
  BY <1>3, Types, Waiting
<1>5. /\ err' \in {"ok", "timed", "noMore", "memory"} /\ ret' \in BOOLEAN
      /\ key' \in Pools \cup {NoPool} /\ UNCHANGED <<configVars, window>> /\ batch' = batch
  BY <1>3 DEF Inv, TypeOK
<1>6. CASE Then(<<>>) /\ UNCHANGED <<plans, flying, diskVars, used>>
  <2> DEFINE c == <<>>
  <2>1. c \in Seq(Calls) /\ ~Batches(c) /\ HandledBy(c, plans, delayed')
    BY NoneHandled
  <2>2. todo' = c \o Tail(todo)
    BY <1>6 DEF Then
  <2>3. UNCHANGED <<configVars, plans, diskVars, flying, window, used>>
    BY <1>5, <1>6
  <2> HIDE DEF c
  <2> QED BY <1>1, <1>4, <1>5, <2>1, <2>2, <2>3, FrameKeeps
<1>7. CASE /\ HasPlanAt(p, at)
           /\ \E answer : Receive(p, at, answer)
           /\ \/ Then(<<>>)
              \/ Then(<<[Call("submit", p) EXCEPT !.mode = "going"]>>)
  <2>1. p \in Pools
    BY <1>2, <1>7 DEF HasPlanAt
  <2>2. at \in Nat \ {0} /\ at <= Len(plans[p].list)
    <3>1. plans[p].mark \in Nat
      BY <2>1, Types DEF SubPlans
    <3> QED BY <1>7, <3>1 DEF HasPlanAt, NextPlan
  <2>3. PICK answer : Receive(p, at, answer)
    BY <1>7
  <2> HIDE DEF at
  <2>4. /\ plans' \in [Pools -> SubPlans]
        /\ \A q \in Pools : plans'[q].exists = plans[q].exists
        /\ avail' \subseteq Disks /\ unavail' \subseteq Disks /\ avail' \cap unavail' = {}
        /\ flying' \subseteq Flights /\ InOnce' /\ used' \in 0 .. MaxMishaps
    <3> HIDE DEF p
    <3> QED BY <2>1, <2>2, <2>3, Received
  <2>5. PICK x : x = [Call("submit", p) EXCEPT !.mode = "going"]
    OBVIOUS
  <2>6. x \in Calls /\ x.op = "submit"
    BY <2>1, <2>5, GoingIs
  <2>7. SoundCall(x, plans', delayed') /\ x.op \notin {"more", "search"}
    BY <2>6 DEF SoundCall, PoolOps, ScheduleOps
  <2>8. PICK c : (c = <<>> \/ c = <<x>>) /\ todo' = c \o Tail(todo)
    BY <1>7, <2>5 DEF Then
  <2>9. c \in Seq(Calls) /\ ~Batches(c) /\ HandledBy(c, plans', delayed')
    BY <2>6, <2>7, <2>8, NoneHandled, OneHandled
  <2>10. flying' \subseteq [plan : Plans, window : Nat, known : BOOLEAN]
    BY <2>4 DEF Flights
  <2> QED BY <1>1, <1>4, <1>5, <2>4, <2>8, <2>9, <2>10, CallKeeps
<1>8. \/ Then(<<>>) /\ UNCHANGED <<plans, flying, diskVars, used>>
      \/ /\ HasPlanAt(p, at)
         /\ \E answer : Receive(p, at, answer)
         /\ \/ Then(<<>>)
            \/ Then(<<[Call("submit", p) EXCEPT !.mode = "going"]>>)
  BY DEF SubmitFirstBatch
<1> QED BY <1>6, <1>7, <1>8

LEMMA SubmitNextKeeps ==
    ASSUME Inv, SubmitNext
    PROVE  Inv'
<1> DEFINE p == Head(todo).pool
           at == NextPlan(p)
           c == <<>>
<1>1. todo # <<>> /\ Head(todo).op = "submitNext" /\ Head(todo).op \notin ScheduleOps
  BY DEF SubmitNext, Does, ScheduleOps
<1>2. p \in Pools \cup {NoPool}
  BY <1>1, HeadIsSound DEF Calls
<1>3. UNCHANGED <<configVars, delayed, err, ret, key, window, batch>> /\ Then(<<>>)
  BY DEF SubmitNext
<1>4. /\ delayed' \in [Queues -> Seq(Pools)]
      /\ \A queue \in Queues : \A i \in 1 .. Len(delayed'[queue]) :
               plans[delayed'[queue][i]].exists
  BY <1>3, Types, Waiting
<1>5. /\ err' \in {"ok", "timed", "noMore", "memory"} /\ ret' \in BOOLEAN
      /\ key' \in Pools \cup {NoPool} /\ UNCHANGED <<configVars, window>> /\ batch' = batch
  BY <1>3 DEF Inv, TypeOK
<1>6. todo' = c \o Tail(todo) /\ c = <<>>
  BY <1>3 DEF Then
<1> HIDE DEF c
<1>7. CASE UNCHANGED <<plans, flying, diskVars, used>>
  <2>1. c \in Seq(Calls) /\ ~Batches(c) /\ HandledBy(c, plans, delayed')
    BY <1>6, NoneHandled
  <2>2. UNCHANGED <<configVars, plans, diskVars, flying, window, used>>
    BY <1>5, <1>7
  <2> QED BY <1>1, <1>4, <1>5, <1>6, <2>1, <2>2, FrameKeeps
<1>8. CASE HasPlanAt(p, at) /\ \E answer : Receive(p, at, answer)
  <2>1. p \in Pools
    BY <1>2, <1>8 DEF HasPlanAt
  <2>2. at \in Nat \ {0} /\ at <= Len(plans[p].list)
    <3>1. plans[p].mark \in Nat
      BY <2>1, Types DEF SubPlans
    <3> QED BY <1>8, <3>1 DEF HasPlanAt, NextPlan
  <2>3. PICK answer : Receive(p, at, answer)
    BY <1>8
  <2> HIDE DEF at
  <2>4. /\ plans' \in [Pools -> SubPlans]
        /\ \A q \in Pools : plans'[q].exists = plans[q].exists
        /\ avail' \subseteq Disks /\ unavail' \subseteq Disks /\ avail' \cap unavail' = {}
        /\ flying' \subseteq Flights /\ InOnce' /\ used' \in 0 .. MaxMishaps
    <3> HIDE DEF p
    <3> QED BY <2>1, <2>2, <2>3, Received
  <2>5. c \in Seq(Calls) /\ ~Batches(c) /\ HandledBy(c, plans', delayed')
    BY <1>6, NoneHandled
  <2>6. flying' \subseteq [plan : Plans, window : Nat, known : BOOLEAN]
    BY <2>4 DEF Flights
  <2> QED BY <1>1, <1>4, <1>5, <1>6, <2>4, <2>5, <2>6, CallKeeps
<1>9. \/ UNCHANGED <<plans, flying, diskVars, used>>
      \/ HasPlanAt(p, at) /\ \E answer : Receive(p, at, answer)
  BY DEF SubmitNext
<1> QED BY <1>7, <1>8, <1>9

--------------------------------------------------------------------------------
(* Windows, answers and the generator's thread                                 *)

LEMMA CycleWorkIs ==
    ASSUME NEW S, NEW pools \in Seq(S), S \subseteq Pools
    PROVE  /\ CycleWork(pools) \in Seq(Calls)
           /\ \A i \in 1 .. Len(CycleWork(pools)) :
                 /\ CycleWork(pools)[i].op \in {"first", "firstDone"}
                 /\ CycleWork(pools)[i].pool \in S
<1> DEFINE n == 2 * Len(pools)
           f == [i \in 1 .. n |-> IF i % 2 = 1 THEN Call("first", pools[(i + 1) \div 2])
                                  ELSE Call("firstDone", pools[i \div 2])]
<1>1. n \in Nat /\ Len(pools) \in Nat
  OBVIOUS
<1>2. ASSUME NEW i \in 1 .. n
      PROVE  f[i] \in Calls /\ f[i].op \in {"first", "firstDone"} /\ f[i].pool \in S
  <2>1. CASE i % 2 = 1
    <3> DEFINE j == (i + 1) \div 2
    <3>1. j \in 1 .. Len(pools)
      BY <1>1, <2>1
    <3>2. pools[j] \in S /\ pools[j] \in Pools
      BY <3>1
    <3>3. f[i] = Call("first", pools[j])
      BY <2>1
    <3> HIDE DEF j, f
    <3> QED BY <3>2, <3>3, CallIs DEF Ops
  <2>2. CASE i % 2 # 1
    <3> DEFINE j == i \div 2
    <3>1. j \in 1 .. Len(pools)
      BY <1>1, <2>2
    <3>2. pools[j] \in S /\ pools[j] \in Pools
      BY <3>1
    <3>3. f[i] = Call("firstDone", pools[j])
      BY <2>2
    <3> HIDE DEF j, f
    <3> QED BY <3>2, <3>3, CallIs DEF Ops
  <2> QED BY <2>1, <2>2
<1>3. CycleWork(pools) = f
  BY DEF CycleWork
<1>4. DOMAIN f = 1 .. n
  OBVIOUS
<1>5. f = [i \in 1 .. n |-> f[i]]
  OBVIOUS
<1> HIDE DEF f, n
<1>6. f \in Seq(Calls) /\ Len(f) = n
  BY <1>1, <1>2, <1>4, <1>5
<1> QED BY <1>2, <1>3, <1>6

LEMMA OpenWindowKeeps ==
    ASSUME Inv, OpenWindow
    PROVE  Inv'
<1> DEFINE S == {p \in Pools : plans'[p].exists}
<1>1. PICK noAdvice \in SUBSET (Pools \cap Movable) :
          plans' = [p \in Pools |->
              IF p \in present /\ Advised(p) /\ p \notin noAdvice THEN NewPlans ELSE NoPlans]
  BY DEF OpenWindow
<1>2. plans' \in [Pools -> SubPlans]
  BY <1>1, NewPlansAre
<1>3. PICK pools : pools = Kept(PoolOrder, S)
  OBVIOUS
<1>4. todo' = CycleWork(pools)
  BY <1>3 DEF OpenWindow
<1>5. pools \in Seq(Pools \cap S)
  <2>1. PoolOrder \in Seq(Pools)
    BY PlanAssumption
  <2> HIDE DEF S
  <2> QED BY <1>3, <2>1, KeptIs
<1>6. Pools \cap S \subseteq Pools
  OBVIOUS
<1>7. /\ todo' \in Seq(Calls)
      /\ \A i \in 1 .. Len(todo') : /\ todo'[i].op \in {"first", "firstDone"}
                                    /\ todo'[i].pool \in Pools /\ plans'[todo'[i].pool].exists
  <2> DEFINE P == Pools \cap S
  <2>1. /\ CycleWork(pools) \in Seq(Calls)
        /\ \A i \in 1 .. Len(CycleWork(pools)) :
              /\ CycleWork(pools)[i].op \in {"first", "firstDone"}
              /\ CycleWork(pools)[i].pool \in P
    <3> HIDE DEF P
    <3>1. pools \in Seq(P) /\ P \subseteq Pools
      BY <1>5, <1>6 DEF P
    <3> QED BY <3>1, CycleWorkIs
  <2> QED BY <1>4, <2>1
<1>8. HandledBy(todo', plans', delayed')
  BY <1>7 DEF HandledBy, Placed, SoundCall
<1>9. ~Batches(todo')
  <2>1. ASSUME todo' # <<>> PROVE Head(todo') = todo'[1] /\ 1 \in 1 .. Len(todo')
    BY <1>7, <2>1
  <2> QED BY <1>7, <2>1 DEF Batches
<1>10. /\ delayed' = [queue \in Queues |-> <<>>] /\ batch' = {}
       /\ window < MaxWindows /\ window' = window + 1
       /\ UNCHANGED <<present, noMigration, avail, unavail, err, ret, key, flying, used>>
  BY DEF OpenWindow, configVars, diskVars
<1>11. TypeOK'
  <2>1. delayed' \in [Queues -> Seq(Pools)]
    BY <1>10
  <2>2. window' \in 0 .. MaxWindows
    BY <1>10, PlanAssumption DEF Inv, TypeOK
  <2> QED BY <1>2, <1>7, <1>10, <2>1, <2>2 DEF Inv, TypeOK, SubPlans
<1>12. WaitingHavePlans'
  BY <1>10 DEF WaitingHavePlans
<1>13. InOnce' /\ BatchUsesTargetsOnce'
  BY <1>10 DEF Inv, InOnce, BatchUsesTargetsOnce
<1>14. BatchHeld'
  BY <1>9 DEF BatchHeld, Batches
<1> QED BY <1>8, <1>11, <1>12, <1>13, <1>14 DEF Inv, HandledBy, Placed, SoundCall

LEMMA AnswerKeeps ==
    ASSUME Inv, NEW f \in flying, NEW echo \in Echoes, Answer(f, echo)
    PROVE  Inv'
<1> DEFINE p == PoolOfPlan(f.plan)
<1>1. f.plan \in Plans /\ p \in Pools /\ DisksOf(f.plan) \in SUBSET Disks
  <2>1. f.plan \in Plans
    BY DEF Inv, TypeOK
  <2> QED BY <2>1, PlanAssumption DEF Plans, PoolOfPlan, DisksOf
<1>2. /\ todo = <<>> /\ flying' = flying \ {f}
      /\ err' \in {"ok", "timed", "noMore", "memory"}
      /\ UNCHANGED <<present, noMigration, ret, key, window, batch, used>>
  BY DEF Answer, Inv, TypeOK, configVars
<1>3. plans \in [Pools -> SubPlans] /\ delayed \in [Queues -> Seq(Pools)] /\ todo \in Seq(Calls)
  BY Types
<1> HIDE DEF p
<1>4. /\ plans' \in [Pools -> SubPlans] /\ delayed' \in [Queues -> Seq(Pools)]
      /\ avail' \subseteq Disks /\ unavail' \subseteq Disks /\ avail' \cap unavail' = {}
      /\ \A queue \in Queues : \A i \in 1 .. Len(delayed'[queue]) :
            plans'[delayed'[queue][i]].exists
      /\ \/ todo' = <<>> \/ todo' = <<Call("delayed", p)>>
         \/ /\ plans'[p].exists
            /\ \/ todo' = <<Call("delayed", p), Call("expired", p)>>
               \/ todo' = <<Call("delayed", p), Call("next", p), Call("nextDone", p)>>
  <2>0. avail \subseteq Disks /\ unavail \subseteq Disks /\ avail \cap unavail = {}
    BY DEF Inv, TypeOK
  <2>1. CASE /\ plans[p].exists
             /\ avail' = avail \cup DisksOf(f.plan)
             /\ unavail' = unavail \ DisksOf(f.plan)
             /\ \/ todo' = <<>>
                \/ todo' = <<Call("delayed", p), Call("expired", p)>>
                \/ todo' = <<Call("delayed", p), Call("next", p), Call("nextDone", p)>>
             /\ UNCHANGED <<plans, delayed>>
    BY <1>1, <1>3, <2>0, <2>1, Waiting
  <2>2. CASE Forget(p) /\ todo' = <<Call("delayed", p)>> /\ UNCHANGED diskVars
    <3>1. plans' = [plans EXCEPT ![p] = NoPlans]
      BY <2>2 DEF Forget
    <3>2. delayed' = [queue \in Queues |-> Kept(delayed[queue], Pools \ {p})]
      BY <2>2 DEF Forget
    <3>3. \A queue \in Queues : Kept(delayed[queue], Pools \ {p}) \in Seq(Pools \cap (Pools \ {p}))
      <4>1. \A queue \in Queues : delayed[queue] \in Seq(Pools)
        BY <1>3
      <4> QED BY <4>1, KeptIs
    <3>4. \A queue \in Queues : delayed'[queue] \in Seq(Pools \ {p})
      <4>1. Pools \cap (Pools \ {p}) = Pools \ {p}
        OBVIOUS
      <4> QED BY <3>2, <3>3, <4>1
    <3>5. delayed' \in [Queues -> Seq(Pools)]
      <4>1. \A queue \in Queues : delayed'[queue] \in Seq(Pools)
        BY <3>4
      <4>2. delayed' = [queue \in Queues |-> delayed'[queue]]
        BY <3>2
      <4> QED BY <4>1, <4>2
    <3>6. plans' \in [Pools -> SubPlans]
      BY <1>3, <3>1, NewPlansAre
    <3>7. ASSUME NEW queue \in Queues, NEW i \in 1 .. Len(delayed'[queue])
          PROVE  plans'[delayed'[queue][i]].exists
      <4>1. delayed'[queue][i] \in Pools /\ delayed'[queue][i] # p
        <5>1. delayed'[queue] \in Seq(Pools \ {p})
          BY <3>4
        <5>2. delayed'[queue][i] \in Pools \ {p}
          BY <5>1
        <5> QED BY <5>2
      <4>2. \E j \in 1 .. Len(delayed[queue]) : delayed'[queue][i] = delayed[queue][j]
        <5>1. delayed[queue] \in Seq(Pools)
          BY <1>3
        <5> DEFINE list == delayed[queue]
                   W == Pools \ {p}
        <5>2. list \in Seq(Pools) /\ delayed'[queue] = Kept(list, W)
          BY <3>2, <5>1
        <5> HIDE DEF list, W
        <5>3. \A k \in 1 .. Len(Kept(list, W)) : \E j \in 1 .. Len(list) : Kept(list, W)[k] = list[j]
          BY ONLY <5>2, KeptFrom
        <5>4. \E j \in 1 .. Len(list) : delayed'[queue][i] = list[j]
          BY <5>2, <5>3
        <5> QED BY <5>4 DEF list
      <4>3. plans[delayed'[queue][i]].exists
        BY <4>2, Waiting
      <4> QED BY <1>3, <3>1, <4>1, <4>3
    <3> QED BY <2>0, <2>2, <3>5, <3>6, <3>7 DEF diskVars
  <2>3. CASE UNCHANGED <<plans, delayed, diskVars, todo>>
    BY <1>2, <1>3, <2>0, <2>3, Waiting DEF diskVars
  <2> QED BY <2>1, <2>2, <2>3 DEF Answer, p
<1>5. todo' \in Seq(Calls) /\ HandledBy(todo', plans', delayed') /\ ~Batches(todo')
  <2> DEFINE x == Call("delayed", p)
             y == Call("expired", p)
             u == Call("next", p)
             v == Call("nextDone", p)
  <2>1. /\ x \in Calls /\ x.op = "delayed" /\ x.pool = p
        /\ y \in Calls /\ y.op = "expired" /\ y.pool = p
        /\ u \in Calls /\ u.op = "next" /\ u.pool = p
        /\ v \in Calls /\ v.op = "nextDone" /\ v.pool = p
    BY <1>1, CallIs DEF Ops
  <2>2. \/ todo' = <<>> \/ todo' = <<x>>
        \/ /\ plans'[p].exists
           /\ \/ todo' = <<x, y>>
              \/ todo' = <<x, u, v>>
    BY <1>4, Zenon
  <2> HIDE DEF x, y, u, v
  <2>3. SoundCall(x, plans', delayed') /\ x.op \notin {"more", "search"}
    BY <2>1 DEF SoundCall, PoolOps, ScheduleOps
  <2>4. CASE todo' = <<>>
    BY <2>4, NoneHandled
  <2>5. CASE todo' = <<x>>
    BY <2>1, <2>3, <2>5, OneHandled
  <2>6. CASE plans'[p].exists /\ todo' = <<x, y>>
    <3>1. SoundCall(y, plans', delayed') /\ y.op \notin {"more", "search", "drained"}
      BY <1>1, <2>1, <2>6 DEF SoundCall, PoolOps, ScheduleOps
    <3> QED BY <2>1, <2>3, <2>6, <3>1, TwoHandled
  <2>7. CASE plans'[p].exists /\ todo' = <<x, u, v>>
    <3>1. /\ todo' \in Seq(Calls) /\ Len(todo') = 3 /\ Head(todo') = x
          /\ todo'[1] = x /\ todo'[2] = u /\ todo'[3] = v
      BY <2>1, <2>7
    <3>2. \A i \in 1 .. Len(todo') : todo'[i] = x \/ todo'[i] = u \/ todo'[i] = v
      <4>1. \A i \in 1 .. Len(todo') : i = 1 \/ i = 2 \/ i = 3
        BY <3>1
      <4> QED BY <3>1, <4>1
    <3>3. \A i \in 1 .. Len(todo') : /\ SoundCall(todo'[i], plans', delayed')
                                     /\ todo'[i].op \notin {"more", "search", "drained"}
      BY <1>1, <2>1, <2>3, <2>7, <3>2 DEF SoundCall, PoolOps, ScheduleOps
    <3>4. HandledBy(todo', plans', delayed')
      BY <3>3 DEF HandledBy, Placed
    <3> QED BY <2>1, <3>1, <3>4 DEF Batches
  <2> QED BY <2>2, <2>4, <2>5, <2>6, <2>7
<1>6. TypeOK'
  BY <1>2, <1>4, <1>5 DEF Inv, TypeOK, SubPlans
<1>7. WaitingHavePlans' /\ InOnce' /\ BatchUsesTargetsOnce' /\ BatchHeld'
  BY <1>2, <1>4, <1>5 DEF Inv, WaitingHavePlans, InOnce, BatchUsesTargetsOnce, BatchHeld, Batches
<1> QED BY <1>5, <1>6, <1>7 DEF Inv, HandledBy, Placed, SoundCall

\* The generator's thread changes the logical configuration alone.
LEMMA GeneratorKeeps ==
    ASSUME Inv, UNCHANGED generatorFrame, present' \subseteq Pools \cup Disks,
           noMigration' \subseteq Pools, used' \in 0 .. MaxMishaps
    PROVE  Inv'
<1>1. UNCHANGED <<plans, avail, unavail, delayed, err, ret, key, todo, flying, window, batch>>
  BY DEF generatorFrame, diskVars
<1>2. TypeOK' /\ WaitingHavePlans' /\ InOnce' /\ BatchUsesTargetsOnce'
  BY <1>1 DEF Inv, TypeOK, WaitingHavePlans, InOnce, BatchUsesTargetsOnce
<1>3. BatchHeld'
  BY <1>1 DEF Inv, BatchHeld, Batches
<1>4. HandledBy(todo, plans, delayed)'
  BY <1>1 DEF Inv, HandledBy, Placed, SoundCall
<1> QED BY <1>2, <1>3, <1>4 DEF Inv

LEMMA InitialInv ==
    ASSUME Init
    PROVE  Inv
<1>1. TypeOK
  <2>1. plans \in [Pools -> SubPlans]
    BY NewPlansAre DEF Init
  <2>2. todo \in Seq(Calls) /\ delayed \in [Queues -> Seq(Pools)]
    BY DEF Init
  <2>3. window \in 0 .. MaxWindows /\ used \in 0 .. MaxMishaps
    BY PlanAssumption DEF Init
  <2> QED BY <2>1, <2>2, <2>3 DEF Init, TypeOK, SubPlans
<1>2. WaitingHavePlans /\ InOnce /\ BatchUsesTargetsOnce
  BY DEF Init, WaitingHavePlans, InOnce, BatchUsesTargetsOnce
<1>3. todo = <<>>
  BY DEF Init
<1>4. HandledBy(todo, plans, delayed) /\ ~Batches(todo)
  BY <1>3, NoneHandled
<1> QED BY <1>1, <1>2, <1>4 DEF Inv, BatchHeld

LEMMA NextKeeps ==
    ASSUME Inv, [Next]_vars
    PROVE  Inv'
<1>0. present \subseteq Pools \cup Disks /\ noMigration \subseteq Pools /\ used \in 0 .. MaxMishaps
  BY DEF Inv, TypeOK
<1>1. CASE OpenWindow
  BY <1>1, OpenWindowKeeps
<1>2. CASE Schedule
  <2>1. CASE BeginSchedule("first", "first")
    BY <2>1, BeginScheduleKeeps
  <2>2. CASE BeginSchedule("more", "more")
    BY <2>2, BeginScheduleKeeps
  <2>3. CASE BeginSchedule("next", "next")
    BY <2>3, BeginScheduleKeeps
  <2>4. CASE SearchDirection
    BY <2>4, SearchDirectionKeeps
  <2>5. CASE SearchEnds
    BY <2>5, SearchEndsKeeps
  <2> QED BY <1>2, <2>1, <2>2, <2>3, <2>4, <2>5 DEF Schedule
<1>3. CASE SubmitFirstBatch
  BY <1>3, SubmitFirstBatchKeeps
<1>4. CASE SubmitNext
  BY <1>4, SubmitNextKeeps
<1>5. CASE FirstDone
  BY <1>5, FirstDoneKeeps
<1>6. CASE ScheduleDelayed
  BY <1>6, ScheduleDelayedKeeps
<1>7. CASE BeginDrain
  BY <1>7, BeginDrainKeeps
<1>8. CASE Drained
  BY <1>8, DrainedKeeps
<1>9. CASE NextDone
  BY <1>9, NextDoneKeeps
<1>10. CASE Requeue
  BY <1>10, RequeueKeeps
<1>11. CASE ExpiredDone
  BY <1>11, ExpiredDoneKeeps
<1>12. ASSUME NEW f \in flying, NEW echo \in Echoes, Answer(f, echo) PROVE Inv'
  BY <1>12, AnswerKeeps
<1>13. ASSUME NEW x \in Pools \cup Disks, Lose(x) PROVE Inv'
  <2>1. UNCHANGED generatorFrame /\ used' \in 0 .. MaxMishaps
    BY <1>0, <1>13, PlanAssumption DEF Lose, Counted
  <2> QED BY <1>0, <1>13, <2>1, GeneratorKeeps DEF Lose
<1>14. ASSUME NEW p \in Pools, Regain(p) PROVE Inv'
  <2>1. UNCHANGED generatorFrame /\ used' = used /\ noMigration' = noMigration
        /\ present' = present \cup {p}
    BY <1>14 DEF Regain
  <2> QED BY <1>0, <2>1, GeneratorKeeps
<1>15. ASSUME NEW p \in Pools, ForbidMigration(p) PROVE Inv'
  <2>1. UNCHANGED generatorFrame /\ used' \in 0 .. MaxMishaps
    BY <1>0, <1>15, PlanAssumption DEF ForbidMigration, Counted
  <2> QED BY <1>0, <1>15, <2>1, GeneratorKeeps DEF ForbidMigration
<1>16. CASE UNCHANGED vars
  <2>1. UNCHANGED generatorFrame /\ UNCHANGED <<present, noMigration, used>>
    BY <1>16 DEF vars, generatorFrame, configVars
  <2> QED BY <1>0, <2>1, GeneratorKeeps
<1> QED BY <1>1, <1>2, <1>3, <1>4, <1>5, <1>6, <1>7, <1>8, <1>9, <1>10, <1>11, <1>12, <1>13,
           <1>14, <1>15, <1>16 DEF Next, ExecutorStep

THEOREM PlanningInv == Spec => []Inv
<1>1. Init => Inv
  BY InitialInv
<1>2. Inv /\ [Next]_vars => Inv'
  BY NextKeeps
<1> QED BY <1>1, <1>2, PTL DEF Spec

--------------------------------------------------------------------------------
(* ScheduleFirstBatch and the searches after it: no two plans of one first      *)
(* batch write to the same disk, however many SubPools, disks, advices and      *)
(* windows there are and whatever is lost between two steps.                    *)
THEOREM BatchUsesTargetsOnceHolds == Spec => []BatchUsesTargetsOnce
<1>1. Inv => BatchUsesTargetsOnce
  BY DEF Inv
<1> QED BY <1>1, PlanningInv, PTL

(* PlanManager::Complete, Expire and ScheduleDelayed: a SubPool that waits in a *)
(* queue has plans, so that draining it never fails on a missing entry of       *)
(* mPlans, and the arbitrator never has an OBJ IN twice.                        *)
THEOREM QueuesAreSoundHolds == Spec => []QueuesAreSound
<1>1. Inv => QueuesAreSound
  BY DEF Inv, QueuesAreSound
<1> QED BY <1>1, PlanningInv, PTL

(* PlanManager::ScheduleFirstBatch, ScheduleNext and what follows them: no call *)
(* is ever made for a SubPool that has no plans, in whatever order answers,     *)
(* drained queues and windows come.                                             *)
THEOREM CallsHavePlans ==
    Spec => [](\A i \in 1 .. Len(todo) :
                  todo[i].op \in PoolOps => todo[i].pool \in Pools /\ plans[todo[i].pool].exists)
<1>1. Inv => \A i \in 1 .. Len(todo) :
                todo[i].op \in PoolOps => todo[i].pool \in Pools /\ plans[todo[i].pool].exists
  BY DEF Inv, HandledBy, SoundCall
<1> QED BY <1>1, PlanningInv, PTL
================================================================================
