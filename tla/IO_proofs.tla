------------------------------- MODULE IO_proofs -------------------------------
(***************************************************************************)
(* What holds of IO on its way from the views of the HUB to the summaries  *)
(* of AST.                                                                 *)
(*                                                                         *)
(* Of cycles, windows and averages, for every length of the windows, every *)
(* set of OBJs and every statistic the HUB may report: that the types of a *)
(* window's cycles follow the shares, that an OBJ reported often enough is *)
(* taken into account, and that averages stay between the values they are  *)
(* made of.  The steps of a window compare the remainder of the cycle's    *)
(* number with sums of shares and averages are quotients of products; the  *)
(* prover knows remainders by division alone, so the first lemmas of       *)
(* either part are about these.                                            *)
(*                                                                         *)
(* Of the HUB's views, for every set of SubPools, disks and OBJs and every *)
(* size of the answers: that IO and time reach AST once, that no fragment  *)
(* is sent empty and that the batches of a collection visit every OBJ      *)
(* once.                                                                   *)
(***************************************************************************)
EXTENDS IOStatistics, HubViews, FiniteSetTheorems, SequenceTheorems, WellFoundedInduction,
        TLAPS

\* Products of naturals are natural, and a product over a sum of three.
LEMMA ProductPositive ==
    ASSUME NEW c \in Nat, NEW k \in Nat PROVE c * k \in Nat
  BY SMT

\* A factor distributes over the distance of two quotients.
LEMMA Dist == ASSUME NEW c \in Int, NEW a \in Int, NEW k \in Int PROVE c * (a + k + 1) = c * a + c * k + c
  BY SMT

\* Of two divisions of the same number, neither has the smaller quotient.
LEMMA Order ==
    ASSUME NEW c \in Nat \ {0}, NEW a \in Int, NEW b \in Int, NEW m \in 0 .. c - 1, NEW n \in 0 .. c - 1,
           c * a + m = c * b + n
    PROVE  ~ (a < b)
<1> SUFFICES ASSUME a < b PROVE FALSE
  OBVIOUS
<1> DEFINE k == b - a - 1
<1>1. k \in Nat /\ b = a + k + 1
  BY SMT
<1> HIDE DEF k
<1>2. c * k \in Nat /\ c * b = c * a + c * k + c
  BY <1>1, ProductPositive, Dist
<1>3. c * a \in Int /\ c * b \in Int
  BY SMT
<1> DEFINE x == c * a  y == c * b z == c * k
<1>4. x + m = y + n /\ z \in Nat /\ y = x + z + c /\ x \in Int /\ y \in Int
  BY <1>2, <1>3
<1> HIDE DEF x, y, z
<1> QED BY <1>4, SMT

\* Division with remainder.
LEMMA DivMod ==
    ASSUME NEW c \in Nat \ {0}, NEW r \in Nat
    PROVE  r = c * (r \div c) + (r % c) /\ r % c \in 0 .. c - 1 /\ r \div c \in Int
  BY SMT

\* The remainder of a division is unique.
LEMMA Unique ==
    ASSUME NEW c \in Nat \ {0}, NEW a \in Int, NEW b \in Int, NEW m \in 0 .. c - 1, NEW n \in 0 .. c - 1,
           c * a + m = c * b + n
    PROVE  m = n
<1>1. ~ (a < b)
  BY Order
<1>2. ~ (b < a)
  <2>1. c * b + n = c * a + m
    OBVIOUS
  <2> QED BY <2>1, Order
<1>3. a = b
  BY <1>1, <1>2
<1>4. c * a \in Int
  BY SMT
<1> DEFINE x == c * a
<1>5. x + m = x + n /\ x \in Int
  BY <1>3, <1>4
<1> HIDE DEF x
<1> QED BY <1>5

\* A number written as a multiple and a small rest has that rest as its remainder.
LEMMA RemainderOf ==
    ASSUME NEW c \in Nat \ {0}, NEW r \in Nat, NEW q \in Int, NEW m \in 0 .. c - 1, r = c * q + m
    PROVE  r % c = m
<1>1. r = c * (r \div c) + (r % c) /\ r % c \in 0 .. c - 1 /\ r \div c \in Int
  BY DivMod
<1>2. c * (r \div c) + (r % c) = c * q + m
  BY <1>1
<1> DEFINE n == r % c  p == r \div c
<1>3. n \in 0 .. c - 1 /\ p \in Int /\ c * p + n = c * q + m
  BY <1>1, <1>2
<1> HIDE DEF n, p
<1>4. n = m
  BY <1>3, Unique
<1> QED BY <1>4 DEF n

\* The remainder of the successor: the next one, or zero after the last.
LEMMA NextRemainder ==
    ASSUME NEW c \in Nat \ {0}, NEW r \in Nat
    PROVE  (r + 1) % c = IF r % c = c - 1 THEN 0 ELSE (r % c) + 1
<1> DEFINE q == r \div c  m == r % c
<1>1. q \in Int /\ m \in 0 .. c - 1 /\ r = c * q + m
  BY DivMod
<1> HIDE DEF q, m
<1>2. CASE m = c - 1
  <2>1. c * (q + 1) = c * q + c
    BY <1>1, SMT
  <2> DEFINE x == c * q  y == c * (q + 1)
  <2>2. x \in Int
    BY <1>1, SMT
  <2>3. r = x + m /\ y = x + c
    BY <1>1, <2>1
  <2> HIDE DEF x, y
  <2>4. r + 1 = y + 0
    BY <1>1, <1>2, <2>2, <2>3
  <2>5. r + 1 = c * (q + 1) + 0 /\ q + 1 \in Int /\ 0 \in 0 .. c - 1 /\ r + 1 \in Nat
    BY <1>1, <2>4 DEF y
  <2>6. (r + 1) % c = 0
    BY ONLY <2>5, RemainderOf, c \in Nat \ {0}
  <2> QED BY <2>6, <1>2 DEF m
<1>3. CASE m # c - 1
  <2> DEFINE x == c * q
  <2>2. x \in Int
    BY <1>1, SMT
  <2>3. r = x + m
    BY <1>1
  <2> HIDE DEF x
  <2>4. r + 1 = x + (m + 1) /\ m + 1 \in 0 .. c - 1
    BY <1>1, <1>3, <2>2, <2>3
  <2>5. r + 1 = c * q + (m + 1) /\ r + 1 \in Nat
    BY <2>4 DEF x
  <2>6. (r + 1) % c = m + 1
    BY ONLY <2>4, <2>5, <1>1, RemainderOf, c \in Nat \ {0}
  <2> QED BY <2>6, <1>3 DEF m
<1> QED BY <1>2, <1>3

--------------------------------------------------------------------------------
\* What a window is made of: a length, and the shares that go with its name.
WindowOf(name) ==
    [cycles : Nat \ {0}, share : [CycleTypes -> Nat], type : CycleTypes, new : BOOLEAN]

Built ==
    /\ relative \in Nat
    /\ windows = [name \in WindowNames |-> windows[name]]
    /\ \A name \in WindowNames :
          /\ windows[name] \in WindowOf(name)
          /\ windows[name].share = Share(name, windows[name].cycles)

\* The type a window is in at a cycle, by its shares.
TypeAt(share, m) == IF m < share[0] THEN 0 ELSE 1

\* The shares of a window add up to its cycles.
LEMMA ShareFacts ==
    ASSUME NEW name \in WindowNames, NEW c \in Nat \ {0}
    PROVE  /\ Share(name, c) \in [CycleTypes -> Nat]
           /\ Share(name, c)[0] + Share(name, c)[1] = c
           /\ Share(name, c)[1] = 0 <=> name = "long"
<1>1. CASE name = "short"
  BY <1>1 DEF Share, CycleTypes
<1>2. CASE name = "long"
  BY <1>2 DEF Share, CycleTypes
<1> QED BY <1>1, <1>2 DEF WindowNames

\* A window starts with learning, unless nothing but decision has a share.
LEMMA FirstCared ==
    ASSUME NEW name \in WindowNames, NEW c \in Nat \ {0}
    PROVE  NextCared(Share(name, c), NoType) = TypeAt(Share(name, c), 0)
<1> DEFINE share == Share(name, c)
<1>1. share \in [CycleTypes -> Nat] /\ share[0] + share[1] = c
  BY ShareFacts
<1> HIDE DEF share
<1>2. {t \in CycleTypes : t > NoType /\ share[t] # 0} = {}
  BY DEF CycleTypes, NoType
<1> DEFINE before == {t \in CycleTypes : t < NoType /\ share[t] # 0}
<1>3. CASE share[0] # 0
  <2>1. 0 \in before /\ \A t \in before : 0 <= t
    BY <1>3 DEF CycleTypes, NoType
  <2>2. \A t \in before : (\A u \in before : t <= u) => t = 0
    BY <2>1 DEF CycleTypes
  <2> HIDE DEF before
  <2>3. Least(before) = 0
    BY <2>1, <2>2 DEF Least
  <2>4. NextCared(share, NoType) = 0
    BY <1>2, <2>1, <2>3 DEF NextCared, before
  <2> QED BY <2>4, <1>1, <1>3 DEF TypeAt, share, CycleTypes
<1>4. CASE share[0] = 0
  <2>1. before = {1}
    BY <1>1, <1>4 DEF CycleTypes, NoType
  <2> HIDE DEF before
  <2>2. Least(before) = 1
    BY <2>1 DEF Least
  <2>3. NextCared(share, NoType) = 1
    BY <1>2, <2>1, <2>2 DEF NextCared, before
  <2> QED BY <2>3, <1>4 DEF TypeAt, share
<1> QED BY <1>3, <1>4

\* After learning comes decision where it has a share.
LEMMA SecondCared ==
    ASSUME NEW c \in Nat \ {0}
    PROVE  NextCared(Share("short", c), 0) = 1
<1> DEFINE share == Share("short", c)
<1>1. share[1] = 1
  BY DEF Share, CycleTypes
<1> HIDE DEF share
<1> DEFINE after == {t \in CycleTypes : t > 0 /\ share[t] # 0}
<1>2. after = {1}
  BY <1>1 DEF CycleTypes
<1> HIDE DEF after
<1>3. Least(after) = 1
  BY <1>2 DEF Least
<1>4. NextCared(share, 0) = 1
  BY <1>2, <1>3 DEF NextCared, after
<1> QED BY <1>4 DEF share

\* A new window is built as its name says, and in the type of its first cycle.
LEMMA NewIsBuilt ==
    ASSUME NEW name \in WindowNames, NEW c \in Nat \ {0}
    PROVE  /\ NewWindow(name, c) \in WindowOf(name)
           /\ NewWindow(name, c).cycles = c
           /\ NewWindow(name, c).share = Share(name, c)
           /\ NewWindow(name, c).type = TypeAt(Share(name, c), 0)
<1>1. Share(name, c) \in [CycleTypes -> Nat]
  BY ShareFacts
<1>2. NextCared(Share(name, c), NoType) = TypeAt(Share(name, c), 0)
  BY FirstCared
<1>3. TypeAt(Share(name, c), 0) \in CycleTypes
  BY DEF TypeAt, CycleTypes
<1> HIDE DEF TypeAt
<1> QED BY <1>1, <1>2, <1>3, Zenon DEF NewWindow, WindowOf

\* A window that is in the type of its cycle is so after the next one.
LEMMA LaunchedFollows ==
    ASSUME NEW name \in WindowNames, NEW w \in WindowOf(name), NEW r \in Nat,
           w.share = Share(name, w.cycles),
           w.type = TypeAt(w.share, r % w.cycles)
    PROVE  /\ Launched(w, r + 1) \in WindowOf(name)
           /\ Launched(w, r + 1).cycles = w.cycles
           /\ Launched(w, r + 1).share = w.share
           /\ Launched(w, r + 1).type = TypeAt(w.share, (r + 1) % w.cycles)
<1> DEFINE c == w.cycles  share == w.share  m == r % c  n == (r + 1) % c
<1>1. c \in Nat \ {0} /\ share \in [CycleTypes -> Nat] /\ w.type \in CycleTypes
  BY DEF WindowOf
<1>2. share = Share(name, c) /\ share[0] + share[1] = c /\ (share[1] = 0 <=> name = "long")
  BY <1>1, ShareFacts
<1>3. m \in 0 .. c - 1 /\ n = IF m = c - 1 THEN 0 ELSE m + 1
  BY <1>1, DivMod, NextRemainder
<1>4. n \in 0 .. c - 1
  BY <1>1, <1>3
<1>5. w.type = TypeAt(share, m)
  OBVIOUS
<1> HIDE DEF c, share, m, n
<1>6. CASE n = 0
  <2>1. Launched(w, r + 1) = [w EXCEPT !.new = TRUE, !.type = NextCared(share, NoType)]
    BY <1>6 DEF Launched, c, share, n
  <2>2. NextCared(share, NoType) = TypeAt(share, n)
    BY <1>1, <1>2, <1>6, FirstCared
  <2>3. TypeAt(share, n) \in CycleTypes
    BY DEF TypeAt, CycleTypes
  <2> HIDE DEF TypeAt
  <2>4. Launched(w, r + 1) = [w EXCEPT !.new = TRUE, !.type = TypeAt(share, n)]
    BY <2>1, <2>2
  <2> QED BY <2>3, <2>4 DEF WindowOf, c, share, n
<1>7. CASE n # 0
  <2> DEFINE next == IF Passed(w) = n THEN NextCared(share, w.type) ELSE w.type
  <2>1. Launched(w, r + 1) = [w EXCEPT !.new = FALSE, !.type = next]
    BY <1>7 DEF Launched, c, share, n
  <2>2. next = TypeAt(share, n)
    <3>0. n = m + 1 /\ n < c
      BY <1>1, <1>3, <1>7
    <3>1. CASE w.type = 0
      <4>1. Passed(w) = share[0]
        BY <3>1 DEF Passed, share
      <4>2. m < share[0]
        BY <1>5, <3>1 DEF TypeAt
      <4>3. CASE Passed(w) = n
        <5>1. name = "short"
          <6>1. share[1] # 0
            <7> DEFINE a == share[0]  b == share[1]
            <7>1. a \in Nat /\ b \in Nat /\ a + b = c
              BY <1>1, <1>2 DEF CycleTypes
            <7>2. n = a
              BY <4>1, <4>3
            <7> HIDE DEF a, b
            <7>3. b # 0
              BY <1>1, <3>0, <7>1, <7>2
            <7> QED BY <7>3 DEF b
          <6> QED BY <6>1, <1>2 DEF WindowNames
        <5>2. NextCared(share, w.type) = 1
          BY <5>1, <1>1, <1>2, <3>1, SecondCared
        <5>3. ~ (n < share[0])
          BY <4>1, <4>3, <1>1, <3>0, <1>3 DEF CycleTypes
        <5> QED BY <4>3, <5>2, <5>3 DEF TypeAt
      <4>4. CASE Passed(w) # n
        <5>1. n < share[0]
          BY <4>1, <4>2, <4>4, <3>0, <1>1, <1>3 DEF CycleTypes
        <5> QED BY <5>1, <4>4, <3>1 DEF TypeAt
      <4> QED BY <4>3, <4>4
    <3>2. CASE w.type = 1
      <4>1. Passed(w) = c
        BY <3>2, <1>2 DEF Passed, share
      <4>2. ~ (m < share[0])
        BY <1>5, <3>2 DEF TypeAt
      <4>3. ~ (n < share[0])
        BY <4>2, <3>0, <1>1, <1>3 DEF CycleTypes
      <4>4. Passed(w) # n
        BY <4>1, <3>0, <1>1, <1>4
      <4> QED BY <4>3, <4>4, <3>2 DEF TypeAt
    <3> QED BY <3>1, <3>2, <1>1 DEF CycleTypes
  <2>3. TypeAt(share, n) \in CycleTypes
    BY DEF TypeAt, CycleTypes
  <2> HIDE DEF next, TypeAt
  <2>4. Launched(w, r + 1) = [w EXCEPT !.new = FALSE, !.type = TypeAt(share, n)]
    BY <2>1, <2>2
  <2> QED BY <2>3, <2>4 DEF WindowOf, c, share, n
<1> QED BY <1>6, <1>7

--------------------------------------------------------------------------------
\* The inductive invariant: the windows are built as their names say and in the
\* type of the present cycle.
InType ==
    \A name \in WindowNames :
        windows[name].type = TypeAt(windows[name].share, relative % windows[name].cycles)

\* A window counted from zero is at remainder zero.
LEMMA ZeroRemainder == ASSUME NEW c \in Nat \ {0} PROVE 0 % c = 0
<1>1. 0 = c * 0 + 0
  OBVIOUS
<1> QED BY <1>1, RemainderOf

LEMMA StartFollows ==
    ASSUME NEW setting \in Settings, relative = 0,
           windows = [name \in WindowNames |-> NewWindow(name, setting[name])]
    PROVE  Built /\ InType
<1>1. \A name \in WindowNames : setting[name] \in Nat \ {0}
  BY SettingsAssumption
<1>2. ASSUME NEW name \in WindowNames
      PROVE  /\ windows[name] \in WindowOf(name)
             /\ windows[name].share = Share(name, windows[name].cycles)
             /\ windows[name].type = TypeAt(windows[name].share, 0)
             /\ windows[name].cycles \in Nat \ {0}
  <2>1. windows[name] = NewWindow(name, setting[name])
    OBVIOUS
  <2> QED BY <2>1, <1>1, NewIsBuilt
<1>3. \A name \in WindowNames : relative % windows[name].cycles = 0
  BY <1>2, ZeroRemainder
<1>4. windows = [name \in WindowNames |-> windows[name]]
  BY Zenon
<1> QED BY <1>2, <1>3, <1>4 DEF Built, InType

\* Every tick and every reset preserves the inductive invariant.
LEMMA StepFollows == Built /\ InType /\ [NextTime]_timeVars => (Built /\ InType)'
<1> SUFFICES ASSUME Built, InType, [NextTime]_timeVars PROVE (Built /\ InType)'
  OBVIOUS
<1>1. CASE Tick
  <2> DEFINE W == [name \in WindowNames |-> Launched(windows[name], relative + 1)]
  <2>1. relative \in Nat /\ relative' = relative + 1 /\ windows' = W
    BY <1>1 DEF Tick, Built
  <2>2. ASSUME NEW name \in WindowNames
        PROVE  /\ W[name] \in WindowOf(name)
               /\ W[name].share = Share(name, W[name].cycles)
               /\ W[name].type = TypeAt(W[name].share, (relative + 1) % W[name].cycles)
    <3>1. W[name] = Launched(windows[name], relative + 1)
      OBVIOUS
    <3>2. /\ windows[name] \in WindowOf(name)
          /\ windows[name].share = Share(name, windows[name].cycles)
          /\ windows[name].type = TypeAt(windows[name].share, relative % windows[name].cycles)
      BY DEF Built, InType
    <3> HIDE DEF W
    <3> QED BY <2>1, <3>1, <3>2, LaunchedFollows
  <2>3. W = [name \in WindowNames |-> W[name]]
    OBVIOUS
  <2> HIDE DEF W
  <2>4. relative' \in Nat
    BY <2>1
  <2> QED BY <2>1, <2>2, <2>3, <2>4 DEF Built, InType
<1>2. CASE \E setting \in Settings : ResetTime(setting)
  <2>1. PICK setting \in Settings : ResetTime(setting)
    BY <1>2
  <2>2. relative' = 0 /\ windows' = [name \in WindowNames |-> NewWindow(name, setting[name])]
    BY <2>1 DEF ResetTime
  <2>3. \A name \in WindowNames : setting[name] \in Nat \ {0}
    BY SettingsAssumption
  <2>4. ASSUME NEW name \in WindowNames
        PROVE  /\ windows'[name] \in WindowOf(name)
               /\ windows'[name].share = Share(name, windows'[name].cycles)
               /\ windows'[name].type = TypeAt(windows'[name].share, 0)
               /\ windows'[name].cycles \in Nat \ {0}
    <3>1. windows'[name] = NewWindow(name, setting[name])
      BY <2>2
    <3> QED BY <3>1, <2>3, NewIsBuilt
  <2>5. \A name \in WindowNames : relative' % windows'[name].cycles = 0
    BY <2>2, <2>4, ZeroRemainder
  <2>6. windows' = [name \in WindowNames |-> windows'[name]]
    BY <2>2, Zenon
  <2> QED BY <2>2, <2>4, <2>5, <2>6 DEF Built, InType
<1>3. CASE UNCHANGED timeVars
  BY <1>3 DEF timeVars, Built, InType
<1> QED BY <1>1, <1>2, <1>3 DEF NextTime

LEMMA AllFollow == TimeSpec => [](Built /\ InType)
<1>1. InitTime => Built /\ InType
  BY StartFollows DEF InitTime
<1> QED BY <1>1, StepFollows, PTL DEF TimeSpec

\* For every length of the windows the types follow the shares.
THEOREM TypesHold == TimeSpec => []TypesFollowShares
<1>1. InType => TypesFollowShares
  BY DEF InType, TypesFollowShares, TypeAt
<1> QED BY <1>1, AllFollow, PTL

\* For every length of the windows exactly the last cycle of a short-term window
\* decides.
THEOREM DecidesHold == TimeSpec => []DecidesLast
<1>1. Built /\ InType => DecidesLast
  <2> SUFFICES ASSUME Built, InType PROVE DecidesLast
    OBVIOUS
  <2> DEFINE w == windows["short"]  c == w.cycles  m == relative % c
  <2>1. w.share = Share("short", c) /\ w.type = TypeAt(w.share, m) /\ c \in Nat \ {0}
    BY DEF Built, InType, WindowOf, WindowNames
  <2>2. w.share[0] = c - 1
    BY <2>1 DEF Share, CycleTypes
  <2>3. m \in 0 .. c - 1
    BY <2>1, DivMod DEF Built
  <2> HIDE DEF m, c
  <2>4. w.type = 1 <=> m = c - 1
    BY <2>1, <2>2, <2>3 DEF TypeAt
  <2> QED BY <2>4 DEF DecidesLast, m, c
<1> QED BY <1>1, AllFollow, PTL

--------------------------------------------------------------------------------
(* The cycles in which an OBJ was reported                                     *)

\* What is remembered of an OBJ that is not known, and how many of the cycles that
\* a known OBJ counts are cycles of this window: at the start of a window none but
\* the present one.
CyclesFit ==
    \A o \in OBJs :
        /\ IsFiniteSet(history[o].cycles)
        /\ io[o] = NoIO => history[o].cycles = {}
        /\ io[o] # NoIO =>
              io[o].cycles \in Nat \ {0} /\ Cardinality(history[o].cycles) <= io[o].cycles
        /\ windows["short"].new =>
              history[o].cycles \subseteq {relative % windows["short"].cycles}

\* Both variables are functions on the OBJs, of OBJIOs and of records.
Recorded ==
    /\ io = [o \in OBJs |-> io[o]]
    /\ history = [o \in OBJs |-> [stats |-> history[o].stats, cycles |-> history[o].cycles]]

\* The inductive invariant of the counters.
MonInv == Recorded /\ CyclesFit

\* A report whose cycles are counted differs from none.
LEMMA CountedIsKnown ==
    ASSUME NEW raw, NEW short, NEW long, NEW n \in Nat \ {0}
    PROVE  [raw |-> raw, short |-> short, long |-> long, cycles |-> n] # NoIO
<1>1. [raw |-> raw, short |-> short, long |-> long, cycles |-> n].cycles # NoIO.cycles
  BY DEF NoIO
<1> QED BY <1>1

\* No OBJ is known at first.
LEMMA InitMon == Init => MonInv
<1> SUFFICES ASSUME Init PROVE MonInv
  OBVIOUS
<1>1. io = [o \in OBJs |-> NoIO] /\ history = [o \in OBJs |-> Unseen]
  BY DEF Init
<1>2. Recorded
  BY <1>1 DEF Recorded, Unseen
<1>3. CyclesFit
  BY <1>1, FS_EmptySet DEF CyclesFit, Unseen
<1> QED BY <1>2, <1>3 DEF MonInv

\* A report in a cycle of the window.
LEMMA ReportFits ==
    ASSUME NEW C, IsFiniteSet(C), NEW n \in Nat, NEW r, NEW new \in BOOLEAN,
           Cardinality(C) <= n, new => C \subseteq {r}
    PROVE  /\ IsFiniteSet(C \cup {r})
           /\ Cardinality(C \cup {r}) <= (IF new THEN 0 ELSE n) + 1
           /\ new => C \cup {r} \subseteq {r}
<1>1. IsFiniteSet(C \cup {r})
  BY FS_AddElement
<1>2. Cardinality(C) \in Nat
  BY FS_CardinalityType
<1>3. Cardinality(C \cup {r}) <= Cardinality(C) + 1
  <2>1. Cardinality(C \cup {r}) = IF r \in C THEN Cardinality(C) ELSE Cardinality(C) + 1
    BY FS_AddElement
  <2> QED BY <1>2, <2>1
<1>4. new => C \cup {r} = {r}
  OBVIOUS
<1>5. new => Cardinality(C \cup {r}) = 1
  BY <1>4, FS_Singleton
<1>6. Cardinality(C \cup {r}) \in Nat
  BY <1>1, FS_CardinalityType
<1> DEFINE k == Cardinality(C \cup {r})  l == Cardinality(C)
<1>7. k \in Nat /\ l \in Nat /\ k <= l + 1 /\ l <= n /\ (new => k = 1)
  BY <1>2, <1>3, <1>5, <1>6
<1> HIDE DEF k, l
<1>8. k <= (IF new THEN 0 ELSE n) + 1
  BY <1>7
<1> QED BY <1>1, <1>4, <1>8 DEF k

\* Steps that leave the windows and what is known of OBJs alone.
LEMMA SameMon == MonInv /\ UNCHANGED <<timeVars, io, history>> => MonInv'
  BY DEF MonInv, Recorded, CyclesFit, timeVars

\* A report enters the cycle of the timer's present window on both sides.
LEMMA ResolveMon ==
    ASSUME MonInv, Built, NEW o \in OBJs, ResolveOBJIO(o)
    PROVE  MonInv'
<1> DEFINE w == windows["short"]  r == relative % w.cycles
           old == IF o \in Known THEN io[o] ELSE [short |-> Zero, long |-> Zero, cycles |-> 0]
           n == IF o \in Known THEN Counted(old.cycles) ELSE 1
           rec == [raw |-> todo[o], short |-> CalculateEMAIO("short", old.short, todo[o]),
                   long |-> CalculateEMAIO("long", old.long, todo[o]), cycles |-> n]
           H == [stats |-> history[o].stats \cup {todo[o]}, cycles |-> history[o].cycles \cup {r}]
<1>1. /\ io' = [io EXCEPT ![o] = rec]
      /\ history' = [history EXCEPT ![o] = H]
      /\ relative' = relative /\ windows' = windows
  BY DEF ResolveOBJIO, timeVars
<1>2. /\ IsFiniteSet(history[o].cycles)
      /\ io[o] = NoIO => history[o].cycles = {}
      /\ io[o] # NoIO => io[o].cycles \in Nat \ {0} /\ Cardinality(history[o].cycles) <= io[o].cycles
      /\ w.new => history[o].cycles \subseteq {r}
      /\ w.new \in BOOLEAN
  BY DEF MonInv, CyclesFit, Built, WindowOf, WindowNames
<1>3. n \in Nat \ {0} /\ IsFiniteSet(H.cycles) /\ Cardinality(H.cycles) <= n
      /\ (w.new => H.cycles \subseteq {r})
  <2>0. H.cycles = history[o].cycles \cup {r}
    OBVIOUS
  <2>1. CASE io[o] = NoIO
    <3>1. n = 1
      BY <2>1 DEF Known
    <3>2. H.cycles = {r}
      BY <1>2, <2>1, <2>0
    <3>3. IsFiniteSet({r}) /\ Cardinality({r}) = 1
      BY FS_Singleton
    <3> HIDE DEF n, H, r, w
    <3> QED BY <3>1, <3>2, <3>3
  <2>2. CASE io[o] # NoIO
    <3>1. n = (IF w.new THEN 0 ELSE io[o].cycles) + 1
      BY <2>2 DEF Known, Counted
    <3>2. io[o].cycles \in Nat /\ Cardinality(history[o].cycles) <= io[o].cycles
      BY <1>2, <2>2
    <3>3. /\ IsFiniteSet(history[o].cycles \cup {r})
          /\ Cardinality(history[o].cycles \cup {r}) <= (IF w.new THEN 0 ELSE io[o].cycles) + 1
          /\ w.new => history[o].cycles \cup {r} \subseteq {r}
      <4> DEFINE C == history[o].cycles  m == io[o].cycles  new == w.new
      <4>1. /\ IsFiniteSet(C) /\ m \in Nat /\ new \in BOOLEAN
            /\ Cardinality(C) <= m /\ (new => C \subseteq {r})
        BY <1>2, <3>2
      <4> HIDE DEF C, m, new, r
      <4>2. /\ IsFiniteSet(C \cup {r})
            /\ Cardinality(C \cup {r}) <= (IF new THEN 0 ELSE m) + 1
            /\ new => C \cup {r} \subseteq {r}
        BY ONLY <4>1, ReportFits
      <4> QED BY <4>2 DEF C, m, new
    <3>4. n \in Nat \ {0}
      BY <1>2, <3>1, <3>2
    <3> QED BY <3>1, <3>3, <3>4, <2>0
  <2> QED BY <2>1, <2>2
<1> DEFINE c == n
<1>4. rec # NoIO
  BY <1>3, CountedIsKnown
<1>5. rec.cycles = n
  OBVIOUS
<1>6. H = [stats |-> H.stats, cycles |-> H.cycles]
  OBVIOUS
<1> HIDE DEF rec, n, H, r, w, c
<1>7. Recorded'
  BY <1>1, <1>6 DEF MonInv, Recorded
<1>8. CyclesFit'
  <2> SUFFICES ASSUME NEW x \in OBJs
               PROVE  (/\ IsFiniteSet(history[x].cycles)
                       /\ io[x] = NoIO => history[x].cycles = {}
                       /\ io[x] # NoIO =>
                            io[x].cycles \in Nat \ {0} /\ Cardinality(history[x].cycles) <= io[x].cycles
                       /\ windows["short"].new =>
                            history[x].cycles \subseteq {relative % windows["short"].cycles})'
    BY DEF CyclesFit
  <2>1. CASE x = o
    <3>1. io'[o] = rec /\ history'[o] = H
      BY <1>1 DEF MonInv, Recorded
    <3> QED BY <1>1, <1>3, <1>4, <1>5, <2>1, <3>1 DEF w, r
  <2>2. CASE x # o
    <3>1. io'[x] = io[x] /\ history'[x] = history[x]
      BY <1>1, <2>2 DEF MonInv, Recorded
    <3> QED BY <1>1, <3>1 DEF MonInv, CyclesFit
  <2> QED BY <2>1, <2>2
<1> QED BY <1>7, <1>8 DEF MonInv

\* At the start of a window no cycle of it has a report.
LEMMA NewCycleMon == MonInv /\ NewCycle => MonInv'
<1> SUFFICES ASSUME MonInv, NewCycle PROVE MonInv'
  OBVIOUS
<1>1. io' = io
  BY DEF NewCycle
<1>2. CASE windows'["short"].new
  <2>1. history' = [o \in OBJs |-> [history[o] EXCEPT !.cycles = {}]]
    BY <1>2 DEF NewCycle
  <2>2. \A o \in OBJs : history'[o] = [stats |-> history[o].stats, cycles |-> {}]
    <3>1. \A o \in OBJs : history[o] = [stats |-> history[o].stats, cycles |-> history[o].cycles]
      BY Zenon DEF MonInv, Recorded
    <3>2. \A o \in OBJs : history'[o] = [history[o] EXCEPT !.cycles = {}]
      BY <2>1
    <3> QED BY <3>1, <3>2
  <2>3. Recorded'
    BY <1>1, <2>1, <2>2 DEF MonInv, Recorded
  <2>4. CyclesFit'
    <3>1. IsFiniteSet({}) /\ Cardinality({}) = 0
      BY FS_EmptySet
    <3>2. ASSUME NEW o \in OBJs PROVE history'[o].cycles = {}
      <4>1. history'[o] = [stats |-> history[o].stats, cycles |-> {}]
        BY <2>2
      <4> QED BY <4>1
    <3>3. ASSUME NEW o \in OBJs
          PROVE  /\ IsFiniteSet(history'[o].cycles) /\ history'[o].cycles = {}
                 /\ Cardinality(history'[o].cycles) = 0
                 /\ io'[o] # NoIO => io'[o].cycles \in Nat \ {0}
      <4>1. history'[o].cycles = {}
        BY <3>2
      <4>2. io'[o] # NoIO => io'[o].cycles \in Nat \ {0}
        BY <1>1 DEF MonInv, CyclesFit
      <4> QED BY <4>1, <4>2, <3>1
    <3> QED BY <3>3 DEF CyclesFit
  <2> QED BY <2>3, <2>4 DEF MonInv
<1>3. CASE ~ windows'["short"].new
  <2>1. history' = history
    BY <1>3 DEF NewCycle
  <2> QED BY <1>1, <1>3, <2>1 DEF MonInv, Recorded, CyclesFit
<1> QED BY <1>2, <1>3

LEMMA ConsolidateMon == MonInv /\ Consolidate => MonInv'
<1> SUFFICES ASSUME MonInv, Consolidate PROVE MonInv'
  OBVIOUS
<1>1. /\ io' = [o \in OBJs |-> IF o \in deleted THEN NoIO ELSE io[o]]
      /\ history' = [o \in OBJs |-> IF o \in deleted THEN Unseen ELSE history[o]]
      /\ relative' = relative /\ windows' = windows
  BY DEF Consolidate, timeVars
<1>2. Recorded'
  BY <1>1 DEF MonInv, Recorded, Unseen
<1>3. CyclesFit'
  <2>1. IsFiniteSet({}) /\ Unseen.cycles = {}
    BY FS_EmptySet DEF Unseen
  <2>2. \A o \in OBJs : o \in deleted => io'[o] = NoIO /\ history'[o] = Unseen
    BY <1>1
  <2>3. \A o \in OBJs : o \notin deleted => io'[o] = io[o] /\ history'[o] = history[o]
    BY <1>1
  <2> QED BY <1>1, <2>1, <2>2, <2>3 DEF MonInv, CyclesFit
<1> QED BY <1>2, <1>3 DEF MonInv

LEMMA ReenableMon == Reenable => MonInv'
<1> SUFFICES ASSUME Reenable PROVE MonInv'
  OBVIOUS
<1>1. io' = [o \in OBJs |-> NoIO] /\ history' = [o \in OBJs |-> Unseen]
  BY DEF Reenable
<1>2. Recorded'
  BY <1>1 DEF Recorded, Unseen
<1>3. CyclesFit'
  BY <1>1, FS_EmptySet DEF CyclesFit, Unseen
<1> QED BY <1>2, <1>3 DEF MonInv

\* The timer and the generator step the windows as the timer alone does.
LEMMA StepIsTime == [Next]_allVars => [NextTime]_timeVars
  BY DEF Next, NextTime, NewCycle, StartRound, FailRound, EndRound, Consolidate, Reenable,
         ResolveOBJIO, allVars

LEMMA NextMon == MonInv /\ Built /\ [Next]_allVars => MonInv'
<1> SUFFICES ASSUME MonInv, Built, [Next]_allVars PROVE MonInv'
  OBVIOUS
<1>1. CASE NewCycle
  BY <1>1, NewCycleMon
<1>2. CASE StartRound \/ FailRound \/ EndRound \/ UNCHANGED allVars
  <2>1. UNCHANGED <<timeVars, io, history>>
    BY <1>2 DEF StartRound, FailRound, EndRound, allVars, ioVars
  <2> QED BY <2>1, SameMon
<1>3. CASE Consolidate
  BY <1>3, ConsolidateMon
<1>4. CASE Reenable
  BY <1>4, ReenableMon
<1>5. CASE \E o \in OBJs : ResolveOBJIO(o)
  BY <1>5, ResolveMon
<1> QED BY <1>1, <1>2, <1>3, <1>4, <1>5 DEF Next

\* Rounds of learning, failures and summaries leave the clock to the timer: what
\* holds of the windows alone holds of them here.
THEOREM ClockImplemented == Spec => TimeSpec
<1>1. Init => InitTime
  BY DEF Init
<1> QED BY <1>1, StepIsTime, PTL DEF Spec, TimeSpec

\* Wherever the timer starts a window between two OBJs of an answer, and whatever
\* rounds fail, an OBJ that was reported in enough cycles of the window is taken
\* into account: none of these cycles is missing in its counter.
THEOREM MonitoredIsEffectiveHolds == Spec => []MonitoredIsEffective
<1>1. MonInv /\ Built => MonitoredIsEffective
  <2> SUFFICES ASSUME MonInv, Built, NEW o \in Known,
                      100 * Cardinality(history[o].cycles) >= 60 * windows["short"].cycles
               PROVE  100 * io[o].cycles >= 60 * windows["short"].cycles
    BY DEF MonitoredIsEffective, IsMonitoredLongEnough
  <2>1. /\ io[o].cycles \in Nat /\ Cardinality(history[o].cycles) <= io[o].cycles
        /\ IsFiniteSet(history[o].cycles)
    BY DEF MonInv, CyclesFit, Known
  <2>2. Cardinality(history[o].cycles) \in Nat
    BY <2>1, FS_CardinalityType
  <2>3. windows["short"].cycles \in Nat
    BY DEF Built, WindowOf, WindowNames
  <2> QED BY <2>1, <2>2, <2>3
<1> QED BY <1>1, InitMon, NextMon, ClockImplemented, AllFollow, PTL DEF Spec

--------------------------------------------------------------------------------
(* Averages                                                                    *)

\* A factor keeps the order.
LEMMA Factor == ASSUME NEW a \in Nat, NEW b \in Nat, NEW k \in Nat, a <= b PROVE a * k <= b * k
<1>1. PICK d \in Nat : b = a + d
  <2>1. b - a \in Nat /\ b = a + (b - a)
    OBVIOUS
  <2> QED BY <2>1
<1>2. b * k = a * k + d * k
  BY <1>1, SMT
<1>3. d * k \in Nat /\ a * k \in Nat
  BY SMT
<1> DEFINE x == a * k  y == b * k  z == d * k
<1>4. y = x + z /\ z \in Nat /\ x \in Nat
  BY <1>2, <1>3
<1> HIDE DEF x, y, z
<1>5. x <= y
  BY <1>4
<1> QED BY <1>5 DEF x, y

\* A weighted sum of two values within bounds.
LEMMA Weighted ==
    ASSUME NEW lo \in Nat, NEW hi \in Nat, NEW a \in Nat, NEW b \in Nat,
           NEW m \in Nat, NEW k \in Nat,
           lo <= a, a <= hi, lo <= b, b <= hi
    PROVE  /\ a * m + b * k \in Nat
           /\ lo * (m + k) <= a * m + b * k
           /\ a * m + b * k <= hi * (m + k)
<1>1. lo * m <= a * m /\ lo * k <= b * k /\ a * m <= hi * m /\ b * k <= hi * k
  BY Factor
<1>2. lo * (m + k) = lo * m + lo * k /\ hi * (m + k) = hi * m + hi * k
  BY SMT
<1>3. a * m \in Nat /\ b * k \in Nat /\ lo * m \in Nat /\ lo * k \in Nat /\ hi * m \in Nat /\ hi * k \in Nat
  BY SMT
<1> DEFINE p == a * m  q == b * k  r == lo * m  s == lo * k  t == hi * m  u == hi * k
           v == lo * (m + k)  w == hi * (m + k)
<1>4. /\ p \in Nat /\ q \in Nat /\ r \in Nat /\ s \in Nat /\ t \in Nat /\ u \in Nat
      /\ v = r + s /\ w = t + u /\ r <= p /\ s <= q /\ p <= t /\ q <= u
  BY <1>1, <1>2, <1>3
<1> HIDE DEF p, q, r, s, t, u, v, w
<1>5. p + q \in Nat /\ v <= p + q /\ p + q <= w
  BY <1>4
<1> QED BY <1>5 DEF p, q, v, w

\* A quotient is within the bounds that the multiples of its divisor set.
LEMMA QuotientWithin ==
    ASSUME NEW c \in Nat \ {0}, NEW x \in Nat, NEW lo \in Nat, NEW hi \in Nat,
           lo * c <= x, x <= hi * c
    PROVE  x \div c \in Int /\ lo <= x \div c /\ x \div c <= hi
<1> DEFINE q == x \div c  m == x % c
<1>1. q \in Int /\ m \in 0 .. c - 1 /\ x = c * q + m
  BY DivMod
<1> HIDE DEF q, m
<1>2. lo <= q
  <2> SUFFICES ASSUME ~ (lo <= q) PROVE FALSE
    OBVIOUS
  <2> DEFINE k == lo - q - 1
  <2>1. k \in Nat /\ lo = q + k + 1
    BY <1>1
  <2> HIDE DEF k
  <2>2. c * lo = c * q + c * k + c /\ c * k \in Nat /\ c * lo = lo * c /\ c * q \in Int
    BY <1>1, <2>1, Dist, ProductPositive, SMT
  <2> DEFINE y == c * q  z == c * k  l == c * lo
  <2>3. l = y + z + c /\ z \in Nat /\ y \in Int /\ x = y + m /\ l <= x
    BY <1>1, <2>2
  <2> HIDE DEF y, z, l
  <2> QED BY <1>1, <2>3
<1>3. q <= hi
  <2> SUFFICES ASSUME ~ (q <= hi) PROVE FALSE
    OBVIOUS
  <2> DEFINE k == q - hi - 1
  <2>1. k \in Nat /\ q = hi + k + 1
    BY <1>1
  <2> HIDE DEF k
  <2>2. c * q = c * hi + c * k + c /\ c * k \in Nat /\ c * hi = hi * c /\ c * hi \in Nat
    BY <1>1, <2>1, Dist, ProductPositive, SMT
  <2> DEFINE y == c * q  z == c * k  l == c * hi
  <2>3. y = l + z + c /\ z \in Nat /\ l \in Nat /\ x = y + m /\ x <= l
    BY <1>1, <2>2
  <2> HIDE DEF y, z, l
  <2> QED BY <1>1, <2>3
<1> QED BY <1>1, <1>2, <1>3 DEF q

\* A number below a word is its own remainder.
LEMMA BelowWord ==
    ASSUME NEW c \in Nat \ {0}, NEW x \in Nat, x < c PROVE x % c = x
<1>1. x = c * 0 + x /\ x \in 0 .. c - 1
  OBVIOUS
<1> QED BY <1>1, RemainderOf

\* The weights of an average over n - 1 cycles.
LEMMA Weights ==
    ASSUME NEW n \in Nat, n >= 2
    PROVE  /\ n * n - 2 * n \in Nat /\ 2 * n \in Nat
           /\ (n * n - 2 * n) + 2 * n = n * n
           /\ n * n \in Nat \ {0}
<1> DEFINE d == n - 2
<1>1. d \in Nat /\ n = d + 2
  OBVIOUS
<1> HIDE DEF d
<1>2. n * n = d * n + 2 * n /\ d * n \in Nat
  BY <1>1, SMT
<1> DEFINE x == n * n  y == d * n
<1>3. x = y + 2 * n /\ y \in Nat
  BY <1>2
<1> HIDE DEF x, y
<1>4. x - 2 * n \in Nat /\ 2 * n \in Nat /\ (x - 2 * n) + 2 * n = x /\ x \in Nat \ {0}
  BY <1>3
<1> QED BY <1>4 DEF x

\* An average lies between bounds that both values it is made of keep, if the
\* greatest possible sum fits a word.
LEMMA EMABetween ==
    ASSUME NEW prev \in Nat, NEW cur \in Nat, NEW c \in Nat \ {0},
           NEW lo \in Nat, NEW hi \in Nat, prev # 0,
           lo <= prev, prev <= hi, lo <= cur, cur <= hi,
           hi * (c + 1) * (c + 1) < Word
    PROVE  EMA(prev, cur, c) \in Int /\ lo <= EMA(prev, cur, c) /\ EMA(prev, cur, c) <= hi
<1> DEFINE n == c + 1
<1>1. n \in Nat /\ n >= 2
  OBVIOUS
<1>2. EMA(prev, cur, c) = ((prev * (n * n - 2 * n) + cur * 2 * n) % Word) \div (n * n)
  BY DEF EMA
<1>3. hi * n * n < Word
  OBVIOUS
<1> HIDE DEF n
<1> DEFINE sq == n * n  m == n * n - 2 * n  k == 2 * n
<1>4. m \in Nat /\ k \in Nat /\ m + k = sq /\ sq \in Nat \ {0}
  BY <1>1, Weights
<1>5. cur * 2 * n = cur * k /\ hi * n * n = hi * sq
  BY <1>1, SMT
<1>6. EMA(prev, cur, c) = ((prev * m + cur * k) % Word) \div sq /\ hi * sq < Word
  BY <1>2, <1>3, <1>5
<1> HIDE DEF sq, m, k
<1> DEFINE X == prev * m + cur * k
<1>7. X \in Nat /\ lo * sq <= X /\ X <= hi * sq
  BY <1>4, Weighted
<1>8. hi * sq \in Nat /\ Word \in Nat \ {0}
  BY <1>4, StatisticsAssumption, SMT
<1> DEFINE top == hi * sq  low == lo * sq
<1>9. X < Word
  <2>1. X \in Nat /\ X <= top /\ top \in Nat /\ top < Word
    BY <1>6, <1>7, <1>8
  <2> HIDE DEF X, top
  <2> QED BY <2>1, <1>8
<1>10. EMA(prev, cur, c) = X \div sq
  <2>1. X % Word = X
    BY <1>7, <1>8, <1>9, BelowWord
  <2> QED BY <1>6, <2>1
<1> HIDE DEF X
<1>11. X \div sq \in Int /\ lo <= X \div sq /\ X \div sq <= hi
  BY <1>4, <1>7, QuotientWithin
<1> QED BY <1>10, <1>11

\* A value lies between two that were reported.
Between(S, f, x) == \E s, t \in S : s[f] <= x /\ x <= t[f]

\* What a known OBJ holds, after reports S.
Averaged(r, S) ==
    /\ r.raw \in Stats /\ r.cycles \in Nat
    /\ r = [raw |-> r.raw, short |-> r.short, long |-> r.long, cycles |-> r.cycles]
    /\ r.short = [f \in Fields |-> r.short[f]] /\ r.long = [f \in Fields |-> r.long[f]]
    /\ \A f \in Fields :
          /\ r.short[f] \in Nat /\ r.long[f] \in Nat
          /\ Between(S, f, r.short[f]) /\ Between(S, f, r.long[f])

\* The windows are as long as one of the settings says.
OfSettings ==
    \E setting \in Settings : \A name \in WindowNames : windows[name].cycles = setting[name]

\* The inductive invariant of the averages.
EmaInv ==
    /\ OfSettings
    /\ DOMAIN todo \subseteq OBJs /\ \A o \in DOMAIN todo : todo[o] \in Samples
    /\ deleted \subseteq OBJs /\ suspicious \subseteq OBJs
    /\ phase \in {"idle", "resolving", "advising"}
    /\ \A o \in OBJs :
          /\ history[o].stats \subseteq Samples
          /\ io[o] # NoIO => Averaged(io[o], history[o].stats)

\* A moving average of values that were reported lies between them again.
LEMMA AverageStep ==
    ASSUME ValuesFit, OfSettings, NEW name \in WindowNames, NEW S \in SUBSET Samples,
           NEW raw \in Samples, NEW f \in Fields, NEW prev \in Nat,
           prev = 0 \/ Between(S, f, prev)
    PROVE  /\ EMA(prev, raw[f], windows[name].cycles) \in Nat
           /\ Between(S \cup {raw}, f, EMA(prev, raw[f], windows[name].cycles))
<1> DEFINE c == windows[name].cycles  T == S \cup {raw}  e == EMA(prev, raw[f], c)
<1>0. \A s \in Samples : s[f] \in Nat
  BY StatisticsAssumption DEF Stats
<1>1. raw[f] \in Nat /\ raw \in T
  BY <1>0
<1>2. CASE prev = 0
  <2>1. e = raw[f]
    BY <1>2 DEF EMA
  <2> HIDE DEF e, T
  <2>2. raw[f] <= e /\ e <= raw[f] /\ e \in Nat
    BY <1>1, <2>1
  <2>3. Between(T, f, e)
    BY <1>1, <2>2 DEF Between
  <2> QED BY <2>2, <2>3 DEF e, T
<1>3. CASE prev # 0
  <2>1. PICK s \in S, t \in S : s[f] <= prev /\ prev <= t[f]
    BY <1>3 DEF Between
  <2>2. c \in Nat \ {0} /\ \A u \in Samples : u[f] * (c + 1) * (c + 1) < Word
    BY SettingsAssumption DEF OfSettings, ValuesFit
  <2> HIDE DEF c
  <2>3. PICK low \in T : low[f] <= prev /\ low[f] <= raw[f]
    <3>1. CASE s[f] <= raw[f]
      BY <2>1, <3>1
    <3>2. CASE ~ (s[f] <= raw[f])
      <4>1. raw[f] <= prev /\ raw[f] <= raw[f]
        BY <1>0, <1>1, <2>1, <3>2
      <4> QED BY <4>1, <1>1
    <3> QED BY <3>1, <3>2
  <2>4. PICK high \in T : prev <= high[f] /\ raw[f] <= high[f]
    <3>1. CASE raw[f] <= t[f]
      BY <2>1, <3>1
    <3>2. CASE ~ (raw[f] <= t[f])
      <4>1. prev <= raw[f] /\ raw[f] <= raw[f]
        BY <1>0, <1>1, <2>1, <3>2
      <4> QED BY <4>1, <1>1
    <3> QED BY <3>1, <3>2
  <2>5. low \in Samples /\ high \in Samples
    OBVIOUS
  <2>6. low[f] \in Nat /\ high[f] \in Nat /\ high[f] * (c + 1) * (c + 1) < Word
    BY <1>0, <2>2, <2>5
  <2>7. e \in Int /\ low[f] <= e /\ e <= high[f]
    BY ONLY <1>1, <1>3, <2>2, <2>3, <2>4, <2>6, prev \in Nat, EMABetween
  <2> HIDE DEF e, T
  <2>8. e \in Nat
    BY <2>6, <2>7
  <2>9. Between(T, f, e)
    BY <2>7 DEF Between
  <2> QED BY <2>8, <2>9 DEF e, T, c
<1> QED BY <1>2, <1>3

LEMMA InitEma == Init => EmaInv
<1> SUFFICES ASSUME Init PROVE EmaInv
  OBVIOUS
<1>1. /\ io = [o \in OBJs |-> NoIO] /\ history = [o \in OBJs |-> Unseen]
      /\ todo = <<>> /\ deleted = {} /\ suspicious = {} /\ phase = "idle"
  BY DEF Init
<1>2. OfSettings
  <2>1. PICK setting \in Settings :
            windows = [name \in WindowNames |-> NewWindow(name, setting[name])]
    BY DEF Init, InitTime
  <2>2. \A name \in WindowNames : windows[name].cycles = setting[name]
    BY <2>1 DEF NewWindow
  <2> QED BY <2>2 DEF OfSettings
<1>3. DOMAIN todo = {}
  BY <1>1
<1>4. \A o \in OBJs : io[o] = NoIO /\ history[o].stats = {}
  BY <1>1 DEF Unseen
<1> QED BY <1>1, <1>2, <1>3, <1>4 DEF EmaInv

\* Ticks leave the lengths of the windows alone.
LEMMA TickSettings == Built /\ OfSettings /\ Tick => OfSettings'
<1> SUFFICES ASSUME Built, OfSettings, Tick PROVE OfSettings'
  OBVIOUS
<1>1. ASSUME NEW name \in WindowNames PROVE windows'[name].cycles = windows[name].cycles
  <2>1. windows'[name] = Launched(windows[name], relative + 1)
    BY DEF Tick
  <2>2. windows[name] \in WindowOf(name)
    BY DEF Built
  <2>3. Launched(windows[name], relative + 1).cycles = windows[name].cycles
    BY <2>2 DEF Launched, WindowOf
  <2> QED BY <2>1, <2>3
<1> QED BY <1>1 DEF OfSettings

\* The averages of an OBJ after a report, of a known OBJ or of a new one.
LEMMA ResolveEma ==
    ASSUME ValuesFit, EmaInv, MonInv, Built, NEW o \in OBJs, ResolveOBJIO(o)
    PROVE  EmaInv'
<1> DEFINE raw == todo[o]  S == history[o].stats
           old == IF o \in Known THEN io[o] ELSE [short |-> Zero, long |-> Zero, cycles |-> 0]
           n == IF o \in Known THEN Counted(old.cycles) ELSE 1
           rec == [raw |-> raw, short |-> CalculateEMAIO("short", old.short, raw),
                   long |-> CalculateEMAIO("long", old.long, raw), cycles |-> n]
           H == [stats |-> S \cup {raw},
                 cycles |-> history[o].cycles \cup {relative % windows["short"].cycles}]
<1>1. /\ io' = [io EXCEPT ![o] = rec]
      /\ history' = [history EXCEPT ![o] = H]
      /\ windows' = windows /\ deleted' = deleted /\ phase' = phase
      /\ suspicious' = suspicious \ {o}
      /\ todo' = Restrict(todo, DOMAIN todo \ {o})
      /\ o \in DOMAIN todo
  BY DEF ResolveOBJIO, timeVars
<1>2. raw \in Samples /\ raw \in Stats /\ S \in SUBSET Samples
  BY <1>1, StatisticsAssumption DEF EmaInv
<1>3. n \in Nat
  <2>1. CASE o \in Known
    BY <2>1 DEF MonInv, CyclesFit, Known, Counted
  <2>2. CASE o \notin Known
    BY <2>2
  <2> QED BY <2>1, <2>2
<1>4. ASSUME NEW f \in Fields
      PROVE  /\ old.short[f] \in Nat /\ (old.short[f] = 0 \/ Between(S, f, old.short[f]))
             /\ old.long[f] \in Nat /\ (old.long[f] = 0 \/ Between(S, f, old.long[f]))
  <2>1. CASE o \in Known
    <3>1. Averaged(io[o], S)
      BY <2>1 DEF EmaInv, Known
    <3>2. old = io[o]
      BY <2>1
    <3> QED BY <3>1, <3>2 DEF Averaged
  <2>2. CASE o \notin Known
    <3>1. old.short = Zero /\ old.long = Zero
      BY <2>2
    <3> QED BY <3>1 DEF Zero
  <2> QED BY <2>1, <2>2
<1>5. OfSettings
  BY DEF EmaInv
<1> HIDE DEF old, n
<1>6. ASSUME NEW f \in Fields
      PROVE  /\ rec.short[f] \in Nat /\ Between(S \cup {raw}, f, rec.short[f])
             /\ rec.long[f] \in Nat /\ Between(S \cup {raw}, f, rec.long[f])
  <2>1. /\ rec.short[f] = EMA(old.short[f], raw[f], windows["short"].cycles)
        /\ rec.long[f] = EMA(old.long[f], raw[f], windows["long"].cycles)
    BY DEF CalculateEMAIO
  <2>2. /\ EMA(old.short[f], raw[f], windows["short"].cycles) \in Nat
        /\ Between(S \cup {raw}, f, EMA(old.short[f], raw[f], windows["short"].cycles))
    <3>1. "short" \in WindowNames
      BY DEF WindowNames
    <3> HIDE DEF raw, S
    <3> QED BY <1>2, <1>4, <1>5, <3>1, AverageStep
  <2>3. /\ EMA(old.long[f], raw[f], windows["long"].cycles) \in Nat
        /\ Between(S \cup {raw}, f, EMA(old.long[f], raw[f], windows["long"].cycles))
    <3>1. "long" \in WindowNames
      BY DEF WindowNames
    <3> HIDE DEF raw, S
    <3> QED BY <1>2, <1>4, <1>5, <3>1, AverageStep
  <2> QED BY <2>1, <2>2, <2>3
<1>7. Averaged(rec, S \cup {raw})
  <2>1. /\ rec.raw \in Stats /\ rec.cycles \in Nat
        /\ rec = [raw |-> rec.raw, short |-> rec.short, long |-> rec.long, cycles |-> rec.cycles]
    BY <1>2, <1>3
  <2>2. rec.short = [f \in Fields |-> rec.short[f]] /\ rec.long = [f \in Fields |-> rec.long[f]]
    BY DEF CalculateEMAIO
  <2> HIDE DEF rec
  <2> QED BY <1>6, <2>1, <2>2 DEF Averaged
<1>8. H.stats = S \cup {raw}
  OBVIOUS
<1>9. S \cup {raw} \subseteq Samples
  BY <1>2
<1>10. DOMAIN todo' \subseteq OBJs /\ \A x \in DOMAIN todo' : todo'[x] \in Samples
  BY <1>1 DEF Restrict, EmaInv
<1> HIDE DEF rec, H
<1>11. ASSUME NEW x \in OBJs
       PROVE  history'[x].stats \subseteq Samples /\ (io'[x] # NoIO => Averaged(io'[x], history'[x].stats))
  <2>1. CASE x = o
    <3>1. io'[o] = rec /\ history'[o] = H
      BY <1>1 DEF MonInv, Recorded
    <3> QED BY <1>7, <1>8, <1>9, <2>1, <3>1
  <2>2. CASE x # o
    <3>1. io'[x] = io[x] /\ history'[x] = history[x]
      BY <1>1, <2>2 DEF MonInv, Recorded
    <3> QED BY <3>1 DEF EmaInv
  <2> QED BY <2>1, <2>2
<1>12. OfSettings'
  BY <1>1, <1>5 DEF OfSettings
<1>13. deleted' \subseteq OBJs /\ suspicious' \subseteq OBJs /\ phase' \in {"idle", "resolving", "advising"}
  BY <1>1 DEF EmaInv
<1> QED BY <1>10, <1>11, <1>12, <1>13 DEF EmaInv

\* Steps that leave what is known of OBJs and the lengths of the windows alone.
LEMMA SameEma ==
    ASSUME EmaInv, io' = io, history' = history, OfSettings',
           DOMAIN todo' \subseteq OBJs, \A o \in DOMAIN todo' : todo'[o] \in Samples,
           deleted' \subseteq OBJs, suspicious' \subseteq OBJs,
           phase' \in {"idle", "resolving", "advising"}
    PROVE  EmaInv'
  BY DEF EmaInv

LEMMA NewCycleEma == EmaInv /\ MonInv /\ Built /\ NewCycle => EmaInv'
<1> SUFFICES ASSUME EmaInv, MonInv, Built, NewCycle PROVE EmaInv'
  OBVIOUS
<1>1. /\ io' = io /\ deleted' = deleted /\ suspicious' = suspicious /\ phase' = phase
      /\ todo' = todo /\ Tick
  BY DEF NewCycle
<1>2. OfSettings'
  BY <1>1, TickSettings DEF EmaInv
<1>3. ASSUME NEW o \in OBJs PROVE history'[o].stats = history[o].stats
  <2>1. CASE windows'["short"].new
    <3>1. history'[o] = [history[o] EXCEPT !.cycles = {}]
      BY <2>1 DEF NewCycle
    <3>2. history[o] = [stats |-> history[o].stats, cycles |-> history[o].cycles]
      BY Zenon DEF MonInv, Recorded
    <3> QED BY <3>1, <3>2
  <2>2. CASE ~ windows'["short"].new
    BY <2>2 DEF NewCycle
  <2> QED BY <2>1, <2>2
<1> QED BY <1>1, <1>2, <1>3 DEF EmaInv

LEMMA NextEma == ValuesFit /\ EmaInv /\ MonInv /\ Built /\ [Next]_allVars => EmaInv'
<1> SUFFICES ASSUME ValuesFit, EmaInv, MonInv, Built, [Next]_allVars PROVE EmaInv'
  OBVIOUS
<1>1. CASE NewCycle
  BY <1>1, NewCycleEma
<1>2. CASE StartRound
  <2>1. /\ io' = io /\ history' = history /\ windows' = windows /\ deleted' = deleted
        /\ suspicious' = Known /\ phase' = "resolving"
    BY <1>2 DEF StartRound, timeVars
  <2>2. PICK S \in SUBSET OBJs : todo' \in [S -> Samples]
    BY <1>2 DEF StartRound
  <2>3. DOMAIN todo' = S /\ \A o \in S : todo'[o] \in Samples
    BY <2>2
  <2>4. OfSettings'
    BY <2>1 DEF EmaInv, OfSettings
  <2>5. Known \subseteq OBJs
    BY DEF Known
  <2> QED BY <2>1, <2>3, <2>4, <2>5, SameEma DEF EmaInv
<1>3. CASE FailRound
  <2>1. /\ io' = io /\ history' = history /\ windows' = windows /\ deleted' = deleted
        /\ suspicious' = suspicious /\ phase' = "idle" /\ todo' = <<>>
    BY <1>3 DEF FailRound, timeVars, ioVars
  <2>2. DOMAIN todo' = {}
    BY <2>1
  <2>3. OfSettings'
    BY <2>1 DEF EmaInv, OfSettings
  <2> QED BY <2>1, <2>2, <2>3, SameEma DEF EmaInv
<1>4. CASE EndRound
  <2>1. /\ io' = io /\ history' = history /\ windows' = windows
        /\ deleted' = deleted \cup suspicious
        /\ suspicious' = suspicious /\ phase' \in {"idle", "advising"} /\ todo' = todo
    BY <1>4 DEF EndRound, timeVars
  <2>2. OfSettings'
    BY <2>1 DEF EmaInv, OfSettings
  <2> QED BY <2>1, <2>2, SameEma DEF EmaInv
<1>5. CASE Consolidate
  <2>1. /\ io' = [o \in OBJs |-> IF o \in deleted THEN NoIO ELSE io[o]]
        /\ history' = [o \in OBJs |-> IF o \in deleted THEN Unseen ELSE history[o]]
        /\ deleted' = {} /\ suspicious' = suspicious /\ phase' = "idle" /\ todo' = todo
        /\ windows' = windows
    BY <1>5 DEF Consolidate, timeVars
  <2>2. OfSettings'
    BY <2>1 DEF EmaInv, OfSettings
  <2>3. ASSUME NEW o \in OBJs
        PROVE  /\ history'[o].stats \subseteq Samples
               /\ io'[o] # NoIO => Averaged(io'[o], history'[o].stats)
    <3>1. CASE o \in deleted
      BY <2>1, <3>1 DEF Unseen
    <3>2. CASE o \notin deleted
      BY <2>1, <3>2 DEF EmaInv
    <3> QED BY <3>1, <3>2
  <2> QED BY <2>1, <2>2, <2>3 DEF EmaInv
<1>6. CASE Reenable
  <2>1. /\ io' = [o \in OBJs |-> NoIO] /\ history' = [o \in OBJs |-> Unseen]
        /\ deleted' = {} /\ suspicious' = {} /\ phase' = phase /\ todo' = todo
    BY <1>6 DEF Reenable
  <2>2. OfSettings'
    <3>1. PICK setting \in Settings : ResetTime(setting)
      BY <1>6 DEF Reenable
    <3>2. windows' = [name \in WindowNames |-> NewWindow(name, setting[name])]
      BY <3>1 DEF ResetTime
    <3>3. \A name \in WindowNames : windows'[name].cycles = setting[name]
      BY <3>2 DEF NewWindow
    <3> QED BY <3>3 DEF OfSettings
  <2>3. \A o \in OBJs : io'[o] = NoIO /\ history'[o].stats = {}
    BY <2>1 DEF Unseen
  <2> QED BY <2>1, <2>2, <2>3 DEF EmaInv
<1>7. CASE \E o \in OBJs : ResolveOBJIO(o)
  BY <1>7, ResolveEma
<1>8. CASE UNCHANGED allVars
  <2>1. /\ io' = io /\ history' = history /\ windows' = windows /\ deleted' = deleted
        /\ suspicious' = suspicious /\ phase' = phase /\ todo' = todo
    BY <1>8 DEF allVars, ioVars, timeVars
  <2>2. OfSettings'
    BY <2>1 DEF EmaInv, OfSettings
  <2> QED BY <2>1, <2>2, SameEma DEF EmaInv
<1> QED BY <1>1, <1>2, <1>3, <1>4, <1>5, <1>6, <1>7, <1>8 DEF Next

--------------------------------------------------------------------------------
\* A set of naturals with a member has a least one, and one with a bound a
\* greatest one.
LEMMA LeastOf ==
    ASSUME NEW S \in SUBSET Nat, S # {}
    PROVE  Min(S) \in S /\ \A x \in S : Min(S) <= x
<1>1. PICK m \in S : \A y \in S : ~ (<<y, m>> \in OpToRel(<, Nat))
  BY NatLessThanWellFounded, WFMin
<1>2. \A y \in S : m <= y
  <2> SUFFICES ASSUME NEW y \in S PROVE m <= y
    OBVIOUS
  <2>1. ~ (y < m)
    BY <1>1 DEF OpToRel
  <2> QED BY <2>1
<1>3. Min(S) = CHOOSE x \in S : \A y \in S : x =< y
  BY DEF Min
<1> QED BY <1>2, <1>3

LEMMA GreatestOf ==
    ASSUME NEW n \in Nat, NEW S \in SUBSET (0 .. n), S # {}
    PROVE  Max(S) \in S /\ \A x \in S : x <= Max(S)
<1> DEFINE T == {n - x : x \in S}
<1>1. T \in SUBSET Nat /\ T # {}
  <2>1. \A x \in S : n - x \in Nat
    OBVIOUS
  <2>2. \A t \in T : t \in Nat
    BY <2>1
  <2>3. PICK x \in S : TRUE
    OBVIOUS
  <2>4. n - x \in T
    OBVIOUS
  <2> HIDE DEF T
  <2> QED BY <2>2, <2>4
<1>2. PICK m \in T : \A y \in T : m <= y
  BY <1>1, LeastOf
<1>3. PICK g \in S : m = n - g
  BY <1>2
<1>4. \A x \in S : x <= g
  <2> SUFFICES ASSUME NEW x \in S PROVE x <= g
    OBVIOUS
  <2>1. n - x \in T
    OBVIOUS
  <2>2. m <= n - x
    BY <1>2, <2>1
  <2> QED BY <2>2, <1>3
<1>5. Max(S) = CHOOSE x \in S : \A y \in S : x >= y
  BY DEF Max
<1>6. \A x \in S : g >= x
  BY <1>4
<1> QED BY <1>5, <1>6

\* Between two of them is between the least and the greatest.
LEMMA InSpan ==
    ASSUME NEW S \in SUBSET Stats, NEW f \in Fields, NEW x \in Nat, Between(S, f, x)
    PROVE  /\ x \in Min({s[f] : s \in S}) .. Max({s[f] : s \in S})
           /\ x \in 0 .. Word - 1
<1> DEFINE V == {s[f] : s \in S}
<1>1. PICK s \in S, t \in S : s[f] <= x /\ x <= t[f]
  BY DEF Between
<1>2. Word - 1 \in Nat /\ \A u \in S : u[f] \in 0 .. Word - 1
  BY StatisticsAssumption DEF Stats
<1>3. V \in SUBSET (0 .. Word - 1) /\ V \in SUBSET Nat /\ V # {} /\ s[f] \in V /\ t[f] \in V
  BY <1>2
<1> HIDE DEF V
<1>4. Min(V) \in V /\ Min(V) <= s[f]
  BY <1>3, LeastOf
<1>5. Max(V) \in V /\ t[f] <= Max(V)
  BY <1>2, <1>3, GreatestOf
<1>6. Min(V) \in Nat /\ Max(V) \in Nat /\ s[f] \in Nat /\ t[f] \in 0 .. Word - 1
  BY <1>3, <1>4, <1>5
<1>7. x \in Min(V) .. Max(V)
  BY <1>1, <1>4, <1>5, <1>6
<1>8. x \in 0 .. Word - 1
  BY <1>1, <1>2, <1>6
<1> QED BY <1>7, <1>8 DEF V

\* Bounded by two reports each, the averages lie in the span of all of them.
LEMMA EmaBetween == EmaInv => AveragesBetween
<1> SUFFICES ASSUME EmaInv PROVE AveragesBetween
  OBVIOUS
<1>1. ASSUME NEW o \in Known
      PROVE  /\ io[o] \in OBJIOs
             /\ \A f \in Fields :
                   LET values == {s[f] : s \in history[o].stats}
                   IN {io[o].short[f], io[o].long[f]} \subseteq Min(values) .. Max(values)
  <2>1. Averaged(io[o], history[o].stats) /\ history[o].stats \in SUBSET Stats
    BY StatisticsAssumption DEF EmaInv, Known
  <2>2. ASSUME NEW f \in Fields
        PROVE  /\ io[o].short[f] \in Min({s[f] : s \in history[o].stats}) .. Max({s[f] : s \in history[o].stats})
               /\ io[o].long[f] \in Min({s[f] : s \in history[o].stats}) .. Max({s[f] : s \in history[o].stats})
               /\ io[o].short[f] \in 0 .. Word - 1 /\ io[o].long[f] \in 0 .. Word - 1
    <3>1. /\ io[o].short[f] \in Nat /\ Between(history[o].stats, f, io[o].short[f])
          /\ io[o].long[f] \in Nat /\ Between(history[o].stats, f, io[o].long[f])
      BY <2>1 DEF Averaged
    <3> QED BY <2>1, <3>1, InSpan
  <2>3. io[o].short \in Stats /\ io[o].long \in Stats
    BY <2>1, <2>2 DEF Averaged, Stats
  <2>4. io[o] \in OBJIOs
    <3> DEFINE r == io[o]
    <3>1. /\ r = [raw |-> r.raw, short |-> r.short, long |-> r.long, cycles |-> r.cycles]
          /\ r.raw \in Stats /\ r.cycles \in Nat
      BY <2>1, Zenon DEF Averaged
    <3>2. r.short \in Stats /\ r.long \in Stats
      BY <2>3
    <3> HIDE DEF r
    <3>3. r \in OBJIOs
      BY <3>1, <3>2, Zenon DEF OBJIOs
    <3> QED BY <3>3 DEF r
  <2>5. \A f \in Fields :
           LET values == {s[f] : s \in history[o].stats}
           IN {io[o].short[f], io[o].long[f]} \subseteq Min(values) .. Max(values)
    BY <2>2
  <2> QED BY <2>4, <2>5
<1>2. TypeOK
  BY <1>1 DEF TypeOK, EmaInv
<1> QED BY <1>1, <1>2 DEF AveragesBetween

\* If the values the HUB reports fit a word together with the windows' lengths, no
\* average ever leaves the span of the values reported since the OBJ is known,
\* whatever rounding does, however often the windows' lengths change and in
\* whichever order reports, failures and removals come.
THEOREM AveragesBetweenWhileFitting == ASSUME ValuesFit PROVE Spec => []AveragesBetween
<1>1. EmaInv /\ MonInv /\ Built /\ [Next]_allVars => EmaInv'
  BY ValuesFit, NextEma
<1> QED BY <1>1, InitEma, EmaBetween, InitMon, NextMon, ClockImplemented, AllFollow, PTL DEF Spec

--------------------------------------------------------------------------------
\* Of the sets of a family of finite sets one has no smaller one in it.
LEMMA SmallestExists ==
    ASSUME NEW B, B # {}, \A t \in B : IsFiniteSet(t)
    PROVE  \E t \in B : \A u \in B : ~(u \subseteq t /\ u # t)
<1> DEFINE C == {Cardinality(t) : t \in B}
<1>1. C \subseteq Nat /\ C # {}
  BY FS_CardinalityType
<1> HIDE DEF C
<1>2. PICK n \in C : \A m \in C : n <= m
  BY <1>1, LeastOf
<1>3. PICK t \in B : n = Cardinality(t)
  BY <1>2 DEF C
<1>4. ASSUME NEW u \in B, u \subseteq t, u # t PROVE FALSE
  <2>0. IsFiniteSet(t) /\ u \in SUBSET t
    BY <1>4
  <2>1. Cardinality(u) <= Cardinality(t) /\ Cardinality(u) # Cardinality(t)
    BY <1>4, <2>0, FS_Subset
  <2>2. Cardinality(u) \in C /\ Cardinality(u) \in Nat
    BY <1>1 DEF C
  <2>3. n \in Nat
    BY <1>1
  <2> QED BY <1>2, <1>3, <2>1, <2>2, <2>3
<1> QED BY <1>4

-----------------------------------------------------------------------------
(* Sums over finite sets, as SumFunction computes them.                    *)

First(t) == CHOOSE x \in t : TRUE
Step(f, g, t) == IF t = {} THEN 0 ELSE f[First(t)] + g[t \ {First(t)}]
Sums(f, D, g) == g = [t \in SUBSET D |-> Step(f, g, t)]

Chain(f, D, g) ==
    /\ g[{}] = 0
    /\ \A t \in SUBSET D : t # {} =>
          /\ First(t) \in t /\ t \ {First(t)} \in SUBSET D
          /\ g[t] = f[First(t)] + g[t \ {First(t)}]

LEMMA FirstIn == \A t : t # {} => First(t) \in t
BY DEF First

LEMMA SumsExist ==
    ASSUME NEW D, IsFiniteSet(D), NEW f, \A x \in D : f[x] \in Nat
    PROVE  \E g \in [SUBSET D -> Nat] : Sums(f, D, g)
<1> DEFINE Fits(g, n) == \A t \in SUBSET D : Cardinality(t) <= n => g[t] = Step(f, g, t)
           Good(n) == \E g \in [SUBSET D -> Nat] : Fits(g, n)
           Bad == {n \in Nat : ~Good(n)}
<1>0. /\ \A t \in SUBSET D : IsFiniteSet(t) /\ Cardinality(t) \in Nat
      /\ \A t \in SUBSET D : t # {} =>
            First(t) \in D /\ t \ {First(t)} \in SUBSET D
            /\ Cardinality(t \ {First(t)}) = Cardinality(t) - 1
  BY FS_Subset, FS_CardinalityType, FS_RemoveElement, FirstIn
<1>1. Good(0)
  <2> DEFINE g == [t \in SUBSET D |-> 0]
  <2>1. g \in [SUBSET D -> Nat]
    OBVIOUS
  <2>2. ASSUME NEW t \in SUBSET D, Cardinality(t) <= 0 PROVE t = {}
    BY <1>0, <2>2, FS_EmptySet
  <2>3. Fits(g, 0)
    BY <2>2 DEF Step
  <2> QED BY <2>1, <2>3
<1>2. ASSUME NEW n \in Nat, Good(n) PROVE Good(n + 1)
  <2>1. PICK g \in [SUBSET D -> Nat] : Fits(g, n)
    BY <1>2
  <2> DEFINE h == [t \in SUBSET D |-> Step(f, g, t)]
  <2>2. h \in [SUBSET D -> Nat]
    <3>1. \A t \in SUBSET D : Step(f, g, t) \in Nat
      BY <1>0 DEF Step
    <3> QED BY <3>1
  <2>3. ASSUME NEW t \in SUBSET D, Cardinality(t) <= n + 1
        PROVE  h[t] = Step(f, h, t)
    <3>1. CASE t = {}
      BY <3>1 DEF Step
    <3>2. CASE t # {}
      <4> DEFINE u == t \ {First(t)}
      <4>1. u \in SUBSET D /\ Cardinality(u) <= n
        BY <1>0, <2>3, <3>2
      <4>2. h[u] = g[u]
        BY <2>1, <4>1
      <4>3. h[t] = f[First(t)] + g[u]
        BY <3>2 DEF Step
      <4>4. Step(f, h, t) = f[First(t)] + h[u]
        BY <3>2 DEF Step
      <4> QED BY <4>2, <4>3, <4>4
    <3> QED BY <3>1, <3>2
  <2> HIDE DEF h
  <2>4. Fits(h, n + 1)
    BY <2>3
  <2> QED BY <2>2, <2>4
<1> HIDE DEF Good
<1>3. Bad = {}
  <2> SUFFICES ASSUME Bad # {} PROVE FALSE
    OBVIOUS
  <2>1. PICK n \in Bad : \A m \in Bad : n <= m
    BY LeastOf
  <2>2. n # 0
    BY <1>1, <2>1
  <2>3. n - 1 \in Nat /\ Good(n - 1)
    BY <2>1, <2>2
  <2>4. Good(n - 1 + 1)
    BY <1>2, <2>3
  <2> QED BY <2>1, <2>3, <2>4
<1>4. Good(Cardinality(D))
  BY <1>0, <1>3
<1>5. PICK g \in [SUBSET D -> Nat] : Fits(g, Cardinality(D))
  BY <1>4 DEF Good
<1>6. \A t \in SUBSET D : Cardinality(t) <= Cardinality(D)
  BY FS_Subset
<1>7. g = [t \in SUBSET D |-> g[t]]
  OBVIOUS
<1>8. \A t \in SUBSET D : g[t] = Step(f, g, t)
  BY <1>5, <1>6
<1>9. Sums(f, D, g)
  BY <1>7, <1>8, Zenon DEF Sums
<1> QED BY <1>9

LEMMA SumsStep ==
    ASSUME NEW D, NEW f, NEW g, Sums(f, D, g)
    PROVE  Chain(f, D, g)
<1>1. \A t \in SUBSET D : g[t] = Step(f, g, t)
  BY DEF Sums
<1> QED BY <1>1, FirstIn DEF Step, Chain

LEMMA SumsNat ==
    ASSUME NEW D, IsFiniteSet(D), NEW f, \A x \in D : f[x] \in Nat, NEW g, Sums(f, D, g)
    PROVE  \A t \in SUBSET D : g[t] \in Nat
<1> DEFINE Bad == {t \in SUBSET D : g[t] \notin Nat}
<1> SUFFICES ASSUME Bad # {} PROVE FALSE
  OBVIOUS
<1>a. Chain(f, D, g)
  BY SumsStep
<1>0. \A t \in Bad : IsFiniteSet(t)
  BY FS_Subset
<1> HIDE DEF Bad
<1>1. PICK t \in Bad : \A u \in Bad : ~(u \subseteq t /\ u # t)
  BY <1>0, SmallestExists
<1>2. t \in SUBSET D /\ t # {}
  <2>1. t \in SUBSET D /\ g[t] \notin Nat
    BY <1>1 DEF Bad
  <2>2. g[{}] = 0
    BY <1>a DEF Chain
  <2> QED BY <2>1, <2>2
<1>3. /\ First(t) \in t /\ t \ {First(t)} \in SUBSET D
      /\ g[t] = f[First(t)] + g[t \ {First(t)}]
  BY <1>2, <1>a DEF Chain
<1>4. g[t \ {First(t)}] \in Nat
  BY <1>1, <1>3 DEF Bad
<1> QED BY <1>1, <1>2, <1>3, <1>4 DEF Bad

\* What is summed up depends on the elements only.
LEMMA SumsAgree ==
    ASSUME NEW D, NEW f, NEW g, Sums(f, D, g), NEW E, NEW h, NEW k, Sums(h, E, k),
           IsFiniteSet(D), D \subseteq E, \A x \in D : f[x] = h[x]
    PROVE  \A t \in SUBSET D : g[t] = k[t]
<1> DEFINE Bad == {t \in SUBSET D : g[t] # k[t]}
<1> SUFFICES ASSUME Bad # {} PROVE FALSE
  OBVIOUS
<1>a. Chain(f, D, g)
  BY SumsStep
<1>b. Chain(h, E, k)
  BY SumsStep
<1>0. \A t \in Bad : IsFiniteSet(t)
  BY FS_Subset
<1> HIDE DEF Bad
<1>1. PICK t \in Bad : \A u \in Bad : ~(u \subseteq t /\ u # t)
  BY <1>0, SmallestExists
<1>3. t \in SUBSET D /\ t \in SUBSET E /\ t # {}
  BY <1>1, <1>a, <1>b DEF Bad, Chain
<1> DEFINE c == First(t)
<1>4. c \in t /\ g[t] = f[c] + g[t \ {c}]
  BY <1>3, <1>a DEF Chain
<1>5. k[t] = h[c] + k[t \ {c}]
  BY <1>3, <1>b DEF Chain
<1>6. g[t \ {c}] = k[t \ {c}]
  BY <1>1, <1>3, <1>4 DEF Bad
<1> QED BY <1>1, <1>3, <1>4, <1>5, <1>6 DEF Bad


\* The sum of a function's values.
SetSum(f, D) == MapThenSumSet(LAMBDA x : f[x], D)

\* What MapThenSumSet computes of a finite set is one of these sums.
LEMMA SetSums ==
    ASSUME NEW D, IsFiniteSet(D), NEW f, \A x \in D : f[x] \in Nat
    PROVE  \E g : Sums(f, D, g) /\ SetSum(f, D) = g[D]
<1> DEFINE iter == CHOOSE g : Sums(f, D, g)
<1>1. SetSum(f, D) = iter[D]
  BY Zenon DEF SetSum, MapThenSumSet, MapThenFoldSet, Sums, Step, First
<1>2. \E g : Sums(f, D, g)
  BY SumsExist
<1>3. Sums(f, D, iter)
  BY <1>2, Zenon
<1> QED BY <1>1, <1>3

\* The sum over OBJs that a summary holds, of what h has for them.
OBJSum(h, term, group, S) == MapThenSumSet(LAMBDA o : SumOf(h[o][term], group), S)
Values(h, term, group, S) == [o \in S |-> SumOf(h[o][term], group)]

LEMMA OBJSums ==
    ASSUME NEW S, IsFiniteSet(S), NEW h, NEW term, NEW group,
           \A o \in S : SumOf(h[o][term], group) \in Nat
    PROVE  \E g : /\ Sums(Values(h, term, group, S), S, g)
                  /\ OBJSum(h, term, group, S) = g[S]
<1> DEFINE f == Values(h, term, group, S)
           Part(g, s) == IF s = {} THEN 0
                         ELSE SumOf(h[First(s)][term], group) + g[s \ {First(s)}]
           iter == CHOOSE g : g = [s \in SUBSET S |-> Part(g, s)]
<1>1. OBJSum(h, term, group, S) = iter[S]
  BY Zenon DEF OBJSum, MapThenSumSet, MapThenFoldSet, First
<1>2. \A x \in S : f[x] \in Nat
  BY DEF Values
<1>3. PICK g : Sums(f, S, g)
  BY <1>2, SumsExist
<1>4. \A k : \A s \in SUBSET S : Part(k, s) = Step(f, k, s)
  BY FirstIn DEF Step, Values
<1>5. \A k : [s \in SUBSET S |-> Part(k, s)] = [s \in SUBSET S |-> Step(f, k, s)]
  BY <1>4
<1> HIDE DEF f, Part
<1>6. g = [s \in SUBSET S |-> Part(g, s)]
  BY <1>3, <1>5 DEF Sums
<1>7. iter = [s \in SUBSET S |-> Part(iter, s)]
  BY <1>6, Zenon
<1> HIDE DEF iter
<1>8. Sums(f, S, iter)
  BY <1>5, <1>7 DEF Sums
<1> QED BY <1>1, <1>8 DEF f

\* It is a number, and the same for whatever has the same values for the OBJs.
LEMMA OBJSumIs ==
    ASSUME NEW S, IsFiniteSet(S), NEW h, NEW k, NEW term, NEW group,
           \A o \in S : SumOf(h[o][term], group) \in Nat,
           \A o \in S : h[o] = k[o]
    PROVE  /\ OBJSum(h, term, group, S) \in Nat
           /\ OBJSum(k, term, group, S) = OBJSum(h, term, group, S)
<1> DEFINE f == Values(h, term, group, S)
<1>1. f = Values(k, term, group, S) /\ \A x \in S : f[x] \in Nat
  BY DEF Values
<1>2. PICK g : Sums(f, S, g) /\ OBJSum(h, term, group, S) = g[S]
  BY OBJSums
<1>3. PICK i : Sums(f, S, i) /\ OBJSum(k, term, group, S) = i[S]
  <2>1. \A o \in S : SumOf(k[o][term], group) \in Nat
    OBVIOUS
  <2>2. \E i : Sums(Values(k, term, group, S), S, i) /\ OBJSum(k, term, group, S) = i[S]
    BY <2>1, OBJSums
  <2> QED BY <1>1, <2>2
<1> HIDE DEF f
<1>4. \A t \in SUBSET S : g[t] \in Nat
  BY ONLY <1>1, <1>2, IsFiniteSet(S), SumsNat
<1>5. \A t \in SUBSET S : g[t] = i[t]
  BY ONLY <1>2, <1>3, IsFiniteSet(S), SumsAgree
<1> QED BY <1>2, <1>3, <1>4, <1>5

LEMMA FieldsFinite == IsFiniteSet(Fields)
<1>1. IsFiniteSet(Accesses)
  <2>1. Accesses = {"rnd"} \cup {"seq"}
    BY DEF Accesses
  <2> QED BY <2>1, FS_Singleton, FS_Union
<1>2. IsFiniteSet(Counts \cup Volumes \cup Times)
  <2>1. IsFiniteSet(Counts)
    <3>1. Counts = {"readIOs"} \cup {"writeIOs"}
      BY DEF Counts
    <3> QED BY <3>1, FS_Singleton, FS_Union
  <2>2. IsFiniteSet(Volumes)
    <3>1. Volumes = {"readBW"} \cup {"writeBW"}
      BY DEF Volumes
    <3> QED BY <3>1, FS_Singleton, FS_Union
  <2>3. IsFiniteSet(Times)
    BY FS_Singleton DEF Times
  <2> QED BY <2>1, <2>2, <2>3, FS_Union
<1> QED BY <1>1, <1>2, FS_Product DEF Fields

LEMMA GroupsAreFields == \A g \in SumGroups \cup RangeGroups : g \subseteq Fields
BY DEF SumGroups, RangeGroups, CountSums, VolumeSums, TimeSums, CountRanges, VolumeRanges,
       TimeRanges, Singles, PerAccess, Fields

\* The sum of a group of values is a word.
LEMMA SumIsWord ==
    ASSUME NEW g \in SumGroups \cup RangeGroups, NEW stat, \A f \in Fields : stat[f] \in Nat
    PROVE  SumOf(stat, g) \in 0 .. Word - 1
<1>1. g \subseteq Fields /\ IsFiniteSet(g)
  BY GroupsAreFields, FieldsFinite, FS_Subset
<1>2. \A f \in g : stat[f] \in Nat
  BY <1>1
<1>3. PICK s : Sums(stat, g, s) /\ SetSum(stat, g) = s[g]
  BY <1>1, <1>2, SetSums
<1>4. s[g] \in Nat
  BY <1>1, <1>2, <1>3, SumsNat
<1>5. SumOf(stat, g) = SetSum(stat, g) % Word
  BY Zenon DEF SumOf, SetSum
<1> QED BY <1>3, <1>4, <1>5, StatisticsAssumption

\* Whatever the averages do, what a known OBJ holds are natural numbers.
Numbers(r) == \A t \in Terms, f \in Fields : r[t][f] \in Nat
SumInv ==
    /\ DOMAIN todo \subseteq OBJs /\ \A o \in DOMAIN todo : todo[o] \in Samples
    /\ \A o \in OBJs : io[o] # NoIO => Numbers(io[o])

LEMMA EMANat ==
    ASSUME NEW prev \in Nat, NEW cur \in Nat, NEW c \in Nat \ {0}
    PROVE  EMA(prev, cur, c) \in Nat
<1> DEFINE n == c + 1  x == prev * (n * n - 2 * n) + cur * 2 * n  sq == n * n
<1>1. n \in Nat /\ n >= 2
  OBVIOUS
<1>2. sq \in Nat \ {0} /\ n * n - 2 * n \in Nat
  <2> HIDE DEF n
  <2> QED BY <1>1, Weights
<1>3. x \in Int
  <2> DEFINE m == n * n - 2 * n
  <2>1. m \in Nat /\ n \in Nat
    BY <1>1, <1>2
  <2> HIDE DEF m, n
  <2>2. prev * m + cur * 2 * n \in Int
    BY <2>1, SMT
  <2> QED BY <2>2 DEF m
<1>4. EMA(prev, cur, c) = IF prev = 0 THEN cur ELSE (x % Word) \div sq
  BY DEF EMA
<1> HIDE DEF x, sq, n
<1>5. x % Word \in Nat
  BY <1>3, StatisticsAssumption
<1> DEFINE y == x % Word
<1>6. y \div sq \in Nat
  <2>1. y \in Nat
    BY <1>5
  <2> HIDE DEF y
  <2>2. 0 * sq <= y /\ y <= y * sq
    BY <1>2, <2>1, Factor, SMT
  <2>3. y \div sq \in Int /\ 0 <= y \div sq
    BY <1>2, <2>1, <2>2, QuotientWithin
  <2> QED BY <2>3
<1> QED BY <1>4, <1>6 DEF y

LEMMA ResolveSum ==
    ASSUME SumInv, MonInv, Built, NEW o \in OBJs, ResolveOBJIO(o)
    PROVE  SumInv'
<1> DEFINE raw == todo[o]
           old == IF o \in Known THEN io[o] ELSE [short |-> Zero, long |-> Zero, cycles |-> 0]
           n == IF o \in Known THEN Counted(old.cycles) ELSE 1
           rec == [raw |-> raw, short |-> CalculateEMAIO("short", old.short, raw),
                   long |-> CalculateEMAIO("long", old.long, raw), cycles |-> n]
<1>1. /\ io' = [io EXCEPT ![o] = rec]
      /\ todo' = Restrict(todo, DOMAIN todo \ {o})
      /\ o \in DOMAIN todo
  BY DEF ResolveOBJIO
<1>2. raw \in Stats
  BY <1>1, StatisticsAssumption DEF SumInv
<1>3. ASSUME NEW f \in Fields PROVE raw[f] \in Nat /\ old.short[f] \in Nat /\ old.long[f] \in Nat
  <2>1. raw[f] \in Nat
    BY <1>2, StatisticsAssumption DEF Stats
  <2>2. CASE o \in Known
    <3>1. Numbers(io[o]) /\ old = io[o]
      BY <2>2 DEF SumInv, Known
    <3>2. "short" \in Terms /\ "long" \in Terms
      BY DEF Terms
    <3>3. io[o]["short"][f] \in Nat /\ io[o]["long"][f] \in Nat
      BY <3>1, <3>2 DEF Numbers
    <3> QED BY <2>1, <3>1, <3>3
  <2>3. CASE o \notin Known
    BY <2>1, <2>3 DEF Zero
  <2> QED BY <2>2, <2>3
<1> HIDE DEF old, n
<1>4. /\ windows["short"].cycles \in Nat \ {0} /\ windows["long"].cycles \in Nat \ {0}
  BY DEF Built, WindowOf, WindowNames
<1>5. \A f \in Fields : rec.raw[f] \in Nat /\ rec.short[f] \in Nat /\ rec.long[f] \in Nat
  BY <1>3, <1>4, EMANat DEF CalculateEMAIO
<1>6. Numbers(rec)
  <2> HIDE DEF rec
  <2> QED BY <1>5 DEF Numbers, Terms
<1> HIDE DEF rec
<1>7. DOMAIN todo' \subseteq OBJs /\ \A x \in DOMAIN todo' : todo'[x] \in Samples
  BY <1>1 DEF Restrict, SumInv
<1>8. \A x \in OBJs : io'[x] = IF x = o THEN rec ELSE io[x]
  BY <1>1 DEF MonInv, Recorded
<1> QED BY <1>6, <1>7, <1>8 DEF SumInv

LEMMA NextSum == SumInv /\ MonInv /\ Built /\ [Next]_allVars => SumInv'
<1> SUFFICES ASSUME SumInv, MonInv, Built, [Next]_allVars PROVE SumInv'
  OBVIOUS
<1>1. CASE NewCycle \/ EndRound \/ UNCHANGED allVars
  <2>1. io' = io /\ todo' = todo
    BY <1>1 DEF NewCycle, EndRound, allVars, ioVars
  <2> QED BY <2>1 DEF SumInv
<1>2. CASE StartRound
  <2>1. PICK S \in SUBSET OBJs : todo' \in [S -> Samples]
    BY <1>2 DEF StartRound
  <2>2. io' = io /\ DOMAIN todo' = S /\ \A o \in S : todo'[o] \in Samples
    BY <1>2, <2>1 DEF StartRound
  <2> QED BY <2>2 DEF SumInv
<1>3. CASE FailRound
  <2>1. io' = io /\ DOMAIN todo' = {}
    BY <1>3 DEF FailRound, ioVars
  <2> QED BY <2>1 DEF SumInv
<1>4. CASE Consolidate
  <2>1. /\ io' = [o \in OBJs |-> IF o \in deleted THEN NoIO ELSE io[o]] /\ todo' = todo
    BY <1>4 DEF Consolidate
  <2> QED BY <2>1 DEF SumInv
<1>5. CASE Reenable
  <2>1. io' = [o \in OBJs |-> NoIO] /\ todo' = todo
    BY <1>5 DEF Reenable
  <2> QED BY <2>1 DEF SumInv
<1>6. CASE \E o \in OBJs : ResolveOBJIO(o)
  BY <1>6, ResolveSum
<1> QED BY <1>1, <1>2, <1>3, <1>4, <1>5, <1>6 DEF Next

\* What is said of one disk.
DiskFits(summary, h, left, t) ==
    /\ summary \in DiskIOs
    /\ \A g \in SumGroups : summary.sums[t][g] = OBJSum(h, t, g, left) % Word
    /\ \A g \in RangeGroups, o \in left :
          SumOf(h[o][t], g) \in summary.ranges[t][g].min .. summary.ranges[t][g].max

LEMMA SummaryIs ==
    ASSUME NEW S \in SUBSET OBJs, \A o \in S : Numbers(io[o]), NEW t \in Terms
    PROVE  DiskFits(Summary(S), io, S, t)
<1> DEFINE sums == [u \in Terms |-> [g \in SumGroups |-> OBJSum(io, u, g, S) % Word]]
           values(u, g) == {SumOf(io[o][u], g) : o \in S}
           range(u, g) == [min |-> Min(values(u, g) \cup {Word - 1}),
                           max |-> Max(values(u, g) \cup {0})]
           ranges == [u \in Terms |-> [g \in RangeGroups |-> range(u, g)]]
<1>1. Summary(S) = [sums |-> sums, ranges |-> ranges]
  BY Zenon DEF Summary, OBJSum
<1>2. IsFiniteSet(S) /\ Word \in Nat \ {0} /\ Word - 1 \in Nat
  BY FS_Subset, StatisticsAssumption
<1>3. ASSUME NEW u \in Terms, NEW g \in SumGroups \cup RangeGroups, NEW o \in S
      PROVE  SumOf(io[o][u], g) \in 0 .. Word - 1
  BY SumIsWord DEF Numbers
<1>4. ASSUME NEW u \in Terms, NEW g \in SumGroups PROVE sums[u][g] \in 0 .. Word - 1
  <2>1. \A o \in S : SumOf(io[o][u], g) \in Nat
    BY <1>3
  <2>2. OBJSum(io, u, g, S) \in Nat
    BY <1>2, <2>1, OBJSumIs
  <2> QED BY <1>2, <2>2
<1>5. ASSUME NEW u \in Terms, NEW g \in RangeGroups
      PROVE  /\ ranges[u][g] \in [min : 0 .. Word - 1, max : 0 .. Word - 1]
             /\ \A o \in S : SumOf(io[o][u], g) \in ranges[u][g].min .. ranges[u][g].max
  <2> DEFINE V == values(u, g)
  <2>1. V \subseteq 0 .. Word - 1 /\ \A o \in S : SumOf(io[o][u], g) \in V
    BY <1>3
  <2>2. ranges[u][g] = [min |-> Min(V \cup {Word - 1}), max |-> Max(V \cup {0})]
    OBVIOUS
  <2> HIDE DEF V, ranges
  <2>3. /\ V \cup {Word - 1} \in SUBSET Nat /\ V \cup {Word - 1} # {}
        /\ V \cup {Word - 1} \in SUBSET (0 .. Word - 1)
        /\ V \cup {0} \in SUBSET (0 .. Word - 1) /\ V \cup {0} # {}
    BY <1>2, <2>1
  <2>4. Min(V \cup {Word - 1}) \in 0 .. Word - 1 /\ \A x \in V : Min(V \cup {Word - 1}) <= x
    BY <2>3, LeastOf
  <2>5. Max(V \cup {0}) \in 0 .. Word - 1 /\ \A x \in V : x <= Max(V \cup {0})
    BY <1>2, <2>3, GreatestOf
  <2>6. PICK lo \in 0 .. Word - 1 : lo = Min(V \cup {Word - 1}) /\ \A x \in V : lo <= x
    BY <2>4
  <2>7. PICK hi \in 0 .. Word - 1 : hi = Max(V \cup {0}) /\ \A x \in V : x <= hi
    BY <2>5
  <2>8. ranges[u][g] = [min |-> lo, max |-> hi]
    BY ONLY <2>2, <2>6, <2>7
  <2>9. ASSUME NEW o \in S PROVE SumOf(io[o][u], g) \in lo .. hi
    <3>1. PICK x \in 0 .. Word - 1 : x = SumOf(io[o][u], g)
      BY <1>3
    <3>2. x \in V
      BY <2>1, <3>1
    <3>3. lo <= x /\ x <= hi
      BY <2>6, <2>7, <3>2
    <3> QED BY <1>2, <3>1, <3>3
  <2> QED BY <2>8, <2>9
<1> HIDE DEF sums, ranges
<1>6. sums \in [Terms -> [SumGroups -> 0 .. Word - 1]]
  <2>1. sums = [u \in Terms |-> [g \in SumGroups |-> sums[u][g]]]
    BY DEF sums
  <2> QED BY <1>4, <2>1
<1>7. ranges \in [Terms -> [RangeGroups -> [min : 0 .. Word - 1, max : 0 .. Word - 1]]]
  <2>1. ranges = [u \in Terms |-> [g \in RangeGroups |-> ranges[u][g]]]
    BY DEF ranges
  <2> QED BY <1>5, <2>1
<1>8. Summary(S) \in DiskIOs
  BY <1>1, <1>6, <1>7 DEF DiskIOs
<1>9. Summary(S).sums = sums /\ Summary(S).ranges = ranges
  BY <1>1
<1>10. \A g \in SumGroups : sums[t][g] = OBJSum(io, t, g, S) % Word
  BY DEF sums
<1> QED BY <1>5, <1>8, <1>9, <1>10 DEF DiskFits

LEMMA ConsolidateSums ==
    ASSUME SumInv, Consolidate, NEW d \in Disks, NEW t \in Terms
    PROVE  DiskFits(diskIO'[d], io', {o \in OBJs : io'[o] # NoIO /\ DiskOf[o] = d}, t)
<1> DEFINE S == {o \in Known \ deleted : DiskOf[o] = d}
<1>1. /\ io' = [o \in OBJs |-> IF o \in deleted THEN NoIO ELSE io[o]]
      /\ diskIO'[d] = Summary(S)
  BY DEF Consolidate
<1>2. S = {o \in OBJs : io'[o] # NoIO /\ DiskOf[o] = d}
  BY <1>1 DEF Known
<1>3. S \in SUBSET OBJs /\ (\A o \in S : Numbers(io[o])) /\ \A o \in S : io[o] = io'[o]
  BY <1>1 DEF Known, SumInv
<1> HIDE DEF S
<1>4. DiskFits(Summary(S), io, S, t)
  BY <1>3, SummaryIs
<1>5. ASSUME NEW g \in SumGroups PROVE OBJSum(io', t, g, S) = OBJSum(io, t, g, S)
  <2>1. \A o \in S : SumOf(io[o][t], g) \in Nat
    BY <1>3, SumIsWord, StatisticsAssumption DEF Numbers
  <2>2. IsFiniteSet(S)
    BY <1>3, FS_Subset, StatisticsAssumption
  <2>3. \A o \in S : io[o] = io'[o]
    BY <1>3
  <2> QED BY ONLY <2>1, <2>2, <2>3, OBJSumIs
<1>6. \A g : \A o \in S : SumOf(io'[o][t], g) = SumOf(io[o][t], g)
  BY <1>3
<1>7. DiskFits(Summary(S), io', S, t)
  BY <1>4, <1>5, <1>6 DEF DiskFits
<1> QED BY <1>1, <1>2, <1>7

LEMMA InitSum == Init => SumInv
<1> SUFFICES ASSUME Init PROVE SumInv
  OBVIOUS
<1>1. DOMAIN todo = {} /\ \A o \in OBJs : io[o] = NoIO
  BY DEF Init
<1> QED BY <1>1 DEF SumInv

\* What advice finds of a disk is what the OBJs that are left on it have: the sums of
\* their values as words, and ranges in which every one of them lies; whatever was
\* deleted, reported or confirmed before (RelocationLearning::Consolidate,
\* SummarizeDiskIO), for all OBJs and disks.
THEOREM SummaryFitsAlways == Spec => SummaryFits
<1>1. SumInv /\ [Next]_allVars =>
        [phase = "advising" /\ phase' # "advising" =>
            \A d \in Disks, t \in Terms :
                LET left == {o \in OBJs : io'[o] # NoIO /\ DiskOf[o] = d} IN
                /\ diskIO'[d] \in DiskIOs
                /\ \A g \in SumGroups :
                      diskIO'[d].sums[t][g] = MapThenSumSet(LAMBDA o : SumOf(io'[o][t], g), left) % Word
                /\ \A g \in RangeGroups, o \in left :
                      SumOf(io'[o][t], g) \in diskIO'[d].ranges[t][g].min .. diskIO'[d].ranges[t][g].max
        ]_allVars
  <2> SUFFICES ASSUME SumInv, Next, phase = "advising", phase' # "advising",
                      NEW d \in Disks, NEW t \in Terms
               PROVE  DiskFits(diskIO'[d], io', {o \in OBJs : io'[o] # NoIO /\ DiskOf[o] = d}, t)
    BY Zenon DEF DiskFits, OBJSum
  <2>1. Consolidate
    BY DEF Next, NewCycle, StartRound, FailRound, EndRound, Reenable, ResolveOBJIO
  <2> QED BY <2>1, ConsolidateSums
<1> QED BY <1>1, InitSum, NextSum, InitMon, NextMon, ClockImplemented, AllFollow, PTL
       DEF Spec, SummaryFits

--------------------------------------------------------------------------------
(* The views of the HUB and the batches it collects them in.                   *)

\* Where a batch starts.
Start == IF collected = 0 THEN [pool |-> 0, keys |-> <<>>] ELSE walk

\* In the order of the maps, and so without repetition.
Sorted(s) == \A i, j \in DOMAIN s : i < j => Before(s[i], s[j])

PoolOfKey(k) == PoolOf[k[1]]
InvolvedKeys == {k \in DOMAIN views : PoolOfKey(k) \in scheduled}

\* The views: of known disks, one for an OBJ.
ViewInv ==
    /\ diskIds \subseteq DiskKeys /\ scheduled \subseteq Pools
    /\ views \in [DOMAIN views -> OBJViews] /\ IsFiniteSet(DOMAIN views)
    /\ \A k \in DOMAIN views : k \in OBJKeys /\ k[1] \in diskIds
    /\ \A k, l \in DOMAIN views : k[2] = l[2] => k = l

\* The walk of a collection: what is sent and what is left of the SubPool it is in
\* are, in this order, the OBJs of the involved SubPools up to that one.
WalkInv ==
    LET keys == sent \o Start.keys IN
    /\ sent \in Seq(DOMAIN views) /\ Start.keys \in Seq(DOMAIN views) /\ Start.pool \in Nat
    /\ collected = Len(sent) /\ toCollect = Cardinality(DOMAIN views)
    /\ Sorted(keys)
    /\ \A k \in Range(keys) : PoolOfKey(k) <= Start.pool
    /\ steady => Range(keys) = {k \in InvolvedKeys : PoolOfKey(k) <= Start.pool}

Infos   == [key : OBJKeys, ios : Nat]
Replies == [buffer : 1 .. 2, ok : BOOLEAN, fragments : Int, more : BOOLEAN]

\* What is said: at most one request or answer of a collection is on its way, and
\* what is resolved meanwhile is not in the buffer the next answer goes to.
Asked == toHub = <<"collect">> /\ answers = <<>>
Answered ==
    /\ toHub = <<>> /\ \E a \in Replies : answers = <<a>> /\ a.buffer = 3 - free
NoneAsked == toHub = <<>> /\ answers = <<>>
Reading(more, buffer) ==
    resolving \in Replies /\ resolving.ok /\ resolving.more = more /\ resolving.buffer = buffer

TalkInv ==
    \/ /\ answers = <<>> /\ resolving = None
       /\ \/ toHub \in {<<>>, <<"post">>}
          \/ learning /\ toHub \in {<<"prepare", "collect">>, <<"post", "prepare", "collect">>}
    \/ learning /\ frozen /\ Asked /\ (resolving = None \/ Reading(TRUE, 3 - free))
    \/ learning /\ frozen /\ Answered /\ (resolving = None \/ Reading(TRUE, free))
    \/ learning /\ frozen /\ NoneAsked /\ Reading(FALSE, 3 - free)

\* The counts: what is in the view of an OBJ, and what is told of it.
InOf(vs, o) ==
    IF \E k \in DOMAIN vs : k[2] = o THEN vs[CHOOSE k \in DOMAIN vs : k[2] = o] ELSE NewView
ToldIn(o, a, bufs) == IF a.ok THEN Told(o, bufs[a.buffer]) ELSE 0
Pending(o, r, as, bufs) ==
    ToldIn(o, r, bufs) + (IF as = <<>> THEN 0 ELSE ToldIn(o, as[1], bufs))
CountInv ==
    /\ buffers \in [1 .. 2 -> Seq(Infos)] /\ free \in 1 .. 2
    /\ owed \in [OBJIds -> [ios : Int, usec : Nat]]
    /\ \A o \in OBJIds :
          /\ owed[o].ios = IOsIn(InOf(views, o)) + Pending(o, resolving, answers, buffers)
          /\ owed[o].usec = TimeIn(InOf(views, o))

\* An answer holds what its number of fragments is for.
Filled ==
    answers # <<>> /\ answers[1].ok =>
        LET n == Len(buffers[answers[1].buffer]) IN
        /\ n > FragmentSize * (answers[1].fragments - 1)
        /\ n <= FragmentSize * answers[1].fragments

\* All of it holds until a resolution fails: the answers of the collection that is
\* given up may then be taken by the next one, and views move under its walk.
Whole == ViewInv /\ (frozen => WalkInv) /\ TalkInv /\ CountInv /\ Filled
HubInv == failed \in Nat /\ (failed = 0 => Whole)

--------------------------------------------------------------------------------
(* The order of the keys.                                                      *)

\* The keys are totally ordered.
LEMMA BeforeIsOrder ==
    ASSUME NEW k \in OBJKeys, NEW l \in OBJKeys, NEW m \in OBJKeys
    PROVE  /\ ~ Before(k, k)
           /\ k = l \/ Before(k, l) \/ Before(l, k)
           /\ Before(k, l) /\ Before(l, m) => Before(k, m)
           /\ Before(k, l) => PoolOf[k[1]] <= PoolOf[l[1]]
           /\ PoolOf[k[1]] < PoolOf[l[1]] => Before(k, l)
           /\ PoolOf[k[1]] \in Pools /\ PoolOf[k[1]] \in Nat
<1>0. \A x \in OBJKeys : x[1] \in DiskKeys /\ x[2] \in OBJIds /\ x = <<x[1], x[2]>>
  BY DEF OBJKeys
<1>1. \A x \in OBJKeys : x[1] \in Nat /\ x[2] \in Nat /\ PoolOf[x[1]] \in Pools
  BY <1>0, ViewsAssumption
<1>2. \A p \in Pools : p \in Nat
  <2> DEFINE c == Cardinality(Pools)
  <2>1. Pools = 1 .. c
    BY ViewsAssumption
  <2> HIDE DEF c
  <2> QED BY <2>1
<1>3. \A x \in OBJKeys : PoolOf[x[1]] \in Nat
  BY <1>1, <1>2
<1> QED BY <1>0, <1>1, <1>3 DEF Before

\* Fewer keys are before an earlier one.
LEMMA RankGrows ==
    ASSUME NEW S, IsFiniteSet(S), S \subseteq OBJKeys, NEW k \in S, NEW l \in S, Before(k, l)
    PROVE  Rank(k, S) < Rank(l, S)
<1> DEFINE A == {m \in S : Before(m, k)}  B == {m \in S : Before(m, l)}
<1>1. A \subseteq B
  BY BeforeIsOrder
<1>2. k \in B /\ k \notin A
  BY BeforeIsOrder
<1>3. IsFiniteSet(B) /\ B \subseteq S
  BY FS_Subset
<1> HIDE DEF A, B
<1>4. IsFiniteSet(A) /\ Cardinality(A) <= Cardinality(B) /\ Cardinality(A) # Cardinality(B)
  BY <1>1, <1>2, <1>3, FS_Subset
<1>5. Cardinality(A) \in Nat /\ Cardinality(B) \in Nat
  BY <1>3, <1>4, FS_CardinalityType
<1> QED BY <1>4, <1>5 DEF Rank, A, B

\* A rank is less than how many keys there are.
LEMMA RankBelow ==
    ASSUME NEW S, IsFiniteSet(S), S \subseteq OBJKeys, NEW k \in S
    PROVE  Rank(k, S) \in 0 .. Cardinality(S) - 1
<1> DEFINE A == {m \in S : Before(m, k)}
<1>1. A \subseteq S /\ k \notin A
  BY BeforeIsOrder
<1> HIDE DEF A
<1>2. IsFiniteSet(A) /\ Cardinality(A) <= Cardinality(S) /\ Cardinality(A) # Cardinality(S)
  BY <1>1, FS_Subset
<1>3. Cardinality(A) \in Nat /\ Cardinality(S) \in Nat
  BY <1>2, FS_CardinalityType
<1> QED BY <1>2, <1>3 DEF Rank, A

\* Every rank is taken.
LEMMA RankTaken ==
    ASSUME NEW S, IsFiniteSet(S), S \subseteq OBJKeys, NEW n \in 1 .. Cardinality(S)
    PROVE  \E k \in S : Rank(k, S) = n - 1
<1> DEFINE c == Cardinality(S)  T == 0 .. c - 1  f == [k \in S |-> Rank(k, S)]
<1>1. c \in Nat
  BY FS_CardinalityType
<1>2. IsFiniteSet(T) /\ Cardinality(T) = c
  <2>1. IsFiniteSet(T) /\ Cardinality(T) = IF 0 > c - 1 THEN 0 ELSE (c - 1) - 0 + 1
    <3>1. 0 \in Int /\ c - 1 \in Int
      BY <1>1
    <3> HIDE DEF c
    <3> QED BY <3>1, FS_Interval
  <2> QED BY <1>1, <2>1
<1>3. f \in [S -> T]
  BY RankBelow
<1>4. ASSUME NEW k \in S, NEW l \in S, f[k] = f[l] PROVE k = l
  <2>1. k = l \/ Before(k, l) \/ Before(l, k)
    BY BeforeIsOrder
  <2>2. \A x \in S : Rank(x, S) \in Nat
    BY RankBelow, <1>1
  <2>3. ~ Before(k, l)
    BY <1>4, <2>2, RankGrows
  <2>4. ~ Before(l, k)
    BY <1>4, <2>2, RankGrows
  <2> QED BY <2>1, <2>3, <2>4
<1>5. f \in Injection(S, T)
  BY <1>3, <1>4 DEF Injection, IsInjective
<1>6. f \in Surjection(S, T)
  <2> HIDE DEF f, T, c
  <2> QED BY <1>1, <1>2, <1>5, FS_Injection DEF c
<1>7. n - 1 \in T
  BY <1>1
<1>8. \E k \in S : f[k] = n - 1
  BY <1>6, <1>7 DEF Surjection
<1> QED BY <1>8

\* The keys of a set in the order of the maps: all of them, each once.
LEMMA InOrderIs ==
    ASSUME NEW S, IsFiniteSet(S), S \subseteq OBJKeys
    PROVE  /\ InOrder(S) \in Seq(S) /\ Len(InOrder(S)) = Cardinality(S)
           /\ Range(InOrder(S)) = S /\ Sorted(InOrder(S))
<1> DEFINE c == Cardinality(S)  s == InOrder(S)
<1>1. c \in Nat
  BY FS_CardinalityType
<1>2. \A n \in 1 .. c : s[n] \in S /\ Rank(s[n], S) = n - 1
  BY RankTaken DEF InOrder
<1>3. DOMAIN s = 1 .. c /\ s \in [1 .. c -> S]
  BY <1>2 DEF InOrder
<1> HIDE DEF s
<1>4. s \in Seq(S) /\ Len(s) = c
  BY <1>1, <1>3
<1>5. S \subseteq Range(s)
  <2> SUFFICES ASSUME NEW k \in S PROVE k \in Range(s)
    OBVIOUS
  <2>1. Rank(k, S) \in 0 .. c - 1
    BY RankBelow
  <2> DEFINE n == Rank(k, S) + 1
  <2>2. n \in 1 .. c /\ n - 1 = Rank(k, S)
    BY <2>1, <1>1
  <2> HIDE DEF n
  <2>3. s[n] \in S /\ Rank(s[n], S) = Rank(k, S)
    BY <2>2, <1>2
  <2>4. \A x \in S : Rank(x, S) \in Nat
    BY RankBelow, <1>1
  <2>5. ~ Before(s[n], k)
    BY <2>3, <2>4, RankGrows
  <2>6. ~ Before(k, s[n])
    BY <2>3, <2>4, RankGrows
  <2>7. s[n] = k
    BY <2>3, <2>5, <2>6, BeforeIsOrder
  <2> QED BY <2>2, <2>7, <1>3 DEF Range
<1>6. Range(s) \subseteq S
  BY <1>2, <1>3 DEF Range
<1>7. Sorted(s)
  <2> SUFFICES ASSUME NEW i \in 1 .. c, NEW j \in 1 .. c, i < j PROVE Before(s[i], s[j])
    BY <1>3 DEF Sorted
  <2>1. Rank(s[i], S) < Rank(s[j], S)
    BY <1>1, <1>2
  <2>2. \A x \in S : Rank(x, S) \in Nat
    BY RankBelow, <1>1
  <2>3. ~ Before(s[j], s[i])
    BY <1>2, <2>1, <2>2, RankGrows
  <2>4. s[i] # s[j]
    BY <2>1, <2>2, <1>2
  <2> QED BY <1>2, <2>3, <2>4, BeforeIsOrder
<1> QED BY <1>4, <1>5, <1>6, <1>7 DEF s

--------------------------------------------------------------------------------
(* Sequences of keys.                                                          *)

\* Two sequences in a row are sorted when both are and the first is before the
\* second.
LEMMA SortedParts ==
    ASSUME NEW s \in Seq(OBJKeys), NEW t \in Seq(OBJKeys)
    PROVE  Sorted(s \o t) <=> /\ Sorted(s) /\ Sorted(t)
                              /\ \A k \in Range(s), l \in Range(t) : Before(k, l)
<1> DEFINE m == Len(s)  n == Len(t)  u == s \o t
<1>1. /\ m \in Nat /\ n \in Nat /\ DOMAIN s = 1 .. m /\ DOMAIN t = 1 .. n /\ DOMAIN u = 1 .. m + n
      /\ \A i \in 1 .. m : u[i] = s[i]
      /\ \A i \in 1 .. n : u[m + i] = t[i]
  OBVIOUS
<1> HIDE DEF m, n, u
<1>2. ASSUME Sorted(u)
      PROVE  Sorted(s) /\ Sorted(t) /\ \A k \in Range(s), l \in Range(t) : Before(k, l)
  <2>1. Sorted(s)
    <3> SUFFICES ASSUME NEW i \in 1 .. m, NEW j \in 1 .. m, i < j PROVE Before(s[i], s[j])
      BY <1>1 DEF Sorted
    <3>1. i \in DOMAIN u /\ j \in DOMAIN u
      BY <1>1
    <3> QED BY <3>1, <1>1, <1>2 DEF Sorted
  <2>2. Sorted(t)
    <3> SUFFICES ASSUME NEW i \in 1 .. n, NEW j \in 1 .. n, i < j PROVE Before(t[i], t[j])
      BY <1>1 DEF Sorted
    <3>1. m + i \in DOMAIN u /\ m + j \in DOMAIN u /\ m + i < m + j
      BY <1>1
    <3>2. Before(u[m + i], u[m + j])
      BY <3>1, <1>2 DEF Sorted
    <3> QED BY <3>2, <1>1
  <2>3. ASSUME NEW k \in Range(s), NEW l \in Range(t) PROVE Before(k, l)
    <3>1. PICK i \in 1 .. m : k = s[i]
      BY <1>1 DEF Range
    <3>2. PICK j \in 1 .. n : l = t[j]
      BY <1>1 DEF Range
    <3>3. i \in DOMAIN u /\ m + j \in DOMAIN u /\ i < m + j
      BY <1>1
    <3>4. Before(u[i], u[m + j])
      BY <3>3, <1>2 DEF Sorted
    <3> QED BY <3>1, <3>2, <3>4, <1>1
  <2> QED BY <2>1, <2>2, <2>3
<1>3. ASSUME Sorted(s), Sorted(t), \A k \in Range(s), l \in Range(t) : Before(k, l)
      PROVE  Sorted(u)
  <2> SUFFICES ASSUME NEW i \in 1 .. m + n, NEW j \in 1 .. m + n, i < j PROVE Before(u[i], u[j])
    BY <1>1 DEF Sorted
  <2>1. CASE j <= m
    <3>1. i \in 1 .. m /\ j \in 1 .. m
      BY <2>1, <1>1
    <3> QED BY <3>1, <1>1, <1>3 DEF Sorted
  <2>2. CASE i > m
    <3> DEFINE x == i - m  y == j - m
    <3>1. x \in 1 .. n /\ y \in 1 .. n /\ x < y /\ i = m + x /\ j = m + y
      BY <2>2, <1>1
    <3> HIDE DEF x, y
    <3>2. Before(t[x], t[y])
      BY <3>1, <1>1, <1>3 DEF Sorted
    <3> QED BY <3>1, <3>2, <1>1
  <2>3. CASE i <= m /\ j > m
    <3> DEFINE y == j - m
    <3>1. i \in 1 .. m /\ y \in 1 .. n /\ j = m + y
      BY <2>3, <1>1
    <3> HIDE DEF y
    <3>2. s[i] \in Range(s) /\ t[y] \in Range(t)
      BY <3>1, <1>1 DEF Range
    <3>3. Before(s[i], t[y])
      BY <3>2, <1>3
    <3> QED BY <3>1, <3>3, <1>1
  <2> QED BY <2>1, <2>2, <2>3, <1>1
<1> QED BY <1>2, <1>3 DEF u

LEMMA RangeParts ==
    ASSUME NEW S, NEW s \in Seq(S), NEW t \in Seq(S)
    PROVE  Range(s \o t) = Range(s) \cup Range(t)
<1> DEFINE m == Len(s)  n == Len(t)  u == s \o t
<1>1. /\ m \in Nat /\ n \in Nat /\ DOMAIN s = 1 .. m /\ DOMAIN t = 1 .. n /\ DOMAIN u = 1 .. m + n
      /\ \A i \in 1 .. m : u[i] = s[i]
      /\ \A i \in 1 .. n : u[m + i] = t[i]
  OBVIOUS
<1> HIDE DEF m, n, u
<1>2. ASSUME NEW x \in Range(u) PROVE x \in Range(s) \cup Range(t)
  <2>1. PICK i \in 1 .. m + n : x = u[i]
    BY <1>1 DEF Range
  <2>2. CASE i <= m
    <3>1. i \in 1 .. m
      BY <2>2, <1>1
    <3> QED BY <3>1, <2>1, <1>1 DEF Range
  <2>3. CASE i > m
    <3> DEFINE j == i - m
    <3>1. j \in 1 .. n /\ i = m + j
      BY <2>3, <1>1
    <3> HIDE DEF j
    <3> QED BY <3>1, <2>1, <1>1 DEF Range
  <2> QED BY <2>2, <2>3, <1>1
<1>3. ASSUME NEW x \in Range(s) PROVE x \in Range(u)
  <2>1. PICK i \in 1 .. m : x = s[i]
    BY <1>1 DEF Range
  <2>2. i \in 1 .. m + n
    BY <1>1
  <2> QED BY <2>1, <2>2, <1>1 DEF Range
<1>4. ASSUME NEW x \in Range(t) PROVE x \in Range(u)
  <2>1. PICK i \in 1 .. n : x = t[i]
    BY <1>1 DEF Range
  <2>2. m + i \in 1 .. m + n
    BY <1>1
  <2> QED BY <2>1, <2>2, <1>1 DEF Range
<1> QED BY <1>2, <1>3, <1>4 DEF u

LEMMA RangeIn == ASSUME NEW S, NEW s \in Seq(S) PROVE Range(s) \subseteq S
  BY DEF Range

\* A sorted sequence has nothing twice.
LEMMA SortedInjective ==
    ASSUME NEW s \in Seq(OBJKeys), Sorted(s) PROVE IsInjective(s)
<1> DEFINE m == Len(s)
<1>1. m \in Nat /\ DOMAIN s = 1 .. m /\ \A i \in 1 .. m : s[i] \in OBJKeys
  OBVIOUS
<1> HIDE DEF m
<1> SUFFICES ASSUME NEW i \in 1 .. m, NEW j \in 1 .. m, s[i] = s[j] PROVE i = j
  BY <1>1 DEF IsInjective
<1>2. ~ (i < j)
  BY <1>1, BeforeIsOrder DEF Sorted
<1>3. ~ (j < i)
  BY <1>1, BeforeIsOrder DEF Sorted
<1> QED BY <1>1, <1>2, <1>3

\* A sorted sequence as long as a set is large has all its elements.
LEMMA SortedAll ==
    ASSUME NEW S, IsFiniteSet(S), S \subseteq OBJKeys, NEW s \in Seq(S), Sorted(s)
    PROVE  /\ Len(s) <= Cardinality(S)
           /\ Len(s) >= Cardinality(S) => Range(s) = S
<1> DEFINE m == Len(s)  R == Range(s)
<1>1. m \in Nat /\ s \in Seq(OBJKeys) /\ DOMAIN s = 1 .. m
  OBVIOUS
<1>2. IsInjective(s)
  BY <1>1, SortedInjective
<1>3. s \in Bijection(1 .. m, R)
  BY <1>1, <1>2 DEF Range, Bijection, Injection, Surjection, IsInjective
<1>4. ExistsBijection(1 .. m, R)
  BY <1>3 DEF ExistsBijection
<1>5. Cardinality(R) = m
  <2> HIDE DEF R, m
  <2> QED BY <1>1, <1>4, FS_CountingElements
<1>6. R \subseteq S
  BY RangeIn
<1> HIDE DEF R, m
<1>7. Cardinality(R) <= Cardinality(S) /\ (Cardinality(S) = Cardinality(R) => R = S)
  BY <1>6, FS_Subset
<1>8. Cardinality(S) \in Nat
  BY FS_CardinalityType
<1> QED BY <1>1, <1>5, <1>7, <1>8 DEF R, m

--------------------------------------------------------------------------------
(* A batch.                                                                    *)

Room == FragmentSize * FragmentNum
Stops == toCollect = 0 \/ collected = toCollect
Batch == IF Stops THEN <<>> ELSE SubSeq(Ahead(Start), 1, Min2(Len(Ahead(Start)), Room))
Reply == [buffer |-> free, ok |-> Batch # <<>>, fragments |-> FragmentsSent(Len(Batch)),
          more |-> Batch # <<>> /\ collected' < toCollect]

\* What serving a request for a batch does.
LEMMA CollectIs ==
    CollectIO =>
        /\ Requested("collect")
        /\ walk' = IF Stops THEN walk
                   ELSE IF Len(Batch) = Room THEN Behind(Batch) ELSE [pool |-> Past, keys |-> <<>>]
        /\ collected' = collected + Len(Batch)
        /\ buffers' = [buffers EXCEPT ![free] = [n \in 1 .. Len(Batch) |-> OBJInfo(Batch[n])]]
        /\ answers' = Append(answers, Reply)
        /\ ResetViews(Range(Batch))
        /\ owed' = [o \in OBJIds |-> IF \E k \in Range(Batch) : k[2] = o
                                     THEN [owed[o] EXCEPT !.usec = 0] ELSE owed[o]]
        /\ free' = 3 - free
        /\ sent' = sent \o Batch
        /\ UNCHANGED <<frozen, toCollect, steady, serveFrame>>
  BY DEF CollectIO, Room, Batch, Start, Reply, Stops, SwitchOBJRespFree

LEMMA RoomNat == Room \in Nat \ {0}
<1>1. FragmentSize \in Nat \ {0} /\ FragmentNum \in Nat \ {0}
  BY ViewsAssumption
<1>2. \A a, b \in Nat \ {0} : a * b \in Nat \ {0}
  BY SMT
<1> QED BY <1>1, <1>2 DEF Room

LEMMA PoolsAreNat == Past \in Nat /\ \A p \in Pools : p \in Nat /\ p > 0 /\ p < Past
<1> DEFINE c == Cardinality(Pools)
<1>1. Pools = 1 .. c
  BY ViewsAssumption
<1>2. IsFiniteSet(Pools)
  BY ViewsAssumption
<1>3. c \in Nat
  BY <1>2, FS_CardinalityType
<1> HIDE DEF c
<1> QED BY <1>1, <1>3 DEF Past, c

LEMMA KeyFacts ==
    ASSUME ViewInv, NEW k \in DOMAIN views
    PROVE  k \in OBJKeys /\ k[1] \in diskIds /\ k[1] \in DiskKeys /\ PoolOfKey(k) \in Pools
<1>1. k \in OBJKeys /\ k[1] \in diskIds
  BY DEF ViewInv
<1>2. k[1] \in DiskKeys
  BY <1>1 DEF OBJKeys
<1> QED BY <1>1, <1>2, ViewsAssumption DEF PoolOfKey

\* The OBJs of a SubPool, and of the involved ones after it, are those of its key.
LEMMA KeysOfIs ==
    ASSUME ViewInv, NEW p PROVE KeysOf(p) = {k \in DOMAIN views : PoolOfKey(k) = p}
<1>1. ASSUME NEW k \in DOMAIN views, PoolOfKey(k) = p PROVE k \in KeysOf(p)
  <2>1. k[1] \in {e \in diskIds : PoolOf[e] = p}
    BY <1>1, KeyFacts DEF PoolOfKey
  <2>2. k \in KeysOn(k[1])
    BY DEF KeysOn
  <2> QED BY <2>1, <2>2 DEF KeysOf
<1>2. ASSUME NEW k \in KeysOf(p) PROVE k \in DOMAIN views /\ PoolOfKey(k) = p
  BY DEF KeysOf, KeysOn, PoolOfKey
<1> QED BY <1>1, <1>2

LEMMA KeysAfterIs ==
    ASSUME ViewInv, NEW p
    PROVE  KeysAfter(p) = {k \in InvolvedKeys : PoolOfKey(k) > p}
<1>1. ASSUME NEW k \in InvolvedKeys, PoolOfKey(k) > p PROVE k \in KeysAfter(p)
  <2> DEFINE q == PoolOfKey(k)
  <2>1. k \in DOMAIN views /\ q \in scheduled
    BY DEF InvolvedKeys
  <2>2. q \in PoolsWithView
    BY <2>1, KeyFacts DEF PoolsWithView, PoolOfKey
  <2>3. k \in KeysOf(q)
    BY <2>1, KeysOfIs
  <2> HIDE DEF q
  <2>4. q \in {r \in scheduled \cap PoolsWithView : r > p}
    BY <1>1, <2>1, <2>2 DEF q
  <2> QED BY <2>3, <2>4 DEF KeysAfter
<1>2. ASSUME NEW k \in KeysAfter(p) PROVE k \in InvolvedKeys /\ PoolOfKey(k) > p
  <2>1. PICK q \in scheduled \cap PoolsWithView : q > p /\ k \in KeysOf(q)
    BY DEF KeysAfter
  <2>2. k \in DOMAIN views /\ PoolOfKey(k) = q
    BY <2>1, KeysOfIs
  <2> QED BY <2>1, <2>2 DEF InvolvedKeys
<1> QED BY <1>1, <1>2

\* What is ahead goes on behind what is sent, up to the last involved SubPool.
LEMMA AheadIs ==
    ASSUME ViewInv, WalkInv
    PROVE  /\ Ahead(Start) \in Seq(DOMAIN views)
           /\ Sorted(sent \o Ahead(Start))
           /\ steady => Range(sent \o Ahead(Start)) = InvolvedKeys
<1> DEFINE D == DOMAIN views  p == Start.pool  a == Start.keys  A == KeysAfter(p)  b == InOrder(A)
           c == sent \o a
<1>1. /\ sent \in Seq(D) /\ a \in Seq(D) /\ p \in Nat /\ Sorted(c)
      /\ \A k \in Range(c) : PoolOfKey(k) <= p
      /\ steady => Range(c) = {k \in InvolvedKeys : PoolOfKey(k) <= p}
  BY DEF WalkInv
<1>2. D \subseteq OBJKeys /\ IsFiniteSet(D)
  BY KeyFacts DEF ViewInv
<1>3. A = {k \in InvolvedKeys : PoolOfKey(k) > p} /\ A \subseteq D
  BY KeysAfterIs DEF InvolvedKeys
<1>4. IsFiniteSet(A) /\ A \subseteq OBJKeys
  BY <1>2, <1>3, FS_Subset
<1>5. b \in Seq(A) /\ Range(b) = A /\ Sorted(b)
  <2> HIDE DEF A
  <2> QED BY <1>4, InOrderIs
<1>6. b \in Seq(D)
  BY <1>3, <1>5
<1>7. Ahead(Start) = a \o b
  BY DEF Ahead
<1> HIDE DEF D, a, b, p, A
<1>8. a \o b \in Seq(D) /\ c \in Seq(D) /\ sent \o (a \o b) = c \o b
  BY <1>1, <1>6, ConcatAssociative, ConcatProperties
<1> HIDE DEF c
<1>9. \A k \in D : PoolOfKey(k) \in Nat
  BY KeyFacts, PoolsAreNat DEF D
<1>10. c \in Seq(OBJKeys) /\ b \in Seq(OBJKeys)
  BY <1>2, <1>6, <1>8
<1>11. Range(c) \subseteq D
  BY <1>8, RangeIn
<1>12. ASSUME NEW k \in Range(c), NEW l \in Range(b) PROVE Before(k, l)
  <2>1. PoolOfKey(k) <= p /\ PoolOfKey(l) > p
    BY <1>1, <1>3, <1>5
  <2>2. k \in D /\ l \in D
    BY <1>11, <1>3, <1>5
  <2>3. PoolOfKey(k) < PoolOfKey(l)
    BY <2>1, <2>2, <1>1, <1>9
  <2> QED BY <2>3 DEF Before, PoolOfKey
<1>13. Sorted(c \o b)
  BY <1>1, <1>5, <1>10, <1>12, SortedParts
<1>14. ASSUME steady PROVE Range(c \o b) = InvolvedKeys
  <2>1. Range(c \o b) = Range(c) \cup A
    BY <1>5, <1>6, <1>8, RangeParts
  <2>2. \A k \in InvolvedKeys : PoolOfKey(k) \in Nat
    BY <1>9 DEF InvolvedKeys, D
  <2> QED BY <2>1, <2>2, <1>14, <1>1, <1>3
<1> QED BY <1>7, <1>8, <1>13, <1>14 DEF D

LEMMA Min2Is ==
    ASSUME NEW m \in Nat, NEW n \in Nat
    PROVE  /\ Min2(m, n) \in Nat /\ Min2(m, n) <= m /\ Min2(m, n) <= n
           /\ Min2(m, n) # n => Min2(m, n) = m
  BY DEF Min2

\* A batch is a piece of what is ahead, and all of it unless it fills the answer.
LEMMA BatchIs ==
    ASSUME ViewInv, WalkInv
    PROVE  /\ Batch \in Seq(DOMAIN views) /\ Len(Batch) <= Room
           /\ ~ Stops => \E rest \in Seq(DOMAIN views) :
                            /\ Ahead(Start) = Batch \o rest
                            /\ Len(Batch) # Room => rest = <<>>
<1> DEFINE D == DOMAIN views  a == Ahead(Start)  m == Min2(Len(a), Room)
           b == SubSeq(a, 1, m)  r == SubSeq(a, m + 1, Len(a))
<1>1. a \in Seq(D) /\ Room \in Nat
  BY AheadIs, RoomNat
<1> HIDE DEF a, D
<1>2. m \in Nat /\ m <= Len(a) /\ m <= Room /\ (m # Room => m = Len(a)) /\ Len(a) \in Nat
  <2>1. Len(a) \in Nat
    BY <1>1
  <2> QED BY <2>1, <1>1, Min2Is
<1> HIDE DEF m
<1>3. b \in Seq(D) /\ Len(b) = m /\ \A i \in 1 .. m : b[i] = a[i]
  BY <1>1, <1>2
<1>4. r \in Seq(D) /\ Len(r) = Len(a) - m /\ \A i \in 1 .. Len(a) - m : r[i] = a[m + i]
  BY <1>1, <1>2
<1> HIDE DEF b, r
<1>5. a = b \o r
  <2> DEFINE n == Len(a)  u == b \o r
  <2>0. b \in Seq(D) /\ r \in Seq(D) /\ Len(b) = m /\ Len(r) = n - m
    BY <1>3, <1>4
  <2>1. /\ u \in Seq(D) /\ Len(u) = Len(b) + Len(r)
        /\ \A i \in 1 .. Len(b) : u[i] = b[i]
        /\ \A i \in 1 .. Len(r) : u[Len(b) + i] = r[i]
    BY <2>0
  <2> HIDE DEF u, n
  <2>4. Len(u) = n /\ n \in Nat
    BY <2>0, <2>1, <1>2 DEF n
  <2>2. ASSUME NEW i \in 1 .. n PROVE u[i] = a[i]
    <3>1. CASE i <= m
      <4>1. i \in 1 .. m
        BY <1>2, <2>4, <3>1
      <4>2. u[i] = b[i]
        BY <4>1, <2>0, <2>1
      <4> QED BY <4>1, <4>2, <1>3
    <3>2. CASE i > m
      <4> DEFINE j == i - m
      <4>1. j \in 1 .. n - m /\ i = m + j
        BY <1>2, <2>4, <3>2
      <4> HIDE DEF j
      <4>2. u[m + j] = r[j]
        BY <4>1, <2>0, <2>1
      <4>3. r[j] = a[m + j]
        BY <4>1, <1>4 DEF n
      <4>4. u[m + j] = a[m + j]
        BY <4>2, <4>3
      <4> QED BY <4>1, <4>4
    <3> QED BY <3>1, <3>2, <1>2, <2>4
  <2>3. u = a
    BY <2>1, <2>2, <2>4, <1>1, SeqEqual DEF n
  <2> QED BY <2>3 DEF u
<1>6. m # Room => r = <<>>
  BY <1>2, <1>4
<1>7. CASE Stops
  <2>1. Batch = <<>>
    BY <1>7 DEF Batch
  <2>2. <<>> \in Seq(DOMAIN views) /\ Len(<<>>) = 0
    OBVIOUS
  <2> QED BY <2>1, <2>2, <1>1, <1>7
<1>8. CASE ~ Stops
  <2>1. Batch = b
    BY <1>8 DEF Batch, b, m, a
  <2> QED BY <2>1, <1>2, <1>3, <1>4, <1>5, <1>6 DEF D, a
<1> QED BY <1>7, <1>8

\* The last key of a sorted sequence is behind the others.
LEMMA LastIsGreatest ==
    ASSUME NEW s \in Seq(OBJKeys), Sorted(s), s # <<>>
    PROVE  Last(s) \in Range(s) /\ \A k \in Range(s) : k = Last(s) \/ Before(k, Last(s))
<1> DEFINE m == Len(s)
<1>1. m \in Nat /\ m > 0 /\ DOMAIN s = 1 .. m /\ Last(s) = s[m]
  BY DEF Last
<1> HIDE DEF m
<1>2. ASSUME NEW k \in Range(s) PROVE k = s[m] \/ Before(k, s[m])
  <2>1. PICK i \in 1 .. m : k = s[i]
    BY <1>1 DEF Range
  <2>2. m \in 1 .. m /\ (i = m \/ i < m)
    BY <1>1
  <2> QED BY <2>1, <2>2, <1>1 DEF Sorted
<1>3. s[m] \in Range(s)
  BY <1>1 DEF Range
<1> QED BY <1>1, <1>2, <1>3

LEMMA LastOfConcat ==
    ASSUME NEW S, NEW s \in Seq(S), NEW t \in Seq(S), t # <<>>
    PROVE  Last(s \o t) = Last(t) /\ s \o t # <<>>
  BY DEF Last

\* What is sent with a batch, and what is left when it ends in the middle.
LEMMA SentIs ==
    ASSUME ViewInv, WalkInv
    PROVE  /\ sent \o Batch \in Seq(DOMAIN views) /\ Sorted(sent \o Batch)
           /\ Len(sent \o Batch) = collected + Len(Batch)
           /\ ~ Stops /\ Len(Batch) # Room /\ steady => Range(sent \o Batch) = InvolvedKeys
           /\ steady => Range(sent \o Batch) \subseteq InvolvedKeys
<1> DEFINE D == DOMAIN views
<1>1. D \subseteq OBJKeys
  BY KeyFacts
<1>2. /\ sent \in Seq(D) /\ Batch \in Seq(D) /\ collected = Len(sent)
      /\ Start.keys \in Seq(D) /\ Sorted(sent \o Start.keys)
  BY BatchIs DEF WalkInv
<1> HIDE DEF D
<1>3. sent \o Batch \in Seq(D) /\ Len(sent \o Batch) = collected + Len(Batch)
  BY <1>2
<1>4. CASE Stops
  <2>1. Batch = <<>>
    BY <1>4 DEF Batch
  <2>2. sent \o Batch = sent
    BY <2>1, <1>2
  <2>3. sent \in Seq(OBJKeys) /\ Start.keys \in Seq(OBJKeys)
    BY <1>1, <1>2
  <2>4. Sorted(sent)
    BY <2>3, <1>2, SortedParts
  <2>5. Range(sent) \subseteq Range(sent \o Start.keys)
    BY <1>2, RangeParts
  <2>6. steady => Range(sent \o Start.keys) \subseteq InvolvedKeys
    BY DEF WalkInv
  <2> QED BY <1>3, <1>4, <2>2, <2>4, <2>5, <2>6 DEF D
<1>5. CASE ~ Stops
  <2>1. PICK rest \in Seq(D) : /\ Ahead(Start) = Batch \o rest
                               /\ Len(Batch) # Room => rest = <<>>
    BY <1>5, BatchIs DEF D
  <2>2. sent \o (Batch \o rest) = (sent \o Batch) \o rest
    BY <1>2, ConcatAssociative, SMTT(30)
  <2>3. /\ Sorted((sent \o Batch) \o rest)
        /\ steady => Range((sent \o Batch) \o rest) = InvolvedKeys
    <3>1. Sorted(sent \o Ahead(Start)) /\ (steady => Range(sent \o Ahead(Start)) = InvolvedKeys)
      BY AheadIs
    <3>2. sent \o Ahead(Start) = (sent \o Batch) \o rest
      BY <2>1, <2>2, Zenon
    <3> QED BY <3>1, <3>2, Zenon
  <2>4. sent \o Batch \in Seq(OBJKeys) /\ rest \in Seq(OBJKeys)
    BY <1>1, <1>3
  <2>5. Sorted(sent \o Batch)
    BY <2>3, <2>4, SortedParts
  <2>6. ASSUME Len(Batch) # Room PROVE (sent \o Batch) \o rest = sent \o Batch
    <3> DEFINE u == sent \o Batch
    <3>1. rest = <<>> /\ u \in Seq(D)
      BY <1>3, <2>1, <2>6, Zenon
    <3> HIDE DEF u
    <3> QED BY <3>1 DEF u
  <2>7. Range(sent \o Batch) \subseteq Range((sent \o Batch) \o rest)
    <3> DEFINE u == sent \o Batch
    <3>1. u \in Seq(D) /\ rest \in Seq(D)
      BY <1>3
    <3> HIDE DEF u
    <3>2. Range(u \o rest) = Range(u) \cup Range(rest)
      BY <3>1, RangeParts
    <3> QED BY <3>2 DEF u
  <2> QED BY <1>3, <1>5, <2>3, <2>5, <2>6, <2>7 DEF D
<1> QED BY <1>4, <1>5

\* What is left of the SubPool a batch ends in.
LEMMA BehindIs ==
    ASSUME ViewInv, WalkInv, ~ Stops, Len(Batch) = Room
    PROVE  LET w == Behind(Batch)  keys == (sent \o Batch) \o w.keys IN
           /\ w.pool \in Nat /\ w.keys \in Seq(DOMAIN views) /\ Sorted(keys)
           /\ \A k \in Range(keys) : PoolOfKey(k) <= w.pool
           /\ steady => Range(keys) = {k \in InvolvedKeys : PoolOfKey(k) <= w.pool}
<1> DEFINE D == DOMAIN views  s == sent \o Batch  key == Last(Batch)  p == PoolOfKey(key)
           T == {k \in KeysOf(p) : Before(key, k)}  t == InOrder(T)
<1>1. D \subseteq OBJKeys /\ IsFiniteSet(D)
  BY KeyFacts DEF ViewInv
<1>2. Batch \in Seq(D) /\ sent \in Seq(D) /\ Batch # <<>>
  <2>1. Batch \in Seq(D) /\ sent \in Seq(D)
    BY BatchIs DEF WalkInv
  <2>2. Room > 0
    BY RoomNat
  <2> QED BY <2>1, <2>2
<1>3. s \in Seq(D) /\ Sorted(s) /\ Last(s) = key /\ s # <<>>
  <2>1. s \in Seq(D) /\ Sorted(s)
    BY SentIs
  <2>2. Last(s) = key /\ s # <<>>
    <3> HIDE DEF D
    <3> QED BY <1>2, LastOfConcat
  <2> QED BY <2>1, <2>2
<1>4. PICK rest \in Seq(D) : Ahead(Start) = Batch \o rest
  BY BatchIs
<1>5. /\ Sorted(s \o rest)
      /\ steady => Range(s \o rest) = InvolvedKeys
  <2> HIDE DEF D
  <2>1. sent \o (Batch \o rest) = (sent \o Batch) \o rest
    BY <1>2, ConcatAssociative, SMTT(30)
  <2> QED BY <2>1, <1>4, AheadIs
<1>6. Behind(Batch) = [pool |-> p, keys |-> t]
  BY DEF Behind, PoolOfKey
<1>7. KeysOf(p) = {k \in D : PoolOfKey(k) = p}
  BY KeysOfIs
<1> HIDE DEF key, p, T, t, s, D
<1>8. T = {k \in D : PoolOfKey(k) = p /\ Before(key, k)} /\ T \subseteq D
  BY <1>7 DEF T
<1>9. IsFiniteSet(T) /\ T \subseteq OBJKeys
  BY <1>1, <1>8, FS_Subset
<1>10. t \in Seq(T) /\ Range(t) = T /\ Sorted(t)
  BY <1>9, InOrderIs DEF t
<1>11. t \in Seq(D) /\ s \in Seq(OBJKeys) /\ t \in Seq(OBJKeys) /\ rest \in Seq(OBJKeys)
  BY <1>1, <1>3, <1>4, <1>8, <1>10
<1>12. key \in Range(s) /\ \A k \in Range(s) : k = key \/ Before(k, key)
  BY <1>3, <1>11, LastIsGreatest
<1>13. Range(s) \subseteq D /\ key \in D
  BY <1>3, <1>12, RangeIn
<1>14. \A k \in D : PoolOfKey(k) \in Nat
  BY KeyFacts, PoolsAreNat DEF D
<1>15. p \in Nat
  BY <1>13, <1>14 DEF p
<1>16. ASSUME NEW k \in D, NEW l \in D
       PROVE  /\ Before(k, l) => PoolOfKey(k) <= PoolOfKey(l)
              /\ Before(k, key) /\ Before(key, l) => Before(k, l)
  BY <1>1, <1>13, BeforeIsOrder DEF PoolOfKey
<1>17. ASSUME NEW k \in Range(s), NEW l \in T PROVE Before(k, l)
  <2>1. k \in D /\ l \in D /\ Before(key, l)
    BY <1>8, <1>13
  <2> QED BY <2>1, <1>12, <1>16
<1>18. Sorted(s \o t)
  BY <1>3, <1>10, <1>11, <1>17, SortedParts
<1>19. Range(s \o t) = Range(s) \cup T
  BY <1>3, <1>10, <1>11, RangeParts
<1>20. \A k \in Range(s) : PoolOfKey(k) <= p
  <2> TAKE k \in Range(s)
  <2>1. CASE k = key
    BY <2>1, <1>15 DEF p
  <2>2. CASE Before(k, key)
    BY <2>2, <1>13, <1>16 DEF p
  <2> QED BY <2>1, <2>2, <1>12
<1>21. \A k \in Range(s \o t) : PoolOfKey(k) <= p
  BY <1>8, <1>15, <1>19, <1>20
<1>22. ASSUME steady PROVE Range(s \o t) = {k \in InvolvedKeys : PoolOfKey(k) <= p}
  <2>1. Range(s) \cup Range(rest) = InvolvedKeys
    BY <1>3, <1>4, <1>5, <1>22, RangeParts
  <2>2. p \in scheduled
    BY <2>1, <1>12 DEF InvolvedKeys, p
  <2>3. T \subseteq InvolvedKeys
    BY <2>2, <1>8 DEF InvolvedKeys, D
  <2>4. ASSUME NEW k \in Range(rest), PoolOfKey(k) <= p PROVE k \in T
    <3>1. Before(key, k)
      BY <1>5, <1>11, <1>12, SortedParts
    <3>2. k \in D
      BY <1>4, RangeIn
    <3>3. PoolOfKey(k) >= p
      BY <3>1, <3>2, <1>13, <1>14, <1>15, <1>16 DEF p
    <3>4. PoolOfKey(k) = p
      BY <3>2, <3>3, <2>4, <1>14, <1>15
    <3> QED BY <3>1, <3>2, <3>4, <1>8
  <2> QED BY <2>1, <2>3, <2>4, <1>19, <1>21
<1> QED BY <1>6, <1>11, <1>15, <1>18, <1>21, <1>22 DEF s, D

\* What serving a request for a batch leaves alone.
LEMMA CollectFrame ==
    CollectIO => /\ DOMAIN views' = DOMAIN views /\ InvolvedKeys' = InvolvedKeys
                 /\ toCollect' = toCollect /\ steady' = steady /\ frozen' = frozen
                 /\ diskIds' = diskIds /\ scheduled' = scheduled
<1> SUFFICES ASSUME CollectIO PROVE /\ DOMAIN views' = DOMAIN views /\ InvolvedKeys' = InvolvedKeys
                 /\ toCollect' = toCollect /\ steady' = steady /\ frozen' = frozen
                 /\ diskIds' = diskIds /\ scheduled' = scheduled
  OBVIOUS
<1>1. /\ toCollect' = toCollect /\ steady' = steady /\ frozen' = frozen
      /\ diskIds' = diskIds /\ scheduled' = scheduled
  BY CollectIs DEF serveFrame
<1>2. DOMAIN views' = DOMAIN views
  BY CollectIs DEF ResetViews
<1> QED BY <1>1, <1>2 DEF InvolvedKeys

\* Serving a request for a batch keeps the walk as it must be.
LEMMA CollectWalk ==
    ASSUME ViewInv, WalkInv, CollectIO
    PROVE  WalkInv'
<1> DEFINE D == DOMAIN views  s == sent \o Batch  K == InvolvedKeys
<1>1. sent' = s /\ collected' = collected + Len(Batch)
  BY CollectIs
<1>2. DOMAIN views' = D /\ InvolvedKeys' = K /\ toCollect' = toCollect /\ (steady' <=> steady)
  BY CollectFrame
<1>3. /\ s \in Seq(D) /\ Sorted(s) /\ Len(s) = collected + Len(Batch)
      /\ ~ Stops /\ Len(Batch) # Room /\ steady => Range(s) = K
  BY SentIs
<1>4. collected' = Len(s)
  BY <1>1, <1>3
<1>5. /\ sent \in Seq(D) /\ Start.keys \in Seq(D) /\ Start.pool \in Nat
      /\ collected = Len(sent) /\ toCollect = Cardinality(D)
      /\ Sorted(sent \o Start.keys)
      /\ \A k \in Range(sent \o Start.keys) : PoolOfKey(k) <= Start.pool
      /\ steady => Range(sent \o Start.keys) = {k \in K : PoolOfKey(k) <= Start.pool}
  BY DEF WalkInv
<1>6. Batch \in Seq(D) /\ Len(Batch) \in Nat
  BY BatchIs
<1>7. \A k \in D : PoolOfKey(k) \in Nat /\ PoolOfKey(k) > 0 /\ PoolOfKey(k) < Past
  BY KeyFacts, PoolsAreNat
<1>8. K \subseteq D
  BY DEF InvolvedKeys
<1> DEFINE w == Start'  keys == s \o w.keys
<1>9. w = IF Len(s) = 0 THEN [pool |-> 0, keys |-> <<>>] ELSE walk'
  BY <1>4 DEF Start
<1> HIDE DEF s, D, K
<1>10. SUFFICES /\ w.keys \in Seq(D) /\ w.pool \in Nat /\ Sorted(keys)
                /\ \A k \in Range(keys) : PoolOfKey(k) <= w.pool
                /\ steady => Range(keys) = {k \in K : PoolOfKey(k) <= w.pool}
  <2> HIDE DEF w
  <2> QED BY <1>1, <1>2, <1>3, <1>4, <1>5 DEF WalkInv, w
<1>11. CASE Stops
  <2>1. Batch = <<>> /\ walk' = walk
    BY <1>11, CollectIs DEF Batch
  <2>2. s = sent
    BY <2>1, <1>5 DEF s
  <2>3. w = Start
    BY <1>5, <1>9, <2>1, <2>2 DEF Start
  <2> HIDE DEF w
  <2> QED BY <2>2, <2>3, <1>5
<1>12. CASE ~ Stops /\ Len(Batch) = Room
  <2>1. walk' = Behind(Batch)
    BY <1>12, CollectIs
  <2>2. Len(s) # 0
    BY <1>3, <1>5, <1>6, <1>12, RoomNat
  <2>3. w = Behind(Batch)
    BY <1>9, <2>1, <2>2
  <2> HIDE DEF w
  <2> QED BY <2>3, <1>12, BehindIs DEF s, D, K
<1>13. CASE ~ Stops /\ Len(Batch) # Room
  <2>1. walk' = [pool |-> Past, keys |-> <<>>]
    BY <1>13, CollectIs
  <2>2. w.keys = <<>> /\ w.pool = (IF Len(s) = 0 THEN 0 ELSE Past)
    BY <1>9, <2>1
  <2> HIDE DEF w
  <2>3. keys = s /\ w.keys \in Seq(D)
    BY <2>2, <1>3
  <2> HIDE DEF keys
  <2>4. w.pool \in Nat
    BY <2>2, PoolsAreNat
  <2>5. Range(s) \subseteq D
    BY <1>3, RangeIn
  <2>6. CASE Len(s) = 0
    <3>1. Range(s) = {} /\ w.pool = 0
      BY <1>3, <2>2, <2>6 DEF Range
    <3>2. ~ steady \/ K = {}
      BY <1>3, <1>13, <3>1
    <3> QED BY <3>1, <3>2, <2>3, <2>4, <1>3
  <2>7. CASE Len(s) # 0
    <3>1. w.pool = Past
      BY <2>2, <2>7
    <3>2. \A k \in D : PoolOfKey(k) <= w.pool
      BY <1>7, <3>1, PoolsAreNat
    <3>3. K = {k \in K : PoolOfKey(k) <= w.pool}
      BY <1>8, <3>2
    <3> QED BY <3>2, <3>3, <2>3, <2>4, <2>5, <1>3, <1>13
  <2> QED BY <2>6, <2>7
<1> QED BY <1>11, <1>12, <1>13

\* The last batch ends with every OBJ of the involved SubPools sent.
LEMMA CollectComplete ==
    ASSUME ViewInv, WalkInv, CollectIO, answers = <<>>
    PROVE  /\ IsInjective(sent')
           /\ steady /\ ~ Last(answers').more =>
                 Range(sent') = {k \in DOMAIN views : PoolOf[k[1]] \in scheduled}
<1> DEFINE D == DOMAIN views  s == sent \o Batch  K == InvolvedKeys
<1>1. sent' = s /\ collected' = Len(s) /\ toCollect = Cardinality(D) /\ collected = Len(sent)
  BY CollectIs, SentIs DEF WalkInv
<1>2. /\ s \in Seq(D) /\ Sorted(s) /\ Len(s) = collected + Len(Batch)
      /\ ~ Stops /\ Len(Batch) # Room /\ steady => Range(s) = K
      /\ steady => Range(s) \subseteq K
  BY SentIs
<1>3. D \subseteq OBJKeys /\ IsFiniteSet(D) /\ K \subseteq D
  BY KeyFacts DEF ViewInv, InvolvedKeys
<1>4. K = {k \in D : PoolOf[k[1]] \in scheduled}
  BY DEF InvolvedKeys, PoolOfKey
<1>5. IsInjective(s)
  <2>1. s \in Seq(OBJKeys)
    BY <1>2, <1>3
  <2> QED BY <2>1, <1>2, SortedInjective
<1>6. Last(answers').more = (Batch # <<>> /\ Len(s) < Cardinality(D))
  <2>1. answers' = <<Reply>>
    BY CollectIs
  <2>2. Last(answers') = Reply
    BY <2>1 DEF Last
  <2> QED BY <2>2, <1>1 DEF Reply
<1> HIDE DEF s, D, K
<1>7. Cardinality(D) \in Nat /\ Len(s) \in Nat
  BY <1>2, <1>3, FS_CardinalityType
<1>8. Len(s) >= Cardinality(D) => Range(s) = D
  BY <1>2, <1>3, SortedAll
<1>9. ASSUME steady, ~ Last(answers').more PROVE Range(s) = K
  <2>1. CASE ~ Stops /\ Len(Batch) # Room
    BY <2>1, <1>2, <1>9
  <2>2. CASE ~ Stops /\ Len(Batch) = Room
    <3>1. Batch # <<>>
      BY <2>2, RoomNat
    <3>2. ~ (Len(s) < Cardinality(D))
      BY <1>6, <1>9, <3>1
    <3>3. Range(s) = D
      BY <3>2, <1>7, <1>8
    <3> QED BY <3>3, <1>2, <1>3, <1>9
  <2>3. CASE Stops
    <3>1. Len(Batch) = 0
      BY <2>3 DEF Batch
    <3>2. Len(s) >= Cardinality(D)
      BY <2>3, <3>1, <1>1, <1>2, <1>7 DEF Stops
    <3> QED BY <3>2, <1>2, <1>3, <1>8, <1>9
  <2> QED BY <2>1, <2>2, <2>3
<1> QED BY <1>1, <1>4, <1>5, <1>9 DEF s, D, K

--------------------------------------------------------------------------------
(* The views.                                                                  *)

LEMMA NewViewIs == NewView \in OBJViews /\ IOsIn(NewView) = 0 /\ TimeIn(NewView) = 0
<1>1. Msec \in Nat /\ Msec > 0
  BY ViewsAssumption
<1>2. NewView \in OBJViews
  BY <1>1 DEF NewView, OBJViews, Track
<1>3. IOsIn(NewView) = 0
  BY DEF NewView, IOsIn, Classes, Kinds
<1>4. TimeIn(NewView) = Msec * 0 + 0
  BY DEF NewView, TimeIn, Kinds
<1> QED BY <1>1, <1>2, <1>3, <1>4

LEMMA ViewParts ==
    ASSUME NEW v \in OBJViews
    PROVE  /\ v.rt["rnd"] \in Nat /\ v.rt["seq"] \in Nat /\ v.remaining \in Nat
           /\ IOsIn(v) \in Nat /\ TimeIn(v) \in Nat
           /\ \A c \in Classes : v.ios[c] \in Nat
<1>1. Msec \in Nat /\ Msec > 0
  BY ViewsAssumption
<1>2. /\ v.rt["rnd"] \in Nat /\ v.rt["seq"] \in Nat /\ v.remaining \in Nat
      /\ \A c \in Classes : v.ios[c] \in Nat
  BY <1>1 DEF OBJViews, Kinds
<1>3. IOsIn(v) \in Nat
  BY <1>2 DEF IOsIn, Classes, Kinds
<1> DEFINE n == v.rt["rnd"] + v.rt["seq"]
<1>4. n \in Nat
  BY <1>2
<1> HIDE DEF n
<1>5. Msec * n \in Nat
  BY <1>1, <1>4, ProductPositive
<1>6. Msec * n + v.remaining \in Nat
  BY <1>2, <1>5
<1> QED BY <1>2, <1>3, <1>6 DEF TimeIn, n

\* An access is counted once, with its time.
LEMMA UpdateIs ==
    ASSUME NEW v \in OBJViews, NEW access \in IOs
    PROVE  /\ Update(v, access) \in OBJViews
           /\ IOsIn(Update(v, access)) = IOsIn(v) + 1
           /\ TimeIn(Update(v, access)) = TimeIn(v) + access.usec
<1> DEFINE class == DeterminAccessModel(v.track, access)  total == v.remaining + access.usec
           q == total \div Msec  r == total % Msec
<1>1. Msec \in Nat \ {0}
  BY ViewsAssumption
<1>2. /\ access.offset \in Nat /\ access.len \in Nat /\ access.usec \in Nat /\ access.way \in {"read", "write"}
  BY ViewsAssumption
<1>3. class \in Classes /\ class[1] \in Kinds
  BY <1>2 DEF DeterminAccessModel, Classes, Kinds
<1>4. total \in Nat
  BY <1>2, ViewParts
<1>5. total = Msec * q + r /\ r \in 0 .. Msec - 1 /\ q \in Nat
  <2> HIDE DEF total
  <2>1. total = Msec * q + r /\ r \in 0 .. Msec - 1
    BY <1>1, <1>4, DivMod
  <2>2. q \in Nat
    BY <1>1, <1>4, SMT
  <2> QED BY <2>1, <2>2
<1> DEFINE u == Update(v, access)
<1>6. /\ u.ios = [v.ios EXCEPT ![class] = @ + 1] /\ u.rt = [v.rt EXCEPT ![class[1]] = @ + q]
      /\ u.remaining = r /\ u.track = [offset |-> access.offset, len |-> access.len]
      /\ u = [ios |-> u.ios, rt |-> u.rt, remaining |-> u.remaining, track |-> u.track]
  BY DEF Update
<1>7. v.ios \in [Classes -> Nat] /\ v.rt \in [Kinds -> Nat]
  BY DEF OBJViews
<1> HIDE DEF u, class, q, r
<1>8. u \in OBJViews
  <2>1. u.ios \in [Classes -> Nat]
    BY <1>3, <1>6, <1>7
  <2>2. u.rt \in [Kinds -> Nat]
    BY <1>3, <1>5, <1>6, <1>7
  <2>3. u.track \in Track
    BY <1>2, <1>6 DEF Track
  <2>4. u.remaining \in 0 .. Msec - 1
    BY <1>5, <1>6
  <2> QED BY <2>1, <2>2, <2>3, <2>4, <1>6 DEF OBJViews
<1>9. IOsIn(u) = IOsIn(v) + 1
  <2> DEFINE a == <<"rnd", "read">>  b == <<"rnd", "write">>  c == <<"seq", "read">>  d == <<"seq", "write">>
  <2>1. Classes = {a, b, c, d} /\ a # b /\ a # c /\ a # d /\ b # c /\ b # d /\ c # d
    BY DEF Classes, Kinds
  <2>2. /\ IOsIn(v) = v.ios[a] + v.ios[b] + v.ios[c] + v.ios[d]
        /\ IOsIn(u) = u.ios[a] + u.ios[b] + u.ios[c] + u.ios[d]
    BY DEF IOsIn
  <2> HIDE DEF a, b, c, d
  <2>3. class \in {a, b, c, d}
    BY <1>3, <2>1
  <2>4. v.ios[a] \in Nat /\ v.ios[b] \in Nat /\ v.ios[c] \in Nat /\ v.ios[d] \in Nat
    BY <1>7, <2>1
  <2>5. \A x \in Classes : u.ios[x] = IF x = class THEN v.ios[x] + 1 ELSE v.ios[x]
    BY <1>6, <1>7
  <2>6. CASE class = a
    BY <2>1, <2>2, <2>4, <2>5, <2>6
  <2>7. CASE class = b
    BY <2>1, <2>2, <2>4, <2>5, <2>7
  <2>8. CASE class = c
    BY <2>1, <2>2, <2>4, <2>5, <2>8
  <2>9. CASE class = d
    BY <2>1, <2>2, <2>4, <2>5, <2>9
  <2> QED BY <2>3, <2>6, <2>7, <2>8, <2>9
<1>10. TimeIn(u) = TimeIn(v) + access.usec
  <2> DEFINE m == v.rt["rnd"] + v.rt["seq"]  n == u.rt["rnd"] + u.rt["seq"]
  <2>1. v.rt["rnd"] \in Nat /\ v.rt["seq"] \in Nat /\ v.remaining \in Nat
    BY ViewParts
  <2>2. class[1] = "rnd" \/ class[1] = "seq"
    BY <1>3 DEF Kinds
  <2>3. n = m + q /\ m \in Nat
    BY <2>1, <2>2, <1>5, <1>6, <1>7 DEF Kinds
  <2> HIDE DEF m, n
  <2>4. Msec * (m + q) = Msec * m + Msec * q
    BY <1>1, <1>5, <2>3, SMT
  <2> DEFINE x == Msec * m  y == Msec * q
  <2>5. x \in Nat /\ y \in Nat
    BY <1>1, <1>5, <2>3, ProductPositive
  <2>6. TimeIn(v) = x + v.remaining /\ TimeIn(u) = (x + y) + r
    BY <2>3, <2>4, <1>6 DEF TimeIn, m, n
  <2>7. v.remaining + access.usec = y + r
    BY <1>5
  <2> HIDE DEF x, y, total
  <2> QED BY <2>1, <2>5, <2>6, <2>7, <1>2, <1>5
<1> QED BY <1>8, <1>9, <1>10 DEF u

OneEach(vs) == \A k, l \in DOMAIN vs : k[2] = l[2] => k = l

\* The view of an OBJ that has one.
LEMMA InOfIs ==
    ASSUME NEW vs, OneEach(vs), NEW k \in DOMAIN vs
    PROVE  InOf(vs, k[2]) = vs[k]
<1> DEFINE l == CHOOSE x \in DOMAIN vs : x[2] = k[2]
<1>1. l \in DOMAIN vs /\ l[2] = k[2]
  OBVIOUS
<1>2. l = k
  BY <1>1 DEF OneEach
<1> QED BY <1>2 DEF InOf

LEMMA InOfNone ==
    ASSUME NEW vs, NEW o, \A k \in DOMAIN vs : k[2] # o PROVE InOf(vs, o) = NewView
  BY DEF InOf

\* The view of an OBJ is the same when those of its keys are.
LEMMA InOfSame ==
    ASSUME NEW vs, NEW ws, OneEach(vs), OneEach(ws), NEW o,
           \A k : k[2] = o => (k \in DOMAIN vs <=> k \in DOMAIN ws) /\ (k \in DOMAIN vs => vs[k] = ws[k])
    PROVE  InOf(vs, o) = InOf(ws, o)
<1>1. CASE \E k \in DOMAIN vs : k[2] = o
  <2>1. PICK k \in DOMAIN vs : k[2] = o
    BY <1>1
  <2>2. k \in DOMAIN ws /\ vs[k] = ws[k]
    BY <2>1
  <2>3. InOf(vs, k[2]) = vs[k] /\ InOf(ws, k[2]) = ws[k]
    BY <2>2, InOfIs
  <2> QED BY <2>1, <2>2, <2>3
<1>2. CASE \A k \in DOMAIN vs : k[2] # o
  <2>1. \A k \in DOMAIN ws : k[2] # o
    BY <1>2
  <2> QED BY <1>2, <2>1, InOfNone
<1> QED BY <1>1, <1>2

LEMMA InOfType ==
    ASSUME ViewInv, NEW o PROVE InOf(views, o) \in OBJViews
<1>1. CASE \E k \in DOMAIN views : k[2] = o
  <2>1. PICK k \in DOMAIN views : k[2] = o
    BY <1>1
  <2>2. InOf(views, k[2]) = views[k]
    BY InOfIs DEF ViewInv, OneEach
  <2> QED BY <2>1, <2>2 DEF ViewInv
<1>2. CASE ~ \E k \in DOMAIN views : k[2] = o
  BY <1>2, InOfNone, NewViewIs
<1> QED BY <1>1, <1>2

--------------------------------------------------------------------------------
(* What is told.                                                               *)

\* There is at most one answer, and what is resolved is one.
LEMMA TalkParts ==
    ASSUME TalkInv
    PROVE  /\ resolving = None \/ (resolving \in Replies /\ resolving.ok)
           /\ answers = <<>> \/ \E a \in Replies : answers = <<a>> /\ answers[1] = a
  BY DEF TalkInv, Answered, Asked, NoneAsked, Reading

LEMMA ToldNat ==
    ASSUME NEW infos \in Seq(Infos), NEW o PROVE Told(o, infos) \in Nat
<1>1. CASE \E i \in Range(infos) : i.key[2] = o
  <2> DEFINE j == CHOOSE i \in Range(infos) : i.key[2] = o
  <2>1. j \in Range(infos) /\ j.key[2] = o
    BY <1>1
  <2>2. Range(infos) \subseteq Infos
    BY RangeIn
  <2> HIDE DEF j
  <2>3. j.ios \in Nat
    BY <2>1, <2>2 DEF Infos
  <2> QED BY <1>1, <2>3 DEF Told, j
<1>2. CASE ~ \E i \in Range(infos) : i.key[2] = o
  BY <1>2 DEF Told
<1> QED BY <1>1, <1>2

LEMMA ToldInNat ==
    ASSUME NEW bufs \in [1 .. 2 -> Seq(Infos)], NEW o, NEW a, a = None \/ a \in Replies
    PROVE  ToldIn(o, a, bufs) \in Nat
<1>1. CASE a = None
  BY <1>1 DEF ToldIn, None
<1>2. CASE a \in Replies
  <2>1. a.buffer \in 1 .. 2
    BY <1>2 DEF Replies
  <2>2. Told(o, bufs[a.buffer]) \in Nat
    BY <2>1, ToldNat
  <2> QED BY <2>2 DEF ToldIn
<1> QED BY <1>1, <1>2

LEMMA PendingNat ==
    ASSUME CountInv, TalkInv, NEW o PROVE Pending(o, resolving, answers, buffers) \in Nat
<1>1. buffers \in [1 .. 2 -> Seq(Infos)]
  BY DEF CountInv
<1>2. ToldIn(o, resolving, buffers) \in Nat
  BY <1>1, TalkParts, ToldInNat
<1>3. answers # <<>> => ToldIn(o, answers[1], buffers) \in Nat
  BY <1>1, TalkParts, ToldInNat
<1> QED BY <1>2, <1>3 DEF Pending

--------------------------------------------------------------------------------
(* Changes of the views.                                                       *)

\* The counts hold on when they change as the view and the answers do.
LEMMA CountKept ==
    ASSUME CountInv, UNCHANGED <<owed, buffers, free, answers, resolving>>,
           \A o \in OBJIds : InOf(views', o) = InOf(views, o)
    PROVE  CountInv'
<1>1. ASSUME NEW o \in OBJIds
      PROVE  /\ owed'[o].ios = IOsIn(InOf(views', o)) + Pending(o, resolving', answers', buffers')
             /\ owed'[o].usec = TimeIn(InOf(views', o))
  <2>1. /\ owed[o].ios = IOsIn(InOf(views, o)) + Pending(o, resolving, answers, buffers)
        /\ owed[o].usec = TimeIn(InOf(views, o))
    BY DEF CountInv
  <2>2. owed' = owed /\ buffers' = buffers /\ answers' = answers /\ resolving' = resolving
    OBVIOUS
  <2> QED BY <2>1, <2>2
<1>2. /\ buffers' \in [1 .. 2 -> Seq(Infos)] /\ free' \in 1 .. 2
      /\ owed' \in [OBJIds -> [ios : Int, usec : Nat]]
  BY DEF CountInv
<1> QED BY <1>1, <1>2 DEF CountInv

LEMMA AddDiskViews == ASSUME ViewInv, NEW d \in DiskKeys, AddDisk(d) PROVE ViewInv'
<1>1. diskIds' = diskIds \cup {d} /\ UNCHANGED <<views, scheduled>>
  BY DEF AddDisk, AddDiskView
<1> QED BY <1>1 DEF ViewInv

LEMMA AddOBJViews ==
    ASSUME ViewInv, CountInv, NEW key \in OBJKeys, AddOBJ(key) PROVE ViewInv' /\ CountInv'
<1>1. /\ key[1] \in diskIds /\ views' = Inserted(views, key, NewView) /\ key \notin DOMAIN views
      /\ \A k \in DOMAIN views : k[2] # key[2]
      /\ UNCHANGED <<diskIds, scheduled, owed, buffers, free, answers, resolving>>
  BY DEF AddOBJ, AddOBJView, DiskKnown, viewFrame, walkVars, genVars
<1>2. /\ DOMAIN views' = DOMAIN views \cup {key}
      /\ views'[key] = NewView /\ \A k \in DOMAIN views : views'[k] = views[k]
      /\ views' = [k \in DOMAIN views' |-> views'[k]]
  BY <1>1 DEF Inserted
<1>3. IsFiniteSet(DOMAIN views')
  BY <1>2, FS_AddElement DEF ViewInv
<1>4. \A k, l \in DOMAIN views' : k[2] = l[2] => k = l
  BY <1>1, <1>2 DEF ViewInv
<1>5. \A k \in DOMAIN views' : k \in OBJKeys /\ k[1] \in diskIds
  BY <1>1, <1>2 DEF ViewInv
<1>6. views' \in [DOMAIN views' -> OBJViews]
  <2>1. \A k \in DOMAIN views' : views'[k] \in OBJViews
    BY <1>2, NewViewIs DEF ViewInv
  <2> QED BY <1>2, <2>1
<1>7. ViewInv'
  BY <1>1, <1>3, <1>4, <1>5, <1>6 DEF ViewInv
<1>8. ASSUME NEW o \in OBJIds PROVE InOf(views', o) = InOf(views, o)
  <2> DEFINE w == views'
  <2>1. OneEach(w) /\ OneEach(views)
    BY <1>4 DEF OneEach, ViewInv
  <2>2. CASE o = key[2]
    <3>1. InOf(views, o) = NewView
      BY <1>1, <2>2, InOfNone
    <3>2. key \in DOMAIN w /\ w[key] = NewView
      BY <1>2
    <3> HIDE DEF w
    <3>3. InOf(w, key[2]) = NewView
      BY <2>1, <3>2, InOfIs
    <3> QED BY <2>2, <3>1, <3>3 DEF w
  <2>3. CASE o # key[2]
    <3>1. \A k : k[2] = o => (k \in DOMAIN w <=> k \in DOMAIN views) /\ (k \in DOMAIN w => w[k] = views[k])
      BY <1>2, <2>3
    <3> HIDE DEF w
    <3>2. InOf(w, o) = InOf(views, o)
      BY <2>1, <3>1, InOfSame
    <3> QED BY <3>2 DEF w
  <2> QED BY <2>2, <2>3
<1> QED BY <1>1, <1>7, <1>8, CountKept

LEMMA DeleteOBJViews ==
    ASSUME ViewInv, TalkInv, CountInv, NEW key \in OBJKeys, DeleteOBJ(key) PROVE ViewInv' /\ CountInv'
<1>1. /\ key \in DOMAIN views /\ views' = Erased(views, key)
      /\ owed' = [owed EXCEPT ![key[2]] = [ios |-> @.ios - IOsIn(views[key]), usec |-> 0]]
      /\ UNCHANGED <<diskIds, scheduled, buffers, free, answers, resolving>>
  BY DEF DeleteOBJ, DeleteOBJView, viewFrame, walkVars, genVars
<1>2. /\ DOMAIN views' = DOMAIN views \ {key}
      /\ \A k \in DOMAIN views' : views'[k] = views[k]
      /\ views' = [k \in DOMAIN views' |-> views'[k]]
  BY <1>1 DEF Erased
<1>3. IsFiniteSet(DOMAIN views')
  BY <1>2, FS_Subset DEF ViewInv
<1>4. \A k, l \in DOMAIN views' : k[2] = l[2] => k = l
  BY <1>2 DEF ViewInv
<1>5. \A k \in DOMAIN views' : k \in OBJKeys /\ k[1] \in diskIds
  BY <1>2 DEF ViewInv
<1>6. views' \in [DOMAIN views' -> OBJViews]
  <2>1. \A k \in DOMAIN views' : views'[k] \in OBJViews
    BY <1>2 DEF ViewInv
  <2> QED BY <1>2, <2>1
<1>7. ViewInv'
  BY <1>1, <1>3, <1>4, <1>5, <1>6 DEF ViewInv
<1>8. ASSUME NEW o \in OBJIds
      PROVE  /\ owed'[o].ios = IOsIn(InOf(views', o)) + Pending(o, resolving, answers, buffers)
             /\ owed'[o].usec = TimeIn(InOf(views', o))
             /\ owed'[o] \in [ios : Int, usec : Nat]
  <2> DEFINE w == views'  p == Pending(o, resolving, answers, buffers)
  <2>1. OneEach(w) /\ OneEach(views)
    BY <1>4 DEF OneEach, ViewInv
  <2>2. /\ owed[o].ios = IOsIn(InOf(views, o)) + p /\ owed[o].usec = TimeIn(InOf(views, o))
        /\ owed[o] \in [ios : Int, usec : Nat] /\ owed \in [OBJIds -> [ios : Int, usec : Nat]]
    BY DEF CountInv
  <2>3. CASE o = key[2]
    <3>1. InOf(views, o) = views[key]
      BY <1>1, <2>1, <2>3, InOfIs
    <3>2. \A k \in DOMAIN w : k[2] # o
      BY <1>1, <1>2, <2>3 DEF ViewInv
    <3> HIDE DEF w, p
    <3>3. InOf(w, o) = NewView
      BY <3>2, InOfNone
    <3>4. owed'[o] = [ios |-> owed[o].ios - IOsIn(views[key]), usec |-> 0]
      BY <1>1, <2>2, <2>3
    <3>5. IOsIn(views[key]) \in Nat
      BY <1>1, ViewParts DEF ViewInv
    <3>6. owed[o].ios \in Int /\ p \in Nat
      BY <2>2, PendingNat DEF p
    <3>7. owed[o].ios - IOsIn(views[key]) = p
      BY <2>2, <3>1, <3>5, <3>6
    <3> QED BY <3>3, <3>4, <3>5, <3>6, <3>7, NewViewIs DEF w, p
  <2>4. CASE o # key[2]
    <3>1. \A k : k[2] = o => (k \in DOMAIN w <=> k \in DOMAIN views) /\ (k \in DOMAIN w => w[k] = views[k])
      BY <1>2, <2>4
    <3> HIDE DEF w, p
    <3>2. InOf(w, o) = InOf(views, o)
      BY <2>1, <3>1, InOfSame
    <3>3. owed'[o] = owed[o]
      BY <1>1, <2>2, <2>4
    <3> QED BY <2>2, <3>2, <3>3 DEF w, p
  <2> QED BY <2>3, <2>4
<1>9. CountInv'
  <2>1. owed' = [o \in OBJIds |-> owed'[o]]
    BY <1>1 DEF CountInv
  <2>2. owed' \in [OBJIds -> [ios : Int, usec : Nat]]
    BY <2>1, <1>8
  <2>3. /\ buffers' = buffers /\ free' = free /\ answers' = answers /\ resolving' = resolving
        /\ buffers \in [1 .. 2 -> Seq(Infos)] /\ free \in 1 .. 2
    BY <1>1 DEF CountInv
  <2> QED BY <1>8, <2>2, <2>3 DEF CountInv
<1> QED BY <1>7, <1>9

LEMMA MigrateViews ==
    ASSUME ViewInv, CountInv, NEW key \in OBJKeys, NEW d \in DiskKeys, CompleteMigrate(key, d)
    PROVE  ViewInv' /\ CountInv'
<1> DEFINE target == <<d, key[2]>>
<1>1. /\ key \in DOMAIN views /\ d \in diskIds /\ d # key[1]
      /\ views' = Inserted(Erased(views, key), target, views[key])
      /\ UNCHANGED <<diskIds, scheduled, owed, buffers, free, answers, resolving>>
  BY DEF CompleteMigrate, MoveOBJFromSrc2Tgt, viewFrame, walkVars, genVars
<1>2. target \in OBJKeys /\ target[2] = key[2] /\ target[1] = d /\ target # key
  BY <1>1 DEF OBJKeys
<1>3. target \notin DOMAIN views
  BY <1>1, <1>2 DEF ViewInv
<1> HIDE DEF target
<1>4. /\ DOMAIN views' = (DOMAIN views \ {key}) \cup {target}
      /\ views'[target] = views[key] /\ \A k \in DOMAIN views \ {key} : views'[k] = views[k]
      /\ views' = [k \in DOMAIN views' |-> views'[k]]
  BY <1>1, <1>3 DEF Inserted, Erased
<1>5. IsFiniteSet(DOMAIN views')
  <2>1. IsFiniteSet(DOMAIN views \ {key})
    BY FS_Subset DEF ViewInv
  <2> QED BY <1>4, <2>1, FS_AddElement
<1>6. \A k, l \in DOMAIN views' : k[2] = l[2] => k = l
  BY <1>1, <1>2, <1>4 DEF ViewInv
<1>7. \A k \in DOMAIN views' : k \in OBJKeys /\ k[1] \in diskIds
  BY <1>1, <1>2, <1>4 DEF ViewInv
<1>8. views' \in [DOMAIN views' -> OBJViews]
  <2>1. \A k \in DOMAIN views' : views'[k] \in OBJViews
    BY <1>1, <1>4 DEF ViewInv
  <2> QED BY <1>4, <2>1
<1>9. ViewInv'
  BY <1>1, <1>5, <1>6, <1>7, <1>8 DEF ViewInv
<1>10. ASSUME NEW o \in OBJIds PROVE InOf(views', o) = InOf(views, o)
  <2> DEFINE w == views'
  <2>1. OneEach(w) /\ OneEach(views)
    BY <1>6 DEF OneEach, ViewInv
  <2>2. CASE o = key[2]
    <3>1. InOf(views, o) = views[key]
      BY <1>1, <2>1, <2>2, InOfIs
    <3>2. target \in DOMAIN w /\ w[target] = views[key]
      BY <1>4
    <3> HIDE DEF w
    <3>3. InOf(w, target[2]) = views[key]
      BY <2>1, <3>2, InOfIs
    <3> QED BY <2>2, <3>1, <3>3, <1>2 DEF w
  <2>3. CASE o # key[2]
    <3>1. \A k : k[2] = o => (k \in DOMAIN w <=> k \in DOMAIN views) /\ (k \in DOMAIN w => w[k] = views[k])
      BY <1>2, <1>4, <2>3
    <3> HIDE DEF w
    <3>2. InOf(w, o) = InOf(views, o)
      BY <2>1, <3>1, InOfSame
    <3> QED BY <3>2 DEF w
  <2> QED BY <2>2, <2>3
<1> QED BY <1>1, <1>9, <1>10, CountKept

LEMMA AccessViews ==
    ASSUME ViewInv, TalkInv, CountInv, NEW key \in OBJKeys, NEW access \in IOs, AccessOBJ(key, access)
    PROVE  ViewInv' /\ CountInv' /\ DOMAIN views' = DOMAIN views
<1>1. /\ key \in DOMAIN views /\ views' = [views EXCEPT ![key] = Update(@, access)]
      /\ owed' = [owed EXCEPT ![key[2]] = [ios |-> @.ios + 1, usec |-> @.usec + access.usec]]
      /\ UNCHANGED <<diskIds, scheduled, buffers, free, answers, resolving>>
  BY DEF AccessOBJ, UpdateOBJView, viewFrame, walkVars, genVars
<1>2. /\ DOMAIN views' = DOMAIN views /\ views'[key] = Update(views[key], access)
      /\ \A k \in DOMAIN views : k # key => views'[k] = views[k]
      /\ views' = [k \in DOMAIN views' |-> views'[k]]
  BY <1>1
<1>3. views' \in [DOMAIN views' -> OBJViews]
  <2>1. views[key] \in OBJViews
    BY <1>1 DEF ViewInv
  <2>2. \A k \in DOMAIN views' : views'[k] \in OBJViews
    BY <1>2, <2>1, UpdateIs DEF ViewInv
  <2> QED BY <1>2, <2>2
<1>4. ViewInv'
  BY <1>1, <1>2, <1>3 DEF ViewInv
<1>5. ASSUME NEW o \in OBJIds
      PROVE  /\ owed'[o].ios = IOsIn(InOf(views', o)) + Pending(o, resolving, answers, buffers)
             /\ owed'[o].usec = TimeIn(InOf(views', o))
             /\ owed'[o] \in [ios : Int, usec : Nat]
  <2> DEFINE w == views'  p == Pending(o, resolving, answers, buffers)
  <2>1. OneEach(w) /\ OneEach(views)
    BY <1>2 DEF OneEach, ViewInv
  <2>2. /\ owed[o].ios = IOsIn(InOf(views, o)) + p /\ owed[o].usec = TimeIn(InOf(views, o))
        /\ owed[o] \in [ios : Int, usec : Nat] /\ owed \in [OBJIds -> [ios : Int, usec : Nat]]
    BY DEF CountInv
  <2>3. p \in Nat
    BY PendingNat
  <2> HIDE DEF p
  <2>4. CASE o = key[2]
    <3> DEFINE v == views[key]
    <3>1. InOf(views, o) = v
      BY <1>1, <2>1, <2>4, InOfIs
    <3>2. key \in DOMAIN w /\ w[key] = Update(v, access)
      BY <1>1, <1>2
    <3> HIDE DEF w
    <3>3. InOf(w, o) = Update(v, access)
      BY <2>1, <2>4, <3>2, InOfIs
    <3>4. v \in OBJViews
      BY <1>1 DEF ViewInv
    <3> HIDE DEF v
    <3>5. /\ IOsIn(Update(v, access)) = IOsIn(v) + 1 /\ IOsIn(v) \in Nat
          /\ TimeIn(Update(v, access)) = TimeIn(v) + access.usec /\ TimeIn(v) \in Nat
      BY <3>4, UpdateIs, ViewParts
    <3>6. access.usec \in Nat
      BY ViewsAssumption
    <3>7. owed'[o] = [ios |-> owed[o].ios + 1, usec |-> owed[o].usec + access.usec]
      BY <1>1, <2>2, <2>4
    <3>8. owed'[o].ios = owed[o].ios + 1 /\ owed'[o].usec = owed[o].usec + access.usec
      BY <3>7
    <3>9. /\ owed'[o].ios = IOsIn(InOf(w, o)) + p
          /\ owed'[o].usec = TimeIn(InOf(w, o))
          /\ owed'[o].ios \in Int /\ owed'[o].usec \in Nat
      BY <2>2, <2>3, <3>1, <3>3, <3>5, <3>6, <3>8
    <3> QED BY <3>7, <3>9 DEF w, p
  <2>5. CASE o # key[2]
    <3>1. \A k : k[2] = o => (k \in DOMAIN w <=> k \in DOMAIN views) /\ (k \in DOMAIN w => w[k] = views[k])
      BY <1>2, <2>5
    <3> HIDE DEF w, p
    <3>2. InOf(w, o) = InOf(views, o)
      BY <2>1, <3>1, InOfSame
    <3>3. owed'[o] = owed[o]
      BY <1>1, <2>2, <2>5
    <3> QED BY <2>2, <3>2, <3>3 DEF w, p
  <2> QED BY <2>4, <2>5
<1>6. CountInv'
  <2>1. owed' = [o \in OBJIds |-> owed'[o]]
    BY <1>1 DEF CountInv
  <2>2. owed' \in [OBJIds -> [ios : Int, usec : Nat]]
    BY <2>1, <1>5
  <2>3. /\ buffers' = buffers /\ free' = free /\ answers' = answers /\ resolving' = resolving
        /\ buffers \in [1 .. 2 -> Seq(Infos)] /\ free \in 1 .. 2
    BY <1>1 DEF CountInv
  <2> QED BY <1>5, <2>2, <2>3 DEF CountInv
<1> QED BY <1>2, <1>4, <1>6

--------------------------------------------------------------------------------
(* What a batch does to the views, the counts and the talk.                    *)

\* A batch is asked for: no other answer is on its way.
LEMMA WhenAsked ==
    ASSUME TalkInv, Requested("collect")
    PROVE  learning /\ frozen /\ Asked /\ (resolving = None \/ Reading(TRUE, 3 - free))
<1>1. toHub # <<>> /\ Head(toHub) = "collect"
  BY DEF Requested
<1>2. toHub # <<"post">> /\ toHub # <<"prepare", "collect">> /\ toHub # <<"post", "prepare", "collect">>
  BY <1>1
<1> QED BY <1>1, <1>2 DEF TalkInv, Answered, NoneAsked

LEMMA CollectViews ==
    ASSUME ViewInv, WalkInv, CollectIO
    PROVE  ViewInv'
<1>1. /\ DOMAIN views' = DOMAIN views /\ diskIds' = diskIds /\ scheduled' = scheduled
  BY CollectFrame
<1>2. views' = [k \in DOMAIN views |-> IF k \in Range(Batch) THEN NewView ELSE views[k]]
  BY CollectIs DEF ResetViews
<1>3. views' \in [DOMAIN views' -> OBJViews]
  BY <1>1, <1>2, NewViewIs DEF ViewInv
<1> QED BY <1>1, <1>3 DEF ViewInv

BatchInfos == [n \in 1 .. Len(Batch) |-> OBJInfo(Batch[n])]

\* The entries of a batch.
LEMMA InfosAre ==
    ASSUME ViewInv, WalkInv
    PROVE  /\ BatchInfos \in Seq(Infos) /\ Len(BatchInfos) = Len(Batch)
           /\ Range(BatchInfos) = {OBJInfo(k) : k \in Range(Batch)}
<1>1. Batch \in Seq(DOMAIN views)
  BY BatchIs
<1> DEFINE m == Len(Batch)
<1>2. m \in Nat /\ DOMAIN Batch = 1 .. m /\ \A n \in 1 .. m : Batch[n] \in DOMAIN views
  BY <1>1
<1>3. \A k \in DOMAIN views : OBJInfo(k) \in Infos
  <2> TAKE k \in DOMAIN views
  <2>1. views[k] \in OBJViews /\ k \in OBJKeys
    BY DEF ViewInv
  <2>2. IOsIn(views[k]) \in Nat
    BY <2>1, ViewParts
  <2> QED BY <2>1, <2>2 DEF OBJInfo, Infos
<1> HIDE DEF m
<1>4. BatchInfos = [n \in 1 .. m |-> OBJInfo(Batch[n])]
  BY DEF BatchInfos, m
<1>5. BatchInfos \in Seq(Infos) /\ Len(BatchInfos) = m /\ DOMAIN BatchInfos = 1 .. m
  BY <1>2, <1>3, <1>4
<1>6. Range(BatchInfos) = {OBJInfo(k) : k \in Range(Batch)}
  BY <1>2, <1>4 DEF Range
<1> QED BY <1>5, <1>6 DEF m

\* An answer tells of an OBJ what was in its view.
LEMMA ToldOfBatch ==
    ASSUME ViewInv, WalkInv, NEW o
    PROVE  /\ \A k \in Range(Batch) : k[2] = o => Told(o, BatchInfos) = IOsIn(views[k])
           /\ (\A k \in Range(Batch) : k[2] # o) => Told(o, BatchInfos) = 0
<1>1. Range(BatchInfos) = {OBJInfo(k) : k \in Range(Batch)}
  BY InfosAre
<1>2. Range(Batch) \subseteq DOMAIN views
  BY BatchIs, RangeIn
<1>3. \A k : OBJInfo(k).key = k /\ OBJInfo(k).ios = IOsIn(views[k])
  BY DEF OBJInfo
<1>4. ASSUME NEW k \in Range(Batch), k[2] = o PROVE Told(o, BatchInfos) = IOsIn(views[k])
  <2> DEFINE P(i) == i.key[2] = o  j == CHOOSE i \in Range(BatchInfos) : P(i)
  <2>1. OBJInfo(k) \in Range(BatchInfos) /\ P(OBJInfo(k))
    BY <1>1, <1>3, <1>4
  <2>2. j \in Range(BatchInfos) /\ P(j)
    BY <2>1
  <2> HIDE DEF j
  <2>3. PICK l \in Range(Batch) : j = OBJInfo(l)
    BY <1>1, <2>2
  <2>4. l[2] = o
    BY <1>3, <2>2, <2>3
  <2>5. l = k
    BY <1>2, <1>4, <2>4 DEF ViewInv
  <2>6. Told(o, BatchInfos) = j.ios
    BY <2>1 DEF Told, j
  <2> QED BY <2>3, <2>5, <2>6, <1>3
<1>5. ASSUME \A k \in Range(Batch) : k[2] # o PROVE Told(o, BatchInfos) = 0
  <2>1. ~ \E i \in Range(BatchInfos) : i.key[2] = o
    BY <1>1, <1>3, <1>5
  <2> QED BY <2>1 DEF Told
<1> QED BY <1>4, <1>5

\* The fragments of an answer hold it, and the last one is not empty.
LEMMA FragmentsFit ==
    ASSUME NEW n \in Nat, n > 0, n <= Room
    PROVE  /\ FragmentsSent(n) \in Int
           /\ n > FragmentSize * (FragmentsSent(n) - 1)
           /\ n <= FragmentSize * FragmentsSent(n)
<1> DEFINE F == FragmentSize  q == n \div F  r == n % F  t == FragmentsTaken(n)
<1>1. F \in Nat \ {0} /\ FragmentNum \in Nat \ {0}
  BY ViewsAssumption
<1>2. n = F * q + r /\ r \in 0 .. F - 1 /\ q \in Int
  BY <1>1, DivMod
<1>3. q \in Nat
  BY <1>1, SMT
<1>4. t = Min2(q + 1, FragmentNum)
  BY DEF FragmentsTaken
<1> HIDE DEF q, r, t
<1>5. t \in Nat /\ t > 0 /\ t <= q + 1 /\ (t = q + 1 \/ t = FragmentNum)
  BY <1>1, <1>3, <1>4 DEF Min2
<1> DEFINE x == F * (t - 1)  y == F * q
<1>6. x \in Nat /\ y \in Nat
  BY <1>1, <1>3, <1>5, ProductPositive
<1>7. F * t = x + F /\ F * (t - 1 - 1) = x - F /\ F * (q + 1) = y + F
  <2>1. \A a \in Int : F * (a + 1) = F * a + F /\ F * (a - 1) = F * a - F
    BY <1>1, SMT
  <2>2. t - 1 \in Int /\ (t - 1) + 1 = t /\ q \in Int
    BY <1>3, <1>5
  <2> QED BY <2>1, <2>2
<1>8. x <= y
  <2>1. \A a, b \in Int : a <= b => F * a <= F * b
    <3> SUFFICES ASSUME NEW a \in Int, NEW b \in Int, a <= b PROVE F * a <= F * b
      OBVIOUS
    <3>1. b - a \in Nat
      OBVIOUS
    <3>2. F * (b - a) \in Nat
      BY <1>1, <3>1, ProductPositive
    <3>3. F * (b - a) = F * b - F * a /\ F * a \in Int /\ F * b \in Int
      BY <1>1, SMT
    <3> DEFINE u == F * a  v == F * b
    <3>4. v - u \in Nat /\ u \in Int /\ v \in Int
      BY <3>2, <3>3
    <3> HIDE DEF u, v
    <3>5. u <= v
      BY <3>4
    <3> QED BY <3>5 DEF u, v
  <2>2. t - 1 \in Int /\ q \in Int /\ t - 1 <= q
    BY <1>3, <1>5
  <2> QED BY <2>1, <2>2
<1>9. t = FragmentNum => Room = x + F
  BY <1>7 DEF Room
<1>10. FragmentsSent(n) = IF n > x THEN t ELSE t - 1
  BY DEF FragmentsSent, t
<1>11. t = q + 1 => x = y
  BY <1>3, <1>5
<1> DEFINE s == FragmentsSent(n)
<1>12. CASE n > x
  <2>1. s = t
    BY <1>10, <1>12
  <2>2. F * (s - 1) = x /\ F * s = x + F
    BY <2>1, <1>7
  <2> HIDE DEF x, y, s
  <2>3. n <= x + F
    BY <1>1, <1>2, <1>5, <1>6, <1>9, <1>11 DEF y
  <2> QED BY <2>1, <2>2, <2>3, <1>5, <1>12 DEF s
<1>13. CASE ~ (n > x)
  <2>1. s = t - 1
    BY <1>10, <1>13
  <2>2. F * (s - 1) = x - F /\ F * s = x
    BY <2>1, <1>7
  <2>3. n = y + r
    BY <1>2
  <2> HIDE DEF x, y, s
  <2>4. n = x
    BY <2>3, <1>1, <1>2, <1>6, <1>8, <1>13
  <2> QED BY <2>1, <2>2, <2>4, <1>1, <1>5, <1>6 DEF s
<1> QED BY <1>12, <1>13

\* The answer to a request for a batch.
LEMMA ReplyIs ==
    ASSUME ViewInv, WalkInv, CountInv, TalkInv, CollectIO
    PROVE  /\ Reply \in Replies /\ Reply.buffer = free /\ answers' = <<Reply>> /\ answers'[1] = Reply
           /\ (Reply.ok <=> Batch # <<>>) /\ Reply.fragments = FragmentsSent(Len(Batch))
           /\ buffers' = [buffers EXCEPT ![free] = BatchInfos] /\ free' = 3 - free
<1>1. answers = <<>>
  BY CollectIs, WhenAsked DEF Asked
<1>2. answers' = Append(answers, Reply) /\ free' = 3 - free /\ buffers' = [buffers EXCEPT ![free] = BatchInfos]
  BY CollectIs DEF BatchInfos
<1>3. answers' = <<Reply>> /\ answers'[1] = Reply
  BY <1>1, <1>2
<1>4. /\ Reply.buffer = free /\ Reply.ok = (Batch # <<>>) /\ Reply.fragments = FragmentsSent(Len(Batch))
      /\ Reply.more \in BOOLEAN
      /\ Reply = [buffer |-> Reply.buffer, ok |-> Reply.ok, fragments |-> Reply.fragments, more |-> Reply.more]
  BY DEF Reply
<1>5. FragmentsSent(Len(Batch)) \in Int
  <2> DEFINE n == Len(Batch)  F == FragmentSize
  <2>1. n \in Nat /\ F \in Nat \ {0} /\ FragmentNum \in Nat
    BY BatchIs, ViewsAssumption
  <2> HIDE DEF n, F
  <2>2. n \div F \in Int
    BY <2>1, DivMod
  <2>3. FragmentsTaken(n) \in Int
    BY <2>1, <2>2 DEF FragmentsTaken, Min2, F
  <2> QED BY <2>3 DEF FragmentsSent, n
<1>6. free \in 1 .. 2
  BY DEF CountInv
<1> HIDE DEF Reply
<1>7. Reply \in Replies
  BY <1>4, <1>5, <1>6 DEF Replies
<1> QED BY <1>2, <1>3, <1>4, <1>7

LEMMA CollectCounts ==
    ASSUME ViewInv, WalkInv, CountInv, TalkInv, CollectIO
    PROVE  CountInv'
<1>1. answers = <<>> /\ resolving' = resolving
  BY CollectIs, WhenAsked DEF Asked, serveFrame, genVars
<1>2. buffers \in [1 .. 2 -> Seq(Infos)] /\ free \in 1 .. 2 /\ owed \in [OBJIds -> [ios : Int, usec : Nat]]
  BY DEF CountInv
<1>3. /\ answers' = <<Reply>> /\ answers'[1] = Reply /\ Reply.buffer = free /\ (Reply.ok <=> Batch # <<>>)
      /\ buffers' = [buffers EXCEPT ![free] = BatchInfos] /\ free' = 3 - free
  BY ReplyIs
<1>4. BatchInfos \in Seq(Infos)
  BY InfosAre
<1>5. /\ buffers' \in [1 .. 2 -> Seq(Infos)] /\ free' \in 1 .. 2
      /\ buffers'[free] = BatchInfos /\ buffers'[3 - free] = buffers[3 - free]
  <2>1. 3 - free \in 1 .. 2 /\ 3 - free # free
    BY <1>2
  <2> QED BY <1>2, <1>3, <1>4, <2>1
<1>6. views' = [k \in DOMAIN views |-> IF k \in Range(Batch) THEN NewView ELSE views[k]]
  BY CollectIs DEF ResetViews
<1>7. owed' = [o \in OBJIds |-> IF \E k \in Range(Batch) : k[2] = o
                                THEN [owed[o] EXCEPT !.usec = 0] ELSE owed[o]]
  BY CollectIs
<1>8. Range(Batch) \subseteq DOMAIN views
  BY BatchIs, RangeIn
<1>9. ASSUME NEW o PROVE ToldIn(o, Reply, buffers') = Told(o, BatchInfos)
  <2>1. CASE Batch # <<>>
    BY <1>3, <1>5, <2>1 DEF ToldIn
  <2>2. CASE Batch = <<>>
    <3>1. Range(Batch) = {}
      BY <2>2 DEF Range
    <3>2. Told(o, BatchInfos) = 0
      BY <3>1, ToldOfBatch
    <3> QED BY <1>3, <2>2, <3>2 DEF ToldIn
  <2> QED BY <2>1, <2>2
<1>10. ASSUME NEW o PROVE ToldIn(o, resolving, buffers') = ToldIn(o, resolving, buffers)
  <2>1. resolving = None \/ (resolving.ok /\ resolving.buffer = 3 - free)
    BY CollectIs, WhenAsked DEF Reading
  <2>2. CASE resolving = None
    BY <2>2 DEF ToldIn, None
  <2>3. CASE resolving.ok /\ resolving.buffer = 3 - free
    BY <2>3, <1>5 DEF ToldIn
  <2> QED BY <2>1, <2>2, <2>3
<1> DEFINE w == views'
<1>11. OneEach(w) /\ OneEach(views) /\ DOMAIN w = DOMAIN views
  BY <1>6 DEF OneEach, ViewInv
<1>12. ASSUME NEW o \in OBJIds
       PROVE  /\ owed'[o].ios = IOsIn(InOf(w, o)) + Pending(o, resolving, answers', buffers')
              /\ owed'[o].usec = TimeIn(InOf(w, o))
              /\ owed'[o] \in [ios : Int, usec : Nat]
  <2> DEFINE p == ToldIn(o, resolving, buffers)  t == Told(o, BatchInfos)
  <2>1. Pending(o, resolving, answers, buffers) = p + 0
    BY <1>1 DEF Pending
  <2>2. Pending(o, resolving, answers', buffers') = p + t
    BY <1>3, <1>9, <1>10 DEF Pending
  <2>3. p \in Nat
    BY <1>2, TalkParts, ToldInNat
  <2>4. t \in Nat
    BY <1>4, ToldNat
  <2>5. /\ owed[o].ios = IOsIn(InOf(views, o)) + (p + 0) /\ owed[o].usec = TimeIn(InOf(views, o))
        /\ owed[o] \in [ios : Int, usec : Nat]
    BY <2>1 DEF CountInv
  <2>6. CASE \E k \in Range(Batch) : k[2] = o
    <3>1. PICK k \in Range(Batch) : k[2] = o
      BY <2>6
    <3>2. t = IOsIn(views[k])
      BY <3>1, ToldOfBatch
    <3>3. InOf(views, o) = views[k]
      BY <3>1, <1>8, <1>11, InOfIs
    <3>4. k \in DOMAIN w /\ w[k] = NewView
      BY <3>1, <1>6, <1>8
    <3> HIDE DEF w, p, t
    <3>5. InOf(w, o) = NewView
      BY <3>1, <3>4, <1>11, InOfIs
    <3>6. owed'[o] = [owed[o] EXCEPT !.usec = 0]
      BY <1>7, <2>6
    <3>7. owed'[o].ios = owed[o].ios /\ owed'[o].usec = 0 /\ owed'[o] \in [ios : Int, usec : Nat]
      BY <2>5, <3>6
    <3> QED BY <2>2, <2>3, <2>4, <2>5, <3>2, <3>3, <3>5, <3>7, NewViewIs
  <2>7. CASE ~ \E k \in Range(Batch) : k[2] = o
    <3>1. t = 0
      BY <2>7, ToldOfBatch
    <3>2. \A k : k[2] = o => (k \in DOMAIN w <=> k \in DOMAIN views) /\ (k \in DOMAIN w => w[k] = views[k])
      BY <1>6, <2>7
    <3> HIDE DEF w, p, t
    <3>3. InOf(w, o) = InOf(views, o)
      BY <1>11, <3>2, InOfSame
    <3>4. owed'[o] = owed[o]
      BY <1>7, <2>7
    <3> QED BY <2>2, <2>5, <3>1, <3>3, <3>4
  <2> QED BY <2>6, <2>7
<1>13. owed' \in [OBJIds -> [ios : Int, usec : Nat]]
  BY <1>7, <1>12
<1> QED BY <1>1, <1>5, <1>12, <1>13 DEF CountInv

LEMMA CollectTalk ==
    ASSUME ViewInv, WalkInv, CountInv, TalkInv, CollectIO
    PROVE  TalkInv' /\ frozen'
<1>1. learning /\ frozen /\ Asked /\ (resolving = None \/ Reading(TRUE, 3 - free))
  BY CollectIs, WhenAsked
<1>2. Reply \in Replies /\ Reply.buffer = free /\ answers' = <<Reply>> /\ free' = 3 - free /\ free \in 1 .. 2
  BY ReplyIs DEF CountInv
<1>3. UNCHANGED <<learning, frozen, resolving>>
  BY CollectIs DEF serveFrame, genVars
<1>4. toHub' = <<>>
  BY <1>1, CollectIs DEF Requested, Asked
<1>5. 3 - free' = free
  BY <1>2
<1>6. Answered'
  BY <1>2, <1>4, <1>5 DEF Answered
<1>7. Reading(TRUE, 3 - free) => Reading(TRUE, free)'
  BY <1>2, <1>3 DEF Reading
<1>8. (resolving = None)' <=> resolving = None
  BY <1>3
<1> QED BY <1>1, <1>3, <1>6, <1>7, <1>8 DEF TalkInv

LEMMA CollectFilled ==
    ASSUME ViewInv, WalkInv, CountInv, TalkInv, CollectIO
    PROVE  Filled'
<1>1. /\ answers'[1] = Reply /\ Reply.buffer = free /\ (Reply.ok <=> Batch # <<>>)
      /\ Reply.fragments = FragmentsSent(Len(Batch))
      /\ buffers' = [buffers EXCEPT ![free] = BatchInfos]
  BY ReplyIs
<1>2. buffers'[free] = BatchInfos
  BY <1>1 DEF CountInv
<1>3. Len(BatchInfos) = Len(Batch) /\ Batch \in Seq(DOMAIN views) /\ Len(Batch) <= Room
  BY InfosAre, BatchIs
<1> DEFINE n == Len(Batch)
<1>4. Batch # <<>> => n \in Nat /\ n > 0
  BY <1>3
<1> HIDE DEF n
<1>5. Batch # <<>> => /\ n > FragmentSize * (FragmentsSent(n) - 1)
                      /\ n <= FragmentSize * FragmentsSent(n)
  BY <1>3, <1>4, FragmentsFit DEF n
<1> QED BY <1>1, <1>2, <1>3, <1>5 DEF Filled, n

--------------------------------------------------------------------------------
(* The other steps.                                                            *)

LEMMA PrepareTalk == ASSUME TalkInv, PrepareIO PROVE TalkInv'
<1>1. toHub # <<>> /\ Head(toHub) = "prepare" /\ toHub' = Tail(toHub)
      /\ frozen' = TRUE /\ UNCHANGED <<free, answers, resolving, learning>>
  BY DEF PrepareIO, Requested, serveFrame, genVars
<1>2. toHub # <<"post">> /\ toHub # <<"collect">> /\ toHub # <<"post", "prepare", "collect">>
  BY <1>1
<1>3. learning /\ toHub = <<"prepare", "collect">> /\ answers = <<>> /\ resolving = None
  BY <1>1, <1>2 DEF TalkInv, Asked, Answered, NoneAsked
<1>4. toHub' = <<"collect">>
  BY <1>1, <1>3
<1> QED BY <1>1, <1>3, <1>4 DEF TalkInv, Asked

LEMMA PrepareWalk == ASSUME ViewInv, PrepareIO PROVE WalkInv'
<1> DEFINE D == DOMAIN views
<1>1. /\ toCollect' = Cardinality(D) /\ collected' = 0 /\ sent' = <<>> /\ DOMAIN views' = D
      /\ InvolvedKeys' = InvolvedKeys
  BY DEF PrepareIO, OBJCnt, serveFrame, InvolvedKeys
<1>2. Start' = [pool |-> 0, keys |-> <<>>]
  BY <1>1 DEF Start
<1>3. \A k \in InvolvedKeys : PoolOfKey(k) \in Nat /\ PoolOfKey(k) > 0
  BY KeyFacts, PoolsAreNat DEF InvolvedKeys
<1>4. {k \in InvolvedKeys : PoolOfKey(k) <= 0} = {}
  BY <1>3
<1> DEFINE none == <<>> \o <<>>
<1>5. none = <<>>
  OBVIOUS
<1>6. Range(none) = {} /\ Sorted(none)
  BY <1>5 DEF Range, Sorted
<1>7. (sent \o Start.keys)' = none
  BY <1>1, <1>2
<1>8. <<>> \in Seq(D) /\ Len(<<>>) = 0 /\ 0 \in Nat
  OBVIOUS
<1>9. Start.keys' = <<>> /\ Start.pool' = 0
  BY <1>2
<1> HIDE DEF none, D
<1> QED BY <1>1, <1>4, <1>6, <1>7, <1>8, <1>9 DEF WalkInv

LEMMA PostTalk == ASSUME TalkInv, PostIO PROVE TalkInv'
<1>1. toHub # <<>> /\ Head(toHub) = "post" /\ toHub' = Tail(toHub)
      /\ UNCHANGED <<free, answers, resolving, learning>>
  BY DEF PostIO, Requested, serveFrame, genVars
<1>2. toHub # <<"prepare", "collect">> /\ toHub # <<"collect">>
  BY <1>1
<1>3. /\ answers = <<>> /\ resolving = None
      /\ toHub = <<"post">> \/ (learning /\ toHub = <<"post", "prepare", "collect">>)
  BY <1>1, <1>2 DEF TalkInv, Asked, Answered, NoneAsked
<1>4. toHub' = <<>> \/ (learning /\ toHub' = <<"prepare", "collect">>)
  <2>1. Tail(<<"post">>) = <<>>
    OBVIOUS
  <2>2. Tail(<<"post", "prepare", "collect">>) = <<"prepare", "collect">>
    OBVIOUS
  <2> QED BY <2>1, <2>2, <1>1, <1>3, Zenon
<1> QED BY <1>1, <1>3, <1>4 DEF TalkInv

\* A sequence of three is made of one and two.
LEMMA OneAndTwo == ASSUME NEW a, NEW b, NEW c PROVE <<a>> \o <<b, c>> = <<a, b, c>>
<1> DEFINE S == {a, b, c}  s == <<a>>  t == <<b, c>>  u == s \o t  v == <<a, b, c>>
<1>1. s \in Seq(S) /\ t \in Seq(S) /\ v \in Seq(S)
  OBVIOUS
<1>2. Len(s) = 1 /\ Len(t) = 2 /\ Len(v) = 3
  OBVIOUS
<1>3. s[1] = a /\ t[1] = b /\ t[2] = c /\ v[1] = a /\ v[2] = b /\ v[3] = c
  OBVIOUS
<1> HIDE DEF s, t, v, S
<1>4. /\ u \in Seq(S) /\ Len(u) = Len(s) + Len(t)
      /\ \A i \in 1 .. Len(s) + Len(t) : u[i] = IF i <= Len(s) THEN s[i] ELSE t[i - Len(s)]
  BY <1>1, ConcatProperties
<1> HIDE DEF u
<1>5. Len(u) = 3 /\ u[1] = a /\ u[2] = b /\ u[3] = c
  BY <1>2, <1>3, <1>4
<1>6. \A i \in 1 .. 3 : u[i] = v[i]
  BY <1>3, <1>5
<1>7. u = v
  BY <1>1, <1>2, <1>4, <1>5, <1>6, SeqEqual
<1> QED BY <1>7 DEF u, v, s, t

LEMMA StartTalk == ASSUME TalkInv, StartCollecting PROVE TalkInv'
<1>1. ~ learning /\ resolving = None /\ learning' = TRUE /\ toHub' = toHub \o <<"prepare", "collect">>
      /\ UNCHANGED <<free, answers, resolving>>
  BY DEF StartCollecting, genFrame, walkVars
<1>2. answers = <<>> /\ toHub \in {<<>>, <<"post">>}
  BY <1>1 DEF TalkInv
<1>3. toHub' \in {<<"prepare", "collect">>, <<"post", "prepare", "collect">>}
  <2>1. <<>> \o <<"prepare", "collect">> = <<"prepare", "collect">>
    OBVIOUS
  <2>2. <<"post">> \o <<"prepare", "collect">> = <<"post", "prepare", "collect">>
    BY OneAndTwo
  <2> QED BY <2>1, <2>2, <1>1, <1>2, Zenon
<1> QED BY <1>1, <1>2, <1>3 DEF TalkInv

\* An answer is taken: nothing else is on its way.
LEMMA WhenTaken ==
    ASSUME TalkInv, TakeAnswer
    PROVE  /\ learning /\ frozen /\ toHub = <<>> /\ resolving = None
           /\ \E a \in Replies : /\ answers = <<a>> /\ Head(answers) = a /\ a.buffer = 3 - free
                                 /\ answers[1] = a
           /\ answers' = <<>>
<1>1. answers # <<>> /\ resolving = None /\ answers' = Tail(answers)
  BY DEF TakeAnswer
<1>2. learning /\ frozen /\ Answered
  BY <1>1 DEF TalkInv, Asked, NoneAsked
<1>3. PICK a \in Replies : answers = <<a>> /\ a.buffer = 3 - free
  BY <1>2 DEF Answered
<1>4. answers' = <<>> /\ Head(answers) = a /\ answers[1] = a
  BY <1>1, <1>3
<1> QED BY <1>1, <1>2, <1>3, <1>4 DEF Answered

LEMMA TakeTalk == ASSUME TalkInv, TakeAnswer PROVE TalkInv'
<1>1. learning /\ frozen /\ toHub = <<>> /\ resolving = None /\ answers' = <<>>
  BY WhenTaken
<1>2. PICK a \in Replies : Head(answers) = a /\ a.buffer = 3 - free
  BY WhenTaken
<1>3. UNCHANGED <<learning, frozen, free>>
  BY DEF TakeAnswer, genFrame, walkVars
<1>4. CASE a.ok
  <2>1. resolving' = a /\ toHub' = IF a.more THEN Append(toHub, "collect") ELSE toHub
    BY <1>2, <1>4 DEF TakeAnswer
  <2>2. CASE a.more
    <3>1. toHub' = <<"collect">>
      BY <1>1, <2>1, <2>2
    <3>2. Reading(TRUE, 3 - free)'
      BY <1>2, <1>3, <1>4, <2>1, <2>2 DEF Reading, Replies
    <3> QED BY <1>1, <1>3, <3>1, <3>2 DEF TalkInv, Asked
  <2>3. CASE ~ a.more
    <3>1. toHub' = <<>>
      BY <1>1, <2>1, <2>3
    <3>2. Reading(FALSE, 3 - free)'
      BY <1>2, <1>3, <1>4, <2>1, <2>3 DEF Reading, Replies
    <3> QED BY <1>1, <1>3, <3>1, <3>2 DEF TalkInv, NoneAsked
  <2> QED BY <2>2, <2>3
<1>5. CASE ~ a.ok
  <2>1. resolving' = None /\ toHub' = Append(toHub, "post")
    BY <1>1, <1>2, <1>5 DEF TakeAnswer
  <2>2. toHub' = <<"post">>
    BY <1>1, <2>1
  <2> QED BY <1>1, <2>1, <2>2 DEF TalkInv
<1> QED BY <1>4, <1>5

LEMMA TakeCounts == ASSUME ViewInv, TalkInv, CountInv, TakeAnswer PROVE CountInv'
<1>1. resolving = None /\ answers' = <<>>
  BY WhenTaken
<1>2. PICK a \in Replies : Head(answers) = a /\ answers = <<a>> /\ answers[1] = a
  BY WhenTaken
<1>3. UNCHANGED <<views, owed, buffers, free>>
  BY DEF TakeAnswer, genFrame, viewVars, walkVars
<1>4. IF a.ok THEN resolving' = a ELSE resolving' = None
  BY <1>1, <1>2 DEF TakeAnswer
<1>5. ASSUME NEW o
      PROVE  Pending(o, resolving', answers', buffers') = Pending(o, resolving, answers, buffers)
  <2>1. ToldIn(o, a, buffers) \in Nat
    BY ToldInNat DEF CountInv
  <2>2. ToldIn(o, None, buffers) = 0
    BY DEF ToldIn, None
  <2>3. Pending(o, resolving, answers, buffers) = 0 + ToldIn(o, a, buffers)
    BY <1>1, <1>2, <2>2 DEF Pending
  <2>4. Pending(o, resolving', answers', buffers') = ToldIn(o, resolving', buffers) + 0
    BY <1>1, <1>3 DEF Pending
  <2>5. ToldIn(o, resolving', buffers) = ToldIn(o, a, buffers)
    <3>1. CASE a.ok
      BY <3>1, <1>4
    <3>2. CASE ~ a.ok
      BY <3>2, <1>4, <2>2 DEF ToldIn
    <3> QED BY <3>1, <3>2
  <2> QED BY <2>1, <2>3, <2>4, <2>5
<1>6. views' = views /\ owed' = owed /\ buffers' = buffers /\ free' = free
  BY <1>3
<1> QED BY <1>5, <1>6 DEF CountInv

\* What is resolved is counted as told.
LEMMA ResolveCounts == ASSUME ViewInv, TalkInv, CountInv, ResolveAnswer PROVE CountInv'
<1>1. /\ resolving # None /\ resolving' = None /\ UNCHANGED <<views, buffers, free, answers>>
      /\ owed' = [o \in OBJIds |-> [owed[o] EXCEPT !.ios = @ - Told(o, buffers[resolving.buffer])]]
  BY DEF ResolveAnswer, genFrame, viewVars, walkVars
<1>2. resolving \in Replies /\ resolving.ok
  BY <1>1, TalkParts
<1>3. ASSUME NEW o \in OBJIds
      PROVE  /\ owed'[o].ios = IOsIn(InOf(views, o)) + Pending(o, None, answers, buffers)
             /\ owed'[o].usec = TimeIn(InOf(views, o))
             /\ owed'[o] \in [ios : Int, usec : Nat]
  <2> DEFINE t == Told(o, buffers[resolving.buffer])  v == IOsIn(InOf(views, o))
             q == IF answers = <<>> THEN 0 ELSE ToldIn(o, answers[1], buffers)
  <2>1. t \in Nat
    <3>1. resolving.buffer \in 1 .. 2
      BY <1>2 DEF Replies
    <3>2. buffers[resolving.buffer] \in Seq(Infos)
      BY <3>1 DEF CountInv
    <3> QED BY <3>2, ToldNat
  <2>2. q \in Nat
    BY TalkParts, ToldInNat DEF CountInv
  <2>3. v \in Nat
    BY InOfType, ViewParts
  <2>4. Pending(o, resolving, answers, buffers) = t + q
    BY <1>2 DEF Pending, ToldIn
  <2>5. Pending(o, None, answers, buffers) = 0 + q
    BY DEF Pending, ToldIn, None
  <2>6. /\ owed[o] \in [ios : Int, usec : Nat] /\ owed[o].ios = v + (t + q)
        /\ owed[o].usec = TimeIn(InOf(views, o))
    BY <2>4 DEF CountInv
  <2> HIDE DEF t, v, q
  <2>7. owed'[o] = [owed[o] EXCEPT !.ios = @ - t]
    BY <1>1 DEF t
  <2>8. /\ owed'[o].ios = owed[o].ios - t /\ owed'[o].usec = owed[o].usec
        /\ owed'[o] \in [ios : Int, usec : Nat]
    BY <2>1, <2>6, <2>7
  <2> QED BY <2>1, <2>2, <2>3, <2>5, <2>6, <2>8 DEF v
<1>4. owed' \in [OBJIds -> [ios : Int, usec : Nat]]
  BY <1>1, <1>3
<1>5. views' = views /\ answers' = answers /\ buffers' = buffers /\ free' = free
  BY <1>1
<1> QED BY <1>1, <1>3, <1>4, <1>5 DEF CountInv

LEMMA ResolveTalk == ASSUME TalkInv, ResolveAnswer, failed \in Nat, failed' = 0 PROVE TalkInv'
<1>1. resolving # None /\ resolving' = None /\ UNCHANGED <<free, answers, frozen>>
  BY DEF ResolveAnswer, genFrame, walkVars
<1>2. toHub' = (IF resolving.more THEN toHub ELSE Append(toHub, "post")) /\ learning' = resolving.more
  BY DEF ResolveAnswer
<1>3. CASE learning /\ frozen /\ Asked /\ Reading(TRUE, 3 - free)
  <2>1. toHub' = toHub /\ learning'
    BY <1>2, <1>3 DEF Reading
  <2> QED BY <1>1, <1>3, <2>1 DEF TalkInv, Asked
<1>4. CASE learning /\ frozen /\ Answered /\ Reading(TRUE, free)
  <2>1. toHub' = toHub /\ learning'
    BY <1>2, <1>4 DEF Reading
  <2>2. Answered'
    BY <1>1, <1>4, <2>1 DEF Answered
  <2> QED BY <1>1, <1>4, <2>1, <2>2 DEF TalkInv
<1>5. CASE learning /\ frozen /\ NoneAsked /\ Reading(FALSE, 3 - free)
  <2>1. toHub' = <<"post">> /\ answers = <<>>
    BY <1>2, <1>5 DEF Reading, NoneAsked
  <2> QED BY <1>1, <2>1 DEF TalkInv
<1> QED BY <1>1, <1>3, <1>4, <1>5 DEF TalkInv

LEMMA WalkKept ==
    ASSUME WalkInv, DOMAIN views' = DOMAIN views, UNCHANGED <<walkVars, scheduled, steady>> PROVE WalkInv'
<1>1. /\ sent' = sent /\ Start' = Start /\ collected' = collected /\ toCollect' = toCollect
      /\ InvolvedKeys' = InvolvedKeys /\ steady' = steady
  BY DEF walkVars, Start, InvolvedKeys
<1> QED BY <1>1 DEF WalkInv

\* The walk needs not be complete when the schedule changes.
LEMMA WalkUnsteady ==
    ASSUME WalkInv, UNCHANGED <<walkVars, views>>, steady' = FALSE PROVE WalkInv'
<1>1. /\ sent' = sent /\ Start' = Start /\ collected' = collected /\ toCollect' = toCollect /\ views' = views
  BY DEF walkVars, Start
<1> QED BY <1>1 DEF WalkInv

LEMMA TalkKept ==
    ASSUME TalkInv, UNCHANGED <<toHub, answers, resolving, learning, frozen, free>> PROVE TalkInv'
  BY DEF TalkInv, Asked, Answered, NoneAsked, Reading

LEMMA FilledKept == ASSUME Filled, UNCHANGED <<answers, buffers>> PROVE Filled'
  BY DEF Filled

--------------------------------------------------------------------------------
(* What the answers tell of an OBJ.                                            *)

ToldBy(o, as) ==
    FoldSeq(LAMBDA a, sum : (IF a.ok THEN Told(o, buffers[a.buffer]) ELSE 0) + sum, 0, as)

\* No answer tells nothing, and one answer what it holds.
LEMMA ToldByOne ==
    ASSUME NEW o, NEW as, NEW n \in Nat, n <= 1, DOMAIN as = 1 .. n,
           \A i \in 1 .. n : ToldIn(o, as[i], buffers) \in Nat
    PROVE  ToldBy(o, as) = IF n = 0 THEN 0 ELSE ToldIn(o, as[1], buffers)
<1> DEFINE D == DOMAIN as
           f == [i \in D |-> ToldIn(o, as[i], buffers)]
           Part(g, s) == IF s = {} THEN 0
                         ELSE (IF as[First(s)].ok THEN Told(o, buffers[as[First(s)].buffer]) ELSE 0)
                              + g[s \ {First(s)}]
           iter == CHOOSE g : g = [s \in SUBSET D |-> Part(g, s)]
<1>1. ToldBy(o, as) = iter[D]
  BY Zenon DEF ToldBy, FoldSeq, FoldFunction, FoldFunctionOnSet, MapThenFoldSet, First
<1>2. IsFiniteSet(D) /\ \A x \in D : f[x] \in Nat
  <2>1. IsFiniteSet(1 .. n)
    BY FS_Interval
  <2>2. \A x \in D : f[x] = ToldIn(o, as[x], buffers)
    OBVIOUS
  <2> HIDE DEF f
  <2> QED BY <2>1, <2>2
<1>3. PICK g : Sums(f, D, g)
  BY <1>2, SumsExist
<1>4. \A k : \A s \in SUBSET D : Part(k, s) = Step(f, k, s)
  BY FirstIn DEF Step, ToldIn
<1>5. \A k : [s \in SUBSET D |-> Part(k, s)] = [s \in SUBSET D |-> Step(f, k, s)]
  BY <1>4
<1>6. f = [i \in D |-> ToldIn(o, as[i], buffers)]
  OBVIOUS
<1> HIDE DEF f, Part
<1>7. g = [s \in SUBSET D |-> Part(g, s)]
  BY <1>3, <1>5 DEF Sums
<1>8. iter = [s \in SUBSET D |-> Part(iter, s)]
  BY <1>7, Zenon
<1> HIDE DEF iter
<1>9. Sums(f, D, iter)
  BY <1>5, <1>8 DEF Sums
<1>10. \A s \in SUBSET D : iter[s] = Step(f, iter, s)
  BY <1>9 DEF Sums
<1>11. iter[{}] = 0
  BY <1>10 DEF Step
<1>12. CASE n = 0
  BY <1>1, <1>11, <1>12
<1>13. CASE n = 1
  <2>1. D = {1} /\ First(D) = 1 /\ D \ {First(D)} = {}
    BY <1>13, FirstIn
  <2>2. iter[D] = f[1] + 0
    BY <1>10, <1>11, <2>1 DEF Step
  <2>3. f[1] = ToldIn(o, as[1], buffers) /\ f[1] \in Nat
    BY <1>2, <1>6, <2>1
  <2> DEFINE x == f[1]  y == iter[D]
  <2> HIDE DEF D, x, y
  <2>4. x \in Nat /\ y = x + 0
    BY <2>2, <2>3 DEF x, y
  <2>5. y = x
    BY <2>4
  <2> QED BY <1>1, <1>13, <2>3, <2>5 DEF x, y
<1>14. n = 0 \/ n = 1
  OBVIOUS
<1> QED BY <1>12, <1>13, <1>14, Zenon

\* What is in the answers, as the invariant counts it.
LEMMA InAnswersAre ==
    ASSUME CountInv, TalkInv, NEW o
    PROVE  InAnswers(o) = Pending(o, resolving, answers, buffers)
<1>1. InAnswers(o) = ToldIn(o, resolving, buffers) + ToldBy(o, answers)
  BY Zenon DEF InAnswers, ToldIn, ToldBy
<1>2. CASE answers = <<>>
  <2>1. DOMAIN answers = 1 .. 0
    BY <1>2
  <2>2. ToldBy(o, answers) = 0
    BY <2>1, ToldByOne
  <2> QED BY <1>1, <1>2, <2>2 DEF Pending
<1>3. ASSUME NEW a \in Replies, answers = <<a>>, answers[1] = a
      PROVE  InAnswers(o) = Pending(o, resolving, answers, buffers)
  <2>1. DOMAIN answers = 1 .. 1 /\ answers # <<>>
    BY <1>3
  <2>2. ToldIn(o, a, buffers) \in Nat
    BY ToldInNat DEF CountInv
  <2>3. \A i \in 1 .. 1 : ToldIn(o, answers[i], buffers) \in Nat
    BY <1>3, <2>2
  <2>4. ToldBy(o, answers) = IF 1 = 0 THEN 0 ELSE ToldIn(o, answers[1], buffers)
    <3>1. 1 \in Nat /\ 1 <= 1
      OBVIOUS
    <3> QED BY ONLY <2>1, <2>3, <3>1, ToldByOne
  <2> QED BY <1>1, <2>1, <2>4 DEF Pending
<1> QED BY <1>2, <1>3, TalkParts

--------------------------------------------------------------------------------
(* Every step.                                                                 *)

LEMMA InitHub == ViewsInit => HubInv
<1> SUFFICES ASSUME ViewsInit PROVE HubInv
  OBVIOUS
<1>1. ViewInv
  <2>1. diskIds \subseteq DiskKeys /\ scheduled \subseteq Pools /\ DOMAIN views = InitialOBJs
        /\ \A k \in DOMAIN views : views[k] = NewView
    BY ViewsAssumption DEF ViewsInit
  <2>2. views \in [DOMAIN views -> OBJViews]
    BY NewViewIs DEF ViewsInit
  <2>3. IsFiniteSet(DOMAIN views) /\ \A k, l \in DOMAIN views : k[2] = l[2] => k = l
    BY <2>1, ViewsAssumption
  <2>4. \A k \in DOMAIN views : k \in OBJKeys /\ k[1] \in diskIds
    BY <2>1, ViewsAssumption DEF ViewsInit, OBJKeys
  <2> QED BY <2>1, <2>2, <2>3, <2>4 DEF ViewInv
<1>2. TalkInv /\ Filled /\ ~ frozen /\ failed = 0
  BY DEF ViewsInit, TalkInv, Filled
<1>3. CountInv
  <2>1. buffers \in [1 .. 2 -> Seq(Infos)] /\ free \in 1 .. 2
    BY DEF ViewsInit
  <2>2. owed \in [OBJIds -> [ios : Int, usec : Nat]]
    BY DEF ViewsInit
  <2>3. ASSUME NEW o \in OBJIds
        PROVE  /\ owed[o].ios = IOsIn(InOf(views, o)) + Pending(o, resolving, answers, buffers)
               /\ owed[o].usec = TimeIn(InOf(views, o))
    <3>1. InOf(views, o) = NewView
      <4>1. \A k \in DOMAIN views : views[k] = NewView
        BY DEF ViewsInit
      <4>2. CASE \E k \in DOMAIN views : k[2] = o
        <5>1. PICK k \in DOMAIN views : k[2] = o
          BY <4>2
        <5>2. InOf(views, k[2]) = views[k]
          BY <1>1, InOfIs DEF ViewInv, OneEach
        <5> QED BY <4>1, <5>1, <5>2
      <4>3. CASE ~ \E k \in DOMAIN views : k[2] = o
        BY <4>3, InOfNone
      <4> QED BY <4>2, <4>3
    <3>2. Pending(o, resolving, answers, buffers) = 0
      BY DEF Pending, ToldIn, None, ViewsInit
    <3>3. owed[o].ios = 0 /\ owed[o].usec = 0
      BY DEF ViewsInit
    <3> QED BY <3>1, <3>2, <3>3, NewViewIs
  <2> QED BY <2>1, <2>2, <2>3 DEF CountInv
<1> QED BY <1>1, <1>2, <1>3 DEF HubInv, Whole

\* A step that leaves the views, the counts and the talk alone.
LEMMA SameViews ==
    ASSUME ViewInv, UNCHANGED <<diskIds, views, scheduled>> PROVE ViewInv'
  BY DEF ViewInv

LEMMA SameCounts ==
    ASSUME CountInv, UNCHANGED <<owed, buffers, free, answers, resolving, views>> PROVE CountInv'
<1>1. /\ owed' = owed /\ buffers' = buffers /\ free' = free /\ answers' = answers
      /\ resolving' = resolving /\ views' = views
  OBVIOUS
<1> QED BY <1>1 DEF CountInv

\* A change of the views while no collection is going on.
LEMMA ChangeKeeps ==
    ASSUME Whole, Changes, ViewInv', CountInv', UNCHANGED viewFrame, ~ frozen PROVE Whole'
<1>1. ~ frozen' /\ UNCHANGED <<toHub, answers, resolving, learning, frozen, free, buffers>>
  BY DEF viewFrame, walkVars, genVars
<1>2. TalkInv' /\ Filled'
  BY <1>1, TalkKept, FilledKept DEF Whole
<1> QED BY <1>1, <1>2 DEF Whole

\* Changes of the configuration happen between collections.
LEMMA ChangesKeep == ASSUME Whole, Changes PROVE Whole'
<1>0. ViewInv /\ TalkInv /\ CountInv /\ Filled
  BY DEF Whole
<1>1. ASSUME NEW d \in DiskKeys, AddDisk(d) PROVE Whole'
  <2>1. ~ frozen /\ UNCHANGED <<views, owed, viewFrame>>
    BY <1>1 DEF AddDisk
  <2>2. ViewInv'
    BY <1>0, <1>1, AddDiskViews
  <2>3. CountInv'
    BY <1>0, <2>1, SameCounts DEF viewFrame, walkVars, genVars
  <2> QED BY <2>1, <2>2, <2>3, ChangeKeeps
<1>2. ASSUME NEW d \in DiskKeys, RemoveDisk(d) PROVE Whole'
  <2>1. ~ frozen /\ UNCHANGED <<views, owed, diskIds, scheduled, viewFrame>>
    BY <1>2 DEF RemoveDisk
  <2>2. ViewInv'
    BY <1>0, <2>1, SameViews
  <2>3. CountInv'
    BY <1>0, <2>1, SameCounts DEF viewFrame, walkVars, genVars
  <2> QED BY <2>1, <2>2, <2>3, ChangeKeeps
<1>3. ASSUME NEW key \in OBJKeys, AddOBJ(key) PROVE Whole'
  <2>1. ~ frozen /\ UNCHANGED viewFrame
    BY <1>3 DEF AddOBJ
  <2>2. ViewInv' /\ CountInv'
    BY <1>0, <1>3, AddOBJViews
  <2> QED BY <2>1, <2>2, ChangeKeeps
<1>4. ASSUME NEW key \in OBJKeys, DeleteOBJ(key) PROVE Whole'
  <2>1. ~ frozen /\ UNCHANGED viewFrame
    BY <1>4 DEF DeleteOBJ
  <2>2. ViewInv' /\ CountInv'
    BY <1>0, <1>4, DeleteOBJViews
  <2> QED BY <2>1, <2>2, ChangeKeeps
<1>5. ASSUME NEW key \in OBJKeys, NEW d \in DiskKeys, CompleteMigrate(key, d) PROVE Whole'
  <2>1. ~ frozen /\ UNCHANGED viewFrame
    BY <1>5 DEF CompleteMigrate
  <2>2. ViewInv' /\ CountInv'
    BY <1>0, <1>5, MigrateViews
  <2> QED BY <2>1, <2>2, ChangeKeeps
<1>6. ASSUME NEW p \in Pools, Reschedule(p) PROVE Whole'
  <2>1. /\ UNCHANGED <<viewVars, walkVars, genVars, toHub, answers, owed>> /\ steady' = FALSE
        /\ scheduled' = IF p \in scheduled THEN scheduled \ {p} ELSE scheduled \cup {p}
    BY <1>6 DEF Reschedule
  <2>2. ViewInv'
    BY <1>0, <2>1 DEF ViewInv, viewVars
  <2>3. CountInv' /\ TalkInv' /\ Filled'
    BY <1>0, <2>1, SameCounts, TalkKept, FilledKept DEF viewVars, walkVars, genVars
  <2>4. WalkInv => WalkInv'
    BY <2>1, WalkUnsteady DEF viewVars
  <2>5. frozen' = frozen
    BY <2>1 DEF walkVars
  <2> QED BY <2>2, <2>3, <2>4, <2>5 DEF Whole
<1> QED BY <1>1, <1>2, <1>3, <1>4, <1>5, <1>6 DEF Changes

\* A step after which no resolution failed keeps everything.
LEMMA StepKeeps == ASSUME HubInv, ViewsNext, failed' = 0, failed = 0 PROVE Whole'
<1>0. Whole /\ ViewInv /\ TalkInv /\ CountInv /\ Filled /\ (frozen => WalkInv) /\ failed \in Nat
  BY DEF HubInv, Whole
<1>1. CASE Changes
  BY <1>0, <1>1, ChangesKeep
<1>2. ASSUME NEW key \in OBJKeys, NEW access \in IOs, AccessOBJ(key, access) PROVE Whole'
  <2>1. ViewInv' /\ CountInv' /\ DOMAIN views' = DOMAIN views
    BY <1>0, <1>2, AccessViews
  <2>2. UNCHANGED <<scheduled, walkVars, genVars, toHub, answers, steady>>
    BY <1>2 DEF AccessOBJ
  <2>3. TalkInv' /\ Filled'
    BY <1>0, <2>2, TalkKept, FilledKept DEF walkVars, genVars
  <2>4. WalkInv => WalkInv'
    BY <2>1, <2>2, WalkKept
  <2>5. frozen' = frozen
    BY <2>2 DEF walkVars
  <2> QED BY <1>0, <2>1, <2>3, <2>4, <2>5 DEF Whole
<1>3. CASE PrepareIO
  <2>1. UNCHANGED <<views, buffers, free, answers, owed, serveFrame>>
    BY <1>3 DEF PrepareIO
  <2>2. ViewInv' /\ CountInv' /\ Filled'
    BY <1>0, <2>1, SameViews, SameCounts, FilledKept DEF serveFrame, genVars
  <2> QED BY <1>0, <1>3, <2>2, PrepareTalk, PrepareWalk DEF Whole
<1>4. CASE CollectIO
  <2>1. WalkInv
    BY <1>0, <1>4, CollectIs, WhenAsked
  <2> QED BY <1>0, <1>4, <2>1, CollectViews, CollectWalk, CollectTalk, CollectCounts,
             CollectFilled
          DEF Whole
<1>5. CASE PostIO
  <2>1. frozen' = FALSE /\ UNCHANGED <<views, buffers, free, answers, owed, serveFrame>>
    BY <1>5 DEF PostIO
  <2>2. ViewInv' /\ CountInv' /\ Filled'
    BY <1>0, <2>1, SameViews, SameCounts, FilledKept DEF serveFrame, genVars
  <2> QED BY <1>0, <1>5, <2>1, <2>2, PostTalk DEF Whole
<1>6. CASE StartCollecting
  <2>1. UNCHANGED <<genFrame, resolving, answers, owed>>
    BY <1>6 DEF StartCollecting
  <2>2. ViewInv' /\ CountInv' /\ Filled'
    BY <1>0, <2>1, SameViews, SameCounts, FilledKept DEF genFrame, viewVars, walkVars
  <2>3. WalkInv => WalkInv'
    BY <2>1, WalkKept DEF genFrame, viewVars
  <2>4. frozen' = frozen
    BY <2>1 DEF genFrame, walkVars
  <2> QED BY <1>0, <1>6, <2>2, <2>3, <2>4, StartTalk DEF Whole
<1>7. CASE TakeAnswer
  <2>1. UNCHANGED genFrame
    BY <1>7 DEF TakeAnswer
  <2>2. ViewInv' /\ (WalkInv => WalkInv')
    BY <1>0, <2>1, SameViews, WalkKept DEF genFrame, viewVars
  <2>3. CountInv' /\ TalkInv'
    BY <1>0, <1>7, TakeCounts, TakeTalk
  <2>4. Filled'
    BY <1>0, <1>7, WhenTaken DEF Filled
  <2>5. frozen' = frozen
    BY <2>1 DEF genFrame, walkVars
  <2> QED BY <1>0, <2>2, <2>3, <2>4, <2>5 DEF Whole
<1>8. CASE ResolveAnswer
  <2>1. UNCHANGED <<genFrame, answers>>
    BY <1>8 DEF ResolveAnswer
  <2>2. ViewInv' /\ (WalkInv => WalkInv') /\ Filled'
    BY <1>0, <2>1, SameViews, WalkKept, FilledKept DEF genFrame, viewVars, walkVars
  <2>3. CountInv' /\ TalkInv'
    BY <1>0, <1>8, ResolveCounts, ResolveTalk
  <2>4. frozen' = frozen
    BY <2>1 DEF genFrame, walkVars
  <2> QED BY <1>0, <2>2, <2>3, <2>4 DEF Whole
<1> QED BY <1>1, <1>2, <1>3, <1>4, <1>5, <1>6, <1>7, <1>8 DEF ViewsNext

\* What failed stays failed.
LEMMA FailedGrows ==
    ASSUME failed \in Nat, [ViewsNext]_vars
    PROVE  failed' \in Nat /\ (failed' = 0 => failed = 0)
<1>1. CASE Changes
  <2>1. failed' = failed
    BY <1>1
       DEF Changes, AddDisk, RemoveDisk, AddOBJ, DeleteOBJ, CompleteMigrate, Reschedule,
           viewFrame, genVars
  <2> QED BY <2>1
<1>2. CASE \E key \in OBJKeys, access \in IOs : AccessOBJ(key, access)
  <2>1. failed' = failed
    BY <1>2 DEF AccessOBJ, genVars
  <2> QED BY <2>1
<1>3. CASE PrepareIO \/ CollectIO \/ PostIO
  <2>1. UNCHANGED serveFrame
    BY <1>3, CollectIs DEF PrepareIO, PostIO
  <2> QED BY <2>1 DEF serveFrame, genVars
<1>4. CASE StartCollecting \/ TakeAnswer
  BY <1>4 DEF StartCollecting, TakeAnswer
<1>5. CASE ResolveAnswer
  <2>1. failed' = failed \/ failed' = failed + 1
    BY <1>5 DEF ResolveAnswer
  <2> QED BY <2>1
<1>6. CASE UNCHANGED vars
  BY <1>6 DEF vars, genVars
<1> QED BY <1>1, <1>2, <1>3, <1>4, <1>5, <1>6 DEF ViewsNext

LEMMA HubSame == ASSUME HubInv, UNCHANGED vars PROVE HubInv'
<1>1. /\ UNCHANGED <<diskIds, views, scheduled, walkVars, steady, owed, buffers, free, answers>>
      /\ UNCHANGED <<toHub, resolving, learning, frozen, failed>>
  BY DEF vars, viewVars, walkVars, genVars
<1>2. ASSUME Whole PROVE Whole'
  <2>1. ViewInv /\ (frozen => WalkInv) /\ TalkInv /\ CountInv /\ Filled
    BY <1>2 DEF Whole
  <2>2. ViewInv' /\ CountInv' /\ TalkInv' /\ Filled' /\ (WalkInv => WalkInv')
    BY <1>1, <2>1, SameViews, SameCounts, TalkKept, FilledKept, WalkKept
  <2> QED BY <1>1, <2>1, <2>2 DEF Whole
<1> QED BY <1>1, <1>2 DEF HubInv

LEMMA NextHub == HubInv /\ [ViewsNext]_vars => HubInv'
<1> SUFFICES ASSUME HubInv, [ViewsNext]_vars PROVE HubInv'
  OBVIOUS
<1>1. CASE ViewsNext
  <2>1. failed' \in Nat /\ (failed' = 0 => failed = 0)
    BY <1>1, FailedGrows DEF HubInv
  <2>2. ASSUME failed' = 0 PROVE Whole'
    BY <1>1, <2>1, <2>2, StepKeeps
  <2> QED BY <2>1, <2>2 DEF HubInv
<1>2. CASE UNCHANGED vars
  BY <1>2, HubSame
<1> QED BY <1>1, <1>2

LEMMA AlwaysHub == ViewsSpec => []HubInv
  BY InitHub, NextHub, PTL DEF ViewsSpec

\* While no resolution failed, IO and time are neither lost nor counted twice on
\* their way to AST, for every number of SubPools, disks, OBJs and fragments and
\* however accesses, changes, batches and resolution interleave.
THEOREM NothingIsForgottenUnlessFailed == ViewsSpec => [](failed = 0 => NothingIsForgotten)
<1>1. HubInv => (failed = 0 => NothingIsForgotten)
  <2> SUFFICES ASSUME HubInv, failed = 0 PROVE NothingIsForgotten
    OBVIOUS
  <2>1. ViewInv /\ TalkInv /\ CountInv
    BY DEF HubInv, Whole
  <2>2. \A o : InViews(o) = InOf(views, o)
    BY DEF InViews, InOf
  <2>3. ASSUME NEW o PROVE InAnswers(o) = Pending(o, resolving, answers, buffers)
    BY <2>1, InAnswersAre
  <2>4. EveryIOIsTold
    BY <2>1, <2>2, <2>3 DEF EveryIOIsTold, CountInv
  <2>5. TimeIsRemembered
    BY <2>1, <2>2 DEF TimeIsRemembered, CountInv, ViewInv
  <2> QED BY <2>4, <2>5 DEF NothingIsForgotten
<1> QED BY <1>1, AlwaysHub, PTL

\* While no resolution failed, no fragment of an answer is empty or left out, for
\* every size and number of fragments.
THEOREM FragmentsAreAlwaysFilled == ViewsSpec => []FragmentsAreFilled
<1>1. HubInv => FragmentsAreFilled
  <2> SUFFICES ASSUME HubInv, failed = 0, NEW n \in DOMAIN answers, answers[n].ok
               PROVE  /\ Len(buffers[answers[n].buffer]) > FragmentSize * (answers[n].fragments - 1)
                      /\ Len(buffers[answers[n].buffer]) <= FragmentSize * answers[n].fragments
    BY DEF FragmentsAreFilled
  <2>1. Filled /\ TalkInv
    BY DEF HubInv, Whole
  <2>2. answers # <<>> /\ n = 1
    BY <2>1, TalkParts
  <2> QED BY <2>1, <2>2 DEF Filled
<1> QED BY <1>1, AlwaysHub, PTL

\* While no resolution failed, the batches of a collection visit no OBJ twice and
\* leave none of the involved SubPools out, for every size of the batches.
THEOREM WalkIsAlwaysComplete == ViewsSpec => WalkIsComplete
<1>1. HubInv /\ [ViewsNext]_vars =>
        [CollectIO /\ failed = 0 =>
          /\ IsInjective(sent')
          /\ steady /\ ~ Last(answers').more =>
                Range(sent') = {k \in DOMAIN views : PoolOf[k[1]] \in scheduled}]_vars
  <2> SUFFICES ASSUME HubInv, CollectIO, failed = 0
               PROVE  /\ IsInjective(sent')
                      /\ steady /\ ~ Last(answers').more =>
                            Range(sent') = {k \in DOMAIN views : PoolOf[k[1]] \in scheduled}
    OBVIOUS
  <2>1. ViewInv /\ TalkInv /\ (frozen => WalkInv)
    BY DEF HubInv, Whole
  <2>2. WalkInv /\ answers = <<>>
    BY <2>1, CollectIs, WhenAsked DEF Asked
  <2> QED BY <2>1, <2>2, CollectComplete
<1> QED BY <1>1, AlwaysHub, PTL DEF ViewsSpec, WalkIsComplete
================================================================================
