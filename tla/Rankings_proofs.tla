------------------------------ MODULE Rankings_proofs ------------------------------
(***************************************************************************)
(* Theorems about what AST ranks: disks by what they still can do, and     *)
(* OBJs by their heat.  Both rest on the same facts about sums over finite *)
(* sets, which come first.                                                 *)
(*                                                                         *)
(* Reservations: whatever plans, refusals, conflicts, ends, expiries and   *)
(* changes of the configuration come in whatever order, what is reserved   *)
(* of a disk is what the migrations that go on need of it, and not more    *)
(* than the disk had left when the window started.  What a disk is said to *)
(* be able to do is what was measured of it allows.                        *)
(*                                                                         *)
(* HeatRegistry: whatever rules ask for how many OBJs of whichever side,   *)
(* between whichever steps of the walks, a side has as many buckets sorted *)
(* as that takes, and a walk goes through them in order, leaving out no    *)
(* place and coming to none again.                                         *)
(***************************************************************************)
EXTENDS Reservations, HeatRegistry, FiniteSetTheorems, SequenceTheorems, WellFoundedInduction, TLAPS

-----------------------------------------------------------------------------
(* Least elements: what an induction over data rests on.                   *)

LEMMA LeastExists ==
    ASSUME NEW T, T \subseteq Nat, T # {}
    PROVE  \E n \in T : \A m \in T : n <= m
<1>1. PICK R : IsWellFoundedOn(R, Nat) /\ \A a, b \in Nat : a < b => <<a, b>> \in R
  <2> DEFINE W == OpToRel(<, Nat)
  <2>1. IsWellFoundedOn(W, Nat)
    BY NatLessThanWellFounded
  <2>2. \A a, b \in Nat : a < b => <<a, b>> \in W
    BY DEF OpToRel
  <2> HIDE DEF W
  <2> QED BY <2>1, <2>2
<1>2. PICK x \in T : \A y \in T : ~(<<y, x>> \in R)
  <2>1. IsWellFoundedOn(R, Nat)
    BY <1>1
  <2>2. T \subseteq Nat /\ T # {}
    OBVIOUS
  <2> HIDE <1>1
  <2> QED BY <2>1, <2>2, WFMin, ZenonT(30)
<1>3. \A y \in T : ~(y < x)
  BY <1>1, <1>2
<1> QED BY <1>3

\* Of the sets of a family of finite sets one has no smaller one in it.
LEMMA SmallestExists ==
    ASSUME NEW B, B # {}, \A t \in B : IsFiniteSet(t)
    PROVE  \E t \in B : \A u \in B : ~(u \subseteq t /\ u # t)
<1> DEFINE C == {Cardinality(t) : t \in B}
<1>1. C \subseteq Nat /\ C # {}
  BY FS_CardinalityType
<1> HIDE DEF C
<1>2. PICK n \in C : \A m \in C : n <= m
  BY <1>1, LeastExists
<1>3. PICK t \in B : n = Cardinality(t)
  BY <1>2 DEF C
<1>4. ASSUME NEW u \in B, u \subseteq t, u # t PROVE FALSE
  <2>0. IsFiniteSet(t) /\ u \in SUBSET t
    BY <1>4
  <2>1. Cardinality(u) <= Cardinality(t) /\ Cardinality(u) # Cardinality(t)
    BY <1>4, <2>0, FS_Subset
  <2>2. Cardinality(u) \in C /\ Cardinality(u) \in Nat
    BY <1>1 DEF C
  <2>3. n \in Nat
    BY <1>1
  <2> QED BY <1>2, <1>3, <2>1, <2>2, <2>3
<1> QED BY <1>4

-----------------------------------------------------------------------------
(* Sums over finite sets, as SumFunction computes them.                    *)

First(t) == CHOOSE x \in t : TRUE
Step(f, g, t) == IF t = {} THEN 0 ELSE f[First(t)] + g[t \ {First(t)}]
Sums(f, D, g) == g = [t \in SUBSET D |-> Step(f, g, t)]

Chain(f, D, g) ==
    /\ g[{}] = 0
    /\ \A t \in SUBSET D : t # {} =>
          /\ First(t) \in t /\ t \ {First(t)} \in SUBSET D
          /\ g[t] = f[First(t)] + g[t \ {First(t)}]

LEMMA FirstIn == \A t : t # {} => First(t) \in t
BY DEF First

LEMMA SumsExist ==
    ASSUME NEW D, IsFiniteSet(D), NEW f, \A x \in D : f[x] \in Nat
    PROVE  \E g \in [SUBSET D -> Nat] : Sums(f, D, g)
<1> DEFINE Fits(g, n) == \A t \in SUBSET D : Cardinality(t) <= n => g[t] = Step(f, g, t)
           Good(n) == \E g \in [SUBSET D -> Nat] : Fits(g, n)
           Bad == {n \in Nat : ~Good(n)}
<1>0. /\ \A t \in SUBSET D : IsFiniteSet(t) /\ Cardinality(t) \in Nat
      /\ \A t \in SUBSET D : t # {} =>
            First(t) \in D /\ t \ {First(t)} \in SUBSET D
            /\ Cardinality(t \ {First(t)}) = Cardinality(t) - 1
  BY FS_Subset, FS_CardinalityType, FS_RemoveElement, FirstIn
<1>1. Good(0)
  <2> DEFINE g == [t \in SUBSET D |-> 0]
  <2>1. g \in [SUBSET D -> Nat]
    OBVIOUS
  <2>2. ASSUME NEW t \in SUBSET D, Cardinality(t) <= 0 PROVE t = {}
    BY <1>0, <2>2, FS_EmptySet
  <2>3. Fits(g, 0)
    BY <2>2 DEF Step
  <2> QED BY <2>1, <2>3
<1>2. ASSUME NEW n \in Nat, Good(n) PROVE Good(n + 1)
  <2>1. PICK g \in [SUBSET D -> Nat] : Fits(g, n)
    BY <1>2
  <2> DEFINE h == [t \in SUBSET D |-> Step(f, g, t)]
  <2>2. h \in [SUBSET D -> Nat]
    <3>1. \A t \in SUBSET D : Step(f, g, t) \in Nat
      BY <1>0 DEF Step
    <3> QED BY <3>1
  <2>3. ASSUME NEW t \in SUBSET D, Cardinality(t) <= n + 1
        PROVE  h[t] = Step(f, h, t)
    <3>1. CASE t = {}
      BY <3>1 DEF Step
    <3>2. CASE t # {}
      <4> DEFINE u == t \ {First(t)}
      <4>1. u \in SUBSET D /\ Cardinality(u) <= n
        BY <1>0, <2>3, <3>2
      <4>2. h[u] = g[u]
        BY <2>1, <4>1
      <4>3. h[t] = f[First(t)] + g[u]
        BY <3>2 DEF Step
      <4>4. Step(f, h, t) = f[First(t)] + h[u]
        BY <3>2 DEF Step
      <4> QED BY <4>2, <4>3, <4>4
    <3> QED BY <3>1, <3>2
  <2> HIDE DEF h
  <2>4. Fits(h, n + 1)
    BY <2>3
  <2> QED BY <2>2, <2>4
<1> HIDE DEF Good
<1>3. Bad = {}
  <2> SUFFICES ASSUME Bad # {} PROVE FALSE
    OBVIOUS
  <2>1. PICK n \in Bad : \A m \in Bad : n <= m
    BY LeastExists
  <2>2. n # 0
    BY <1>1, <2>1
  <2>3. n - 1 \in Nat /\ Good(n - 1)
    BY <2>1, <2>2
  <2>4. Good(n - 1 + 1)
    BY <1>2, <2>3
  <2> QED BY <2>1, <2>3, <2>4
<1>4. Good(Cardinality(D))
  BY <1>0, <1>3
<1>5. PICK g \in [SUBSET D -> Nat] : Fits(g, Cardinality(D))
  BY <1>4 DEF Good
<1>6. \A t \in SUBSET D : Cardinality(t) <= Cardinality(D)
  BY FS_Subset
<1>7. g = [t \in SUBSET D |-> g[t]]
  OBVIOUS
<1>8. \A t \in SUBSET D : g[t] = Step(f, g, t)
  BY <1>5, <1>6
<1>9. Sums(f, D, g)
  BY <1>7, <1>8, Zenon DEF Sums
<1> QED BY <1>9

LEMMA SumsStep ==
    ASSUME NEW D, NEW f, NEW g, Sums(f, D, g)
    PROVE  Chain(f, D, g)
<1>1. \A t \in SUBSET D : g[t] = Step(f, g, t)
  BY DEF Sums
<1> QED BY <1>1, FirstIn DEF Step, Chain

LEMMA SumsNat ==
    ASSUME NEW D, IsFiniteSet(D), NEW f, \A x \in D : f[x] \in Nat, NEW g, Sums(f, D, g)
    PROVE  \A t \in SUBSET D : g[t] \in Nat
<1> DEFINE Bad == {t \in SUBSET D : g[t] \notin Nat}
<1> SUFFICES ASSUME Bad # {} PROVE FALSE
  OBVIOUS
<1>a. Chain(f, D, g)
  BY SumsStep
<1>0. \A t \in Bad : IsFiniteSet(t)
  BY FS_Subset
<1> HIDE DEF Bad
<1>1. PICK t \in Bad : \A u \in Bad : ~(u \subseteq t /\ u # t)
  BY <1>0, SmallestExists
<1>2. t \in SUBSET D /\ t # {}
  <2>1. t \in SUBSET D /\ g[t] \notin Nat
    BY <1>1 DEF Bad
  <2>2. g[{}] = 0
    BY <1>a DEF Chain
  <2> QED BY <2>1, <2>2
<1>3. /\ First(t) \in t /\ t \ {First(t)} \in SUBSET D
      /\ g[t] = f[First(t)] + g[t \ {First(t)}]
  BY <1>2, <1>a DEF Chain
<1>4. g[t \ {First(t)}] \in Nat
  BY <1>1, <1>3 DEF Bad
<1> QED BY <1>1, <1>2, <1>3, <1>4 DEF Bad

\* The order in which elements are added does not matter.
LEMMA SumsAdd ==
    ASSUME NEW D, IsFiniteSet(D), NEW f, \A x \in D : f[x] \in Nat, NEW g, Sums(f, D, g)
    PROVE  \A t \in SUBSET D : \A x \in D \ t : g[t \cup {x}] = f[x] + g[t]
<1> DEFINE Fits(t) == \A x \in D \ t : g[t \cup {x}] = f[x] + g[t]
           Bad == {t \in SUBSET D : ~Fits(t)}
<1> SUFFICES ASSUME Bad # {} PROVE FALSE
  OBVIOUS
<1>a. Chain(f, D, g)
  BY SumsStep
<1>0. \A t \in Bad : IsFiniteSet(t)
  BY FS_Subset
<1> HIDE DEF Bad
<1>1. PICK t \in Bad : \A u \in Bad : ~(u \subseteq t /\ u # t)
  BY <1>0, SmallestExists
<1>2. PICK x \in D \ t : g[t \cup {x}] # f[x] + g[t]
  BY <1>1 DEF Bad
<1> DEFINE w == t \cup {x}  c == First(w)  v == t \ {c}
<1>3. t \in SUBSET D /\ w \in SUBSET D /\ w # {}
  BY <1>1, <1>2 DEF Bad
<1>4. c \in w /\ g[w] = f[c] + g[w \ {c}]
  BY <1>3, <1>a DEF Chain
<1>5. CASE c = x
  <2>1. w \ {c} = t
    BY <1>2, <1>5
  <2> QED BY <1>2, <1>4, <1>5, <2>1
<1>6. CASE c # x
  <2>1. /\ c \in t /\ v \in SUBSET D /\ v \subseteq t /\ v # t /\ x \in D \ v /\ c \in D \ v
    BY <1>2, <1>3, <1>4, <1>6
  <2>2. w \ {c} = v \cup {x} /\ t = v \cup {c}
    BY <1>6, <2>1
  <2>3. Fits(v)
    BY <1>1, <2>1 DEF Bad
  <2>4. g[v \cup {x}] = f[x] + g[v] /\ g[v \cup {c}] = f[c] + g[v]
    BY <2>1, <2>3
  <2>5. f[c] \in Nat /\ f[x] \in Nat /\ g[v] \in Nat
    BY <2>1, SumsNat
  <2>6. g[w] = f[c] + (f[x] + g[v]) /\ g[t] = f[c] + g[v] /\ g[w] # f[x] + g[t]
    BY <1>2, <1>4, <2>2, <2>4
  <2> HIDE DEF w, c, v
  <2> QED BY <2>5, <2>6
<1> QED BY <1>5, <1>6

\* What is summed up depends on the elements only.
LEMMA SumsAgree ==
    ASSUME NEW D, NEW f, NEW g, Sums(f, D, g), NEW E, NEW h, NEW k, Sums(h, E, k),
           IsFiniteSet(D), D \subseteq E, \A x \in D : f[x] = h[x]
    PROVE  \A t \in SUBSET D : g[t] = k[t]
<1> DEFINE Bad == {t \in SUBSET D : g[t] # k[t]}
<1> SUFFICES ASSUME Bad # {} PROVE FALSE
  OBVIOUS
<1>a. Chain(f, D, g)
  BY SumsStep
<1>b. Chain(h, E, k)
  BY SumsStep
<1>0. \A t \in Bad : IsFiniteSet(t)
  BY FS_Subset
<1> HIDE DEF Bad
<1>1. PICK t \in Bad : \A u \in Bad : ~(u \subseteq t /\ u # t)
  BY <1>0, SmallestExists
<1>3. t \in SUBSET D /\ t \in SUBSET E /\ t # {}
  BY <1>1, <1>a, <1>b DEF Bad, Chain
<1> DEFINE c == First(t)
<1>4. c \in t /\ g[t] = f[c] + g[t \ {c}]
  BY <1>3, <1>a DEF Chain
<1>5. k[t] = h[c] + k[t \ {c}]
  BY <1>3, <1>b DEF Chain
<1>6. g[t \ {c}] = k[t \ {c}]
  BY <1>1, <1>3, <1>4 DEF Bad
<1> QED BY <1>1, <1>3, <1>4, <1>5, <1>6 DEF Bad

LEMMA SumFunctionSums ==
    ASSUME NEW D, IsFiniteSet(D), NEW f, f \in [D -> Nat]
    PROVE  \E g : Sums(f, D, g) /\ SumFunction(f) = g[D]
<1> DEFINE iter == CHOOSE g : Sums(f, D, g)
<1>1. SumFunction(f) = iter[D]
  BY Zenon DEF SumFunction, SumFunctionOnSet, FoldFunctionOnSet, MapThenFoldSet, Sums, Step, First
<1>2. \A x \in D : f[x] \in Nat
  OBVIOUS
<1>3. \E g : Sums(f, D, g)
  BY <1>2, SumsExist
<1>4. Sums(f, D, iter)
  BY <1>3, Zenon
<1> QED BY <1>1, <1>4

LEMMA SumOfNothing ==
    ASSUME NEW f \in [{} -> Nat]
    PROVE  SumFunction(f) = 0
<1>1. IsFiniteSet({})
  BY FS_EmptySet
<1>2. PICK g : Sums(f, {}, g) /\ SumFunction(f) = g[{}]
  BY <1>1, SumFunctionSums
<1>3. g[{}] = 0
  BY <1>2, SumsStep DEF Chain
<1> QED BY <1>2, <1>3

LEMMA SumIsNat ==
    ASSUME NEW D, IsFiniteSet(D), NEW f \in [D -> Nat]
    PROVE  SumFunction(f) \in Nat
<1>1. PICK g : Sums(f, D, g) /\ SumFunction(f) = g[D]
  BY SumFunctionSums
<1>2. \A x \in D : f[x] \in Nat
  OBVIOUS
<1> QED BY <1>1, <1>2, SumsNat

LEMMA SumWithOneMore ==
    ASSUME NEW D, IsFiniteSet(D), NEW x, x \notin D,
           NEW f \in [D -> Nat], NEW h \in [D \cup {x} -> Nat], \A y \in D : h[y] = f[y]
    PROVE  SumFunction(h) = SumFunction(f) + h[x]
<1> DEFINE E == D \cup {x}
<1>1. IsFiniteSet(E)
  BY FS_AddElement
<1>2. PICK g : Sums(f, D, g) /\ SumFunction(f) = g[D]
  BY SumFunctionSums
<1>3. PICK k : Sums(h, E, k) /\ SumFunction(h) = k[E]
  BY <1>1, SumFunctionSums
<1>4. g[D] = k[D]
  BY <1>2, <1>3, SumsAgree
<1>5. \A y \in E : h[y] \in Nat
  OBVIOUS
<1>6. k[E] = h[x] + k[D]
  <2>1. D \in SUBSET E /\ x \in E \ D
    OBVIOUS
  <2> QED BY <1>1, <1>3, <1>5, <2>1, SumsAdd
<1>7. k[D] \in Nat /\ h[x] \in Nat
  BY <1>1, <1>3, <1>5, SumsNat
<1> QED BY <1>2, <1>3, <1>4, <1>6, <1>7
-----------------------------------------------------------------------------
(* The inductive invariant.                                                *)

Kinds == {"io", "bw"}
FourParts == {"limit", "reserved", "used", "avail"}
Plans == [obj : OBJs, src : Disks, tgt : Disks, need : Demands]
Arbitratees == [obj : OBJs, src : Disks, tgt : Disks, need : Demands, window : Nat]

\* The disks that are ranked, each with the four parts of a unit.
Shaped(units) ==
    DOMAIN units = DOMAIN unit /\ \A d \in DOMAIN units : DOMAIN units[d] = FourParts

Typed ==
    /\ window \in Nat /\ present \subseteq Disks /\ place \in [OBJs -> Disks]
    /\ batch \subseteq Plans
    /\ in \subseteq Arbitratees /\ IsFiniteSet(in)
    /\ DOMAIN unit \subseteq Disks /\ DOMAIN booked = Disks /\ Shaped(unit)

\* An OBJ that is moved is on its source, once, and not leased; plans of others
\* lead away from where the OBJ is.
Ways ==
    /\ \A a \in in : a.src = place[a.obj] /\ a.src # a.tgt /\ a.obj \notin out
                   /\ a.window <= window
    /\ \A a, b \in in : a.obj = b.obj => a = b
    /\ \A p \in batch : p.src # p.tgt /\ (p.obj \in out \/ p.src = place[p.obj])

\* What the arbitratees of a set need.
Needs(S, k) == SumFunction([a \in S |-> a.need[k]])

\* The books of a disk: what it had left is left or booked, what is reserved is
\* held, and what is held was booked.
Balanced(u, o, b, S) ==
    \A k \in Kinds :
        /\ o[k] \in 0 .. Word - 1 /\ b[k] \in 0 .. o[k]
        /\ u.avail[k] = o[k] - b[k]
        /\ u.reserved[k] = Needs(S, k) /\ Needs(S, k) <= b[k]
Books ==
    \A d \in DOMAIN unit \ strayed : Balanced(unit[d], offered[d], booked[d], Held(d))

Inv == Typed /\ Ways /\ Books

-----------------------------------------------------------------------------
(* Amounts.                                                                *)

LEMMA KindsAre ==
    /\ \A a, b : \A k \in Kinds : Plus(a, b)[k] = (a[k] + b[k]) % Word
    /\ \A a, b : \A k \in Kinds : Minus(a, b)[k] = (a[k] - b[k]) % Word
    /\ \A k \in Kinds : Zero[k] = 0
BY DEF Kinds, Plus, Minus, Zero

LEMMA DemandIs ==
    ASSUME NEW need \in Demands
    PROVE  \A k \in Kinds : /\ need[k] \in Nat
                            /\ Entering(need)[k] = need[k]
                            /\ Leaving(need)[k] = need[k]
                            /\ WithCap(need, 0)[k] = need[k]
<1>1. need \in [io : Nat, bw : Nat]
  BY AmountsAssumption
<1>2. DOMAIN need = {"io", "bw"} /\ need["io"] \in Nat /\ need["bw"] \in Nat
  BY <1>1
<1>3. \A n : \A k \in Kinds : WithCap(need, n)[k] = need[k]
  BY DEF Kinds, WithCap
<1> QED BY <1>2, <1>3 DEF Kinds, Entering, Leaving

LEMMA WordIs ==
    /\ Word \in Nat \ {0}
    /\ \A x \in 0 .. Word - 1 : x % Word = x
BY AmountsAssumption

\* What a reservation, its return and its consumption make of a unit.
LEMMA UnitIs ==
    ASSUME NEW u, DOMAIN u = {"limit", "reserved", "used", "avail"}, NEW need,
           NEW k \in Kinds
    PROVE  /\ DOMAIN Reserved(u, need) = DOMAIN u
           /\ DOMAIN UnReserved(u, need) = DOMAIN u
           /\ DOMAIN ConsumedBy(u, need) = DOMAIN u
           /\ Reserved(u, need).avail[k] = (u.avail[k] - need[k]) % Word
           /\ Reserved(u, need).reserved[k] = (u.reserved[k] + need[k]) % Word
           /\ UnReserved(u, need).avail[k] = (u.avail[k] + need[k]) % Word
           /\ UnReserved(u, need).reserved[k] = (u.reserved[k] - need[k]) % Word
           /\ ConsumedBy(u, need).avail = u.avail
           /\ ConsumedBy(u, need).reserved[k] = (u.reserved[k] - need[k]) % Word
<1>1. \A x, y : DOMAIN [u EXCEPT !.avail = x, !.reserved = y] = DOMAIN u
  OBVIOUS
<1>2. \A x, y : /\ [u EXCEPT !.avail = x, !.reserved = y].avail = x
                /\ [u EXCEPT !.avail = x, !.reserved = y].reserved = y
  OBVIOUS
<1>3. \A x, y : /\ DOMAIN [u EXCEPT !.reserved = x, !.used = y] = DOMAIN u
                /\ [u EXCEPT !.reserved = x, !.used = y].avail = u.avail
                /\ [u EXCEPT !.reserved = x, !.used = y].reserved = x
  OBVIOUS
<1> QED BY <1>1, <1>2, <1>3, KindsAre DEF Reserved, UnReserved, ConsumedBy

-----------------------------------------------------------------------------
(* What is needed by a set of arbitratees.                                 *)

LEMMA NeedsAre ==
    ASSUME NEW S, IsFiniteSet(S), NEW k, \A a \in S : a.need[k] \in Nat
    PROVE  /\ Needs(S, k) \in Nat
           /\ Needs({}, k) = 0
           /\ \A x : x \notin S /\ x.need[k] \in Nat =>
                 Needs(S \cup {x}, k) = Needs(S, k) + x.need[k]
<1>1. Needs(S, k) \in Nat
  BY SumIsNat DEF Needs
<1>2. Needs({}, k) = 0
  <2>1. [a \in {} |-> a.need[k]] \in [{} -> Nat]
    OBVIOUS
  <2> QED BY <2>1, SumOfNothing DEF Needs
<1>3. ASSUME NEW x, x \notin S, x.need[k] \in Nat
      PROVE  Needs(S \cup {x}, k) = Needs(S, k) + x.need[k]
  <2> DEFINE f == [a \in S |-> a.need[k]]
             h == [a \in S \cup {x} |-> a.need[k]]
  <2>1. f \in [S -> Nat] /\ h \in [S \cup {x} -> Nat] /\ \A y \in S : h[y] = f[y]
    BY <1>3
  <2>2. h[x] = x.need[k]
    OBVIOUS
  <2> HIDE DEF f, h
  <2>3. SumFunction(h) = SumFunction(f) + h[x]
    <3>1. /\ IsFiniteSet(S) /\ x \notin S /\ f \in [S -> Nat] /\ h \in [S \cup {x} -> Nat]
          /\ \A y \in S : h[y] = f[y]
      BY <1>3, <2>1
    <3> QED BY ONLY <3>1, SumWithOneMore, ZenonT(90)
  <2> QED BY <2>2, <2>3 DEF Needs, f, h
<1> QED BY <1>1, <1>2, <1>3

LEMMA NeedsLess ==
    ASSUME NEW S, IsFiniteSet(S), NEW k, \A a \in S : a.need[k] \in Nat, NEW x \in S
    PROVE  Needs(S, k) = Needs(S \ {x}, k) + x.need[k]
<1> DEFINE R == S \ {x}
<1>1. IsFiniteSet(R) /\ x \notin R /\ S = R \cup {x} /\ \A a \in R : a.need[k] \in Nat
  BY FS_Subset
<1> HIDE DEF R
<1> QED BY <1>1, NeedsAre DEF R

-----------------------------------------------------------------------------
(* The books of one disk.                                                  *)

SameNeed(amount, need) == \A k \in Kinds : amount[k] = need[k]
OfNumbers(S) == IsFiniteSet(S) /\ \A a \in S : \A k \in Kinds : a.need[k] \in Nat

\* A reservation of what the disk has is booked and held by the new arbitratee.
LEMMA TakesMore ==
    ASSUME NEW u, DOMAIN u = FourParts, NEW o, NEW b, NEW S, OfNumbers(S),
           Balanced(u, o, b, S),
           NEW x, x \notin S, \A k \in Kinds : x.need[k] \in Nat /\ u.avail[k] > x.need[k],
           NEW m, SameNeed(m, x.need), NEW c, SameNeed(c, x.need)
    PROVE  Balanced(Reserved(u, m), o, Plus(b, c), S \cup {x})
<1> SUFFICES ASSUME NEW k \in Kinds
             PROVE  /\ o[k] \in 0 .. Word - 1 /\ Plus(b, c)[k] \in 0 .. o[k]
                    /\ Reserved(u, m).avail[k] = o[k] - Plus(b, c)[k]
                    /\ Reserved(u, m).reserved[k] = Needs(S \cup {x}, k)
                    /\ Needs(S \cup {x}, k) <= Plus(b, c)[k]
  BY DEF Balanced
<1> DEFINE n == x.need[k]  r == Needs(S, k)
<1>1. /\ o[k] \in 0 .. Word - 1 /\ b[k] \in 0 .. o[k] /\ u.avail[k] = o[k] - b[k]
      /\ u.reserved[k] = r /\ r <= b[k]
  BY DEF Balanced
<1>2. n \in Nat /\ u.avail[k] > n /\ m[k] = n /\ c[k] = n
  BY DEF SameNeed
<1>3. r \in Nat /\ Needs(S \cup {x}, k) = r + n
  BY <1>2, NeedsAre DEF OfNumbers
<1>4. Word \in Nat \ {0}
  BY WordIs
<1>5. /\ Plus(b, c)[k] = (b[k] + n) % Word
      /\ Reserved(u, m).avail[k] = (u.avail[k] - n) % Word
      /\ Reserved(u, m).reserved[k] = (u.reserved[k] + n) % Word
  BY <1>2, KindsAre, UnitIs DEF FourParts
<1> HIDE DEF n, r
<1>6. /\ b[k] + n \in 0 .. Word - 1 /\ u.avail[k] - n \in 0 .. Word - 1
      /\ u.reserved[k] + n \in 0 .. Word - 1
  BY <1>1, <1>2, <1>3, <1>4
<1>7. /\ (b[k] + n) % Word = b[k] + n /\ (u.avail[k] - n) % Word = u.avail[k] - n
      /\ (u.reserved[k] + n) % Word = u.reserved[k] + n
  BY <1>6, WordIs
<1> QED BY <1>1, <1>2, <1>3, <1>4, <1>5, <1>7 DEF r, n

\* Consuming what an arbitratee holds leaves what the others hold.
LEMMA EndsOne ==
    ASSUME NEW u, DOMAIN u = FourParts, NEW o, NEW b, NEW S, OfNumbers(S),
           Balanced(u, o, b, S), NEW x \in S, NEW m, SameNeed(m, x.need)
    PROVE  Balanced(ConsumedBy(u, m), o, b, S \ {x})
<1> SUFFICES ASSUME NEW k \in Kinds
             PROVE  /\ o[k] \in 0 .. Word - 1 /\ b[k] \in 0 .. o[k]
                    /\ ConsumedBy(u, m).avail[k] = o[k] - b[k]
                    /\ ConsumedBy(u, m).reserved[k] = Needs(S \ {x}, k)
                    /\ Needs(S \ {x}, k) <= b[k]
  BY DEF Balanced
<1> DEFINE n == x.need[k]  r == Needs(S, k)  q == Needs(S \ {x}, k)
<1>1. /\ o[k] \in 0 .. Word - 1 /\ b[k] \in 0 .. o[k] /\ u.avail[k] = o[k] - b[k]
      /\ u.reserved[k] = r /\ r <= b[k]
  BY DEF Balanced
<1>2. n \in Nat /\ m[k] = n
  BY DEF SameNeed, OfNumbers
<1>3. q \in Nat /\ r = q + n
  <2>1. r = q + n
    BY NeedsLess DEF OfNumbers
  <2>2. IsFiniteSet(S \ {x}) /\ \A a \in S \ {x} : a.need[k] \in Nat
    BY FS_Subset DEF OfNumbers
  <2>3. q \in Nat
    BY <2>2, NeedsAre
  <2> QED BY <2>1, <2>3
<1>4. Word \in Nat \ {0}
  BY WordIs
<1>5. /\ ConsumedBy(u, m).avail = u.avail
      /\ ConsumedBy(u, m).reserved[k] = (u.reserved[k] - n) % Word
  BY <1>2, UnitIs DEF FourParts
<1> HIDE DEF n, r, q
<1>6. u.reserved[k] - n \in 0 .. Word - 1 /\ u.reserved[k] - n = q
  BY <1>1, <1>2, <1>3, <1>4
<1>7. (u.reserved[k] - n) % Word = q
  BY <1>6, WordIs
<1> QED BY <1>1, <1>2, <1>3, <1>5, <1>7 DEF q

\* Reserved and consumed at once, it is booked and held by nobody.
LEMMA TakesAndEnds ==
    ASSUME NEW u, DOMAIN u = FourParts, NEW o, NEW b, NEW S, OfNumbers(S),
           Balanced(u, o, b, S),
           NEW need, \A k \in Kinds : need[k] \in Nat /\ u.avail[k] > need[k],
           NEW m, SameNeed(m, need), NEW c, SameNeed(c, need)
    PROVE  Balanced(ConsumedBy(Reserved(u, m), m), o, Plus(b, c), S)
<1> SUFFICES ASSUME NEW k \in Kinds
             PROVE  LET v == ConsumedBy(Reserved(u, m), m) IN
                    /\ o[k] \in 0 .. Word - 1 /\ Plus(b, c)[k] \in 0 .. o[k]
                    /\ v.avail[k] = o[k] - Plus(b, c)[k]
                    /\ v.reserved[k] = Needs(S, k) /\ Needs(S, k) <= Plus(b, c)[k]
  BY DEF Balanced
<1> DEFINE n == need[k]  r == Needs(S, k)  w == Reserved(u, m)  v == ConsumedBy(w, m)
<1>1. /\ o[k] \in 0 .. Word - 1 /\ b[k] \in 0 .. o[k] /\ u.avail[k] = o[k] - b[k]
      /\ u.reserved[k] = r /\ r <= b[k]
  BY DEF Balanced
<1>2. n \in Nat /\ u.avail[k] > n /\ m[k] = n /\ c[k] = n
  BY DEF SameNeed
<1>3. r \in Nat
  BY NeedsAre DEF OfNumbers
<1>4. Word \in Nat \ {0}
  BY WordIs
<1>5. /\ Plus(b, c)[k] = (b[k] + n) % Word
      /\ w.avail[k] = (u.avail[k] - n) % Word
      /\ w.reserved[k] = (u.reserved[k] + n) % Word
      /\ DOMAIN w = FourParts
  BY <1>2, KindsAre, UnitIs DEF FourParts
<1>6. v.avail = w.avail /\ v.reserved[k] = (w.reserved[k] - n) % Word
  BY <1>2, <1>5, UnitIs, SMTT(30) DEF FourParts
<1> HIDE DEF n, r, w, v
<1>7. /\ b[k] + n \in 0 .. Word - 1 /\ u.avail[k] - n \in 0 .. Word - 1
      /\ u.reserved[k] + n \in 0 .. Word - 1
  BY <1>1, <1>2, <1>3, <1>4
<1>8. /\ (b[k] + n) % Word = b[k] + n /\ w.avail[k] = u.avail[k] - n
      /\ w.reserved[k] = u.reserved[k] + n
  BY <1>5, <1>7, WordIs
<1>9. w.reserved[k] - n = r /\ r \in 0 .. Word - 1
  BY <1>1, <1>2, <1>3, <1>4, <1>8
<1>10. v.reserved[k] = r
  BY <1>6, <1>9, WordIs
<1> QED BY <1>1, <1>2, <1>3, <1>4, <1>5, <1>6, <1>8, <1>10 DEF r, v, w

\* A reservation that is given back leaves no trace.
LEMMA GivesBack ==
    ASSUME NEW u, DOMAIN u = FourParts, NEW o, NEW b, NEW S, OfNumbers(S),
           Balanced(u, o, b, S),
           NEW need, \A k \in Kinds : need[k] \in Nat /\ u.avail[k] > need[k],
           NEW m, SameNeed(m, need)
    PROVE  Balanced(UnReserved(Reserved(u, m), m), o, b, S)
<1> SUFFICES ASSUME NEW k \in Kinds
             PROVE  LET v == UnReserved(Reserved(u, m), m) IN
                    v.avail[k] = u.avail[k] /\ v.reserved[k] = u.reserved[k]
  BY DEF Balanced
<1> DEFINE n == need[k]  r == Needs(S, k)  w == Reserved(u, m)  v == UnReserved(w, m)
<1>1. /\ o[k] \in 0 .. Word - 1 /\ b[k] \in 0 .. o[k] /\ u.avail[k] = o[k] - b[k]
      /\ u.reserved[k] = r /\ r <= b[k]
  BY DEF Balanced
<1>2. n \in Nat /\ u.avail[k] > n /\ m[k] = n
  BY DEF SameNeed
<1>3. r \in Nat
  BY NeedsAre DEF OfNumbers
<1>4. Word \in Nat \ {0}
  BY WordIs
<1>5. /\ w.avail[k] = (u.avail[k] - n) % Word
      /\ w.reserved[k] = (u.reserved[k] + n) % Word
      /\ DOMAIN w = FourParts
  BY <1>2, UnitIs DEF FourParts
<1>6. v.avail[k] = (w.avail[k] + n) % Word /\ v.reserved[k] = (w.reserved[k] - n) % Word
  BY <1>2, <1>5, UnitIs DEF FourParts
<1> HIDE DEF n, r, w, v
<1>7. /\ u.avail[k] - n \in 0 .. Word - 1 /\ u.reserved[k] + n \in 0 .. Word - 1
  BY <1>1, <1>2, <1>3, <1>4
<1>8. w.avail[k] = u.avail[k] - n /\ w.reserved[k] = u.reserved[k] + n
  BY <1>5, <1>7, WordIs
<1>9. /\ w.avail[k] + n = u.avail[k] /\ u.avail[k] \in 0 .. Word - 1
      /\ w.reserved[k] - n = u.reserved[k] /\ u.reserved[k] \in 0 .. Word - 1
  BY <1>1, <1>2, <1>3, <1>4, <1>8
<1>10. v.avail[k] = u.avail[k] /\ v.reserved[k] = u.reserved[k]
  BY <1>6, <1>9, WordIs
<1> QED BY <1>10 DEF v, w

-----------------------------------------------------------------------------
(* The operations on the ranking.                                          *)

LEMMA PartsKept ==
    ASSUME NEW u, DOMAIN u = FourParts, NEW need
    PROVE  /\ DOMAIN Reserved(u, need) = FourParts
           /\ DOMAIN UnReserved(u, need) = FourParts
           /\ DOMAIN ConsumedBy(u, need) = FourParts
<1>1. "io" \in Kinds
  BY DEF Kinds
<1> QED BY <1>1, UnitIs DEF FourParts

LEMMA ReserveIs ==
    ASSUME NEW units, Shaped(units), NEW d, NEW need
    PROVE  LET after == Reserve(units, d, need) IN
           /\ Shaped(after)
           /\ \A e \in DOMAIN units : e # d => after[e] = units[e]
           /\ Known(d) /\ HasRoom(units[d], need) => after[d] = Reserved(units[d], need)
<1> DEFINE new == Reserved(units[d], need)
           put == [units EXCEPT ![d] = new]
<1>1. d \in DOMAIN units => DOMAIN new = FourParts
  BY PartsKept DEF Shaped
<1>2. \A e \in DOMAIN units : e # d => put[e] = units[e]
  OBVIOUS
<1>3. DOMAIN put = DOMAIN units /\ (d \in DOMAIN units => put[d] = new)
  OBVIOUS
<1> HIDE DEF new, put
<1>4. d \in DOMAIN units => Shaped(put)
  BY <1>1, <1>2, <1>3 DEF Shaped
<1>5. InTier(units, d, new) = IF d \in DOMAIN units THEN put ELSE units
  BY DEF InTier, put
<1>6. Reserve(units, d, need) =
         IF Known(d) /\ HasRoom(units[d], need) THEN InTier(units, d, new) ELSE units
  BY DEF Reserve, new
<1>7. Known(d) => d \in DOMAIN units
  BY DEF Known, Shaped
<1> QED BY <1>2, <1>3, <1>4, <1>5, <1>6, <1>7 DEF new

LEMMA UnReserveIs ==
    ASSUME NEW units, Shaped(units), NEW d, NEW need
    PROVE  LET after == UnReserve(units, d, need) IN
           /\ Shaped(after)
           /\ \A e \in DOMAIN units : e # d => after[e] = units[e]
           /\ d \in present /\ d \in DOMAIN units => after[d] = UnReserved(units[d], need)
<1> DEFINE new == UnReserved(units[d], need)
           put == [units EXCEPT ![d] = new]
<1>1. d \in DOMAIN units => DOMAIN new = FourParts
  BY PartsKept DEF Shaped
<1>2. \A e \in DOMAIN units : e # d => put[e] = units[e]
  OBVIOUS
<1>3. DOMAIN put = DOMAIN units /\ (d \in DOMAIN units => put[d] = new)
  OBVIOUS
<1> HIDE DEF new, put
<1>4. d \in DOMAIN units => Shaped(put)
  BY <1>1, <1>2, <1>3 DEF Shaped
<1>5. InTier(units, d, new) = IF d \in DOMAIN units THEN put ELSE units
  BY DEF InTier, put
<1>6. UnReserve(units, d, need) = IF d \in present THEN InTier(units, d, new) ELSE units
  BY DEF UnReserve, new
<1> QED BY <1>2, <1>3, <1>4, <1>5, <1>6 DEF new

LEMMA ConsumeIs ==
    ASSUME NEW units, Shaped(units), NEW d, NEW need
    PROVE  LET after == Consume(units, d, need) IN
           /\ Shaped(after)
           /\ \A e \in DOMAIN units : e # d => after[e] = units[e]
           /\ d \in present /\ d \in DOMAIN units => after[d] = ConsumedBy(units[d], need)
<1> DEFINE new == ConsumedBy(units[d], need)
           put == [units EXCEPT ![d] = new]
<1>1. d \in DOMAIN units => DOMAIN new = FourParts
  BY PartsKept DEF Shaped
<1>2. \A e \in DOMAIN units : e # d => put[e] = units[e]
  OBVIOUS
<1>3. DOMAIN put = DOMAIN units /\ (d \in DOMAIN units => put[d] = new)
  OBVIOUS
<1> HIDE DEF new, put
<1>4. d \in DOMAIN units => Shaped(put)
  BY <1>1, <1>2, <1>3 DEF Shaped
<1>5. InTier(units, d, new) = IF d \in DOMAIN units THEN put ELSE units
  BY DEF InTier, put
<1>6. Consume(units, d, need) = IF d \in present THEN InTier(units, d, new) ELSE units
  BY DEF Consume, new
<1> QED BY <1>2, <1>3, <1>4, <1>5, <1>6 DEF new

\* Both ends of a migration: neither touches the other's unit, nor a third one.
LEMMA BothReserved ==
    ASSUME Shaped(unit), NEW a, a.src # a.tgt
    PROVE  LET after == ReserveBoth(a) IN
           /\ Shaped(after)
           /\ \A e \in DOMAIN unit : e \notin {a.src, a.tgt} => after[e] = unit[e]
           /\ SourceTakes(a) => after[a.src] = Reserved(unit[a.src], Leaving(a.need))
           /\ TargetTakes(a) => after[a.tgt] = Reserved(unit[a.tgt], Entering(a.need))
<1> DEFINE half == Reserve(unit, a.src, Leaving(a.need))
           full == Reserve(half, a.tgt, Entering(a.need))
<1>1. /\ Shaped(half)
      /\ \A e \in DOMAIN unit : e # a.src => half[e] = unit[e]
      /\ SourceTakes(a) => half[a.src] = Reserved(unit[a.src], Leaving(a.need))
  BY ReserveIs DEF SourceTakes
<1> HIDE DEF half
<1>2. /\ Shaped(full)
      /\ \A e \in DOMAIN half : e # a.tgt => full[e] = half[e]
      /\ Known(a.tgt) /\ HasRoom(half[a.tgt], Entering(a.need)) =>
            full[a.tgt] = Reserved(half[a.tgt], Entering(a.need))
  BY <1>1, ReserveIs
<1> HIDE DEF full
<1>3. DOMAIN half = DOMAIN unit
  BY <1>1 DEF Shaped
<1>4. SourceTakes(a) => a.src \in DOMAIN unit
  BY DEF SourceTakes, Known
<1>5. TargetTakes(a) => a.tgt \in DOMAIN unit /\ Known(a.tgt)
                        /\ HasRoom(unit[a.tgt], Entering(a.need))
  BY DEF TargetTakes, Known
<1>6. ReserveBoth(a) = full
  BY DEF ReserveBoth, full, half
<1> QED BY <1>1, <1>2, <1>3, <1>4, <1>5, <1>6

LEMMA BothUnReserved ==
    ASSUME NEW units, Shaped(units), NEW a, a.src # a.tgt
    PROVE  LET after == UnReserveBoth(units, a) IN
           /\ Shaped(after)
           /\ \A e \in DOMAIN unit : e \notin {a.src, a.tgt} => after[e] = units[e]
           /\ a.src \in present \cap DOMAIN unit =>
                 after[a.src] = UnReserved(units[a.src], Leaving(a.need))
           /\ a.tgt \in present \cap DOMAIN unit =>
                 after[a.tgt] = UnReserved(units[a.tgt], Entering(a.need))
<1> DEFINE half == UnReserve(units, a.src, Leaving(a.need))
           full == UnReserve(half, a.tgt, Entering(a.need))
<1>0. DOMAIN units = DOMAIN unit
  BY DEF Shaped
<1>1. /\ Shaped(half)
      /\ \A e \in DOMAIN units : e # a.src => half[e] = units[e]
      /\ a.src \in present /\ a.src \in DOMAIN units =>
            half[a.src] = UnReserved(units[a.src], Leaving(a.need))
  BY UnReserveIs
<1> HIDE DEF half
<1>2. /\ Shaped(full)
      /\ \A e \in DOMAIN half : e # a.tgt => full[e] = half[e]
      /\ a.tgt \in present /\ a.tgt \in DOMAIN half =>
            full[a.tgt] = UnReserved(half[a.tgt], Entering(a.need))
  BY <1>1, UnReserveIs
<1> HIDE DEF full
<1>3. DOMAIN half = DOMAIN unit
  BY <1>1 DEF Shaped
<1>6. UnReserveBoth(units, a) = full
  BY DEF UnReserveBoth, full, half
<1> QED BY <1>0, <1>1, <1>2, <1>3, <1>6

LEMMA BothConsumed ==
    ASSUME NEW units, Shaped(units), NEW a, a.src # a.tgt
    PROVE  LET after == ConsumeBoth(units, a) IN
           /\ Shaped(after)
           /\ \A e \in DOMAIN unit : e \notin {a.src, a.tgt} => after[e] = units[e]
           /\ a.src \in present \cap DOMAIN unit =>
                 after[a.src] = ConsumedBy(units[a.src], Leaving(a.need))
           /\ a.tgt \in present \cap DOMAIN unit =>
                 after[a.tgt] = ConsumedBy(units[a.tgt], Entering(a.need))
<1> DEFINE half == Consume(units, a.src, Leaving(a.need))
           full == Consume(half, a.tgt, Entering(a.need))
<1>0. DOMAIN units = DOMAIN unit
  BY DEF Shaped
<1>1. /\ Shaped(half)
      /\ \A e \in DOMAIN units : e # a.src => half[e] = units[e]
      /\ a.src \in present /\ a.src \in DOMAIN units =>
            half[a.src] = ConsumedBy(units[a.src], Leaving(a.need))
  BY ConsumeIs
<1> HIDE DEF half
<1>2. /\ Shaped(full)
      /\ \A e \in DOMAIN half : e # a.tgt => full[e] = half[e]
      /\ a.tgt \in present /\ a.tgt \in DOMAIN half =>
            full[a.tgt] = ConsumedBy(half[a.tgt], Entering(a.need))
  BY <1>1, ConsumeIs
<1> HIDE DEF full
<1>3. DOMAIN half = DOMAIN unit
  BY <1>1 DEF Shaped
<1>6. ConsumeBoth(units, a) = full
  BY DEF ConsumeBoth, full, half
<1> QED BY <1>0, <1>1, <1>2, <1>3, <1>6

-----------------------------------------------------------------------------
(* Interpolation.                                                          *)

LEMMA DivBounds ==
    ASSUME NEW a \in Nat, NEW c \in Nat \ {0}
    PROVE  /\ a \div c \in Nat
           /\ c * (a \div c) <= a
           /\ \A n \in Nat : c * n <= a => n <= a \div c
<1> DEFINE q == a \div c
           r == a % c
<1>1. q \in Int /\ r \in 0 .. c - 1 /\ a = c * q + r
  BY Z3
<1> HIDE DEF q, r
<1>2. q >= 0
  <2>1. ASSUME q <= -1 PROVE FALSE
    <3>1. c * q <= -c
      BY <1>1, <2>1, Z3
    <3> QED BY <1>1, <3>1
  <2> QED BY <1>1, <2>1
<1>3. ASSUME NEW n \in Nat, c * n <= a PROVE n <= q
  <2>1. ASSUME q + 1 <= n PROVE FALSE
    <3>1. c * (q + 1) <= c * n
      BY <1>1, <2>1, Z3
    <3>2. c * (q + 1) = c * q + c
      BY <1>1, Z3
    <3> QED BY <1>1, <1>3, <3>1, <3>2
  <2> QED BY <1>1, <2>1
<1> QED BY <1>1, <1>2, <1>3 DEF q, r

LEMMA ProductsGrow ==
    ASSUME NEW a \in Nat, NEW b \in Nat, NEW c \in Nat, NEW d \in Nat, a <= c, b <= d
    PROVE  a * b \in Nat /\ a * b <= c * d
<1>1. a * b \in Nat /\ c * b \in Nat /\ c * d \in Nat
  BY Z3
<1>2. a * b <= c * b
  BY Z3
<1>3. c * b <= c * d
  BY Z3
<1> QED BY <1>1, <1>2, <1>3

\* A part of y: x of z.
LEMMA PartIs ==
    ASSUME NEW y \in Nat, NEW x \in Nat, NEW z \in Nat \ {0}, x <= z, y * x < Word,
           Word \in Nat \ {0}
    PROVE  ((y * x) % Word) \div z \in 0 .. y
<1>1. y * x \in Nat /\ y * x <= y * z /\ y * z \in Nat
  BY ProductsGrow
<1>2. (y * x) % Word = y * x
  BY <1>1
<1> DEFINE p == y * x
           q == p \div z
<1>3. p \in Nat /\ p <= y * z
  BY <1>1
<1>4. (p % Word) \div z = q
  BY <1>2
<1> HIDE DEF p
<1>5. q \in Nat /\ z * q <= p
  BY <1>3, DivBounds
<1> HIDE DEF q
<1>6. ASSUME y + 1 <= q PROVE FALSE
  <2>1. z * (y + 1) <= z * q /\ z * q \in Nat /\ z * (y + 1) \in Nat
    BY <1>5, <1>6, ProductsGrow
  <2>2. z * (y + 1) = y * z + z
    BY Z3
  <2> QED BY <1>1, <1>3, <1>5, <2>1, <2>2
<1>7. q \in 0 .. y
  BY <1>5, <1>6
<1> QED BY <1>4, <1>7 DEF p

\* What lies between two points lies between their values.
LEMMA LinearBetween ==
    ASSUME NEW m \in Nat, NEW M \in Nat, NEW ay \in m .. M, NEW by \in m .. M,
           NEW ax \in Nat, NEW bx \in Nat, NEW x \in Nat,
           (ax < x /\ x < bx) \/ (bx < x /\ x < ax),
           M * ax < Word, M * bx < Word, Word \in Nat \ {0}
    PROVE  Linear(ax, ay, bx, by, x) \in m .. M
<1>1. PICK lx \in Nat, hx \in Nat, ly \in m .. M, hy \in m .. M :
         /\ lx < x /\ x < hx /\ M * hx < Word
         /\ Linear(ax, ay, bx, by, x) =
               IF ly < hy THEN ly + ((((hy - ly) * (x - lx)) % Word) \div (hx - lx))
               ELSE ly - ((((ly - hy) * (x - lx)) % Word) \div (hx - lx))
  <2>1. CASE ax < x /\ x < bx
    <3>1. ax < bx
      BY <2>1
    <3>2. Linear(ax, ay, bx, by, x) =
             IF ay < by THEN ay + ((((by - ay) * (x - ax)) % Word) \div (bx - ax))
             ELSE ay - ((((ay - by) * (x - ax)) % Word) \div (bx - ax))
      BY <2>1, <3>1, Zenon DEF Linear
    <3> QED BY <2>1, <3>2
  <2>2. CASE bx < x /\ x < ax
    <3>1. ~(ax < bx)
      BY <2>2
    <3>2. Linear(ax, ay, bx, by, x) =
             IF by < ay THEN by + ((((ay - by) * (x - bx)) % Word) \div (ax - bx))
             ELSE by - ((((by - ay) * (x - bx)) % Word) \div (ax - bx))
      BY <2>2, <3>1, Zenon DEF Linear
    <3> QED BY <2>2, <3>2
  <2> QED BY <2>1, <2>2
<1>2. x - lx \in Nat /\ hx - lx \in Nat \ {0} /\ x - lx <= hx - lx /\ x - lx <= hx
  BY <1>1
<1>3. ASSUME NEW y \in Nat, y <= M
      PROVE  ((y * (x - lx)) % Word) \div (hx - lx) \in 0 .. y
  <2>1. y * (x - lx) \in Nat /\ y * (x - lx) <= M * hx /\ M * hx \in Nat
    BY <1>1, <1>2, <1>3, ProductsGrow
  <2>2. y * (x - lx) < Word
    BY <1>1, <2>1
  <2> QED BY <1>2, <2>2, PartIs
<1> DEFINE part(y) == ((y * (x - lx)) % Word) \div (hx - lx)
<1>4. CASE ly < hy
  <2>1. hy - ly \in Nat /\ hy - ly <= M
    BY <1>1, <1>4
  <2>2. part(hy - ly) \in 0 .. (hy - ly)
    BY <1>3, <2>1
  <2>3. Linear(ax, ay, bx, by, x) = ly + part(hy - ly)
    BY <1>1, <1>4
  <2> HIDE DEF part
  <2> QED BY <1>1, <2>1, <2>2, <2>3
<1>5. CASE ~(ly < hy)
  <2>1. ly - hy \in Nat /\ ly - hy <= M
    BY <1>1, <1>5
  <2>2. part(ly - hy) \in 0 .. (ly - hy)
    BY <1>3, <2>1
  <2>3. Linear(ax, ay, bx, by, x) = ly - part(ly - hy)
    BY <1>1, <1>5
  <2> HIDE DEF part
  <2> QED BY <1>1, <2>1, <2>2, <2>3
<1> QED BY <1>4, <1>5

\* The values that are right where the least that was measured is m and the most M:
\* whole hundreds are lost.
Likely(v, m, M) == v \in 100 * (m \div 100) .. M \/ (v = 0 /\ m < 100)

LEMMA MeasuredIsLikely ==
    ASSUME NEW m \in Nat, NEW M \in Nat, NEW v \in m .. M
    PROVE  Likely(v, m, M)
<1> DEFINE k == m \div 100
<1>1. k \in Nat /\ 100 * k <= m
  BY DivBounds
<1> HIDE DEF k
<1>2. v \in 100 * k .. M
  BY <1>1
<1> QED BY <1>2 DEF Likely, k

\* The weighted harmonic mean of two values, in whole hundreds.
LEMMA MeanIs ==
    ASSUME NEW m \in Nat, NEW M \in Nat, NEW a \in m .. M, NEW b \in m .. M,
           a # 0, b # 0, NEW s \in 1 .. 99,
           M * M < Word, 100 * M < Word, Word \in Nat \ {0}
    PROVE  LET sum == (s * b + (100 - s) * a) % Word
           IN sum # 0 /\ Likely(((((a * b) % Word) \div sum) * 100) % Word, m, M)
<1> DEFINE t == 100 - s
           ab == a * b
           sb == s * b
           ta == t * a
           k == m \div 100
<1>1. a \in Nat \ {0} /\ b \in Nat \ {0} /\ t \in 1 .. 99
  OBVIOUS
<1>2. ab \in Nat /\ ab <= M * M /\ M * M \in Nat
  BY <1>1, ProductsGrow
<1>3. /\ sb \in Nat /\ s * M \in Nat /\ sb <= s * M
      /\ ta \in Nat /\ t * M \in Nat /\ ta <= t * M
  BY <1>1, ProductsGrow
<1>4. s * M + t * M = 100 * M
  BY <1>1, Z3
<1>5. sb >= 1 /\ ta >= 1
  BY <1>1, Z3
<1> DEFINE sum == sb + ta
<1>6. sum \in Nat \ {0} /\ sum < Word
  BY <1>3, <1>4, <1>5
<1>7. k \in Nat /\ 100 * k <= m
  BY DivBounds
<1>8. ab % Word = ab /\ sum % Word = sum
  <2> HIDE DEF ab, sum
  <2> QED BY <1>2, <1>6
<1> DEFINE q == ab \div sum
\* The mean is at least the least and at most the most.
<1>9. 100 * ab = s * (b * a) + t * (a * b)
  BY <1>1, Z3
<1>10. s * (b * a) + t * (a * b) = a * sb + b * ta
  BY <1>1, Z3
<1>11. a * sb + b * ta <= M * sb + M * ta /\ M * sb + M * ta = M * sum
  <2>1. a * sb <= M * sb /\ b * ta <= M * ta /\ a * sb \in Nat /\ b * ta \in Nat
        /\ M * sb \in Nat /\ M * ta \in Nat
    <3> HIDE DEF sb, ta
    <3> QED BY <1>1, <1>3, ProductsGrow
  <2>2. M * sb + M * ta = M * sum
    <3> HIDE DEF sb, ta
    <3> QED BY <1>3, Z3
  <2> HIDE DEF sb, ta, sum
  <2> QED BY <2>1, <2>2
<1>12. m * sum <= a * sb + b * ta /\ (100 * k) * sum <= m * sum
  <2>1. m * sb <= a * sb /\ m * ta <= b * ta /\ m * sb \in Nat /\ m * ta \in Nat
        /\ a * sb \in Nat /\ b * ta \in Nat
    <3> HIDE DEF sb, ta
    <3> QED BY <1>1, <1>3, ProductsGrow
  <2>2. m * sb + m * ta = m * sum
    <3> HIDE DEF sb, ta
    <3> QED BY <1>3, Z3
  <2>3. (100 * k) * sum <= m * sum
    <3> HIDE DEF sum, k
    <3> QED BY <1>6, <1>7, ProductsGrow
  <2> HIDE DEF sb, ta, sum, k
  <2> QED BY <2>1, <2>2, <2>3
<1> HIDE DEF sum, sb, ta, ab, k
<1>13. q \in Nat /\ sum * q <= ab /\ \A n \in Nat : sum * n <= ab => n <= q
  BY <1>2, <1>6, DivBounds
<1> HIDE DEF q
<1>14. k <= q
  <2>1. (100 * k) * sum = 100 * (sum * k)
    BY <1>6, <1>7, Z3
  <2>2. sum * k \in Nat
    BY <1>6, <1>7, ProductsGrow
  <2>3. 100 * (sum * k) <= 100 * ab
    <3>1. a * sb \in Int /\ b * ta \in Int /\ m * sum \in Int /\ (100 * k) * sum \in Int
      BY <1>1, <1>3, <1>6, <1>7, Z3
    <3> QED BY <1>9, <1>10, <1>12, <2>1, <3>1
  <2>4. sum * k <= ab
    BY <1>2, <2>2, <2>3
  <2> QED BY <1>7, <1>13, <2>4
<1>15. 100 * q <= M
  <2>1. sum * q \in Nat /\ M * sum \in Nat
    BY <1>6, <1>13, ProductsGrow
  <2>2. 100 * (sum * q) <= M * sum
    <3>1. a * sb \in Int /\ b * ta \in Int
      BY <1>1, <1>3, Z3
    <3>2. 100 * ab <= M * sum
      BY <1>2, <1>9, <1>10, <1>11, <2>1, <3>1
    <3> QED BY <1>2, <1>13, <2>1, <3>2
  <2>3. ASSUME M + 1 <= 100 * q PROVE FALSE
    <3>1. sum * (M + 1) <= sum * (100 * q)
      BY <1>6, <1>13, <2>3, ProductsGrow
    <3>2. sum * (M + 1) = M * sum + sum /\ sum * (100 * q) = 100 * (sum * q)
      BY <1>6, <1>13, Z3
    <3> QED BY <1>6, <2>1, <2>2, <3>1, <3>2
  <2> QED BY <1>13, <2>3
<1>16. (q * 100) % Word = 100 * q
  BY <1>1, <1>13, <1>15, <1>6
<1>17. 100 * q \in 100 * k .. M
  BY <1>7, <1>13, <1>14, <1>15
<1>18. Likely((q * 100) % Word, m, M)
  BY <1>16, <1>17 DEF Likely, k
<1>19. (s * b + (100 - s) * a) % Word = sum
  BY <1>8 DEF sum, sb, ta
<1>20. ((a * b) % Word) \div sum = q
  BY <1>8 DEF q, ab
<1> QED BY <1>6, <1>18, <1>19, <1>20

\* A value that nobody asked for, at one end of the scale, is zero.
LEMMA WeightedLikely ==
    ASSUME NEW m \in Nat, NEW M \in Nat, NEW s \in 0 .. 100, NEW a, NEW b,
           s # 0 => a \in m .. M, s = 0 => a = 0,
           s # 100 => b \in m .. M, s = 100 => b = 0,
           M * M < Word, 100 * M < Word, Word \in Nat \ {0}
    PROVE  Likely(Weighted(s, a, b), m, M)
<1>1. CASE s = 0 \/ a = 0
  <2>1. Weighted(s, a, b) = b
    BY <1>1 DEF Weighted
  <2>2. CASE s = 100
    <3>1. b = 0 /\ a = 0 /\ m < 100
      BY <1>1, <2>2
    <3> QED BY <2>1, <3>1 DEF Likely
  <2>3. CASE s # 100
    BY <2>1, <2>3, MeasuredIsLikely
  <2> QED BY <2>2, <2>3
<1>2. CASE ~(s = 0 \/ a = 0) /\ (s = 100 \/ b = 0)
  <2>1. Weighted(s, a, b) = a /\ a \in m .. M
    BY <1>2 DEF Weighted
  <2> QED BY <2>1, MeasuredIsLikely
<1>3. CASE ~(s = 0 \/ a = 0) /\ ~(s = 100 \/ b = 0)
  <2> DEFINE sum == (s * b + (100 - s) * a) % Word
             mean == ((((a * b) % Word) \div sum) * 100) % Word
  <2>1. sum # 0 /\ Likely(mean, m, M)
    <3>1. /\ a \in m .. M /\ b \in m .. M /\ a # 0 /\ b # 0 /\ s \in 1 .. 99
          /\ M * M < Word /\ 100 * M < Word /\ Word \in Nat \ {0} /\ m \in Nat /\ M \in Nat
      BY <1>3
    <3> QED BY ONLY <3>1, MeanIs, ZenonT(40)
  <2>2. Weighted(s, a, b) = IF sum = 0 THEN 0 ELSE mean
    BY <1>3, Zenon DEF Weighted
  <2> HIDE DEF sum, mean
  <2> QED BY <2>1, <2>2
<1> QED BY <1>1, <1>2, <1>3

-----------------------------------------------------------------------------
(* What was measured at a share of reading, and between two shares.        *)

LEMMA SmallestIs ==
    ASSUME NEW E, E # {}, \A e \in E : e.size \in Nat
    PROVE  Smallest(E) \in E
<1> DEFINE T == {e.size : e \in E}
<1>1. T \subseteq Nat /\ T # {}
  OBVIOUS
<1> HIDE DEF T
<1>2. PICK n \in T : \A t \in T : n <= t
  BY <1>1, LeastExists
<1>3. \E e \in E : \A f \in E : e.size <= f.size
  BY <1>2 DEF T
<1> QED BY <1>3 DEF Smallest

LEMMA LargestIs ==
    ASSUME NEW E, E # {}, NEW n \in Nat, \A e \in E : e.size \in Nat /\ e.size <= n
    PROVE  Largest(E) \in E
<1> DEFINE T == {n - e.size : e \in E}
<1>1. T \subseteq Nat /\ T # {}
  OBVIOUS
<1> HIDE DEF T
<1>2. PICK l \in T : \A t \in T : l <= t
  BY <1>1, LeastExists
<1>3. PICK e \in E : l = n - e.size
  BY <1>2 DEF T
<1>4. ASSUME NEW f \in E PROVE f.size <= e.size
  <2>1. n - e.size <= n - f.size
    BY <1>2, <1>3 DEF T
  <2> QED BY <2>1
<1> QED BY <1>4 DEF Largest

\* What lies between two points whose values are in S has a value in S.
Closed(S, T) ==
    /\ T \subseteq Nat
    /\ \A ay, by \in S, ax, bx \in T, x \in Nat :
          (ax < x /\ x < bx) \/ (bx < x /\ x < ax) => Linear(ax, ay, bx, by, x) \in S

\* Values of a kind in S that were measured at some sizes of T.
InRange(E, k, S, T) == E # {} /\ \A e \in E : e.size \in T /\ e[k] \in S

LEMMA AtSizeBetween ==
    ASSUME NEW k \in Kinds, NEW S, NEW T, Closed(S, T), NEW E, InRange(E, k, S, T),
           NEW size \in Nat
    PROVE  AtSize(E, size)[k] \in S
<1> DEFINE larger == {e \in E : e.size > size}
           others == E \ larger
           a == Smallest(larger)
           b == Largest(others)
<1>1. \A e \in E : e.size \in T /\ e.size \in Nat /\ e[k] \in S
  BY DEF InRange, Closed
<1>2. AtSize(E, size)[k] = IF others = {} THEN a[k]
                           ELSE IF larger = {} \/ b.size = size THEN b[k]
                           ELSE Linear(a.size, a[k], b.size, b[k], size)
  <2> DEFINE exact(e) == [bw |-> e.bw, io |-> e.io]
             between == [bw |-> Linear(a.size, a.bw, b.size, b.bw, size),
                         io |-> Linear(a.size, a.io, b.size, b.io, size)]
  <2>1. AtSize(E, size) = IF others = {} THEN exact(a)
                          ELSE IF larger = {} \/ b.size = size THEN exact(b) ELSE between
    BY Zenon DEF AtSize
  <2>2. \A e : exact(e)[k] = e[k]
    BY DEF Kinds
  <2>3. between[k] = Linear(a.size, a[k], b.size, b[k], size)
    <3> HIDE DEF a, b
    <3>1. CASE k = "io"
      BY <3>1
    <3>2. CASE k = "bw"
      BY <3>2
    <3> QED BY <3>1, <3>2 DEF Kinds
  <2> HIDE DEF larger, others, a, b, exact, between
  <2> QED BY <2>1, <2>2, <2>3
<1>3. larger # {} => a \in larger
  BY <1>1, SmallestIs
<1>4. others # {} => b \in others
  <2>1. \A e \in others : e.size \in Nat /\ e.size <= size
    BY <1>1
  <2> QED BY <2>1, LargestIs
<1>5. others = {} => larger # {}
  BY DEF InRange
<1> HIDE DEF a, b
<1>6. CASE others = {}
  <2>1. a \in E
    BY <1>3, <1>5, <1>6
  <2> QED BY <1>1, <1>2, <1>6, <2>1
<1>7. CASE others # {} /\ (larger = {} \/ b.size = size)
  <2>1. b \in E
    BY <1>4, <1>7
  <2>2. AtSize(E, size)[k] = b[k]
    BY <1>2, <1>7
  <2> QED BY <1>1, <2>1, <2>2
<1>8. CASE others # {} /\ larger # {} /\ b.size # size
  <2>1. a \in E /\ b \in E /\ a.size > size /\ ~(b.size > size)
    BY <1>3, <1>4, <1>8
  <2>2. /\ a.size \in T /\ a.size \in Nat /\ a[k] \in S
        /\ b.size \in T /\ b.size \in Nat /\ b[k] \in S
    BY <1>1, <2>1
  <2>3. b.size < size /\ size < a.size
    BY <1>8, <2>1, <2>2
  <2>4. Linear(a.size, a[k], b.size, b[k], size) \in S
    BY <2>2, <2>3 DEF Closed
  <2>5. AtSize(E, size)[k] = Linear(a.size, a[k], b.size, b[k], size)
    BY <1>2, <1>8
  <2> QED BY <2>4, <2>5
<1> QED BY <1>6, <1>7, <1>8

\* Measured at some shares of reading, among them 0 and 100.
InTable(perf, k, S, T) ==
    /\ {0, 100} \subseteq DOMAIN perf /\ DOMAIN perf \subseteq Nat
    /\ \A r \in DOMAIN perf : InRange(perf[r], k, S, T)

LEMMA BelowIs ==
    ASSUME NEW D, D \subseteq Nat, NEW n \in Nat, \E r \in D : r < n
    PROVE  LET below == Max({r \in D : r < n}) IN below \in D /\ below < n
<1> DEFINE B == {r \in D : r < n}
           T == {n - r : r \in B}
<1>1. T \subseteq Nat /\ T # {}
  <2>1. B # {} /\ \A r \in B : n - r \in Nat
    OBVIOUS
  <2> HIDE DEF B
  <2> QED BY <2>1
<1> HIDE DEF T
<1>2. PICK l \in T : \A t \in T : l <= t
  BY <1>1, LeastExists
<1>3. PICK r \in B : l = n - r
  BY <1>2 DEF T
<1>4. ASSUME NEW f \in B PROVE r >= f
  <2>1. n - r <= n - f
    BY <1>2, <1>3 DEF T
  <2> QED BY <2>1
<1>5. Max(B) \in B
  BY <1>4 DEF Max
<1> QED BY <1>5

LEMMA AboveIs ==
    ASSUME NEW D, D \subseteq Nat, NEW n \in Nat, \E r \in D : r > n
    PROVE  LET above == Min({r \in D : r > n}) IN above \in D /\ above > n
<1> DEFINE B == {r \in D : r > n}
<1>1. B \subseteq Nat /\ B # {}
  OBVIOUS
<1>2. PICK l \in B : \A t \in B : l <= t
  BY <1>1, LeastExists
<1>3. Min(B) \in B
  BY <1>2 DEF Min
<1> QED BY <1>3

LEMMA AtRatioBetween ==
    ASSUME NEW k \in Kinds, NEW S, NEW T, Closed(S, T), 0 .. 100 \subseteq T,
           NEW perf, InTable(perf, k, S, T), NEW ratio \in 0 .. 100, NEW size \in Nat
    PROVE  AtRatio(perf, ratio, size)[k] \in S
<1> DEFINE rated(r) == AtSize(perf[r], size)
           below == Max({r \in DOMAIN perf : r < ratio})
           above == Min({r \in DOMAIN perf : r > ratio})
<1>1. \A r \in DOMAIN perf : rated(r)[k] \in S
  BY AtSizeBetween DEF InTable
<1>2. 0 \in DOMAIN perf /\ 100 \in DOMAIN perf /\ DOMAIN perf \subseteq Nat
  BY DEF InTable
<1> DEFINE between == [bw |-> Linear(below, rated(below).bw, above, rated(above).bw, ratio),
                       io |-> Linear(below, rated(below).io, above, rated(above).io, ratio)]
<1>3. AtRatio(perf, ratio, size) =
         IF Matches(0, ratio) THEN rated(0) ELSE IF Matches(100, ratio) THEN rated(100)
         ELSE IF ratio \in DOMAIN perf THEN rated(ratio) ELSE between
  BY Zenon DEF AtRatio
<1>4. between[k] = Linear(below, rated(below)[k], above, rated(above)[k], ratio)
  <2> HIDE DEF below, above, rated
  <2>1. CASE k = "io"
    BY <2>1
  <2>2. CASE k = "bw"
    BY <2>2
  <2> QED BY <2>1, <2>2 DEF Kinds
<1> HIDE DEF between, rated
<1>5. CASE ratio \in DOMAIN perf \/ Matches(0, ratio) \/ Matches(100, ratio)
  <2>1. \E r \in DOMAIN perf : AtRatio(perf, ratio, size) = rated(r)
    BY <1>2, <1>3, <1>5
  <2> QED BY <1>1, <2>1
<1>6. CASE ~(ratio \in DOMAIN perf \/ Matches(0, ratio) \/ Matches(100, ratio))
  <2>1. 0 < ratio /\ ratio < 100 /\ ratio \in Nat
    BY <1>2, <1>6
  <2>2. below \in DOMAIN perf /\ below < ratio
    BY <1>2, <2>1, BelowIs
  <2>3. above \in DOMAIN perf /\ above > ratio
    BY <1>2, <2>1, AboveIs
  <2>4. above <= 100
    <3>1. 100 \in {r \in DOMAIN perf : r > ratio} /\ {r \in DOMAIN perf : r > ratio} \subseteq Nat
      BY <1>2, <2>1
    <3>2. PICK l \in {r \in DOMAIN perf : r > ratio} :
             \A t \in {r \in DOMAIN perf : r > ratio} : l <= t
      BY <3>1, LeastExists
    <3>3. \A t \in {r \in DOMAIN perf : r > ratio} : above <= t
      BY <3>2 DEF Min
    <3> QED BY <3>1, <3>3
  <2>5. rated(below)[k] \in S /\ rated(above)[k] \in S
    BY <1>1, <2>2, <2>3
  <2>6. below \in T /\ above \in T
    BY <1>2, <2>1, <2>2, <2>3, <2>4
  <2> HIDE DEF below, above
  <2>8. Linear(below, rated(below)[k], above, rated(above)[k], ratio) \in S
    BY <2>1, <2>2, <2>3, <2>5, <2>6 DEF Closed
  <2>9. AtRatio(perf, ratio, size)[k] = Linear(below, rated(below)[k], above, rated(above)[k], ratio)
    BY <1>3, <1>4, <1>6
  <2> QED BY <2>8, <2>9
<1> QED BY <1>5, <1>6

-----------------------------------------------------------------------------
(* The profile of a disk, and what it can do.                              *)

LEMMA BoundsExist ==
    ASSUME NEW V, V \subseteq Nat, V # {}, NEW n \in Nat, \A v \in V : v < n
    PROVE  Min(V) \in V /\ Max(V) \in V /\ \A v \in V : v \in Min(V) .. Max(V)
<1>1. PICK l \in V : \A v \in V : l <= v
  BY LeastExists
<1>2. Min(V) \in V /\ \A v \in V : Min(V) <= v
  BY <1>1 DEF Min
<1> DEFINE T == {n - v : v \in V}
<1>3. T \subseteq Nat /\ T # {}
  <2>1. \A v \in V : n - v \in Nat
    OBVIOUS
  <2> QED BY <2>1
<1> HIDE DEF T
<1>4. PICK r \in T : \A t \in T : r <= t
  BY <1>3, LeastExists
<1>5. PICK h \in V : r = n - h
  BY <1>4 DEF T
<1>6. ASSUME NEW v \in V PROVE h >= v
  <2>1. n - h <= n - v
    BY <1>4, <1>5 DEF T
  <2> QED BY <2>1
<1>7. Max(V) \in V /\ \A v \in V : Max(V) >= v
  BY <1>6 DEF Max
<1> QED BY <1>2, <1>7

\* Seconds of a cycle, and KB of a MB.
Scale(k) == IF k = "io" THEN Period ELSE 1024 * Period

\* What the profile of a device holds are its rows.
Holds(rows, rnd) ==
    /\ {0, 100} \subseteq DOMAIN rnd /\ DOMAIN rnd \subseteq Nat
    /\ \A j \in DOMAIN rows : rows[j] \in [ratio : Nat, size : Nat, bw : Nat, io : Nat]
    /\ \A r \in DOMAIN rnd : /\ rnd[r] # {}
                             /\ \A e \in rnd[r] : \E j \in DOMAIN rows : e = Entry(rows[j])

LEMMA RowsAre ==
    ASSUME NEW i \in DOMAIN Devices
    PROVE  Holds(Devices[i].rows, ParseDevice(Devices[i]).rnd) /\ ParseDevice(Devices[i]).seq = <<>>
<1> DEFINE rows == Devices[i].rows
           rnd == ParseDevice(Devices[i]).rnd
<1>1. rows \in Seq([ratio : Nat, size : Nat, bw : Nat, io : Nat])
      /\ {0, 100} \subseteq Ratios(rows)
  BY DevicesAssumption DEF IsDevice
<1>2. \A j \in DOMAIN rows : rows[j] \in [ratio : Nat, size : Nat, bw : Nat, io : Nat]
  <2> DEFINE Row == [ratio : Nat, size : Nat, bw : Nat, io : Nat]
  <2>1. rows \in Seq(Row)
    BY <1>1
  <2> HIDE DEF Row, rows
  <2>2. \A j \in DOMAIN rows : rows[j] \in Row
    BY <2>1
  <2> QED BY <2>2 DEF Row
<1>3. rnd = [r \in Ratios(rows) |-> Entries(rows, r)] /\ ParseDevice(Devices[i]).seq = <<>>
  BY DEF ParseDevice
<1> HIDE DEF rnd, rows
<1>4. DOMAIN rnd = Ratios(rows)
  BY <1>3
<1>5. \A r \in Ratios(rows) : rnd[r] # {} /\ \A e \in rnd[r] : \E j \in DOMAIN rows : e = Entry(rows[j])
  BY <1>3 DEF Ratios, Entries
<1>6. Ratios(rows) \subseteq Nat
  BY <1>2 DEF Ratios
<1> QED BY <1>1, <1>2, <1>3, <1>4, <1>5, <1>6 DEF Holds, rnd, rows

LEMMA DeviceIsTable ==
    ASSUME NEW i \in DOMAIN Devices, NEW k \in Kinds
    PROVE  /\ InTable(ParseDevice(Devices[i]).rnd, k, Int, Nat)
           /\ ParseDevice(Devices[i]).seq = <<>>
<1> DEFINE rows == Devices[i].rows
           rnd == ParseDevice(Devices[i]).rnd
<1>0. Holds(rows, rnd) /\ ParseDevice(Devices[i]).seq = <<>>
  BY RowsAre
<1> HIDE DEF rows, rnd
<1>1. /\ ParseDevice(Devices[i]).seq = <<>>
      /\ {0, 100} \subseteq DOMAIN rnd /\ DOMAIN rnd \subseteq Nat
      /\ \A j \in DOMAIN rows : rows[j] \in [ratio : Nat, size : Nat, bw : Nat, io : Nat]
      /\ \A r \in DOMAIN rnd : /\ rnd[r] # {}
                               /\ \A e \in rnd[r] : \E j \in DOMAIN rows : e = Entry(rows[j])
  BY <1>0 DEF Holds
<1>2. \A j \in DOMAIN rows : Entry(rows[j]).size \in Nat /\ Entry(rows[j])[k] \in Int
  BY <1>1 DEF Entry, Kinds
<1>3. \A r \in DOMAIN rnd : InRange(rnd[r], k, Int, Nat)
  BY <1>1, <1>2 DEF InRange
<1> QED BY <1>1, <1>3 DEF InTable, rnd

LEMMA DeviceIsMeasured ==
    ASSUME ProfilesFit, NEW i \in DOMAIN Devices, NEW k \in Kinds,
           NEW V, V = Measured(ParseDevice(Devices[i]), k)
    PROVE  /\ Min(V) \in Nat /\ Max(V) \in Nat /\ FitsWord(Max(V), Scale(k))
           /\ InTable(ParseDevice(Devices[i]).rnd, k, Min(V) .. Max(V),
                      {t \in Nat : Max(V) * t < Word})
           /\ ParseDevice(Devices[i]).seq = <<>>
<1> DEFINE T == {t \in Nat : Max(V) * t < Word}
           rows == Devices[i].rows
           rnd == ParseDevice(Devices[i]).rnd
           all == UNION {rnd[r] : r \in DOMAIN rnd}
<1>0. Holds(rows, rnd) /\ ParseDevice(Devices[i]).seq = <<>>
  BY RowsAre
<1> HIDE DEF rows, rnd
<1>1. /\ ParseDevice(Devices[i]).seq = <<>>
      /\ {0, 100} \subseteq DOMAIN rnd /\ DOMAIN rnd \subseteq Nat
      /\ \A j \in DOMAIN rows : rows[j] \in [ratio : Nat, size : Nat, bw : Nat, io : Nat]
      /\ \A r \in DOMAIN rnd : /\ rnd[r] # {}
                               /\ \A e \in rnd[r] : \E j \in DOMAIN rows : e = Entry(rows[j])
  BY <1>0 DEF Holds
<1>2. \A j \in DOMAIN rows : rows[j].size \in Nat
  BY <1>1
<1>4. V = {e[k] : e \in all}
  BY DEF Measured, rnd
<1>6. \A j \in DOMAIN rows : /\ FitsWord(Entry(rows[j])[k], Scale(k))
                             /\ \A l \in DOMAIN rows : FitsWord(Entry(rows[j])[k], rows[l].size)
                             /\ Entry(rows[j]).size = rows[j].size
  <2>1. \A j \in DOMAIN rows : /\ FitsWord(rows[j].io, Period) /\ FitsWord(rows[j].bw, 1024 * Period)
                               /\ \A l \in DOMAIN rows : /\ FitsWord(rows[j].io, rows[l].size)
                                                         /\ FitsWord(rows[j].bw, rows[l].size)
    BY DEF ProfilesFit, rows
  <2>2. CASE k = "io"
    BY <2>1, <2>2 DEF Entry, Scale
  <2>3. CASE k = "bw"
    BY <2>1, <2>3 DEF Entry, Scale
  <2> QED BY <2>2, <2>3 DEF Kinds
<1>8. \A v \in V : \E j \in DOMAIN rows : v = Entry(rows[j])[k]
  BY <1>1, <1>4, SMTT(30)
<1>9. V # {}
  <2>1. PICK e : e \in rnd[0] /\ rnd[0] \in {rnd[r] : r \in DOMAIN rnd}
    BY <1>1
  <2> QED BY <1>4, <2>1
<1>10. \A v \in V : v \in Nat /\ v < Word
  <2>1. \A v \in V : v \in Nat /\ 100 * v < Word
    BY <1>6, <1>8 DEF FitsWord
  <2> QED BY <2>1, AmountsAssumption
<1>11. Min(V) \in V /\ Max(V) \in V /\ \A v \in V : v \in Min(V) .. Max(V)
  BY <1>9, <1>10, AmountsAssumption, BoundsExist
<1>12. ASSUME NEW r \in DOMAIN rnd
       PROVE  InRange(rnd[r], k, Min(V) .. Max(V), T)
  <2>1. ASSUME NEW e \in rnd[r]
        PROVE  e.size \in T /\ e[k] \in Min(V) .. Max(V)
    <3>1. PICK j \in DOMAIN rows : e = Entry(rows[j])
      BY <1>1, <1>12
    <3>2. e[k] \in V
      BY <1>4, <1>12
    <3>3. e.size = rows[j].size /\ rows[j].size \in Nat
      BY <1>2, <1>6, <3>1
    <3>4. PICK l \in DOMAIN rows : Max(V) = Entry(rows[l])[k]
      BY <1>8, <1>11
    <3>5. FitsWord(Max(V), rows[j].size)
      BY <1>6, <3>4
    <3>6. rows[j].size * Max(V) = Max(V) * rows[j].size
      BY <1>10, <1>11, <3>3, Z3
    <3> QED BY <1>11, <3>2, <3>3, <3>5, <3>6 DEF FitsWord
  <2> QED BY <1>1, <1>12, <2>1 DEF InRange
<1>14. InTable(rnd, k, Min(V) .. Max(V), T)
  BY <1>1, <1>12 DEF InTable
<1>15. FitsWord(Max(V), Scale(k))
  BY <1>6, <1>8, <1>11
<1> QED BY <1>1, <1>10, <1>11, <1>14, <1>15 DEF rnd

LEMMA ProfileIsRead ==
    ASSUME NEW d \in Disks, Profile[d] # <<>>
    PROVE  \E i \in DOMAIN Devices : Profile[d] = ParseDevice(Devices[i])
<1> DEFINE table == Build(Devices)
           prop == Prop[d]
           alike == {q \in DOMAIN table : q.kind = prop.kind}
<1>1. \A q \in DOMAIN table : /\ \E i \in DOMAIN Devices : table[q] = ParseDevice(Devices[i])
                              /\ \E i \in DOMAIN Devices : q = Devices[i].prop
  <2> DEFINE taken(p) == CHOOSE i \in Read(Devices) : Devices[i].prop = p
             props == {Devices[i].prop : i \in Read(Devices)}
  <2>1. Read(Devices) \subseteq DOMAIN Devices
    BY DEF Read
  <2>2. \A q \in props : taken(q) \in Read(Devices)
    OBVIOUS
  <2>3. table = [q \in props |-> ParseDevice(Devices[taken(q)])]
    BY DEF Build
  <2> HIDE DEF table, taken
  <2>4. DOMAIN table = props /\ \A q \in props : table[q] = ParseDevice(Devices[taken(q)])
    BY <2>3
  <2> QED BY <2>1, <2>2, <2>4
<1>2. Profile[d] = ProfileOf(table, prop)
  BY DEF Profile
<1>3. \A q \in DOMAIN table : q.cap \in Nat
  BY <1>1, DevicesAssumption DEF IsDevice
<1> HIDE DEF table, prop
<1>4. CASE prop \in DOMAIN table
  BY <1>1, <1>2, <1>4 DEF ProfileOf
<1>5. CASE prop \notin DOMAIN table
  <2>1. Profile[d] = IF alike = {} THEN <<>>
                     ELSE table[CHOOSE q \in alike : \A r \in alike : q.cap <= r.cap]
    BY <1>2, <1>5 DEF ProfileOf
  <2>2. alike # {}
    BY <2>1
  <2> DEFINE T == {q.cap : q \in alike}
  <2>3. T \subseteq Nat /\ T # {}
    BY <1>3, <2>2
  <2> HIDE DEF T
  <2>4. PICK n \in T : \A t \in T : n <= t
    BY <2>3, LeastExists
  <2>5. \E q \in alike : \A r \in alike : q.cap <= r.cap
    BY <2>4 DEF T
  <2>6. (CHOOSE q \in alike : \A r \in alike : q.cap <= r.cap) \in alike
    BY <2>5
  <2> QED BY <1>1, <2>1, <2>2, <2>6
<1> QED BY <1>4, <1>5

LEMMA PercentIs ==
    ASSUME NEW part \in Nat, NEW all \in Nat, part <= all
    PROVE  Percent(part, all) \in 0 .. 100
<1>1. CASE all = 0
  BY <1>1 DEF Percent
<1>2. CASE all # 0
  <2> DEFINE q == (100 * part) \div all
  <2>1. q \in Nat /\ all * q <= 100 * part
    BY <1>2, DivBounds
  <2> HIDE DEF q
  <2>2. ASSUME 101 <= q PROVE FALSE
    <3>1. all * 101 <= all * q /\ all * q \in Nat
      BY <2>1, <2>2, ProductsGrow
    <3> QED BY <1>2, <2>1, <3>1
  <2> QED BY <1>2, <2>1, <2>2 DEF Percent, q
<1> QED BY <1>1, <1>2

LEMMA SizeIs ==
    ASSUME NEW bw \in Nat, NEW ios \in Nat
    PROVE  Size(bw, ios) \in Nat
<1>1. CASE ios = 0
  BY <1>1 DEF Size
<1>2. CASE ios # 0
  <2>1. bw \div ios \in Nat
    BY <1>2, DivBounds
  <2> QED BY <1>2, <2>1 DEF Size
<1> QED BY <1>1, <1>2

LEMMA WorkloadIs ==
    ASSUME NEW s \in DiskIO, NEW w, w = Workload(s)
    PROVE  /\ w.share \in 0 .. 100 /\ w.rndReads \in 0 .. 100 /\ w.seqReads \in 0 .. 100
           /\ w.rndSize \in Nat /\ w.seqSize \in Nat
<1>1. PICK a \in Nat, b \in Nat, c \in Nat, e \in Nat, f \in Nat, g \in Nat :
         /\ a = s.rndReadIOs /\ b = s.rndWriteIOs /\ c = s.seqReadIOs /\ e = s.seqWriteIOs
         /\ f = s.rndBW /\ g = s.seqBW
  BY DEF DiskIO
<1>2. w = [share    |-> Percent(a + b, (a + b) + (c + e)),
           rndReads |-> Percent(a, a + b), rndSize |-> Size(f, a + b),
           seqReads |-> Percent(c, c + e), seqSize |-> Size(g, c + e)]
  BY <1>1 DEF Workload
<1>3. /\ Percent(a + b, (a + b) + (c + e)) \in 0 .. 100 /\ Percent(a, a + b) \in 0 .. 100
      /\ Percent(c, c + e) \in 0 .. 100
  <2>1. a + b \in Nat /\ c + e \in Nat /\ (a + b) + (c + e) \in Nat
        /\ a <= a + b /\ c <= c + e /\ a + b <= (a + b) + (c + e)
    OBVIOUS
  <2> QED BY <2>1, PercentIs
<1>4. Size(f, a + b) \in Nat /\ Size(g, c + e) \in Nat
  <2>1. a + b \in Nat /\ c + e \in Nat
    OBVIOUS
  <2> QED BY <2>1, SizeIs
<1> QED BY <1>2, <1>3, <1>4

\* What is interpolated between random and sequential IO; what nobody asked for is
\* zero.
Blend(v, S) ==
    \E share, a, b :
        /\ share \in 0 .. 100 /\ v = Weighted(share, a, b)
        /\ IF share = 0 THEN a = 0 ELSE a \in S
        /\ IF share = 100 THEN b = 0 ELSE b \in S

LEMMA MixedIs ==
    ASSUME NEW k \in Kinds, NEW S, NEW T, Closed(S, T), 0 .. 100 \subseteq T,
           NEW profile, InTable(profile.rnd, k, S, T), profile.seq = <<>>,
           NEW s \in DiskIO
    PROVE  Blend(Mixed(profile, Workload(s))[k], S)
<1> DEFINE w == Workload(s)
           rnd == profile.rnd
           none == [bw |-> 0, io |-> 0]
           p == IF w.share = 0 \/ DOMAIN rnd = {} THEN none ELSE AtRatio(rnd, w.rndReads, w.rndSize)
           q == IF w.share = 100 \/ DOMAIN rnd = {} THEN none ELSE AtRatio(rnd, w.seqReads, w.seqSize)
<1>1. /\ w.share \in 0 .. 100 /\ w.rndReads \in 0 .. 100 /\ w.seqReads \in 0 .. 100
      /\ w.rndSize \in Nat /\ w.seqSize \in Nat
  BY WorkloadIs
<1>2. DOMAIN profile.seq = {}
  OBVIOUS
<1>3. DOMAIN rnd # {}
  BY DEF InTable
<1>4. Mixed(profile, w) = [bw |-> Weighted(w.share, p.bw, q.bw), io |-> Weighted(w.share, p.io, q.io)]
  <2> HIDE DEF w
  <2> QED BY <1>2 DEF Mixed
<1> HIDE DEF w
<1>5. none[k] = 0
  <2> HIDE DEF p, q
  <2>1. none["io"] = 0 /\ none["bw"] = 0
    OBVIOUS
  <2> HIDE DEF none
  <2> QED BY <2>1 DEF Kinds
<1>6. AtRatio(rnd, w.rndReads, w.rndSize)[k] \in S /\ AtRatio(rnd, w.seqReads, w.seqSize)[k] \in S
  BY <1>1, AtRatioBetween
<1>7. /\ IF w.share = 0 THEN p[k] = 0 ELSE p[k] \in S
      /\ IF w.share = 100 THEN q[k] = 0 ELSE q[k] \in S
  <2> HIDE DEF none
  <2> QED BY <1>3, <1>5, <1>6
<1> HIDE DEF p, q
<1>8. Mixed(profile, w)[k] = Weighted(w.share, p[k], q[k])
  <2>1. CASE k = "io"
    BY <1>4, <2>1
  <2>2. CASE k = "bw"
    BY <1>4, <2>2
  <2> QED BY <2>1, <2>2 DEF Kinds
<1> QED BY <1>1, <1>7, <1>8 DEF w, Blend

\* What a disk can do in a cycle.
LEMMA ThresholdIs ==
    ASSUME ProfilesFit, NEW k \in Kinds, NEW d \in Disks, Profile[d] # <<>>, NEW s \in DiskIO
    PROVE  Within(Threshold(Profile[d], s)[k], Measured(Profile[d], k), Scale(k), Default[k])
<1> DEFINE V == Measured(Profile[d], k)
           m == Min(V)
           M == Max(V)
           v == Mixed(Profile[d], Workload(s))[k]
           c == Scale(k)
           x == IF v = 0 THEN Default[k] ELSE v
<1>1. PICK i \in DOMAIN Devices : Profile[d] = ParseDevice(Devices[i])
  BY ProfileIsRead
<1>2. /\ m \in Nat /\ M \in Nat /\ FitsWord(M, c)
      /\ InTable(Profile[d].rnd, k, m .. M, {t \in Nat : M * t < Word}) /\ Profile[d].seq = <<>>
  BY <1>1, DeviceIsMeasured
<1> HIDE DEF V, m, M
<1>3. Likely(v, m, M)
  <2> DEFINE T == {t \in Nat : M * t < Word}
  <2>1. M * M < Word /\ 100 * M < Word /\ Word \in Nat \ {0}
    BY <1>2, AmountsAssumption DEF FitsWord
  <2>2. Closed(m .. M, T) /\ 0 .. 100 \subseteq T
    <3>1. Closed(m .. M, T)
      BY <1>2, <2>1, LinearBetween DEF Closed
    <3>2. ASSUME NEW r \in 0 .. 100 PROVE M * r < Word
      <4>1. M * r \in Nat /\ M * r <= M * 100
        BY <1>2, ProductsGrow
      <4> QED BY <1>2, <2>1, <4>1
    <3> QED BY <3>1, <3>2
  <2> HIDE DEF T
  <2>3. Blend(v, m .. M)
    <3>1. InTable(Profile[d].rnd, k, m .. M, T) /\ Profile[d].seq = <<>>
      BY <1>2 DEF T
    <3> QED BY <2>2, <3>1, MixedIs
  <2> HIDE DEF v
  <2>4. PICK share, a, b : /\ share \in 0 .. 100 /\ v = Weighted(share, a, b)
                           /\ IF share = 0 THEN a = 0 ELSE a \in m .. M
                           /\ IF share = 100 THEN b = 0 ELSE b \in m .. M
    BY <2>3 DEF Blend
  <2>5. /\ m \in Nat /\ M \in Nat /\ share \in 0 .. 100
        /\ (share # 0 => a \in m .. M) /\ (share = 0 => a = 0)
        /\ (share # 100 => b \in m .. M) /\ (share = 100 => b = 0)
        /\ M * M < Word /\ 100 * M < Word /\ Word \in Nat \ {0}
    BY <1>2, <2>1, <2>4
  <2>6. Likely(Weighted(share, a, b), m, M)
    BY ONLY <2>5, WeightedLikely, ZenonT(40)
  <2> QED BY <2>4, <2>6
<1>4. c \in Nat /\ FitsWord(Default[k], c)
  <2>1. Period \in Nat /\ FitsWord(Default.io, Period) /\ FitsWord(Default.bw, 1024 * Period)
    BY CycleAssumption DEF ProfilesFit
  <2> QED BY <2>1 DEF Kinds, Scale
<1>5. Threshold(Profile[d], s)[k] = (x * c) % Word
  <2> DEFINE known == Mixed(Profile[d], Workload(s))
             or(a, b) == IF a = 0 THEN b ELSE a
  <2>1. Threshold(Profile[d], s) = [bw |-> (or(known.bw, Default.bw) * 1024 * Period) % Word,
                                    io |-> (or(known.io, Default.io) * Period) % Word]
    BY DEF Threshold
  <2>2. CASE k = "io"
    BY <2>1, <2>2 DEF Scale
  <2>3. CASE k = "bw"
    <3>1. or(known.bw, Default.bw) = x
      BY <2>3
    <3>2. x \in Nat /\ Period \in Nat
      BY <1>2, <1>3, <1>4, CycleAssumption DEF Likely, FitsWord
    <3>3. x * 1024 * Period = x * (1024 * Period)
      BY <3>2, Z3
    <3> QED BY <2>1, <2>3, <3>1, <3>3 DEF Scale
  <2> QED BY <2>2, <2>3 DEF Kinds
<1>8. \A t : (t \in c * 100 * (m \div 100) .. c * M \/ (m < 100 /\ t = c * Default[k]))
               => Within(t, V, c, Default[k])
  <2> HIDE DEF V, c
  <2> QED BY DEF Within, m, M
<1> HIDE DEF v, c
<1>6. CASE v = 0
  <2>1. m < 100 \/ v \in 100 * (m \div 100) .. M
    BY <1>3 DEF Likely
  <2>2. m < 100
    <3>1. ASSUME v \in 100 * (m \div 100) .. M, 100 <= m PROVE FALSE
      <4>1. 1 <= m \div 100 /\ m \div 100 \in Nat
        BY <1>2, <3>1, DivBounds
      <4> QED BY <1>6, <3>1, <4>1
    <3> QED BY <1>2, <2>1, <3>1
  <2>3. (x * c) % Word = c * Default[k]
    <3>1. c * Default[k] \in Nat /\ Default[k] * c = c * Default[k]
      BY <1>4, Z3 DEF FitsWord
    <3>2. c * Default[k] < Word
      BY <1>4 DEF FitsWord
    <3> QED BY <1>6, <3>1, <3>2, AmountsAssumption
  <2>4. Within((x * c) % Word, V, c, Default[k])
    BY <1>8, <2>2, <2>3
  <2> QED BY <1>5, <2>4 DEF c, V
<1>7. CASE v # 0
  <2>1. v \in 100 * (m \div 100) .. M
    BY <1>3, <1>7 DEF Likely
  <2> DEFINE l == 100 * (m \div 100)
  <2>2. l \in Nat
    BY <1>2, DivBounds
  <2>3. c * l \in Nat /\ v * c \in Nat /\ c * M \in Nat /\ c * l <= v * c /\ v * c <= c * M
    <3>1. l <= v /\ v <= M /\ v \in Nat
      BY <2>1, <2>2, <1>2
    <3> HIDE DEF l
    <3>2. v * c = c * v
      BY <1>4, <3>1, Z3
    <3> QED BY <1>2, <1>4, <2>2, <3>1, <3>2, ProductsGrow
  <2>4. c * M < Word
    BY <1>2 DEF FitsWord
  <2>5. (x * c) % Word = v * c
    BY <1>7, <2>3, <2>4, AmountsAssumption
  <2>6. c * l = c * 100 * (m \div 100)
    <3>1. m \div 100 \in Nat
      BY <1>2, DivBounds
    <3> QED BY <1>4, <3>1, Z3
  <2> HIDE DEF l
  <2>7. v * c \in c * 100 * (m \div 100) .. c * M
    BY <2>2, <2>3, <2>6
  <2>8. Within((x * c) % Word, V, c, Default[k])
    BY <1>8, <2>5, <2>7
  <2> QED BY <1>5, <2>8 DEF c, V
<1> QED BY <1>6, <1>7

\* Whatever was measured and whatever overflows, a threshold is a word.
LEMMA IntsAreClosed == Closed(Int, Nat)
<1> SUFFICES ASSUME NEW ay \in Int, NEW by \in Int, NEW ax \in Nat, NEW bx \in Nat, NEW x \in Nat,
                    (ax < x /\ x < bx) \/ (bx < x /\ x < ax)
             PROVE  Linear(ax, ay, bx, by, x) \in Int
  BY DEF Closed
<1>1. \A a \in Int, c \in Nat \ {0} : a % Word \in Nat /\ (a % Word) \div c \in Int
  <2>1. \A a \in Int : a % Word \in Nat
    BY AmountsAssumption
  <2>2. \A a \in Nat, c \in Nat \ {0} : a \div c \in Int
    BY DivBounds
  <2> QED BY <2>1, <2>2
<1> DEFINE part(y, u, l) == ((y * u) % Word) \div l
<1>2. \A y \in Int, u \in Nat, l \in Nat \ {0} : part(y, u, l) \in Int
  <2>1. \A y \in Int, u \in Nat : y * u \in Int
    BY Z3
  <2> QED BY <1>1, <2>1
<1> HIDE DEF part
<1>3. CASE ax < x /\ x < bx
  <2>1. ax < bx /\ x - ax \in Nat /\ bx - ax \in Nat \ {0} /\ by - ay \in Int /\ ay - by \in Int
    BY <1>3
  <2>2. Linear(ax, ay, bx, by, x) = IF ay < by THEN ay + part(by - ay, x - ax, bx - ax)
                                    ELSE ay - part(ay - by, x - ax, bx - ax)
    BY <1>3, <2>1, Zenon DEF Linear, part
  <2>3. part(by - ay, x - ax, bx - ax) \in Int /\ part(ay - by, x - ax, bx - ax) \in Int
    BY <1>2, <2>1
  <2> QED BY <2>2, <2>3
<1>4. CASE bx < x /\ x < ax
  <2>1. ~(ax < bx) /\ x - bx \in Nat /\ ax - bx \in Nat \ {0} /\ by - ay \in Int /\ ay - by \in Int
    BY <1>4
  <2>2. Linear(ax, ay, bx, by, x) = IF by < ay THEN by + part(ay - by, x - bx, ax - bx)
                                    ELSE by - part(by - ay, x - bx, ax - bx)
    BY <1>4, <2>1, Zenon DEF Linear, part
  <2>3. part(by - ay, x - bx, ax - bx) \in Int /\ part(ay - by, x - bx, ax - bx) \in Int
    BY <1>2, <2>1
  <2> QED BY <2>2, <2>3
<1> QED BY <1>3, <1>4

LEMMA WeightedIsInt ==
    ASSUME NEW s \in 0 .. 100, NEW a \in Int, NEW b \in Int
    PROVE  Weighted(s, a, b) \in Int
<1> DEFINE sum == (s * b + (100 - s) * a) % Word
           q == ((a * b) % Word) \div sum
<1>1. s * b + (100 - s) * a \in Int /\ a * b \in Int
  BY Z3
<1>2. sum \in Nat /\ (a * b) % Word \in Nat
  BY <1>1, AmountsAssumption
<1>3. sum # 0 => q \in Nat
  BY <1>2, DivBounds
<1>4. Weighted(s, a, b) = IF s = 0 \/ a = 0 THEN b ELSE IF s = 100 \/ b = 0 THEN a
                          ELSE IF sum = 0 THEN 0 ELSE (q * 100) % Word
  BY Zenon DEF Weighted
<1> HIDE DEF sum, q
<1>5. sum # 0 => (q * 100) % Word \in Int
  BY <1>3, AmountsAssumption
<1> QED BY <1>4, <1>5

LEMMA ThresholdIsWord ==
    ASSUME NEW k \in Kinds, NEW d \in Disks, NEW s \in DiskIO
    PROVE  Threshold(Profile[d], s)[k] \in 0 .. Word - 1
<1> DEFINE known == IF Profile[d] = <<>> THEN Default ELSE Mixed(Profile[d], Workload(s))
           or(a, b) == IF a = 0 THEN b ELSE a
<1>0. Period \in Nat /\ Default[k] \in Int
  BY CycleAssumption DEF Kinds
<1>1. Threshold(Profile[d], s) = [bw |-> (or(known.bw, Default.bw) * 1024 * Period) % Word,
                                  io |-> (or(known.io, Default.io) * Period) % Word]
  BY DEF Threshold
<1>2. Mixed(Profile[d], Workload(s))[k] \in Int \/ Profile[d] = <<>>
  <2> SUFFICES ASSUME Profile[d] # <<>> PROVE Mixed(Profile[d], Workload(s))[k] \in Int
    OBVIOUS
  <2>1. PICK i \in DOMAIN Devices : Profile[d] = ParseDevice(Devices[i])
    BY ProfileIsRead
  <2>2. InTable(Profile[d].rnd, k, Int, Nat) /\ Profile[d].seq = <<>>
    BY <2>1, DeviceIsTable
  <2>3. Blend(Mixed(Profile[d], Workload(s))[k], Int)
    BY <2>2, IntsAreClosed, MixedIs
  <2> DEFINE v == Mixed(Profile[d], Workload(s))[k]
  <2> HIDE DEF v
  <2>4. PICK share, a, b : /\ share \in 0 .. 100 /\ v = Weighted(share, a, b)
                           /\ IF share = 0 THEN a = 0 ELSE a \in Int
                           /\ IF share = 100 THEN b = 0 ELSE b \in Int
    BY <2>3 DEF Blend, v
  <2>5. a \in Int /\ b \in Int
    BY <2>4
  <2> QED BY <2>4, <2>5, WeightedIsInt DEF v
<1>3. known[k] \in Int
  BY <1>0, <1>2
<1> HIDE DEF known
<1>4. or(known[k], Default[k]) \in Int
  BY <1>0, <1>3
<1>5. \A x \in Int : x * Period \in Int /\ x * 1024 * Period \in Int
  BY <1>0, Z3
<1>6. \A x \in Int : x % Word \in 0 .. Word - 1
  BY AmountsAssumption
<1>7. CASE k = "io"
  BY <1>1, <1>4, <1>5, <1>6, <1>7
<1>8. CASE k = "bw"
  BY <1>1, <1>4, <1>5, <1>6, <1>8
<1> QED BY <1>7, <1>8 DEF Kinds

-----------------------------------------------------------------------------
(* The steps.                                                              *)

HeldBy(A, w, d) == {a \in A : a.window = w /\ d \in {a.src, a.tgt}}

LEMMA BooksAre ==
    Books <=> \A d \in DOMAIN unit \ strayed :
                 Balanced(unit[d], offered[d], booked[d], HeldBy(in, window, d))
BY DEF Books, Held, HeldBy

LEMMA BooksWillBe ==
    ASSUME \A d \in DOMAIN unit' \ strayed' :
              Balanced(unit'[d], offered'[d], booked'[d], HeldBy(in', window', d))
    PROVE  Books'
BY DEF Books, Held, HeldBy

LEMMA HeldOfNumbers ==
    ASSUME Typed, NEW d, NEW w
    PROVE  OfNumbers(HeldBy(in, w, d))
<1>1. IsFiniteSet(in) /\ \A a \in in : a.need \in Demands
  BY DEF Typed, Arbitratees
<1>2. IsFiniteSet(HeldBy(in, w, d))
  BY <1>1, FS_Subset DEF HeldBy
<1>3. \A a \in HeldBy(in, w, d) : a \in in
  BY DEF HeldBy
<1> QED BY <1>1, <1>2, <1>3, DemandIs DEF OfNumbers

\* A disk that a step leaves alone keeps its books.
LEMMA LeftAlone ==
    ASSUME Books, NEW d \in DOMAIN unit \ strayed,
           unit'[d] = unit[d], offered'[d] = offered[d], booked'[d] = booked[d],
           HeldBy(in', window', d) = HeldBy(in, window, d)
    PROVE  Balanced(unit'[d], offered'[d], booked'[d], HeldBy(in', window', d))
<1>1. Balanced(unit[d], offered[d], booked[d], HeldBy(in, window, d))
  BY BooksAre
<1> QED BY <1>1

LEMMA InitInv == Init => Inv
<1> SUFFICES ASSUME Init PROVE Inv
  OBVIOUS
<1>1. /\ DOMAIN unit = {} /\ DOMAIN booked = Disks /\ window \in Nat /\ present \subseteq Disks
      /\ place \in [OBJs -> Disks] /\ batch = {} /\ in = {}
  BY AmountsAssumption DEF Init
<1>2. Typed
  BY <1>1, FS_EmptySet DEF Typed, Shaped
<1>3. Ways
  BY <1>1 DEF Ways
<1>4. Books
  BY <1>1 DEF Books
<1> QED BY <1>2, <1>3, <1>4 DEF Inv

\* The unit of a new window: nothing is reserved, what is left is a word.
LEMMA NewUnitBalances ==
    ASSUME NEW d \in Disks, NEW load \in Loads
    PROVE  LET u == NewUnit(d, load[d]) IN
           DOMAIN u = FourParts /\ Balanced(u, u.avail, Zero, {})
<1> DEFINE u == NewUnit(d, load[d])
           limit == Threshold(Profile[d], load[d])
           used == Consumed(load[d])
<1>0. load[d] \in DiskIO
  BY AmountsAssumption
<1>1. limit.io \in 0 .. Word - 1 /\ limit.bw \in 0 .. Word - 1
  <2>1. \A k \in Kinds : limit[k] \in 0 .. Word - 1
    BY <1>0, ThresholdIsWord
  <2> HIDE DEF limit
  <2> QED BY <2>1 DEF Kinds
<1>2. used.io \in Nat /\ used.bw \in Nat
  BY <1>0 DEF Consumed, DiskIO
<1>3. Word \in Nat \ {0}
  BY WordIs
<1>4. /\ u.avail.io = Above(limit.io, used.io) /\ u.avail.bw = Above(limit.bw, used.bw)
      /\ u.reserved = Zero /\ DOMAIN u = FourParts
  BY DEF NewUnit, FourParts
<1> HIDE DEF u, limit, used
<1>5. u.avail.io \in 0 .. Word - 1 /\ u.avail.bw \in 0 .. Word - 1
  BY <1>1, <1>2, <1>3, <1>4 DEF Above
<1>6. \A k \in Kinds : u.avail[k] \in 0 .. Word - 1
  BY <1>5 DEF Kinds
<1>7. \A k \in Kinds : Needs({}, k) = 0
  BY NeedsAre, FS_EmptySet
<1>8. \A k \in Kinds : Zero[k] = 0
  BY KindsAre
<1>9. Balanced(u, u.avail, Zero, {})
  BY <1>3, <1>4, <1>6, <1>7, <1>8 DEF Balanced
<1> QED BY <1>4, <1>9 DEF u

LEMMA NewWindowKeeps ==
    ASSUME Inv, NewWindow
    PROVE  Inv'
<1>0. Typed /\ Ways
  BY DEF Inv
<1>1. /\ window' = window + 1 /\ batch' = {} /\ in' = in /\ present' = present
      /\ place' = place /\ out' \subseteq out /\ strayed' = {}
      /\ booked' = [d \in Disks |-> Zero] /\ offered' = [d \in DOMAIN unit' |-> unit'[d].avail]
  BY DEF NewWindow, configVars
<1>2. PICK load \in Loads : unit' = <<>> \/ unit' = Ranking(load)
  BY DEF NewWindow
<1>3. \A d \in DOMAIN unit' : d \in Disks /\ unit'[d] = NewUnit(d, load[d])
  <2>1. CASE unit' = <<>>
    BY <2>1
  <2>2. CASE unit' = Ranking(load)
    BY <2>2, <1>0 DEF Ranking, Typed
  <2> QED BY <1>2, <2>1, <2>2
<1>4. ASSUME NEW d \in DOMAIN unit'
      PROVE  /\ d \in Disks /\ DOMAIN unit'[d] = FourParts
             /\ Balanced(unit'[d], offered'[d], booked'[d], HeldBy(in', window', d))
  <2>1. d \in Disks /\ unit'[d] = NewUnit(d, load[d]) /\ offered'[d] = unit'[d].avail
        /\ booked'[d] = Zero
    BY <1>1, <1>3
  <2>2. HeldBy(in', window', d) = {}
    <3>1. \A a \in in : a.window \in Nat /\ a.window <= window
      BY <1>0 DEF Ways, Typed, Arbitratees
    <3>2. window \in Nat
      BY <1>0 DEF Typed
    <3> QED BY <1>1, <3>1, <3>2 DEF HeldBy
  <2> QED BY <2>1, <2>2, NewUnitBalances
<1>5. Typed'
  <2>1. Shaped(unit)' /\ DOMAIN unit' \subseteq Disks
    BY <1>4 DEF Shaped
  <2>2. window' \in Nat /\ DOMAIN booked' = Disks
    BY <1>0, <1>1 DEF Typed
  <2> QED BY <1>0, <1>1, <2>1, <2>2 DEF Typed
<1>6. Ways'
  <2>1. window \in Nat /\ \A a \in in : a.window \in Nat
    BY <1>0 DEF Typed, Arbitratees
  <2>2. \A a \in in : a.src = place[a.obj] /\ a.src # a.tgt /\ a.obj \notin out
                      /\ a.window <= window + 1
    BY <1>0, <2>1 DEF Ways
  <2> QED BY <1>0, <1>1, <2>2 DEF Ways
<1>7. Books'
  BY <1>4, BooksWillBe
<1> QED BY <1>5, <1>6, <1>7 DEF Inv

LEMMA ConfigKeeps ==
    ASSUME Inv, DiskJoinsOrLeaves
    PROVE  Inv'
<1>0. Typed /\ Ways /\ Books
  BY DEF Inv
<1>1. /\ window' = window /\ unit' = unit /\ offered' = offered /\ batch' = batch
      /\ in' = in /\ out' = out /\ place' = place /\ booked' = booked /\ strayed' = strayed
      /\ present' \subseteq Disks
  BY <1>0 DEF DiskJoinsOrLeaves, rankingVars, Typed
<1>2. Typed' /\ Ways'
  BY <1>0, <1>1 DEF Typed, Ways, Shaped
<1>3. Books'
  <2>1. \A d \in DOMAIN unit' \ strayed' :
           Balanced(unit'[d], offered'[d], booked'[d], HeldBy(in', window', d))
    BY <1>0, <1>1, LeftAlone
  <2> QED BY <2>1, BooksWillBe
<1> QED BY <1>2, <1>3 DEF Inv

LEMMA ChoosePlanKeeps ==
    ASSUME Inv, ChoosePlan
    PROVE  Inv'
<1>0. Typed /\ Ways /\ Books
  BY DEF Inv
<1>1. /\ window' = window /\ unit' = StillThere /\ offered' = offered
      /\ in' = in /\ out' = out /\ place' = place /\ present' = present
      /\ booked' = booked /\ strayed' = strayed
  BY DEF ChoosePlan, configVars
<1>2. DOMAIN unit' \subseteq DOMAIN unit /\ \A d \in DOMAIN unit' : unit'[d] = unit[d]
  BY <1>1 DEF StillThere
<1>3. PICK o \in OBJs, need \in Demands :
         \E d \in Favourites(unit', need) \ {place[o]} :
            batch' = batch \cup {[obj |-> o, src |-> place[o], tgt |-> d, need |-> need]}
  BY DEF ChoosePlan
<1>4. PICK d \in Favourites(unit', need) \ {place[o]} :
         batch' = batch \cup {[obj |-> o, src |-> place[o], tgt |-> d, need |-> need]}
  BY <1>3
<1>5. d \in Disks /\ place[o] \in Disks /\ d # place[o]
  BY <1>0, <1>2, <1>4 DEF Favourites, Allowed, Typed
<1> DEFINE p == [obj |-> o, src |-> place[o], tgt |-> d, need |-> need]
<1>6. p \in Plans /\ p.src = place[p.obj] /\ p.src # p.tgt
  BY <1>5 DEF Plans
<1>7. batch' = batch \cup {p}
  BY <1>4
<1> HIDE DEF p
<1>8. Typed'
  <2>1. Shaped(unit)' /\ DOMAIN unit' \subseteq Disks
    BY <1>0, <1>2 DEF Typed, Shaped
  <2> QED BY <1>0, <1>1, <1>6, <1>7, <2>1 DEF Typed
<1>9. Ways'
  BY <1>0, <1>1, <1>6, <1>7 DEF Ways
<1>10. Books'
  <2>1. \A e \in DOMAIN unit' \ strayed' :
           Balanced(unit'[e], offered'[e], booked'[e], HeldBy(in', window', e))
    BY <1>0, <1>1, <1>2, LeftAlone
  <2> QED BY <2>1, BooksWillBe
<1> QED BY <1>8, <1>9, <1>10 DEF Inv

LEMMA RefusePlanKeeps ==
    ASSUME Inv, NEW p \in batch, batch' = batch \ {p}, RefusePlan(p)
    PROVE  Inv'
<1>0. Typed /\ Ways /\ Books
  BY DEF Inv
<1>1. /\ window' = window /\ unit' = unit /\ offered' = offered
      /\ in' = in /\ out' = out /\ place' = place /\ booked' = booked /\ strayed' = strayed
      /\ present' = present
  BY DEF RefusePlan, PlanFrame, rankingVars, configVars
<1>2. Typed' /\ Ways'
  BY <1>0, <1>1 DEF Typed, Ways, Shaped
<1>3. Books'
  <2>1. \A d \in DOMAIN unit' \ strayed' :
           Balanced(unit'[d], offered'[d], booked'[d], HeldBy(in', window', d))
    BY <1>0, <1>1, LeftAlone
  <2> QED BY <2>1, BooksWillBe
<1> QED BY <1>2, <1>3 DEF Inv

LEMMA ConflictKeeps ==
    ASSUME Inv, NEW p \in batch, batch' = batch \ {p}, Conflict(p)
    PROVE  Inv'
<1>0. Typed /\ Ways /\ Books
  BY DEF Inv
<1>1. /\ window' = window /\ unit' = unit /\ offered' = offered
      /\ out' = out /\ place' = place /\ booked' = booked /\ present' = present
  BY DEF Conflict, PlanFrame, rankingVars, configVars
<1>2. PICK a \in in :
         /\ a.obj = p.obj
         /\ \/ in' = in /\ strayed' = strayed
            \/ /\ in' = (in \ {a}) \cup
                        {[a EXCEPT !.tgt = p.tgt, !.need = p.need, !.window = window]}
               /\ strayed' = strayed \cup {a.src, a.tgt, p.tgt}
  BY DEF Conflict
<1>3. CASE in' = in /\ strayed' = strayed
  <2>1. Typed' /\ Ways'
    BY <1>0, <1>1, <1>3 DEF Typed, Ways, Shaped
  <2>2. \A d \in DOMAIN unit' \ strayed' :
           Balanced(unit'[d], offered'[d], booked'[d], HeldBy(in', window', d))
    BY <1>0, <1>1, <1>3, LeftAlone
  <2>3. Books'
    BY <2>2, BooksWillBe
  <2> QED BY <2>1, <2>3 DEF Inv
<1>4. CASE /\ in' = (in \ {a}) \cup
                    {[a EXCEPT !.tgt = p.tgt, !.need = p.need, !.window = window]}
           /\ strayed' = strayed \cup {a.src, a.tgt, p.tgt}
  <2>1. PICK b : b = [a EXCEPT !.tgt = p.tgt, !.need = p.need, !.window = window]
    OBVIOUS
  <2>2. a \in Arbitratees /\ p \in Plans /\ window \in Nat /\ in \subseteq Arbitratees
    BY <1>0 DEF Typed
  <2>3. /\ b \in Arbitratees /\ b.obj = a.obj /\ b.src = a.src /\ b.tgt = p.tgt
        /\ b.window = window
    BY <2>1, <2>2 DEF Arbitratees, Plans
  <2>4. in' = (in \ {a}) \cup {b}
    BY <1>4, <2>1
  <2>5. p.src = a.src /\ p.src # p.tgt
    BY <1>0, <1>2 DEF Ways
  <2>6. IsFiniteSet(in')
    <3>1. IsFiniteSet(in \ {a})
      BY <1>0, FS_Subset DEF Typed
    <3> QED BY <2>4, <3>1, FS_AddElement
  <2>7. Typed'
    BY <1>0, <1>1, <2>2, <2>3, <2>4, <2>6 DEF Typed, Shaped
  <2>8. Ways'
    <3>1. \A c \in in : c.src = place[c.obj] /\ c.src # c.tgt /\ c.obj \notin out
                        /\ c.window <= window
      BY <1>0 DEF Ways
    <3>2. b.src = place[b.obj] /\ b.src # b.tgt /\ b.obj \notin out /\ b.window <= window
      BY <2>2, <2>3, <2>5, <3>1
    <3>3. \A c \in in \ {a} : c.obj # b.obj
      BY <1>0, <2>3 DEF Ways
    <3>4. \A c, e \in in' : c.obj = e.obj => c = e
      BY <1>0, <2>4, <3>3 DEF Ways
    <3>5. \A q \in batch' : q.src # q.tgt /\ (q.obj \in out \/ q.src = place[q.obj])
      BY <1>0 DEF Ways
    <3> QED BY <1>1, <2>4, <3>1, <3>2, <3>4, <3>5 DEF Ways
  <2>9. ASSUME NEW d \in DOMAIN unit' \ strayed'
        PROVE  Balanced(unit'[d], offered'[d], booked'[d], HeldBy(in', window', d))
    <3>1. d \notin {a.src, a.tgt} /\ d \notin {b.src, b.tgt} /\ d \in DOMAIN unit \ strayed
      BY <1>1, <1>4, <2>3, <2>9
    <3>2. HeldBy(in', window', d) = HeldBy(in, window, d)
      BY <1>1, <2>4, <3>1 DEF HeldBy
    <3> QED BY <1>0, <1>1, <3>1, <3>2, LeftAlone
  <2>10. Books'
    BY <2>9, BooksWillBe
  <2> QED BY <2>7, <2>8, <2>10 DEF Inv
<1> QED BY <1>2, <1>3, <1>4

\* A plan that is received leads from where its OBJ is to another disk.
LEMMA PlanLeadsAway ==
    ASSUME Typed, Ways, NEW p \in batch, p.obj \notin {a.obj : a \in in} \cup out
    PROVE  /\ p.src = place[p.obj] /\ p.src # p.tgt /\ p.obj \notin out
           /\ p \in Plans /\ p.need \in Demands
           /\ \A a \in in : a.obj # p.obj
           /\ SameNeed(Entering(p.need), p.need) /\ SameNeed(Leaving(p.need), p.need)
           /\ SameNeed(WithCap(p.need, 0), p.need)
           /\ \A k \in Kinds : p.need[k] \in Nat
<1>1. p \in Plans /\ p.need \in Demands
  BY DEF Typed, Plans
<1>2. p.src = place[p.obj] /\ p.src # p.tgt /\ p.obj \notin out
  BY DEF Ways
<1> QED BY <1>1, <1>2, DemandIs DEF SameNeed

\* Where there is room there is more than is needed.
LEMMA RoomIs ==
    ASSUME NEW u, NEW m, NEW need, SameNeed(m, need), HasRoom(u, m)
    PROVE  \A k \in Kinds : u.avail[k] > need[k]
BY DEF Kinds, HasRoom, SameNeed

LEMMA AdmitKeeps ==
    ASSUME Inv, NEW p \in batch, batch' = batch \ {p}, Admit(p)
    PROVE  Inv'
<1>0. Typed /\ Ways /\ Books /\ Shaped(unit)
  BY DEF Inv, Typed
<1>1. /\ window' = window /\ offered' = offered
      /\ out' = out /\ place' = place /\ present' = present
      /\ p.obj \notin {a.obj : a \in in} \cup out /\ TargetTakes(p)
      /\ in' = in \cup {Arbitratee(p)} /\ unit' = ReserveBoth(p)
      /\ booked' = [booked EXCEPT ![p.tgt] = Plus(@, Entering(p.need)),
                                  ![p.src] = Plus(@, WithCap(p.need, 0))]
      /\ strayed' = IF SourceTakes(p) THEN strayed ELSE strayed \cup {p.src}
  BY DEF Admit, configVars
<1>2. /\ p.src = place[p.obj] /\ p.src # p.tgt /\ p.obj \notin out
      /\ p \in Plans /\ p.need \in Demands
      /\ \A a \in in : a.obj # p.obj
      /\ SameNeed(Entering(p.need), p.need) /\ SameNeed(Leaving(p.need), p.need)
      /\ SameNeed(WithCap(p.need, 0), p.need)
      /\ \A k \in Kinds : p.need[k] \in Nat
  BY <1>0, <1>1, PlanLeadsAway
<1>3. PICK x : x = Arbitratee(p)
  OBVIOUS
<1>4. /\ x \in Arbitratees /\ x.obj = p.obj /\ x.src = p.src /\ x.tgt = p.tgt
      /\ x.need = p.need /\ x.window = window
  BY <1>0, <1>2, <1>3 DEF Arbitratee, Arbitratees, Plans, Typed
<1>5. in' = in \cup {x} /\ x \notin in
  BY <1>1, <1>2, <1>3, <1>4
<1>6. /\ Shaped(unit')
      /\ \A e \in DOMAIN unit : e \notin {p.src, p.tgt} => unit'[e] = unit[e]
      /\ SourceTakes(p) => unit'[p.src] = Reserved(unit[p.src], Leaving(p.need))
      /\ unit'[p.tgt] = Reserved(unit[p.tgt], Entering(p.need))
  BY <1>0, <1>1, <1>2, BothReserved
<1>7. /\ DOMAIN unit' = DOMAIN unit
      /\ \A d \in DOMAIN unit' : DOMAIN unit'[d] = FourParts
  BY <1>6 DEF Shaped
<1>8. /\ DOMAIN booked' = Disks
      /\ booked'[p.tgt] = Plus(booked[p.tgt], Entering(p.need))
      /\ booked'[p.src] = Plus(booked[p.src], WithCap(p.need, 0))
      /\ \A d \in Disks \ {p.src, p.tgt} : booked'[d] = booked[d]
  <2>1. DOMAIN booked = Disks /\ p.src \in Disks /\ p.tgt \in Disks /\ p.src # p.tgt
    BY <1>0, <1>2 DEF Typed, Plans
  <2> QED BY <1>1, <2>1
<1>9. Typed'
  <2>1. IsFiniteSet(in')
    BY <1>0, <1>5, FS_AddElement DEF Typed
  <2> QED BY <1>0, <1>1, <1>4, <1>5, <1>7, <1>8, <2>1 DEF Typed, Shaped
<1>10. Ways'
  <2>1. x.window <= window
    BY <1>0, <1>4 DEF Typed
  <2> QED BY <1>0, <1>1, <1>2, <1>4, <1>5, <2>1 DEF Ways
<1>11. ASSUME NEW d \in DOMAIN unit' \ strayed'
       PROVE  Balanced(unit'[d], offered'[d], booked'[d], HeldBy(in', window', d))
  <2>1. d \in DOMAIN unit \ strayed /\ d \in Disks /\ DOMAIN unit[d] = FourParts
    BY <1>0, <1>1, <1>7 DEF Typed, Shaped
  <2>2. Balanced(unit[d], offered[d], booked[d], HeldBy(in, window, d))
    BY <1>0, <2>1, BooksAre
  <2> DEFINE S == HeldBy(in, window, d)
  <2>3. x \notin S /\ OfNumbers(S)
    BY <1>0, <1>5, HeldOfNumbers DEF HeldBy
  <2>4. CASE d \notin {p.src, p.tgt}
    <3>1. HeldBy(in', window', d) = HeldBy(in, window, d)
      BY <1>1, <1>4, <1>5, <2>4 DEF HeldBy
    <3> QED BY <1>0, <1>1, <1>6, <1>8, <2>1, <2>4, <3>1, LeftAlone
  <2>5. CASE d \in {p.src, p.tgt}
    <3>1. HeldBy(in', window', d) = S \cup {x}
      BY <1>1, <1>4, <1>5, <2>5 DEF HeldBy
    <3>2. PICK m, c : /\ SameNeed(m, x.need) /\ SameNeed(c, x.need) /\ HasRoom(unit[d], m)
                      /\ unit'[d] = Reserved(unit[d], m) /\ booked'[d] = Plus(booked[d], c)
      <4>1. CASE d = p.tgt
        BY <1>1, <1>2, <1>4, <1>6, <1>8, <4>1 DEF TargetTakes
      <4>2. CASE d = p.src
        <5>1. SourceTakes(p)
          BY <1>1, <4>2
        <5>2. HasRoom(unit[d], Leaving(p.need))
          BY <4>2, <5>1 DEF SourceTakes
        <5> QED BY <1>2, <1>4, <1>6, <1>8, <4>2, <5>1, <5>2
      <4> QED BY <2>5, <4>1, <4>2
    <3>3. \A k \in Kinds : x.need[k] \in Nat /\ unit[d].avail[k] > x.need[k]
      BY <1>2, <1>4, <3>2, RoomIs
    <3> HIDE DEF S
    <3>4. Balanced(Reserved(unit[d], m), offered[d], Plus(booked[d], c), S \cup {x})
      BY <2>1, <2>2, <2>3, <3>2, <3>3, TakesMore DEF S
    <3> QED BY <1>1, <3>1, <3>2, <3>4
  <2> QED BY <2>4, <2>5
<1>12. Books'
  BY <1>11, BooksWillBe
<1> QED BY <1>9, <1>10, <1>12 DEF Inv

LEMMA NoRoomKeeps ==
    ASSUME Inv, NEW p \in batch, batch' = batch \ {p}, NoRoom(p)
    PROVE  Inv'
<1>0. Typed /\ Ways /\ Books /\ Shaped(unit)
  BY DEF Inv, Typed
<1>1. /\ window' = window /\ offered' = offered /\ in' = in
      /\ out' = out /\ place' = place /\ present' = present /\ booked' = booked
      /\ unit' = Reserve(unit, p.src, Leaving(p.need))
      /\ strayed' = strayed \cup {p.src}
  BY DEF NoRoom, configVars
<1>2. /\ Shaped(unit') /\ \A e \in DOMAIN unit : e # p.src => unit'[e] = unit[e]
  BY <1>0, <1>1, ReserveIs
<1>3. DOMAIN unit' = DOMAIN unit /\ \A d \in DOMAIN unit' : DOMAIN unit'[d] = FourParts
  BY <1>2 DEF Shaped
<1>4. Typed' /\ Ways'
  BY <1>0, <1>1, <1>3 DEF Typed, Ways, Shaped
<1>5. \A d \in DOMAIN unit' \ strayed' :
         Balanced(unit'[d], offered'[d], booked'[d], HeldBy(in', window', d))
  BY <1>0, <1>1, <1>2, <1>3, LeftAlone
<1>6. Books'
  BY <1>5, BooksWillBe
<1> QED BY <1>4, <1>6 DEF Inv

LEMMA SubmitFailsKeeps ==
    ASSUME Inv, NEW p \in batch, batch' = batch \ {p}, SubmitFails(p)
    PROVE  Inv'
<1>0. Typed /\ Ways /\ Books /\ Shaped(unit)
  BY DEF Inv, Typed
<1>1. /\ window' = window /\ offered' = offered /\ in' = in
      /\ out' = out /\ place' = place /\ present' = present /\ booked' = booked
      /\ p.obj \notin {a.obj : a \in in} \cup out /\ TargetTakes(p) /\ ~ConfigChanged(p)
      /\ unit' = UnReserveBoth(ReserveBoth(p), p)
      /\ strayed' = IF SourceTakes(p) THEN strayed ELSE strayed \cup {p.src}
  BY DEF SubmitFails, configVars
<1>2. /\ p.src # p.tgt
      /\ SameNeed(Entering(p.need), p.need) /\ SameNeed(Leaving(p.need), p.need)
      /\ \A k \in Kinds : p.need[k] \in Nat
  BY <1>0, <1>1, PlanLeadsAway
<1>3. PICK half : half = ReserveBoth(p)
  OBVIOUS
<1>4. /\ Shaped(half)
      /\ \A e \in DOMAIN unit : e \notin {p.src, p.tgt} => half[e] = unit[e]
      /\ SourceTakes(p) => half[p.src] = Reserved(unit[p.src], Leaving(p.need))
      /\ half[p.tgt] = Reserved(unit[p.tgt], Entering(p.need))
  BY <1>0, <1>1, <1>2, <1>3, BothReserved
<1>5. /\ Shaped(unit')
      /\ \A e \in DOMAIN unit : e \notin {p.src, p.tgt} => unit'[e] = half[e]
      /\ p.src \in present \cap DOMAIN unit =>
            unit'[p.src] = UnReserved(half[p.src], Leaving(p.need))
      /\ p.tgt \in present \cap DOMAIN unit =>
            unit'[p.tgt] = UnReserved(half[p.tgt], Entering(p.need))
  BY <1>1, <1>2, <1>3, <1>4, BothUnReserved
<1>6. DOMAIN unit' = DOMAIN unit /\ \A d \in DOMAIN unit' : DOMAIN unit'[d] = FourParts
  BY <1>5 DEF Shaped
<1>7. Typed' /\ Ways'
  BY <1>0, <1>1, <1>6 DEF Typed, Ways, Shaped
<1>8. ASSUME NEW d \in DOMAIN unit' \ strayed'
      PROVE  Balanced(unit'[d], offered'[d], booked'[d], HeldBy(in', window', d))
  <2>1. d \in DOMAIN unit \ strayed /\ DOMAIN unit[d] = FourParts
    BY <1>0, <1>1, <1>6 DEF Shaped
  <2>2. Balanced(unit[d], offered[d], booked[d], HeldBy(in, window, d))
    BY <1>0, <2>1, BooksAre
  <2> DEFINE S == HeldBy(in, window, d)
  <2>3. OfNumbers(S)
    BY <1>0, HeldOfNumbers
  <2>4. CASE d \notin {p.src, p.tgt}
    BY <1>0, <1>1, <1>4, <1>5, <2>1, <2>4, LeftAlone
  <2>5. CASE d \in {p.src, p.tgt}
    <3>1. d \in present
      BY <1>1, <2>5 DEF ConfigChanged
    <3>2. PICK m : /\ SameNeed(m, p.need) /\ HasRoom(unit[d], m)
                   /\ unit'[d] = UnReserved(Reserved(unit[d], m), m)
      <4>1. CASE d = p.tgt
        BY <1>1, <1>2, <1>4, <1>5, <2>1, <3>1, <4>1 DEF TargetTakes
      <4>2. CASE d = p.src
        <5>1. SourceTakes(p)
          BY <1>1, <4>2
        <5>2. HasRoom(unit[d], Leaving(p.need))
          BY <4>2, <5>1 DEF SourceTakes
        <5> QED BY <1>2, <1>4, <1>5, <2>1, <3>1, <4>2, <5>1, <5>2
      <4> QED BY <2>5, <4>1, <4>2
    <3>3. \A k \in Kinds : p.need[k] \in Nat /\ unit[d].avail[k] > p.need[k]
      BY <1>2, <3>2, RoomIs
    <3> HIDE DEF S
    <3>4. Balanced(UnReserved(Reserved(unit[d], m), m), offered[d], booked[d], S)
      BY <2>1, <2>2, <2>3, <3>2, <3>3, GivesBack DEF S
    <3> QED BY <1>1, <3>2, <3>4 DEF S
  <2> QED BY <2>4, <2>5
<1>9. Books'
  BY <1>8, BooksWillBe
<1> QED BY <1>7, <1>9 DEF Inv

\* What any end of a migration does to the ways of the others.
Ends(a) ==
    /\ in' = in \ {a}
    /\ \/ place' = [place EXCEPT ![a.obj] = a.tgt] /\ out' = out \cup {a.obj}
       \/ UNCHANGED <<place, out>>
    /\ UNCHANGED <<present, window, offered, batch>>

LEMMA EndKeepsWays ==
    ASSUME Typed, Ways, NEW a \in in, Ends(a)
    PROVE  /\ Ways' /\ in' \subseteq Arbitratees /\ IsFiniteSet(in')
           /\ place' \in [OBJs -> Disks]
<1>1. in' = in \ {a} /\ batch' = batch /\ window' = window
  BY DEF Ends
<1>2. in' \subseteq Arbitratees /\ IsFiniteSet(in')
  BY <1>1, FS_Subset DEF Typed
<1>3. \A b \in in \ {a} : b.obj # a.obj
  BY DEF Ways
<1>4. a.obj \in OBJs /\ a.tgt \in Disks /\ place \in [OBJs -> Disks]
  BY DEF Typed, Arbitratees
<1>5. /\ \A b \in in : b.obj \in OBJs
      /\ \A p \in batch : p.obj \in OBJs
  BY DEF Typed, Arbitratees, Plans
<1>6. CASE place' = [place EXCEPT ![a.obj] = a.tgt] /\ out' = out \cup {a.obj}
  <2>1. place' \in [OBJs -> Disks] /\ \A o \in OBJs : o # a.obj => place'[o] = place[o]
    BY <1>4, <1>6
  <2>2. Ways'
    BY <1>1, <1>3, <1>5, <1>6, <2>1 DEF Ways
  <2> QED BY <1>2, <2>1, <2>2
<1>7. CASE UNCHANGED <<place, out>>
  <2>1. Ways'
    BY <1>1, <1>7 DEF Ways
  <2> QED BY <1>2, <1>4, <1>7, <2>1
<1> QED BY <1>6, <1>7 DEF Ends

LEMMA InTimeKeeps ==
    ASSUME Inv, NEW a \in in, Ends(a), CompletesInTime(a)
    PROVE  Inv'
<1>0. Typed /\ Ways /\ Books /\ Shaped(unit)
  BY DEF Inv, Typed
<1>1. /\ window' = window /\ offered' = offered /\ in' = in \ {a} /\ batch' = batch
      /\ present' = present /\ booked' = booked /\ a.window = window
      /\ unit' = ConsumeBoth(unit, a)
      /\ strayed' = strayed \cup ({a.src, a.tgt} \ present)
  BY DEF CompletesInTime, Ends
<1>2. /\ a.src # a.tgt /\ a.need \in Demands
      /\ SameNeed(Entering(a.need), a.need) /\ SameNeed(Leaving(a.need), a.need)
  <2>1. a.src # a.tgt /\ a.need \in Demands
    BY <1>0 DEF Ways, Typed, Arbitratees
  <2> QED BY <2>1, DemandIs DEF SameNeed
<1>3. /\ Shaped(unit')
      /\ \A e \in DOMAIN unit : e \notin {a.src, a.tgt} => unit'[e] = unit[e]
      /\ a.src \in present \cap DOMAIN unit =>
            unit'[a.src] = ConsumedBy(unit[a.src], Leaving(a.need))
      /\ a.tgt \in present \cap DOMAIN unit =>
            unit'[a.tgt] = ConsumedBy(unit[a.tgt], Entering(a.need))
  BY <1>0, <1>1, <1>2, BothConsumed
<1>4. DOMAIN unit' = DOMAIN unit /\ \A d \in DOMAIN unit' : DOMAIN unit'[d] = FourParts
  BY <1>3 DEF Shaped
<1>5. Ways' /\ in' \subseteq Arbitratees /\ IsFiniteSet(in') /\ place' \in [OBJs -> Disks]
  BY <1>0, EndKeepsWays
<1>6. Typed'
  BY <1>0, <1>1, <1>4, <1>5 DEF Typed, Shaped
<1>7. ASSUME NEW d \in DOMAIN unit' \ strayed'
      PROVE  Balanced(unit'[d], offered'[d], booked'[d], HeldBy(in', window', d))
  <2>1. d \in DOMAIN unit \ strayed /\ DOMAIN unit[d] = FourParts
    BY <1>0, <1>1, <1>4 DEF Shaped
  <2>2. Balanced(unit[d], offered[d], booked[d], HeldBy(in, window, d))
    BY <1>0, <2>1, BooksAre
  <2> DEFINE S == HeldBy(in, window, d)
  <2>3. OfNumbers(S)
    BY <1>0, HeldOfNumbers
  <2>4. CASE d \notin {a.src, a.tgt}
    <3>1. HeldBy(in', window', d) = HeldBy(in, window, d)
      BY <1>1, <2>4 DEF HeldBy
    <3> QED BY <1>0, <1>1, <1>3, <2>1, <2>4, <3>1, LeftAlone
  <2>5. CASE d \in {a.src, a.tgt}
    <3>1. d \in present /\ a \in S /\ HeldBy(in', window', d) = S \ {a}
      BY <1>1, <1>7, <2>5 DEF HeldBy
    <3>2. PICK m : SameNeed(m, a.need) /\ unit'[d] = ConsumedBy(unit[d], m)
      BY <1>2, <1>3, <2>1, <2>5, <3>1
    <3> HIDE DEF S
    <3>3. Balanced(ConsumedBy(unit[d], m), offered[d], booked[d], S \ {a})
      BY <2>1, <2>2, <2>3, <3>1, <3>2, EndsOne DEF S
    <3> QED BY <1>1, <3>1, <3>2, <3>3
  <2> QED BY <2>4, <2>5
<1>8. Books'
  BY <1>7, BooksWillBe
<1> QED BY <1>5, <1>6, <1>8 DEF Inv

LEMMA LateKeeps ==
    ASSUME Inv, NEW a \in in, Ends(a), CompletesLate(a)
    PROVE  Inv'
<1>0. Typed /\ Ways /\ Books /\ Shaped(unit)
  BY DEF Inv, Typed
<1>1. /\ window' = window /\ offered' = offered /\ in' = in \ {a} /\ batch' = batch
      /\ present' = present /\ a.window # window
  BY DEF CompletesLate, Ends
<1>2. /\ a.src # a.tgt /\ a.need \in Demands /\ a.src \in Disks /\ a.tgt \in Disks
      /\ SameNeed(Entering(a.need), a.need) /\ SameNeed(Leaving(a.need), a.need)
      /\ SameNeed(WithCap(a.need, 0), a.need) /\ \A k \in Kinds : a.need[k] \in Nat
  <2>1. a.src # a.tgt /\ a.need \in Demands /\ a.src \in Disks /\ a.tgt \in Disks
    BY <1>0 DEF Ways, Typed, Arbitratees
  <2> QED BY <2>1, DemandIs DEF SameNeed
<1>3. Ways' /\ in' \subseteq Arbitratees /\ IsFiniteSet(in') /\ place' \in [OBJs -> Disks]
  BY <1>0, EndKeepsWays
<1>4. \A d : HeldBy(in', window', d) = HeldBy(in, window, d)
  BY <1>1 DEF HeldBy
<1>5. CASE /\ ~ConfigChanged(a) /\ TargetTakes(a)
           /\ unit' = ConsumeBoth(ReserveBoth(a), a)
           /\ booked' = [booked EXCEPT ![a.tgt] = Plus(@, Entering(a.need)),
                                       ![a.src] = Plus(@, WithCap(a.need, 0))]
           /\ strayed' = IF SourceTakes(a) THEN strayed ELSE strayed \cup {a.src}
  <2>1. PICK half : half = ReserveBoth(a)
    OBVIOUS
  <2>2. /\ Shaped(half)
        /\ \A e \in DOMAIN unit : e \notin {a.src, a.tgt} => half[e] = unit[e]
        /\ SourceTakes(a) => half[a.src] = Reserved(unit[a.src], Leaving(a.need))
        /\ half[a.tgt] = Reserved(unit[a.tgt], Entering(a.need))
    BY <1>0, <1>2, <1>5, <2>1, BothReserved
  <2>3. /\ Shaped(unit')
        /\ \A e \in DOMAIN unit : e \notin {a.src, a.tgt} => unit'[e] = half[e]
        /\ a.src \in present \cap DOMAIN unit =>
              unit'[a.src] = ConsumedBy(half[a.src], Leaving(a.need))
        /\ a.tgt \in present \cap DOMAIN unit =>
              unit'[a.tgt] = ConsumedBy(half[a.tgt], Entering(a.need))
    BY <1>2, <1>5, <2>1, <2>2, BothConsumed
  <2>4. DOMAIN unit' = DOMAIN unit /\ \A d \in DOMAIN unit' : DOMAIN unit'[d] = FourParts
    BY <2>3 DEF Shaped
  <2>5. /\ DOMAIN booked' = Disks
        /\ booked'[a.tgt] = Plus(booked[a.tgt], Entering(a.need))
        /\ booked'[a.src] = Plus(booked[a.src], WithCap(a.need, 0))
        /\ \A d \in Disks \ {a.src, a.tgt} : booked'[d] = booked[d]
    <3>1. DOMAIN booked = Disks
      BY <1>0 DEF Typed
    <3> QED BY <1>2, <1>5, <3>1
  <2>6. Typed'
    BY <1>0, <1>1, <1>3, <2>4, <2>5 DEF Typed, Shaped
  <2>7. ASSUME NEW d \in DOMAIN unit' \ strayed'
        PROVE  Balanced(unit'[d], offered'[d], booked'[d], HeldBy(in', window', d))
    <3>1. d \in DOMAIN unit \ strayed /\ d \in Disks /\ DOMAIN unit[d] = FourParts
      BY <1>0, <1>5, <2>4 DEF Typed, Shaped
    <3>2. Balanced(unit[d], offered[d], booked[d], HeldBy(in, window, d))
      BY <1>0, <3>1, BooksAre
    <3> DEFINE S == HeldBy(in, window, d)
    <3>3. OfNumbers(S)
      BY <1>0, HeldOfNumbers
    <3>4. CASE d \notin {a.src, a.tgt}
      BY <1>0, <1>1, <1>4, <2>2, <2>3, <2>5, <3>1, <3>4, LeftAlone
    <3>5. CASE d \in {a.src, a.tgt}
      <4>1. d \in present
        BY <1>5, <3>5 DEF ConfigChanged
      <4>2. PICK m, c : /\ SameNeed(m, a.need) /\ SameNeed(c, a.need) /\ HasRoom(unit[d], m)
                        /\ unit'[d] = ConsumedBy(Reserved(unit[d], m), m)
                        /\ booked'[d] = Plus(booked[d], c)
        <5>1. CASE d = a.tgt
          BY <1>2, <1>5, <2>2, <2>3, <2>5, <3>1, <4>1, <5>1 DEF TargetTakes
        <5>2. CASE d = a.src
          <6>1. SourceTakes(a)
            BY <1>5, <2>7, <5>2
          <6>2. HasRoom(unit[d], Leaving(a.need))
            BY <5>2, <6>1 DEF SourceTakes
          <6> QED BY <1>2, <2>2, <2>3, <2>5, <3>1, <4>1, <5>2, <6>1, <6>2
        <5> QED BY <3>5, <5>1, <5>2
      <4>3. \A k \in Kinds : a.need[k] \in Nat /\ unit[d].avail[k] > a.need[k]
        BY <1>2, <4>2, RoomIs
      <4> HIDE DEF S
      <4>4. Balanced(ConsumedBy(Reserved(unit[d], m), m), offered[d], Plus(booked[d], c), S)
        BY <3>1, <3>2, <3>3, <4>2, <4>3, TakesAndEnds DEF S
      <4> QED BY <1>1, <1>4, <4>2, <4>4 DEF S
    <3> QED BY <3>4, <3>5
  <2>8. Books'
    BY <2>7, BooksWillBe
  <2> QED BY <1>3, <2>6, <2>8 DEF Inv
<1>6. CASE unit' = Reserve(unit, a.src, Leaving(a.need)) /\ booked' = booked
           /\ strayed' = strayed \cup {a.src}
  <2>1. Shaped(unit') /\ \A e \in DOMAIN unit : e # a.src => unit'[e] = unit[e]
    BY <1>0, <1>6, ReserveIs
  <2>2. DOMAIN unit' = DOMAIN unit /\ \A d \in DOMAIN unit' : DOMAIN unit'[d] = FourParts
    BY <2>1 DEF Shaped
  <2>3. Typed'
    BY <1>0, <1>1, <1>3, <1>6, <2>2 DEF Typed, Shaped
  <2>4. \A d \in DOMAIN unit' \ strayed' :
           Balanced(unit'[d], offered'[d], booked'[d], HeldBy(in', window', d))
    BY <1>0, <1>1, <1>4, <1>6, <2>1, <2>2, LeftAlone
  <2>5. Books'
    BY <2>4, BooksWillBe
  <2> QED BY <1>3, <2>3, <2>5 DEF Inv
<1>7. CASE UNCHANGED <<unit, booked, strayed>>
  <2>1. Typed'
    BY <1>0, <1>1, <1>3, <1>7 DEF Typed, Shaped
  <2>2. \A d \in DOMAIN unit' \ strayed' :
           Balanced(unit'[d], offered'[d], booked'[d], HeldBy(in', window', d))
    BY <1>0, <1>1, <1>4, <1>7, LeftAlone
  <2>3. Books'
    BY <2>2, BooksWillBe
  <2> QED BY <1>3, <2>1, <2>3 DEF Inv
<1> QED BY <1>5, <1>6, <1>7 DEF CompletesLate

LEMMA ExpireKeeps ==
    ASSUME Inv, Expire
    PROVE  Inv'
<1>0. Typed /\ Ways /\ Books /\ Shaped(unit)
  BY DEF Inv, Typed
<1>1. PICK a \in in :
         /\ in' = in \ {a}
         /\ strayed' = IF a.window = window THEN strayed \cup {a.src, a.tgt} ELSE strayed
  BY DEF Expire
<1>2. /\ window' = window /\ offered' = offered /\ batch' = batch /\ unit' = unit
      /\ present' = present /\ booked' = booked /\ place' = place /\ out' = out
  BY DEF Expire, configVars, rankingVars
<1>3. Ends(a)
  BY <1>1, <1>2 DEF Ends
<1>4. Ways' /\ in' \subseteq Arbitratees /\ IsFiniteSet(in') /\ place' \in [OBJs -> Disks]
  BY <1>0, <1>3, EndKeepsWays
<1>5. Typed'
  BY <1>0, <1>2, <1>4 DEF Typed, Shaped
<1>6. ASSUME NEW d \in DOMAIN unit' \ strayed'
      PROVE  Balanced(unit'[d], offered'[d], booked'[d], HeldBy(in', window', d))
  <2>1. d \in DOMAIN unit \ strayed /\ HeldBy(in', window', d) = HeldBy(in, window, d)
    BY <1>1, <1>2 DEF HeldBy
  <2> QED BY <1>0, <1>2, <2>1, LeftAlone
<1>7. Books'
  BY <1>6, BooksWillBe
<1> QED BY <1>4, <1>5, <1>7 DEF Inv

LEMMA StepKeeps == Inv /\ [Next]_vars => Inv'
<1> SUFFICES ASSUME Inv, [Next]_vars PROVE Inv'
  OBVIOUS
<1>1. CASE NewWindow
  BY <1>1, NewWindowKeeps
<1>2. CASE DiskJoinsOrLeaves
  BY <1>2, ConfigKeeps
<1>3. CASE ChoosePlan
  BY <1>3, ChoosePlanKeeps
<1>4. CASE ReceivePlan
  <2>1. PICK p \in batch :
           /\ batch' = batch \ {p}
           /\ RefusePlan(p) \/ Conflict(p) \/ Admit(p) \/ NoRoom(p) \/ SubmitFails(p)
    BY <1>4 DEF ReceivePlan
  <2> QED BY <2>1, RefusePlanKeeps, ConflictKeeps, AdmitKeeps, NoRoomKeeps, SubmitFailsKeeps
<1>5. CASE Complete
  <2>1. PICK a \in in : Ends(a) /\ (CompletesInTime(a) \/ CompletesLate(a))
    BY <1>5 DEF Complete, Ends
  <2> QED BY <2>1, InTimeKeeps, LateKeeps
<1>6. CASE Expire
  BY <1>6, ExpireKeeps
<1>7. CASE UNCHANGED vars
  <2>1. /\ window' = window /\ unit' = unit /\ offered' = offered
        /\ in' = in /\ out' = out /\ place' = place /\ booked' = booked /\ strayed' = strayed
        /\ present' = present /\ batch' = batch
    BY <1>7 DEF vars
  <2> QED BY <2>1 DEF Inv, Typed, Ways, Books, Shaped, Held
<1> QED BY <1>1, <1>2, <1>3, <1>4, <1>5, <1>6, <1>7 DEF Next

LEMMA BooksBalance == Inv => BookedAsHeld
<1> SUFFICES ASSUME Inv, NEW d \in DOMAIN unit \ strayed
             PROVE  /\ booked[d].io <= offered[d].io /\ booked[d].bw <= offered[d].bw
                    /\ unit[d].reserved.io = SumFunction([a \in Held(d) |-> a.need.io])
                    /\ unit[d].reserved.bw = SumFunction([a \in Held(d) |-> a.need.bw])
  BY DEF BookedAsHeld, NotOverbooked, HeldIsReserved
<1>1. Balanced(unit[d], offered[d], booked[d], Held(d))
  BY DEF Inv, Books
<1>2. "io" \in Kinds /\ "bw" \in Kinds
  BY DEF Kinds
<1>3. /\ unit[d].reserved["io"] = Needs(Held(d), "io")
      /\ unit[d].reserved["bw"] = Needs(Held(d), "bw")
  BY <1>1, <1>2 DEF Balanced
<1>4. ASSUME NEW k \in Kinds
      PROVE  booked[d][k] <= offered[d][k]
  BY <1>1, WordIs DEF Balanced
<1>5. booked[d].io <= offered[d].io /\ booked[d].bw <= offered[d].bw
  BY <1>2, <1>4
<1> QED BY <1>3, <1>5 DEF Needs

\* What is reserved of a disk is what the migrations of the window that go on need
\* of it, and no disk gives more than it had left when the window started: true in
\* every order of plans, refusals, conflicts, ends in time or late, expiries and
\* changes of the configuration (Arbitrator::Reserve, UnReserve, Consume, Complete).
THEOREM BookedAsHeldAlways == Spec => []BookedAsHeld
<1>1. Init => Inv
  BY InitInv
<1>2. Inv /\ [Next]_vars => Inv'
  BY StepKeeps
<1>3. Inv => BookedAsHeld
  BY BooksBalance
<1> QED BY <1>1, <1>2, <1>3, PTL DEF Spec

-----------------------------------------------------------------------------
(* Thresholds are computed once a window.                                  *)

KeepsLimits(units, after) ==
    /\ Shaped(after)
    /\ \A e \in DOMAIN units : e \in DOMAIN after /\ after[e].limit = units[e].limit

LEMMA OneKeepsLimits ==
    ASSUME NEW units, Shaped(units), NEW d, NEW need
    PROVE  /\ KeepsLimits(units, Reserve(units, d, need))
           /\ KeepsLimits(units, UnReserve(units, d, need))
           /\ KeepsLimits(units, Consume(units, d, need))
<1>1. \A u : DOMAIN u = FourParts =>
         /\ Reserved(u, need).limit = u.limit
         /\ UnReserved(u, need).limit = u.limit
         /\ ConsumedBy(u, need).limit = u.limit
  BY DEF Reserved, UnReserved, ConsumedBy, FourParts
<1>2. \A e \in DOMAIN units : DOMAIN units[e] = FourParts
  BY DEF Shaped
<1>3. \A new : InTier(units, d, new) =
                  IF d \in DOMAIN units THEN [units EXCEPT ![d] = new] ELSE units
  BY DEF InTier
<1>4. ASSUME NEW new, d \in DOMAIN units => new.limit = units[d].limit
      PROVE  \A e \in DOMAIN units : InTier(units, d, new)[e].limit = units[e].limit
  BY <1>3, <1>4
<1>5. \A e \in DOMAIN units : Reserve(units, d, need)[e].limit = units[e].limit
  <2>1. d \in DOMAIN units => Reserved(units[d], need).limit = units[d].limit
    BY <1>1, <1>2
  <2> QED BY <1>4, <2>1 DEF Reserve
<1>6. \A e \in DOMAIN units : UnReserve(units, d, need)[e].limit = units[e].limit
  <2>1. d \in DOMAIN units => UnReserved(units[d], need).limit = units[d].limit
    BY <1>1, <1>2
  <2> QED BY <1>4, <2>1 DEF UnReserve
<1>7. \A e \in DOMAIN units : Consume(units, d, need)[e].limit = units[e].limit
  <2>1. d \in DOMAIN units => ConsumedBy(units[d], need).limit = units[d].limit
    BY <1>1, <1>2
  <2> QED BY <1>4, <2>1 DEF Consume
<1>8. Shaped(Reserve(units, d, need)) /\ Shaped(UnReserve(units, d, need))
      /\ Shaped(Consume(units, d, need))
  BY ReserveIs, UnReserveIs, ConsumeIs
<1> QED BY <1>5, <1>6, <1>7, <1>8 DEF KeepsLimits, Shaped

LEMMA KeptTwice ==
    ASSUME NEW units, NEW half, NEW after, KeepsLimits(units, half), KeepsLimits(half, after)
    PROVE  KeepsLimits(units, after)
BY DEF KeepsLimits

LEMMA BothKeepLimits ==
    ASSUME NEW units, Shaped(units), NEW a
    PROVE  /\ KeepsLimits(units, UnReserveBoth(units, a))
           /\ KeepsLimits(units, ConsumeBoth(units, a))
<1>1. KeepsLimits(units, UnReserveBoth(units, a))
  <2> DEFINE half == UnReserve(units, a.src, Leaving(a.need))
  <2>1. KeepsLimits(units, half)
    BY OneKeepsLimits
  <2> HIDE DEF half
  <2>2. KeepsLimits(half, UnReserve(half, a.tgt, Entering(a.need)))
    BY <2>1, OneKeepsLimits DEF KeepsLimits
  <2>3. UnReserveBoth(units, a) = UnReserve(half, a.tgt, Entering(a.need))
    BY DEF UnReserveBoth, half
  <2> QED BY <2>1, <2>2, <2>3, KeptTwice
<1>2. KeepsLimits(units, ConsumeBoth(units, a))
  <2> DEFINE half == Consume(units, a.src, Leaving(a.need))
  <2>1. KeepsLimits(units, half)
    BY OneKeepsLimits
  <2> HIDE DEF half
  <2>2. KeepsLimits(half, Consume(half, a.tgt, Entering(a.need)))
    BY <2>1, OneKeepsLimits DEF KeepsLimits
  <2>3. ConsumeBoth(units, a) = Consume(half, a.tgt, Entering(a.need))
    BY DEF ConsumeBoth, half
  <2> QED BY <2>1, <2>2, <2>3, KeptTwice
<1> QED BY <1>1, <1>2

LEMMA ReserveBothKeepsLimits ==
    ASSUME Shaped(unit), NEW a
    PROVE  KeepsLimits(unit, ReserveBoth(a))
<1> DEFINE half == Reserve(unit, a.src, Leaving(a.need))
<1>1. KeepsLimits(unit, half)
  BY OneKeepsLimits
<1> HIDE DEF half
<1>2. KeepsLimits(half, Reserve(half, a.tgt, Entering(a.need)))
  BY <1>1, OneKeepsLimits DEF KeepsLimits
<1>3. ReserveBoth(a) = Reserve(half, a.tgt, Entering(a.need))
  BY DEF ReserveBoth, half
<1> QED BY <1>1, <1>2, <1>3, KeptTwice

\* The threshold of every unit was computed of the IO a disk may have.
Computed ==
    \A d \in DOMAIN unit : d \in Disks /\ \E s \in DiskIO : unit[d].limit = Threshold(Profile[d], s)

LEMMA KeptIsComputed ==
    ASSUME Computed, DOMAIN unit' \subseteq DOMAIN unit,
           \A d \in DOMAIN unit' : unit'[d].limit = unit[d].limit
    PROVE  Computed'
<1>1. ASSUME NEW d \in DOMAIN unit'
      PROVE  d \in Disks /\ \E s \in DiskIO : unit'[d].limit = Threshold(Profile[d], s)
  BY DEF Computed
<1> QED BY <1>1 DEF Computed

LEMMA ChangedIsComputed ==
    ASSUME Computed, NEW after, KeepsLimits(unit, after), unit' = after
    PROVE  Computed'
<1>1. DOMAIN after = DOMAIN unit /\ \A d \in DOMAIN unit : after[d].limit = unit[d].limit
  BY DEF KeepsLimits, Shaped
<1> QED BY <1>1, KeptIsComputed

LEMMA NewIsComputed ==
    ASSUME Typed, NewWindow
    PROVE  Computed'
<1>1. PICK load \in Loads : unit' = <<>> \/ unit' = Ranking(load)
  BY DEF NewWindow
<1>2. ASSUME NEW d \in DOMAIN unit'
      PROVE  d \in Disks /\ \E s \in DiskIO : unit'[d].limit = Threshold(Profile[d], s)
  <2>1. unit' = Ranking(load)
    BY <1>1
  <2>2. d \in Disks /\ unit'[d] = NewUnit(d, load[d])
    BY <2>1 DEF Ranking, Typed
  <2>3. load[d] \in DiskIO
    BY <2>2, AmountsAssumption
  <2>4. unit'[d].limit = Threshold(Profile[d], load[d])
    BY <2>2 DEF NewUnit
  <2> QED BY <2>2, <2>3, <2>4
<1> QED BY <1>2 DEF Computed

LEMMA StepComputed ==
    ASSUME Inv, Computed, [Next]_vars
    PROVE  Computed'
<1>0. Typed /\ Shaped(unit)
  BY DEF Inv, Typed
<1>1. CASE NewWindow
  BY <1>0, <1>1, NewIsComputed
<1>2. CASE UNCHANGED unit
  BY <1>2 DEF Computed
<1>3. CASE ChoosePlan
  <2>1. unit' = StillThere
    BY <1>3 DEF ChoosePlan
  <2>2. DOMAIN unit' \subseteq DOMAIN unit /\ \A d \in DOMAIN unit' : unit'[d].limit = unit[d].limit
    BY <2>1 DEF StillThere
  <2> QED BY <2>2, KeptIsComputed
<1>4. CASE ReceivePlan
  <2>1. PICK p \in batch :
           RefusePlan(p) \/ Conflict(p) \/ Admit(p) \/ NoRoom(p) \/ SubmitFails(p)
    BY <1>4 DEF ReceivePlan
  <2>2. CASE RefusePlan(p) \/ Conflict(p)
    BY <1>2, <2>2 DEF RefusePlan, Conflict, PlanFrame, rankingVars
  <2>3. CASE Admit(p)
    <3>1. unit' = ReserveBoth(p)
      BY <2>3 DEF Admit
    <3> QED BY <1>0, <3>1, ReserveBothKeepsLimits, ChangedIsComputed
  <2>4. CASE NoRoom(p)
    <3>1. unit' = Reserve(unit, p.src, Leaving(p.need))
      BY <2>4 DEF NoRoom
    <3> QED BY <1>0, <3>1, OneKeepsLimits, ChangedIsComputed
  <2>5. CASE SubmitFails(p)
    <3> DEFINE half == ReserveBoth(p)
    <3>1. unit' = UnReserveBoth(half, p)
      BY <2>5 DEF SubmitFails
    <3>2. KeepsLimits(unit, half)
      BY <1>0, ReserveBothKeepsLimits
    <3> HIDE DEF half
    <3>3. KeepsLimits(half, UnReserveBoth(half, p))
      BY <3>2, BothKeepLimits DEF KeepsLimits
    <3> QED BY <3>1, <3>2, <3>3, KeptTwice, ChangedIsComputed
  <2> QED BY <2>1, <2>2, <2>3, <2>4, <2>5
<1>5. CASE Complete
  <2>1. PICK a \in in : CompletesInTime(a) \/ CompletesLate(a)
    BY <1>5 DEF Complete
  <2>2. \/ unit' = unit
        \/ unit' = ConsumeBoth(unit, a)
        \/ unit' = ConsumeBoth(ReserveBoth(a), a)
        \/ unit' = Reserve(unit, a.src, Leaving(a.need))
    BY <2>1 DEF CompletesInTime, CompletesLate
  <2>3. CASE unit' = ConsumeBoth(unit, a)
    BY <1>0, <2>3, BothKeepLimits, ChangedIsComputed
  <2>4. CASE unit' = ConsumeBoth(ReserveBoth(a), a)
    <3> DEFINE half == ReserveBoth(a)
    <3>1. unit' = ConsumeBoth(half, a)
      BY <2>4
    <3>2. KeepsLimits(unit, half)
      BY <1>0, ReserveBothKeepsLimits
    <3> HIDE DEF half
    <3>3. KeepsLimits(half, ConsumeBoth(half, a))
      BY <3>2, BothKeepLimits DEF KeepsLimits
    <3> QED BY <3>1, <3>2, <3>3, KeptTwice, ChangedIsComputed
  <2>5. CASE unit' = Reserve(unit, a.src, Leaving(a.need))
    BY <1>0, <2>5, OneKeepsLimits, ChangedIsComputed
  <2> QED BY <1>2, <2>2, <2>3, <2>4, <2>5
<1>6. CASE DiskJoinsOrLeaves \/ Expire
  BY <1>2, <1>6 DEF DiskJoinsOrLeaves, Expire, rankingVars
<1> QED BY <1>1, <1>2, <1>3, <1>4, <1>5, <1>6 DEF Next, vars

\* The threshold of a ranked disk whose model was measured lies between the least and
\* the most that was measured of it, to whole hundreds, whatever IO it had and whatever
\* sizes and shares were measured (DiskPerf::CalculateDiskPerf, LinearInterpolation,
\* WeightedInterpolation), as long as the products of 32 bit do not overflow.
THEOREM ThresholdsWithinWhileFitting ==
    ASSUME ProfilesFit
    PROVE  Spec => []ThresholdsWithin
<1>1. Init => Inv /\ Computed
  <2>1. Init => Computed
    BY DEF Init, Computed
  <2> QED BY <2>1, InitInv
<1>2. Inv /\ Computed /\ [Next]_vars => Inv' /\ Computed'
  BY StepKeeps, StepComputed
<1>3. Computed => ThresholdsWithin
  <2> SUFFICES ASSUME Computed, NEW d \in DOMAIN unit, Profile[d] # <<>>
               PROVE  /\ Within(unit[d].limit.io, Measured(Profile[d], "io"), Period, Default.io)
                      /\ Within(unit[d].limit.bw, Measured(Profile[d], "bw"), 1024 * Period,
                                Default.bw)
    BY DEF ThresholdsWithin
  <2>1. d \in Disks
    BY DEF Computed
  <2>2. PICK s \in DiskIO : unit[d].limit = Threshold(Profile[d], s)
    BY DEF Computed
  <2>3. ASSUME NEW k \in Kinds
        PROVE  Within(unit[d].limit[k], Measured(Profile[d], k), Scale(k), Default[k])
    BY <2>1, <2>2, ThresholdIs
  <2>4. "io" \in Kinds /\ "bw" \in Kinds /\ Scale("io") = Period /\ Scale("bw") = 1024 * Period
    BY DEF Kinds, Scale
  <2> QED BY <2>3, <2>4
<1> QED BY <1>1, <1>2, <1>3, PTL DEF Spec

-----------------------------------------------------------------------------
(* OBJs in buckets.                                                        *)

Lens(part, S) == [i \in S |-> Len(part[i])]

\* Counts are sums over finite sets of buckets.
LEMMA CountSums ==
    ASSUME NEW S, IsFiniteSet(S), NEW part, \A i \in S : Len(part[i]) \in Nat
    PROVE  \E g : Sums(Lens(part, S), S, g) /\ Count(part, S) = g[S]
<1> DEFINE f == Lens(part, S)
           Part(g, s) == IF s = {} THEN 0 ELSE Len(part[First(s)]) + g[s \ {First(s)}]
           iter == CHOOSE g : g = [s \in SUBSET S |-> Part(g, s)]
<1>1. Count(part, S) = iter[S]
  BY Zenon DEF Count, MapThenSumSet, MapThenFoldSet, First
<1>2. \A x \in S : f[x] \in Nat
  BY DEF Lens
<1>3. PICK g : Sums(f, S, g)
  BY <1>2, SumsExist
<1>4. \A k : \A s \in SUBSET S : Part(k, s) = Step(f, k, s)
  BY FirstIn DEF Step, Lens
<1>5. \A k : [s \in SUBSET S |-> Part(k, s)] = [s \in SUBSET S |-> Step(f, k, s)]
  BY <1>4
<1> HIDE DEF f, Part
<1>6. g = [s \in SUBSET S |-> Part(g, s)]
  BY <1>3, <1>5 DEF Sums
<1>7. iter = [s \in SUBSET S |-> Part(iter, s)]
  BY <1>6, Zenon
<1> HIDE DEF iter
<1>8. Sums(f, S, iter)
  BY <1>5, <1>7 DEF Sums
<1> QED BY <1>1, <1>8 DEF f

\* A count is a number.
LEMMA CountNat ==
    ASSUME NEW S, IsFiniteSet(S), NEW part, \A i \in S : Len(part[i]) \in Nat
    PROVE  Count(part, S) \in Nat
<1>1. PICK g : Sums(Lens(part, S), S, g) /\ Count(part, S) = g[S]
  BY CountSums
<1> DEFINE f == Lens(part, S)
<1>2. \A x \in S : f[x] \in Nat
  BY DEF Lens
<1> HIDE DEF f
<1>3. \A t \in SUBSET S : g[t] \in Nat
  BY <1>1, <1>2, SumsNat DEF f
<1> QED BY <1>1, <1>3

\* No buckets, no OBJs.
LEMMA CountNone == ASSUME NEW part PROVE Count(part, {}) = 0
<1>1. PICK g : Sums(Lens(part, {}), {}, g) /\ Count(part, {}) = g[{}]
  BY CountSums, FS_EmptySet
<1> QED BY <1>1, SumsStep DEF Chain

\* The count depends on the lengths alone.
LEMMA CountSame ==
    ASSUME NEW S, IsFiniteSet(S), NEW part, NEW other,
           \A i \in S : Len(part[i]) \in Nat /\ Len(other[i]) = Len(part[i])
    PROVE  Count(other, S) = Count(part, S)
<1>1. PICK g : Sums(Lens(part, S), S, g) /\ Count(part, S) = g[S]
  BY CountSums
<1>2. PICK k : Sums(Lens(other, S), S, k) /\ Count(other, S) = k[S]
  <2>1. \A i \in S : Len(other[i]) \in Nat
    OBVIOUS
  <2> QED BY ONLY <2>1, IsFiniteSet(S), CountSums
<1>3. Lens(other, S) = Lens(part, S)
  BY DEF Lens
<1> DEFINE f == Lens(part, S)
<1> HIDE DEF f
<1>4. Sums(f, S, g) /\ Sums(f, S, k)
  BY <1>1, <1>2, <1>3 DEF f
<1>5. \A t \in SUBSET S : g[t] = k[t]
  BY <1>4, SumsAgree
<1> QED BY <1>1, <1>2, <1>5

\* A bucket more adds its OBJs.
LEMMA CountMore ==
    ASSUME NEW S, IsFiniteSet(S), NEW x, x \notin S, NEW part,
           \A i \in S \cup {x} : Len(part[i]) \in Nat
    PROVE  Count(part, S \cup {x}) = Count(part, S) + Len(part[x])
<1> DEFINE E == S \cup {x}  f == Lens(part, S)  h == Lens(part, E)
<1>1. IsFiniteSet(E)
  BY FS_AddElement
<1>2. PICK g : Sums(f, S, g) /\ Count(part, S) = g[S]
  BY CountSums
<1>3. PICK k : Sums(h, E, k) /\ Count(part, E) = k[E]
  <2>1. \A i \in E : Len(part[i]) \in Nat
    OBVIOUS
  <2> HIDE DEF E
  <2> QED BY <1>1, <2>1, CountSums
<1>4. /\ S \subseteq E /\ \A y \in S : f[y] = h[y]
      /\ \A y \in E : h[y] \in Nat
      /\ h[x] = Len(part[x]) /\ S \in SUBSET E /\ x \in E \ S
  BY DEF Lens
<1> HIDE DEF f, h
<1>5. g[S] = k[S]
  BY <1>2, <1>3, <1>4, SumsAgree
<1>6. k[S \cup {x}] = h[x] + k[S]
  BY <1>1, <1>3, <1>4, SumsAdd
<1>7. k[S] \in Nat /\ h[x] \in Nat
  BY <1>1, <1>3, <1>4, SumsNat
<1> QED BY <1>2, <1>3, <1>4, <1>5, <1>6, <1>7

-----------------------------------------------------------------------------
(* Buckets in the order in which a side is sorted and walked.              *)

\* The p-th bucket from the end of a side, and how many buckets the side has.
BucketAt(side, p) == IF side = "hot" THEN BucketNum - p ELSE p - 1
Reach(side) == IF side = "hot" THEN Top - Boundary ELSE Boundary + 1
UpTo(side, p) == {BucketAt(side, q) : q \in 1 .. p}

\* How many OBJs there are up to a bucket.
Cum(part, side) == [p \in 0 .. BucketNum |-> Count(part, UpTo(side, p))]

Line(s) == s \in Seq(Range(s))
Lines(part) == DOMAIN part = Indices /\ \A i \in Indices : Line(part[i])

\* A line of OBJs is a function on 1 .. its length.
LEMMA LineIs ==
    ASSUME NEW s, Line(s)
    PROVE  /\ Len(s) \in Nat /\ DOMAIN s = 1 .. Len(s)
           /\ \A x : Line(Append(s, x))
           /\ \A x : /\ Len(Append(s, x)) = Len(s) + 1 /\ Append(s, x)[Len(s) + 1] = x
                     /\ \A n \in 1 .. Len(s) : Append(s, x)[n] = s[n]
<1>1. s \in Seq(Range(s))
  BY DEF Line
<1>2. Len(s) \in Nat /\ DOMAIN s = 1 .. Len(s)
  BY <1>1
<1>3. ASSUME NEW x
      PROVE  /\ Line(Append(s, x)) /\ Len(Append(s, x)) = Len(s) + 1
             /\ Append(s, x)[Len(s) + 1] = x
             /\ \A n \in 1 .. Len(s) : Append(s, x)[n] = s[n]
  <2> DEFINE S == Range(s) \cup {x}  t == Append(s, x)
  <2>1. s \in Seq(S) /\ x \in S
    <3>1. \A n \in 1 .. Len(s) : s[n] \in S
      BY <1>2 DEF Range
    <3> QED BY <1>1, <3>1
  <2> HIDE DEF S
  <2>2. /\ t \in Seq(S) /\ Len(t) = Len(s) + 1 /\ t[Len(s) + 1] = x
        /\ \A n \in 1 .. Len(s) : t[n] = s[n]
    BY <2>1
  <2> HIDE DEF t
  <2>3. t \in Seq(Range(t))
    <3>1. DOMAIN t = 1 .. Len(t)
      BY <2>2
    <3>2. \A n \in 1 .. Len(t) : t[n] \in Range(t)
      BY <3>1 DEF Range
    <3> QED BY <2>2, <3>1, <3>2
  <2> QED BY <2>2, <2>3 DEF Line, t
<1> QED BY <1>2, <1>3

\* The constants of the buckets.
LEMMA BucketFacts ==
    /\ BucketNum \in Nat /\ Boundary \in Nat /\ Top = BucketNum - 1 /\ Indices = 0 .. BucketNum - 1
    /\ 1 <= Boundary /\ Boundary <= BucketNum - 1 /\ NoBucket = BucketNum
    /\ \A side \in Sides : Reach(side) \in 0 .. BucketNum
    /\ Reach("hot") = BucketNum - 1 - Boundary /\ Reach("cold") = Boundary + 1
    /\ \A side \in Sides : \A p \in 1 .. BucketNum : BucketAt(side, p) \in Indices
    /\ \A side \in Sides : \A p, q \in 1 .. BucketNum : BucketAt(side, p) = BucketAt(side, q) => p = q
<1>1. BucketNum \in Nat /\ Boundary \in Nat /\ 1 <= Boundary /\ Boundary <= BucketNum - 1
  BY BucketAssumption
<1> QED BY <1>1 DEF Top, Indices, NoBucket, Reach, BucketAt, Sides

\* The buckets up to the p-th one are an interval, and one more has one more.
LEMMA UpToIs ==
    ASSUME NEW side \in Sides, NEW p \in 0 .. BucketNum
    PROVE  /\ IsFiniteSet(UpTo(side, p)) /\ UpTo(side, p) \subseteq Indices
           /\ UpTo(side, 0) = {}
           /\ p < BucketNum => /\ UpTo(side, p + 1) = UpTo(side, p) \cup {BucketAt(side, p + 1)}
                               /\ BucketAt(side, p + 1) \notin UpTo(side, p)
<1>0. p \in Int /\ 0 <= p /\ p <= BucketNum /\ BucketNum \in Nat
  BY BucketFacts
<1>1. UpTo(side, p) \subseteq Indices
  <2>1. \A q \in 1 .. p : q \in 1 .. BucketNum
    BY <1>0
  <2> QED BY <2>1, BucketFacts DEF UpTo
<1>2. IsFiniteSet(UpTo(side, p))
  <2>1. IsFiniteSet(0 .. BucketNum - 1)
    BY <1>0, FS_Interval
  <2> QED BY <1>1, <2>1, FS_Subset, BucketFacts
<1>3. UpTo(side, 0) = {}
  BY DEF UpTo
<1>4. ASSUME p < BucketNum
      PROVE  /\ UpTo(side, p + 1) = UpTo(side, p) \cup {BucketAt(side, p + 1)}
             /\ BucketAt(side, p + 1) \notin UpTo(side, p)
  <2>1. 1 .. p + 1 = (1 .. p) \cup {p + 1}
    BY <1>0
  <2>2. UpTo(side, p + 1) = UpTo(side, p) \cup {BucketAt(side, p + 1)}
    BY <2>1 DEF UpTo
  <2>3. \A q \in 1 .. p : q \in 1 .. BucketNum /\ p + 1 \in 1 .. BucketNum /\ q # p + 1
    BY <1>0, <1>4
  <2>4. \A q \in 1 .. p : BucketAt(side, q) # BucketAt(side, p + 1)
    BY <2>3, BucketFacts
  <2> QED BY <2>2, <2>4 DEF UpTo
<1> QED BY <1>1, <1>2, <1>3, <1>4

\* How the OBJs add up from the end of a side.
LEMMA CumIs ==
    ASSUME NEW side \in Sides, NEW part, Lines(part)
    PROVE  /\ Cum(part, side) \in [0 .. BucketNum -> Nat] /\ Cum(part, side)[0] = 0
           /\ \A p \in 1 .. BucketNum :
                 /\ Len(part[BucketAt(side, p)]) \in Nat
                 /\ Cum(part, side)[p] = Cum(part, side)[p - 1] + Len(part[BucketAt(side, p)])
<1> DEFINE c == Cum(part, side)
<1>1. \A i \in Indices : Len(part[i]) \in Nat
  BY LineIs DEF Lines
<1>2. \A p \in 0 .. BucketNum : c[p] = Count(part, UpTo(side, p))
  BY DEF Cum
<1>3. \A p \in 0 .. BucketNum : c[p] \in Nat
  BY <1>1, <1>2, UpToIs, CountNat
<1>4. c[0] = 0
  <2>1. 0 \in 0 .. BucketNum
    BY BucketFacts
  <2>2. UpTo(side, 0) = {}
    BY <2>1, UpToIs
  <2> QED BY <1>2, <2>1, <2>2, CountNone
<1>5. ASSUME NEW p \in 1 .. BucketNum
      PROVE  Len(part[BucketAt(side, p)]) \in Nat /\ c[p] = c[p - 1] + Len(part[BucketAt(side, p)])
  <2> DEFINE x == BucketAt(side, p)  S == UpTo(side, p - 1)
  <2>1. p - 1 \in 0 .. BucketNum /\ p - 1 < BucketNum /\ (p - 1) + 1 = p /\ p \in 0 .. BucketNum
    BY BucketFacts
  <2>2. IsFiniteSet(S) /\ S \subseteq Indices /\ UpTo(side, p) = S \cup {x} /\ x \notin S
    BY <2>1, UpToIs
  <2>3. x \in Indices
    BY BucketFacts
  <2> HIDE DEF x, S
  <2>4. Count(part, S \cup {x}) = Count(part, S) + Len(part[x])
    BY <1>1, <2>2, <2>3, CountMore
  <2> QED BY <1>1, <1>2, <2>1, <2>2, <2>3, <2>4 DEF x, S
<1>6. c = [p \in 0 .. BucketNum |-> c[p]]
  BY DEF Cum
<1> HIDE DEF c
<1>7. c \in [0 .. BucketNum -> Nat]
  BY <1>3, <1>6
<1> QED BY <1>4, <1>5, <1>7 DEF c

\* A function that does not fall from one place to the next does not fall.
LEMMA Climbs ==
    ASSUME NEW n \in Nat, NEW c \in [0 .. n -> Nat], \A p \in 1 .. n : c[p - 1] <= c[p]
    PROVE  \A p, q \in 0 .. n : p <= q => c[p] <= c[q]
<1> SUFFICES ASSUME NEW p \in 0 .. n, NEW q \in 0 .. n, p <= q, ~ (c[p] <= c[q]) PROVE FALSE
  OBVIOUS
<1> DEFINE T == {r \in 0 .. n : p <= r /\ ~ (c[p] <= c[r])}
<1>1. T \subseteq Nat /\ q \in T
  OBVIOUS
<1>2. PICK r \in T : \A m \in T : r <= m
  BY <1>1, LeastExists
<1>3. r \in 0 .. n /\ p <= r /\ ~ (c[p] <= c[r])
  BY <1>2
<1>4. r # p
  BY <1>3
<1>5. r - 1 \in 0 .. n /\ p <= r - 1 /\ r \in 1 .. n
  BY <1>3, <1>4
<1>6. r - 1 \notin T
  BY <1>2, <1>3
<1>7. c[p] <= c[r - 1] /\ c[r - 1] <= c[r]
  BY <1>5, <1>6
<1> QED BY <1>3, <1>5, <1>7

\* Further buckets have no fewer OBJs.
LEMMA CumClimbs ==
    ASSUME NEW side \in Sides, NEW part, Lines(part),
           NEW p \in 0 .. BucketNum, NEW q \in 0 .. BucketNum, p <= q
    PROVE  Cum(part, side)[p] <= Cum(part, side)[q]
<1> DEFINE c == Cum(part, side)
<1>1. c \in [0 .. BucketNum -> Nat] /\ \A r \in 1 .. BucketNum : c[r - 1] <= c[r]
  <2>1. /\ c \in [0 .. BucketNum -> Nat]
        /\ \A r \in 1 .. BucketNum : Len(part[BucketAt(side, r)]) \in Nat
                                     /\ c[r] = c[r - 1] + Len(part[BucketAt(side, r)])
    BY CumIs
  <2> HIDE DEF c
  <2>2. ASSUME NEW r \in 1 .. BucketNum PROVE c[r - 1] <= c[r]
    <3> DEFINE x == c[r - 1]  y == Len(part[BucketAt(side, r)])
    <3>1. r - 1 \in 0 .. BucketNum
      BY BucketFacts
    <3>2. x \in Nat /\ y \in Nat /\ c[r] = x + y
      BY <2>1, <3>1
    <3> HIDE DEF x, y
    <3>3. x <= x + y
      BY <3>2
    <3> QED BY <3>2, <3>3 DEF x
  <2> QED BY <2>1, <2>2
<1>2. BucketNum \in Nat
  BY BucketFacts
<1> HIDE DEF c
<1> QED BY <1>1, <1>2, Climbs DEF c

\* The counts that the sweep and the walk look at.
LEMMA SideCounts ==
    ASSUME NEW part
    PROVE  /\ \A i \in 0 .. BucketNum : Hotter(part, i) = Cum(part, "hot")[BucketNum - i]
           /\ \A i \in 0 .. BucketNum : Colder(part, i - 1) = Cum(part, "cold")[i]
           /\ \A side \in Sides : OBJsOn(part, side) = Cum(part, side)[Reach(side)]
<1>0. BucketNum \in Nat /\ Top = BucketNum - 1 /\ Boundary \in Nat /\ Boundary <= BucketNum - 1
  BY BucketFacts
<1>1. ASSUME NEW i \in 0 .. BucketNum PROVE Hotter(part, i) = Cum(part, "hot")[BucketNum - i]
  <2>1. BucketNum - i \in 0 .. BucketNum
    BY <1>0
  <2>2. i .. Top = UpTo("hot", BucketNum - i)
    <3>1. UpTo("hot", BucketNum - i) = {BucketNum - q : q \in 1 .. BucketNum - i}
      BY DEF UpTo, BucketAt
    <3>2. \A j \in i .. Top : BucketNum - j \in 1 .. BucketNum - i /\ j = BucketNum - (BucketNum - j)
      BY <1>0
    <3>3. \A q \in 1 .. BucketNum - i : BucketNum - q \in i .. Top
      BY <1>0
    <3> QED BY <3>1, <3>2, <3>3
  <2> QED BY <2>1, <2>2 DEF Hotter, Cum
<1>2. ASSUME NEW i \in 0 .. BucketNum PROVE Colder(part, i - 1) = Cum(part, "cold")[i]
  <2>1. 0 .. i - 1 = UpTo("cold", i)
    <3>1. UpTo("cold", i) = {q - 1 : q \in 1 .. i}
      BY DEF UpTo, BucketAt
    <3>2. \A j \in 0 .. i - 1 : j + 1 \in 1 .. i /\ j = (j + 1) - 1
      BY <1>0
    <3>3. \A q \in 1 .. i : q - 1 \in 0 .. i - 1
      BY <1>0
    <3> QED BY <3>1, <3>2, <3>3
  <2> QED BY <2>1 DEF Colder, Cum
<1>3. OBJsOn(part, "hot") = Cum(part, "hot")[Reach("hot")]
  <2>1. Boundary + 1 \in 0 .. BucketNum /\ BucketNum - (Boundary + 1) = Reach("hot")
    BY <1>0, BucketFacts
  <2> QED BY <1>1, <2>1 DEF OBJsOn
<1>4. OBJsOn(part, "cold") = Cum(part, "cold")[Reach("cold")]
  <2>1. Boundary + 1 \in 0 .. BucketNum /\ (Boundary + 1) - 1 = Boundary /\ Boundary + 1 = Reach("cold")
    BY <1>0, BucketFacts
  <2>2. Colder(part, (Boundary + 1) - 1) = Cum(part, "cold")[Reach("cold")]
    BY <1>2, <2>1
  <2> QED BY <2>1, <2>2 DEF OBJsOn
<1> QED BY <1>1, <1>2, <1>3, <1>4 DEF Sides

-----------------------------------------------------------------------------
(* What is true of a bucket and of a walk.                                 *)

\* LastSortedBucket... when d buckets are sorted, and how many are.
LastAt(side, d) == IF d = 0 THEN NoBucket ELSE BucketAt(side, d)
Depth(hb, side) ==
    IF side = "hot" THEN BucketNum - hb.last[side]
    ELSE IF hb.last[side] = NoBucket THEN 0 ELSE hb.last[side] + 1

Capped(n, total) == IF n > total THEN total ELSE n
\* The order of a side's comparator when st are the statistics.
BeforeBy(st, hb, side, a, b) ==
    IF side = "hot"
    THEN Heat(st[a], Greater(hb.key.sort)) > Heat(st[b], Greater(hb.key.sort))
    ELSE Heat(st[a], Less(hb.key.sort)) < Heat(st[b], Less(hb.key.sort))

InOrder(st, hb, side, i) ==
    \A j, k \in DOMAIN hb.part[i] :
        j < k => ~BeforeBy(st, hb, side, hb.part[i][k], hb.part[i][j])

\* The first d buckets of a side, and no others, are sorted, which it takes to have
\* n OBJs sorted or all.
SortedTo(st, hb, side, n, d) ==
    LET c == Cum(hb.part, side)  w == Capped(n, c[Reach(side)])
    IN /\ d \in 0 .. Reach(side) /\ hb.last[side] = LastAt(side, d)
       /\ hb.sorted[side] = c[d] /\ w <= c[d]
       /\ d > 0 => c[d - 1] < w
       /\ \A p \in 1 .. d : InOrder(st, hb, side, BucketAt(side, p))

IsBucket(hb) ==
    /\ Lines(hb.part)
    /\ DOMAIN hb.sorted = Sides /\ DOMAIN hb.last = Sides

\* A bucket found by a key of which some sorted OBJs were asked on each side.
Asked(st, hb, key, n) ==
    /\ IsBucket(hb) /\ hb.key = key
    /\ \A side \in Sides : SortedTo(st, hb, side, n[side], Depth(hb, side))

\* What was handed out stands at its place.
Handed(hb, side, got) ==
    LET c == Cum(hb.part, side)
    IN \A p \in 1 .. BucketNum : \A j \in 1 .. Len(hb.part[BucketAt(side, p)]) :
          c[p - 1] + j <= Len(got) =>
              got[c[p - 1] + j] = hb.part[BucketAt(side, p)][j]

\* The cursor is in the q-th bucket from the end of the side.
Amid(hb, w, side, q) ==
    /\ side \in w.may /\ q \in 1 .. Depth(hb, side) /\ w.at[side] = BucketAt(side, q)
    /\ w.next[side] \in 1 .. Len(hb.part[BucketAt(side, q)]) + 1
    /\ Len(w.got[side]) = Cum(hb.part, side)[q - 1] + w.next[side] - 1

\* The cursor rests behind the sorted buckets.
AtRest(hb, w, side) ==
    /\ side \notin w.may /\ w.at[side] = BucketAt(side, Depth(hb, side) + 1)
    /\ w.next[side] = 1
    /\ Len(w.got[side]) = Cum(hb.part, side)[Depth(hb, side)]

Along(hb, w, side) ==
    /\ Line(w.got[side]) /\ Handed(hb, side, w.got[side])
    /\ AtRest(hb, w, side) \/ \E q \in 1 .. BucketNum : Amid(hb, w, side, q)

IsWalk(w) ==
    /\ w = [at |-> w.at, next |-> w.next, got |-> w.got, may |-> w.may, begun |-> w.begun]
    /\ DOMAIN w.at = Sides /\ DOMAIN w.next = Sides /\ DOMAIN w.got = Sides
    /\ w.begun \subseteq Sides /\ w.may \subseteq w.begun

Walks(hb, w) == IsWalk(w) /\ \A side \in w.begun : Along(hb, w, side)

HeatInv ==
    /\ DOMAIN heat = Units
    /\ asked \in [Units -> [Keys -> [Sides -> Nat]]]
    /\ \A u \in Units : DOMAIN heat[u] \subseteq Keys
    /\ \A u \in Units : \A key \in DOMAIN heat[u] : Asked(stats, heat[u][key], key, asked[u][key])
    /\ \A u \in Units : \A key \in Keys \ DOMAIN heat[u] : asked[u][key] = [side \in Sides |-> 0]
    /\ \/ at = None /\ walk = NewWalk
       \/ \E u \in Units : \E key \in DOMAIN heat[u] :
             at = [unit |-> u, key |-> key] /\ Walks(heat[u][key], walk)

\* How many buckets are sorted, read from the last one.
LEMMA DepthIs ==
    ASSUME NEW hb, NEW side \in Sides, NEW d \in 0 .. Reach(side), hb.last[side] = LastAt(side, d)
    PROVE  Depth(hb, side) = d
<1>1. d \in Nat /\ d <= BucketNum /\ BucketNum \in Nat /\ NoBucket = BucketNum
  BY BucketFacts
<1>2. CASE side = "hot"
  BY <1>1, <1>2 DEF Depth, LastAt, BucketAt
<1>3. CASE side = "cold"
  <2>1. side # "hot"
    BY <1>3
  <2>2. CASE d = 0
    BY <1>1, <2>1, <2>2 DEF Depth, LastAt
  <2>3. CASE d # 0
    <3>1. hb.last[side] = d - 1
      BY <2>1, <2>3 DEF LastAt, BucketAt
    <3> QED BY <1>1, <2>1, <3>1 DEF Depth
  <2> QED BY <2>2, <2>3
<1> QED BY <1>2, <1>3 DEF Sides

\* The places from d on that a loop goes through while fewer than w are reached.
Short(c, d, r, w) == {q \in d + 1 .. r : c[q - 1] < w}
BucketsAt(side, P) == {BucketAt(side, p) : p \in P}

\* Where a loop ends that goes on from d as long as fewer than w are reached.
LEMMA LoopEnds ==
    ASSUME NEW r \in Nat, NEW d \in 0 .. r, NEW c \in [0 .. r -> Nat],
           \A p \in 1 .. r : c[p - 1] <= c[p],
           NEW w \in Nat, w <= c[r]
    PROVE  \E e \in d .. r :
              /\ Short(c, d, r, w) = d + 1 .. e
              /\ w <= c[e]
              /\ e > d => c[e - 1] < w
<1> DEFINE T == {e \in d .. r : w <= c[e]}
<1>1. T \subseteq Nat /\ r \in T
  OBVIOUS
<1>2. PICK e \in T : \A x \in T : e <= x
  BY <1>1, LeastExists
<1>3. e \in d .. r /\ w <= c[e]
  BY <1>2
<1>4. \A p, q \in 0 .. r : p <= q => c[p] <= c[q]
  BY Climbs
<1>5. ASSUME NEW p \in d + 1 .. r PROVE c[p - 1] < w <=> p <= e
  <2>1. p - 1 \in d .. r /\ p - 1 \in 0 .. r /\ e \in 0 .. r
    BY <1>3
  <2>2. c[p - 1] \in Nat /\ c[e] \in Nat
    BY <2>1
  <2>3. CASE p <= e
    <3>1. p - 1 \notin T
      BY <1>2, <1>3, <2>1, <2>3
    <3> QED BY <2>1, <2>2, <2>3, <3>1
  <2>4. CASE p > e
    <3>1. e <= p - 1
      BY <1>3, <2>4
    <3>2. c[e] <= c[p - 1]
      BY <1>4, <2>1, <3>1
    <3> QED BY <1>3, <2>2, <2>4, <3>2
  <2> QED BY <1>3, <2>3, <2>4
<1>6. Short(c, d, r, w) = d + 1 .. e
  <2>1. \A p \in d + 1 .. e : p \in d + 1 .. r
    BY <1>3
  <2>2. \A p \in d + 1 .. r : p <= e => p \in d + 1 .. e
    BY <1>3
  <2>3. \A p \in d + 1 .. e : p <= e
    BY <1>3
  <2> QED BY <1>5, <2>1, <2>2, <2>3 DEF Short
<1>7. e > d => c[e - 1] < w
  BY <1>3, <1>5
<1> QED BY <1>3, <1>6, <1>7

Span(side, d, e) == {BucketAt(side, p) : p \in d + 1 .. e}

\* The buckets of a sweep in the order of the side.
LEMMA SweptIs ==
    ASSUME NEW hb, Lines(hb.part), NEW side \in Sides,
           NEW d \in 0 .. Reach(side), hb.last[side] = LastAt(side, d),
           hb.sorted[side] = Cum(hb.part, side)[d], NEW w \in Nat
    PROVE  Swept(hb.part, side, StartOf(hb, side), hb.sorted[side], w)
              = BucketsAt(side, Short(Cum(hb.part, side), d, Reach(side), w))
<1> DEFINE c == Cum(hb.part, side)  r == Reach(side)  b == StartOf(hb, side)
           P == {q \in d + 1 .. r : c[q - 1] < w}
<1>0. /\ BucketNum \in Nat /\ Boundary \in Nat /\ NoBucket = BucketNum /\ r \in 0 .. BucketNum
      /\ Top = BucketNum - 1 /\ d \in Nat /\ d <= r
  BY BucketFacts
<1>1. c \in [0 .. BucketNum -> Nat]
  BY CumIs
<1>2. CASE side = "hot"
  <2>1. r = BucketNum - 1 - Boundary
    BY <1>2, BucketFacts
  <2>2. b = BucketNum - d - 1
    BY <1>0, <1>2 DEF StartOf, LastAt, BucketAt
  <2>3. ASSUME NEW i \in Boundary + 1 .. b
        PROVE  /\ BucketNum - i \in d + 1 .. r /\ i = BucketAt(side, BucketNum - i)
               /\ Hotter(hb.part, i + 1) = c[(BucketNum - i) - 1] /\ Hotter(hb.part, b + 1) = c[d]
    <3>1. /\ i + 1 \in 0 .. BucketNum /\ b + 1 \in 0 .. BucketNum
          /\ BucketNum - (b + 1) = d /\ BucketNum - (i + 1) = (BucketNum - i) - 1
      BY <1>0, <2>1, <2>2
    <3>2. /\ Hotter(hb.part, i + 1) = Cum(hb.part, "hot")[BucketNum - (i + 1)]
          /\ Hotter(hb.part, b + 1) = Cum(hb.part, "hot")[BucketNum - (b + 1)]
      BY <3>1, SideCounts
    <3> QED BY <1>0, <1>2, <2>1, <2>2, <3>1, <3>2 DEF BucketAt
  <2>4. ASSUME NEW p \in d + 1 .. r
        PROVE BucketAt(side, p) \in Boundary + 1 .. b /\ BucketNum - BucketAt(side, p) = p
    BY <1>0, <1>2, <2>1, <2>2 DEF BucketAt
  <2> HIDE DEF c, b, r
  <2>5. ASSUME NEW i \in Boundary + 1 .. b
        PROVE  (hb.sorted[side] + Hotter(hb.part, i + 1) - Hotter(hb.part, b + 1) < w)
                  <=> c[(BucketNum - i) - 1] < w
    <3> DEFINE x == c[(BucketNum - i) - 1]
    <3>1. /\ hb.sorted[side] = c[d] /\ Hotter(hb.part, i + 1) = x /\ Hotter(hb.part, b + 1) = c[d]
      BY <2>3 DEF c
    <3>2. (BucketNum - i) - 1 \in 0 .. BucketNum /\ d \in 0 .. BucketNum
      BY <1>0, <2>3
    <3>3. x \in Nat /\ c[d] \in Nat
      BY <1>1, <3>2
    <3> HIDE DEF x
    <3>4. c[d] + x - c[d] = x
      BY <3>3
    <3> QED BY <3>1, <3>4 DEF x
  <2>6. Swept(hb.part, side, b, hb.sorted[side], w)
           = {i \in Boundary + 1 .. b : c[(BucketNum - i) - 1] < w}
    BY <1>2, <2>5 DEF Swept
  <2>7. {i \in Boundary + 1 .. b : c[(BucketNum - i) - 1] < w} = {BucketAt(side, p) : p \in P}
    BY <2>3, <2>4
  <2> QED BY <2>6, <2>7 DEF c, b, r, Short, BucketsAt
<1>3. CASE side = "cold"
  <2>0. side # "hot"
    BY <1>3
  <2>1. r = Boundary + 1
    BY <1>3, BucketFacts
  <2>2. b = d
    BY <1>0, <2>0, <1>3 DEF StartOf, LastAt, BucketAt
  <2>3. ASSUME NEW i \in b .. Boundary
        PROVE  /\ i + 1 \in d + 1 .. r /\ i = BucketAt(side, i + 1)
               /\ Colder(hb.part, i - 1) = c[i] /\ Colder(hb.part, b - 1) = c[d]
    <3>1. i \in 0 .. BucketNum /\ b \in 0 .. BucketNum
      BY <1>0, <2>1, <2>2
    <3>2. /\ Colder(hb.part, i - 1) = Cum(hb.part, "cold")[i]
          /\ Colder(hb.part, b - 1) = Cum(hb.part, "cold")[b]
      BY <3>1, SideCounts
    <3> QED BY <1>0, <1>3, <2>0, <2>1, <2>2, <3>1, <3>2 DEF BucketAt
  <2>4. ASSUME NEW p \in d + 1 .. r
        PROVE BucketAt(side, p) \in b .. Boundary /\ BucketAt(side, p) + 1 = p /\ BucketAt(side, p) = p - 1
    BY <1>0, <2>0, <2>1, <2>2 DEF BucketAt
  <2> HIDE DEF c, b, r
  <2>5. ASSUME NEW i \in b .. Boundary
        PROVE  (hb.sorted[side] + Colder(hb.part, i - 1) - Colder(hb.part, b - 1) < w)
                  <=> c[i] < w
    <3> DEFINE x == c[i]
    <3>1. /\ hb.sorted[side] = c[d] /\ Colder(hb.part, i - 1) = x /\ Colder(hb.part, b - 1) = c[d]
      BY <2>3 DEF c
    <3>2. i \in 0 .. BucketNum /\ d \in 0 .. BucketNum
      BY <1>0, <2>1, <2>2
    <3>3. x \in Nat /\ c[d] \in Nat
      BY <1>1, <3>2
    <3> HIDE DEF x
    <3>4. c[d] + x - c[d] = x
      BY <3>3
    <3> QED BY <3>1, <3>4 DEF x
  <2>6. Swept(hb.part, side, b, hb.sorted[side], w) = {i \in b .. Boundary : c[i] < w}
    BY <2>0, <2>5 DEF Swept
  <2>7. {i \in b .. Boundary : c[i] < w} = {BucketAt(side, p) : p \in P}
    <3>1. \A i \in b .. Boundary : (i + 1) - 1 = i
      BY <1>0, <2>2
    <3> QED BY <2>3, <2>4, <3>1
  <2> QED BY <2>6, <2>7 DEF c, b, r, Short, BucketsAt
<1> QED BY <1>2, <1>3 DEF Sides

\* What a sweep adds.
LEMMA SpanCounts ==
    ASSUME NEW part, Lines(part), NEW side \in Sides,
           NEW d \in 0 .. BucketNum, NEW e \in 0 .. BucketNum, d <= e
    PROVE  Cum(part, side)[d] + Count(part, Span(side, d, e)) = Cum(part, side)[e]
<1> DEFINE c == Cum(part, side)
           Good(x) == c[d] + Count(part, Span(side, d, x)) = c[x]
           T == {x \in d .. BucketNum : ~Good(x)}
<1>0. BucketNum \in Nat /\ d \in Nat /\ e \in Nat
  BY BucketFacts
<1>1. /\ c \in [0 .. BucketNum -> Nat]
      /\ \A p \in 1 .. BucketNum : /\ Len(part[BucketAt(side, p)]) \in Nat
                                   /\ c[p] = c[p - 1] + Len(part[BucketAt(side, p)])
  BY CumIs
<1>2. \A i \in Indices : Len(part[i]) \in Nat
  BY LineIs DEF Lines
<1>3. SUFFICES ASSUME ~Good(e) PROVE FALSE
  OBVIOUS
<1> HIDE DEF c
<1>4. T \subseteq Nat /\ e \in T
  BY <1>0, <1>3
<1>5. PICK x \in T : \A y \in T : x <= y
  BY <1>4, LeastExists
<1>6. Good(d)
  <2>1. Span(side, d, d) = {}
    BY <1>0 DEF Span
  <2>2. Count(part, Span(side, d, d)) = 0
    BY <2>1, CountNone
  <2>3. c[d] \in Nat
    BY <1>1
  <2> QED BY <2>2, <2>3
<1>7. x \in d .. BucketNum /\ x # d /\ ~Good(x)
  BY <1>5, <1>6
<1>8. x - 1 \in d .. BucketNum /\ x - 1 \in 0 .. BucketNum /\ x \in 1 .. BucketNum /\ ~(x <= x - 1)
  BY <1>0, <1>7
<1>9. Good(x - 1)
  BY <1>5, <1>8
<1> DEFINE S == Span(side, d, x - 1)  i == BucketAt(side, x)
<1>10. Span(side, d, x) = S \cup {i} /\ i \notin S
  <2>1. d + 1 .. x = (d + 1 .. x - 1) \cup {x}
    BY <1>0, <1>7, <1>8
  <2>2. \A p \in d + 1 .. x - 1 : p \in 1 .. BucketNum /\ p # x
    BY <1>0, <1>8
  <2> QED BY <1>8, <2>1, <2>2, BucketFacts DEF Span
<1>11. IsFiniteSet(S) /\ S \subseteq Indices /\ i \in Indices
  <2>1. S \subseteq Indices
    <3>1. \A p \in d + 1 .. x - 1 : p \in 1 .. BucketNum
      BY <1>0, <1>8
    <3> QED BY <3>1, BucketFacts DEF Span
  <2>2. IsFiniteSet(0 .. BucketNum - 1)
    BY <1>0, FS_Interval
  <2>3. IsFiniteSet(S)
    BY <2>1, <2>2, FS_Subset, BucketFacts
  <2> QED BY <1>8, <2>1, <2>3, BucketFacts
<1> HIDE DEF S, i
<1>12. Count(part, S \cup {i}) = Count(part, S) + Len(part[i])
  BY <1>2, <1>10, <1>11, CountMore
<1>13. Count(part, S) \in Nat /\ Len(part[i]) \in Nat
  BY <1>2, <1>11, CountNat
<1>14. c[d] \in Nat /\ c[x - 1] \in Nat /\ c[x] = c[x - 1] + Len(part[i])
  BY <1>1, <1>8 DEF i
<1>15. c[d] + Count(part, S) = c[x - 1]
  BY <1>9 DEF S
<1>16. Good(x)
  BY <1>10, <1>12, <1>13, <1>14, <1>15
<1> QED BY <1>7, <1>16

\* The bucket that a sweep ends with.
LEMMA LastOfIs ==
    ASSUME NEW side \in Sides, NEW d \in 0 .. Reach(side), NEW e \in d .. Reach(side)
    PROVE  LastOf(side, Span(side, d, e), LastAt(side, d)) = LastAt(side, e)
<1>0. /\ BucketNum \in Nat /\ NoBucket = BucketNum /\ Reach(side) \in 0 .. BucketNum
      /\ d \in Nat /\ e \in Nat /\ d <= e /\ e <= Reach(side)
  BY BucketFacts
<1>1. CASE d = e
  <2>1. Span(side, d, e) = {}
    BY <1>0, <1>1 DEF Span
  <2> QED BY <1>1, <2>1 DEF LastOf
<1>2. CASE d # e
  <2> DEFINE S == Span(side, d, e)  i == BucketAt(side, e)
  <2>1. i \in S /\ S # {} /\ LastAt(side, e) = i
    BY <1>0, <1>2 DEF Span, LastAt
  <2>2. CASE side = "hot"
    <3>1. \A j \in S : j \in Int /\ i <= j
      BY <1>0, <2>2 DEF Span, BucketAt
    <3> HIDE DEF S, i
    <3>2. LastOf(side, S, LastAt(side, d)) = CHOOSE x \in S : \A j \in S : x <= j
      BY <2>1, <2>2 DEF LastOf
    <3>3. \A x \in S : (\A j \in S : x <= j) => x = i
      BY <2>1, <3>1
    <3>4. (CHOOSE x \in S : \A j \in S : x <= j) = i
      BY <2>1, <3>1, <3>3
    <3> QED BY <2>1, <3>2, <3>4 DEF S
  <2>3. CASE side = "cold"
    <3>0. side # "hot"
      BY <2>3
    <3>1. \A j \in S : j \in Int /\ j <= i
      BY <1>0, <3>0 DEF Span, BucketAt
    <3> HIDE DEF S, i
    <3>2. LastOf(side, S, LastAt(side, d)) = CHOOSE x \in S : \A j \in S : j <= x
      BY <2>1, <3>0 DEF LastOf
    <3>3. \A x \in S : (\A j \in S : j <= x) => x = i
      BY <2>1, <3>1
    <3>4. (CHOOSE x \in S : \A j \in S : j <= x) = i
      BY <2>1, <3>1, <3>3
    <3> QED BY <2>1, <3>2, <3>4 DEF S
  <2> QED BY <2>2, <2>3 DEF Sides
<1> QED BY <1>1, <1>2

-----------------------------------------------------------------------------
(* Sorting.                                                                *)

\* A sorted bucket has the OBJs it had, each once.
LEMMA SortingIs ==
    ASSUME NEW hb, NEW side, NEW i, Line(hb.part[i]), NEW s \in Sortings(hb, side, i)
    PROVE  /\ Line(s) /\ Len(s) = Len(hb.part[i])
           /\ \A j, k \in DOMAIN s : j < k => ~Before(hb, side, s[k], s[j])
<1> DEFINE n == Len(hb.part[i])  S == ToSet(hb.part[i])
<1>1. n \in Nat /\ DOMAIN hb.part[i] = 1 .. n
  BY LineIs
<1>2. s \in [1 .. n -> S]
  BY <1>1 DEF Sortings
<1>3. \A j, k \in DOMAIN s : j < k => ~Before(hb, side, s[k], s[j])
  BY DEF Sortings
<1> HIDE DEF n, S
<1>4. Len(s) = n /\ DOMAIN s = 1 .. n /\ s \in Seq(S)
  BY <1>1, <1>2
<1>5. \A j \in 1 .. Len(s) : s[j] \in Range(s)
  BY <1>4 DEF Range
<1>6. s \in Seq(Range(s))
  BY <1>1, <1>4, <1>5
<1> QED BY <1>3, <1>4, <1>6 DEF Line, n

\* What sorting some buckets leaves of each.
LEMMA SortedPartsAre ==
    ASSUME NEW hb, Lines(hb.part), NEW side, NEW S \in SUBSET Indices,
           NEW part \in SortedParts(hb, side, S)
    PROVE  /\ Lines(part)
           /\ \A i \in Indices : Len(part[i]) = Len(hb.part[i])
           /\ \A i \in Indices \ S : part[i] = hb.part[i]
           /\ \A i \in S : \A j, k \in DOMAIN part[i] :
                 j < k => ~Before(hb, side, part[i][k], part[i][j])
<1>1. PICK f \in [S -> UNION {Sortings(hb, side, i) : i \in S}] :
         /\ \A i \in S : f[i] \in Sortings(hb, side, i)
         /\ part = [i \in Indices |-> IF i \in S THEN f[i] ELSE hb.part[i]]
  BY DEF SortedParts
<1>2. \A i \in Indices : Line(hb.part[i])
  BY DEF Lines
<1>3. ASSUME NEW i \in S
      PROVE  /\ Line(part[i]) /\ Len(part[i]) = Len(hb.part[i])
             /\ \A j, k \in DOMAIN part[i] : j < k => ~Before(hb, side, part[i][k], part[i][j])
  <2>1. part[i] \in Sortings(hb, side, i) /\ Line(hb.part[i])
    BY <1>1, <1>2
  <2> QED BY <2>1, SortingIs
<1>4. \A i \in Indices \ S : part[i] = hb.part[i]
  BY <1>1
<1>5. DOMAIN part = Indices
  BY <1>1
<1> QED BY <1>2, <1>3, <1>4, <1>5 DEF Lines

\* Sorting moves no OBJ to another bucket.
LEMMA CumSame ==
    ASSUME NEW part, Lines(part), NEW other, NEW side \in Sides,
           \A i \in Indices : Len(other[i]) = Len(part[i])
    PROVE  Cum(other, side) = Cum(part, side)
<1>1. ASSUME NEW p \in 0 .. BucketNum
      PROVE  Count(other, UpTo(side, p)) = Count(part, UpTo(side, p))
  <2> DEFINE S == UpTo(side, p)
  <2>1. IsFiniteSet(S) /\ S \subseteq Indices
    BY UpToIs
  <2>2. \A i \in S : Len(part[i]) \in Nat /\ Len(other[i]) = Len(part[i])
    BY <2>1, LineIs DEF Lines
  <2> HIDE DEF S
  <2>3. Count(other, S) = Count(part, S)
    BY ONLY <2>1, <2>2, CountSame
  <2> QED BY <2>3 DEF S
<1> QED BY <1>1 DEF Cum

\* What a sort that has something to do leaves.
LEMMA SortIs ==
    ASSUME NEW hb, IsBucket(hb), NEW side \in Sides, NEW d \in 0 .. Reach(side),
           hb.last[side] = LastAt(side, d), hb.sorted[side] = Cum(hb.part, side)[d],
           NEW m \in Nat, m > hb.sorted[side], NEW new \in SortSide(hb, side, m)
    PROVE  \E e \in d .. Reach(side) :
              LET c == Cum(hb.part, side)  w == Capped(m, c[Reach(side)])
              IN /\ w <= c[e]
                 /\ e > d => c[e - 1] < w
                 /\ new = [key |-> hb.key, part |-> new.part,
                           sorted |-> [hb.sorted EXCEPT ![side] = c[e]],
                           last |-> [hb.last EXCEPT ![side] = LastAt(side, e)]]
                 /\ new.part \in SortedParts(hb, side, Span(side, d, e))
<1> DEFINE c == Cum(hb.part, side)  r == Reach(side)  w == Capped(m, c[r])
           swept == Swept(hb.part, side, StartOf(hb, side), hb.sorted[side], w)
<1>0. /\ BucketNum \in Nat /\ r \in 0 .. BucketNum /\ d \in 0 .. r /\ d \in 0 .. BucketNum
      /\ Lines(hb.part) /\ r \in Nat
  BY BucketFacts DEF IsBucket
<1>1. c \in [0 .. BucketNum -> Nat] /\ \A p \in 1 .. BucketNum : c[p - 1] <= c[p]
  <2>1. c \in [0 .. BucketNum -> Nat]
    BY <1>0, CumIs
  <2>2. ASSUME NEW p \in 1 .. BucketNum PROVE c[p - 1] <= c[p]
    <3>1. p - 1 \in 0 .. BucketNum /\ p \in 0 .. BucketNum /\ p - 1 <= p
      BY <1>0
    <3> HIDE DEF c
    <3> QED BY <1>0, <3>1, CumClimbs DEF c
  <2> QED BY <2>1, <2>2
<1>2. OBJsOn(hb.part, side) = c[r]
  BY SideCounts
<1>3. w \in Nat /\ w <= c[r] /\ c[r] \in Nat /\ c[d] \in Nat
  <2>1. c[r] \in Nat /\ c[d] \in Nat
    BY <1>0, <1>1
  <2> HIDE DEF c, r
  <2> QED BY <2>1 DEF Capped
<1>4. /\ new = [key |-> hb.key, part |-> new.part,
                sorted |-> [hb.sorted EXCEPT ![side] = @ + Count(hb.part, swept)],
                last |-> [hb.last EXCEPT ![side] = LastOf(side, swept, @)]]
      /\ new.part \in SortedParts(hb, side, swept)
  <2>1. ~(m <= hb.sorted[side])
    BY <1>3
  <2>2. (IF m > OBJsOn(hb.part, side) THEN OBJsOn(hb.part, side) ELSE m) = w
    BY <1>2 DEF Capped
  <2> HIDE DEF w
  <2>3. PICK part \in SortedParts(hb, side, swept) :
           new = [key |-> hb.key, part |-> part,
                  sorted |-> [hb.sorted EXCEPT ![side] = @ + Count(hb.part, swept)],
                  last |-> [hb.last EXCEPT ![side] = LastOf(side, swept, @)]]
    BY <2>1, <2>2 DEF SortSide
  <2> QED BY <2>3
<1>5. PICK e \in d .. r :
         /\ Short(c, d, r, w) = d + 1 .. e
         /\ w <= c[e]
         /\ e > d => c[e - 1] < w
  <2> DEFINE k == [p \in 0 .. r |-> c[p]]
  <2>1. \A p \in 0 .. r : p \in 0 .. BucketNum /\ k[p] = c[p]
    BY <1>0
  <2>2. k \in [0 .. r -> Nat]
    BY <1>1, <2>1
  <2>3. \A p \in 1 .. r : p \in 1 .. BucketNum /\ p - 1 \in 0 .. r /\ p \in 0 .. r
    BY <1>0
  <2>4. \A p \in 1 .. r : k[p - 1] <= k[p]
    BY <1>1, <2>1, <2>3
  <2>5. w <= k[r]
    BY <1>0, <1>3, <2>1
  <2> HIDE DEF c, r, w, k
  <2>6. \E e \in d .. r : /\ Short(k, d, r, w) = d + 1 .. e
                          /\ w <= k[e]
                          /\ e > d => k[e - 1] < w
    <3>1. r \in Nat /\ d \in 0 .. r /\ w \in Nat
      BY <1>0, <1>3
    <3> QED BY ONLY <3>1, <2>2, <2>4, <2>5, LoopEnds
  <2>7. PICK e \in d .. r : /\ Short(k, d, r, w) = d + 1 .. e
                            /\ w <= k[e]
                            /\ e > d => k[e - 1] < w
    BY <2>6
  <2>8. \A p \in d + 1 .. r : p - 1 \in 0 .. r
    BY <1>0
  <2>9. Short(k, d, r, w) = Short(c, d, r, w)
    BY <2>1, <2>8 DEF Short
  <2>10. e \in 0 .. r /\ (e > d => e - 1 \in 0 .. r)
    BY <1>0
  <2> QED BY <2>1, <2>7, <2>9, <2>10
<1>6. swept = Span(side, d, e)
  <2> DEFINE P == Short(c, d, r, w)
  <2>1. swept = {BucketAt(side, p) : p \in P}
    <3> HIDE DEF w
    <3>1. /\ Lines(hb.part) /\ side \in Sides /\ d \in 0 .. Reach(side) /\ w \in Nat
          /\ hb.last[side] = LastAt(side, d) /\ hb.sorted[side] = Cum(hb.part, side)[d]
      BY <1>0, <1>3
    <3>2. Swept(hb.part, side, StartOf(hb, side), hb.sorted[side], w)
             = BucketsAt(side, Short(Cum(hb.part, side), d, Reach(side), w))
      BY ONLY <3>1, SweptIs
    <3> QED BY <3>2 DEF BucketsAt
  <2>2. P = d + 1 .. e
    BY <1>5
  <2> HIDE DEF P, swept
  <2> QED BY <2>1, <2>2 DEF Span
<1>7. hb.sorted[side] + Count(hb.part, swept) = c[e]
  <2>1. e \in 0 .. BucketNum /\ d <= e
    BY <1>0
  <2>2. c[d] + Count(hb.part, Span(side, d, e)) = c[e]
    BY <1>0, <2>1, SpanCounts
  <2> QED BY <1>6, <2>2
<1>8. LastOf(side, swept, hb.last[side]) = LastAt(side, e)
  BY <1>0, <1>6, LastOfIs
<1> HIDE DEF swept, c, r, w
<1>9. new = [key |-> hb.key, part |-> new.part, sorted |-> [hb.sorted EXCEPT ![side] = c[e]],
             last |-> [hb.last EXCEPT ![side] = LastAt(side, e)]]
  BY <1>4, <1>7, <1>8 DEF IsBucket
<1> QED BY <1>4, <1>5, <1>6, <1>9 DEF c, r, w

\* Buckets are only sorted further: what was sorted stays as it is.
Deeper(hb, new) ==
    /\ new.key = hb.key
    /\ \A s \in Sides :
          /\ Cum(new.part, s) = Cum(hb.part, s)
          /\ Depth(hb, s) <= Depth(new, s)
          /\ Depth(new, s) > Depth(hb, s) <=> new.sorted[s] > hb.sorted[s]
          /\ \A p \in 1 .. Depth(hb, s) : new.part[BucketAt(s, p)] = hb.part[BucketAt(s, p)]
    /\ \A i \in Indices : Len(new.part[i]) = Len(hb.part[i])

\* OBJs up to a bucket are a number.
LEMMA CumNat ==
    ASSUME NEW part, Lines(part), NEW side \in Sides, NEW p \in 0 .. BucketNum
    PROVE  Cum(part, side)[p] \in Nat
BY CumIs

\* A sort leaves each side sorted as far as was asked, and is a sort further.
LEMMA SortKeeps ==
    ASSUME NEW hb, NEW key, NEW n \in [Sides -> Nat], Asked(stats, hb, key, n),
           NEW side \in Sides, NEW m \in Nat, NEW new \in SortSide(hb, side, m)
    PROVE  Asked(stats, new, key, [n EXCEPT ![side] = Larger(@, m)]) /\ Deeper(hb, new)
<1> DEFINE c == Cum(hb.part, side)  r == Reach(side)  d == Depth(hb, side)
           N == [n EXCEPT ![side] = Larger(@, m)]
<1>0. /\ IsBucket(hb) /\ Lines(hb.part) /\ r \in 0 .. BucketNum /\ r \in Nat /\ BucketNum \in Nat
      /\ \A s \in Sides : SortedTo(stats, hb, s, n[s], Depth(hb, s))
  BY BucketFacts DEF Asked, IsBucket
<1>1. /\ d \in 0 .. r /\ hb.last[side] = LastAt(side, d)
      /\ hb.sorted[side] = c[d] /\ Capped(n[side], c[r]) <= c[d]
      /\ d > 0 => c[d - 1] < Capped(n[side], c[r])
      /\ \A p \in 1 .. d : InOrder(stats, hb, side, BucketAt(side, p))
  BY <1>0 DEF SortedTo
<1>2. c \in [0 .. BucketNum -> Nat]
  BY <1>0, CumIs
<1>3. c[r] \in Nat /\ c[d] \in Nat /\ n[side] \in Nat /\ (d > 0 => c[d - 1] \in Nat)
  <2>1. d \in 0 .. BucketNum /\ (d > 0 => d - 1 \in 0 .. BucketNum)
    BY <1>0, <1>1
  <2> QED BY <1>0, <1>2, <2>1
<1>4. N[side] = Larger(n[side], m) /\ \A s \in Sides : s # side => N[s] = n[s]
  OBVIOUS
<1>5. CASE m <= hb.sorted[side]
  <2>1. new = hb
    BY <1>5 DEF SortSide
  <2>2. /\ Capped(N[side], c[r]) <= c[d]
        /\ Capped(n[side], c[r]) <= Capped(N[side], c[r])
    <3> HIDE DEF c, r, d, N
    <3> QED BY <1>1, <1>3, <1>4, <1>5 DEF Capped, Larger
  <2>3. d > 0 => c[d - 1] < Capped(N[side], c[r])
    <3>1. Capped(n[side], c[r]) \in Nat /\ Capped(N[side], c[r]) \in Nat
      <4> HIDE DEF c, r, d, N
      <4> QED BY <1>3, <1>4 DEF Capped, Larger
    <3> HIDE DEF c, r, d, N
    <3> QED BY <1>1, <1>3, <2>2, <3>1
  <2>4. SortedTo(stats, hb, side, N[side], d)
    BY <1>1, <2>2, <2>3 DEF SortedTo
  <2>5. \A s \in Sides : SortedTo(stats, hb, s, N[s], Depth(hb, s))
    BY <1>0, <1>4, <2>4
  <2>6. Asked(stats, hb, key, N)
    <3> HIDE DEF N
    <3> QED BY <2>5 DEF Asked
  <2>7. Deeper(hb, hb)
    <3>1. \A s \in Sides : Depth(hb, s) \in Nat /\ hb.sorted[s] \in Nat
      <4> SUFFICES ASSUME NEW s \in Sides PROVE Depth(hb, s) \in Nat /\ hb.sorted[s] \in Nat
        OBVIOUS
      <4>1. Depth(hb, s) \in 0 .. BucketNum /\ hb.sorted[s] = Cum(hb.part, s)[Depth(hb, s)]
        BY <1>0, BucketFacts DEF SortedTo
      <4>2. Cum(hb.part, s)[Depth(hb, s)] \in Nat
        BY <1>0, <4>1, CumNat
      <4>3. hb.sorted[s] \in Nat
        BY <4>1, <4>2
      <4> QED BY <4>1, <4>3
    <3> QED BY <3>1 DEF Deeper
  <2> QED BY <2>1, <2>6, <2>7
<1>6. CASE m > hb.sorted[side]
  <2> DEFINE w == Capped(m, c[r])
  <2>1. PICK e \in d .. r :
           /\ w <= c[e]
           /\ e > d => c[e - 1] < w
           /\ new = [key |-> hb.key, part |-> new.part,
                     sorted |-> [hb.sorted EXCEPT ![side] = c[e]],
                     last |-> [hb.last EXCEPT ![side] = LastAt(side, e)]]
           /\ new.part \in SortedParts(hb, side, Span(side, d, e))
    <3> HIDE DEF d
    <3> QED BY <1>0, <1>1, <1>6, SortIs
  <2>2. e \in 0 .. r /\ e \in 0 .. BucketNum /\ d <= e /\ c[e] \in Nat /\ (e > 0 => c[e - 1] \in Nat)
        /\ d \in Nat /\ e \in Nat
    <3>1. e \in 0 .. r /\ e \in 0 .. BucketNum /\ d <= e /\ (e > 0 => e - 1 \in 0 .. BucketNum)
          /\ d \in Nat /\ e \in Nat
      <4> HIDE DEF d
      <4> QED BY <1>0, <1>1
    <3> QED BY <1>2, <3>1
  <2>3. c[d] <= c[e]
    <3>1. d \in 0 .. BucketNum
      BY <1>0, <1>1
    <3> HIDE DEF d
    <3> QED BY <1>0, <2>2, <3>1, CumClimbs
  <2> DEFINE S == Span(side, d, e)
  <2>4. S \subseteq Indices
    <3> HIDE DEF d
    <3>1. \A p \in d + 1 .. e : p \in 1 .. BucketNum
      BY <1>0, <2>2
    <3> QED BY <3>1, BucketFacts DEF Span
  <2>5. /\ Lines(new.part)
        /\ \A i \in Indices : Len(new.part[i]) = Len(hb.part[i])
        /\ \A i \in Indices \ S : new.part[i] = hb.part[i]
        /\ \A i \in S : \A j, k \in DOMAIN new.part[i] :
              j < k => ~Before(hb, side, new.part[i][k], new.part[i][j])
    <3> HIDE DEF S
    <3>1. new.part \in SortedParts(hb, side, S)
      BY <2>1 DEF S
    <3> QED BY ONLY <1>0, <2>4, <3>1, SortedPartsAre
  <2>6. /\ new.key = hb.key
        /\ new.sorted = [hb.sorted EXCEPT ![side] = c[e]]
        /\ new.last = [hb.last EXCEPT ![side] = LastAt(side, e)]
    <3> HIDE DEF c, d
    <3> QED BY <2>1
  <2>7. /\ new.sorted[side] = c[e] /\ new.last[side] = LastAt(side, e)
        /\ DOMAIN new.sorted = Sides /\ DOMAIN new.last = Sides
        /\ \A s \in Sides : s # side => new.sorted[s] = hb.sorted[s] /\ new.last[s] = hb.last[s]
    <3> HIDE DEF c, d
    <3> QED BY <1>0, <2>6 DEF IsBucket
  <2>8. Depth(new, side) = e
    <3> HIDE DEF d
    <3> QED BY <2>2, <2>7, DepthIs
  <2>9. \A s \in Sides : s # side => Depth(new, s) = Depth(hb, s)
    BY <2>7 DEF Depth
  <2>10. \A s \in Sides : Cum(new.part, s) = Cum(hb.part, s)
    BY <1>0, <2>5, CumSame
  <2>11. \A x, y, s : BeforeBy(stats, new, s, x, y) <=> BeforeBy(stats, hb, s, x, y)
    BY <2>6 DEF BeforeBy
  <2>18. \A x, y, s : BeforeBy(stats, new, s, x, y) <=> Before(hb, s, x, y)
    BY <2>6 DEF Before, BeforeBy
  <2>12. ASSUME NEW s \in Sides, s # side, NEW p \in 1 .. Reach(s)
         PROVE  BucketAt(s, p) \notin S /\ BucketAt(s, p) \in Indices
    <3>1. \A q \in d + 1 .. e : q \in 1 .. r
      BY <1>0, <1>1, <2>2
    <3>2. \A q \in 1 .. r : BucketAt(s, p) # BucketAt(side, q)
      BY <2>12, BucketFacts DEF BucketAt, Sides
    <3>3. p \in 1 .. BucketNum
      <4>1. Reach(s) \in 0 .. BucketNum
        BY BucketFacts
      <4> QED BY <1>0, <4>1
    <3>4. BucketAt(s, p) \in Indices
      BY <3>3, BucketFacts
    <3> QED BY <3>1, <3>2, <3>4 DEF Span
  <2>13. ASSUME NEW p \in 1 .. d PROVE BucketAt(side, p) \notin S /\ BucketAt(side, p) \in Indices
    <3>1. p \in 1 .. BucketNum /\ \A q \in d + 1 .. e : q \in 1 .. BucketNum /\ q # p
      BY <1>0, <1>1, <2>2
    <3> QED BY <3>1, BucketFacts DEF Span
  <2>14. SortedTo(stats, new, side, N[side], e)
    <3>1. Capped(N[side], c[r]) <= c[e]
      <4> HIDE DEF c, r, d, N
      <4> QED BY <1>1, <1>3, <1>4, <1>6, <2>1, <2>2, <2>3 DEF Capped, Larger
    <3>2. e > 0 => c[e - 1] < Capped(N[side], c[r])
      <4>1. CASE e > d
        <5>1. c[e - 1] < w /\ c[e - 1] \in Nat
          BY <2>1, <2>2, <4>1
        <5> HIDE DEF c, r, d, N
        <5> DEFINE x == c[e - 1]  y == c[r]  a == n[side]  b == N[side]
        <5>2. x \in Nat /\ y \in Nat /\ a \in Nat /\ b = Larger(a, m) /\ x < Capped(m, y)
          BY <1>3, <1>4, <5>1
        <5> HIDE DEF x, y, a, b
        <5>3. x < Capped(b, y)
          BY <5>2 DEF Capped, Larger
        <5> QED BY <5>3 DEF x, y, b
      <4>2. CASE e = d
        <5> DEFINE x == c[e - 1]  y == c[r]  a == n[side]  b == N[side]
        <5>1. e > 0 => x \in Nat /\ x < Capped(a, y)
          BY <1>1, <2>2, <4>2
        <5>2. y \in Nat /\ a \in Nat /\ b = Larger(a, m)
          BY <1>3, <1>4
        <5> HIDE DEF x, y, a, b
        <5>3. e > 0 => x < Capped(b, y)
          BY <5>1, <5>2 DEF Capped, Larger
        <5> QED BY <5>3 DEF x, y, b
      <4> QED BY <2>2, <4>1, <4>2
    <3>3. ASSUME NEW p \in 1 .. e PROVE InOrder(stats, new, side, BucketAt(side, p))
      <4>1. CASE p <= d
        <5>1. p \in 1 .. d
          BY <1>1, <2>2, <4>1
        <5>2. InOrder(stats, hb, side, BucketAt(side, p))
          BY <1>1, <5>1
        <5>3. new.part[BucketAt(side, p)] = hb.part[BucketAt(side, p)]
          BY <2>5, <2>13, <5>1
        <5> HIDE DEF S, d
        <5> QED BY <2>11, <5>2, <5>3 DEF InOrder
      <4>2. CASE p > d
        <5>1. BucketAt(side, p) \in S
          <6>1. p \in d + 1 .. e
            BY <2>2, <4>2
          <6> QED BY <6>1 DEF Span
        <5> HIDE DEF S, d
        <5> QED BY <2>5, <2>18, <5>1 DEF InOrder
      <4> QED BY <2>2, <4>1, <4>2
    <3> HIDE DEF N, d
    <3> QED BY <2>2, <2>7, <2>10, <3>1, <3>2, <3>3 DEF SortedTo
  <2>15. ASSUME NEW s \in Sides, s # side PROVE SortedTo(stats, new, s, N[s], Depth(hb, s))
    <3>1. SortedTo(stats, hb, s, N[s], Depth(hb, s))
      BY <1>0, <1>4, <2>15
    <3>2. Depth(hb, s) \in 0 .. Reach(s) /\ \A p \in 1 .. Depth(hb, s) : p \in 1 .. Reach(s)
      <4>1. Depth(hb, s) \in 0 .. Reach(s) /\ Reach(s) \in 0 .. BucketNum
        BY <3>1, BucketFacts DEF SortedTo
      <4> QED BY <1>0, <4>1
    <3>3. \A p \in 1 .. Depth(hb, s) : new.part[BucketAt(s, p)] = hb.part[BucketAt(s, p)]
      BY <2>5, <2>12, <2>15, <3>2
    <3> HIDE DEF S, N
    <3>4. \A p \in 1 .. Depth(hb, s) : InOrder(stats, new, s, BucketAt(s, p))
      BY <2>11, <3>1, <3>3 DEF InOrder, SortedTo
    <3>5. new.sorted[s] = hb.sorted[s] /\ new.last[s] = hb.last[s] /\ Cum(new.part, s) = Cum(hb.part, s)
      BY <2>7, <2>10, <2>15
    <3> QED BY <3>1, <3>4, <3>5 DEF SortedTo
  <2>16. Asked(stats, new, key, N)
    <3>1. \A s \in Sides : SortedTo(stats, new, s, N[s], Depth(new, s))
      BY <2>8, <2>9, <2>14, <2>15
    <3>2. new.key = key
      BY <2>6 DEF Asked
    <3> HIDE DEF N
    <3> QED BY <2>5, <2>7, <3>1, <3>2 DEF Asked, IsBucket
  <2>17. Deeper(hb, new)
    <3>1. ASSUME NEW s \in Sides
          PROVE  /\ Depth(hb, s) <= Depth(new, s)
                 /\ Depth(new, s) > Depth(hb, s) <=> new.sorted[s] > hb.sorted[s]
                 /\ \A p \in 1 .. Depth(hb, s) : new.part[BucketAt(s, p)] = hb.part[BucketAt(s, p)]
      <4>1. CASE s = side
        <5>1. e > d => c[e] > c[d]
          <6> SUFFICES ASSUME e > d PROVE c[e] > c[d]
            OBVIOUS
          <6>1. c[e - 1] < w /\ w <= c[e]
            BY <2>1
          <6>2. e - 1 \in 0 .. BucketNum /\ d <= e - 1 /\ d \in 0 .. BucketNum
            BY <1>0, <1>1, <2>2
          <6> HIDE DEF d
          <6>3. c[d] <= c[e - 1]
            BY <1>0, <6>2, CumClimbs
          <6>4. w \in Nat
            <7> HIDE DEF c, r
            <7> QED BY <1>3 DEF Capped
          <6> HIDE DEF c, w
          <6> QED BY <1>3, <2>2, <6>1, <6>3, <6>4
        <5>2. c[e] > c[d] => e > d
          <6> HIDE DEF c, d
          <6>1. e = d => ~(c[e] > c[d])
            BY <1>3
          <6> QED BY <2>2, <6>1
        <5>3. \A p \in 1 .. d : new.part[BucketAt(side, p)] = hb.part[BucketAt(side, p)]
          BY <2>5, <2>13
        <5> HIDE DEF c
        <5> QED BY <1>1, <2>2, <2>7, <2>8, <4>1, <5>1, <5>2, <5>3
      <4>2. CASE s # side
        <5>1. Depth(new, s) = Depth(hb, s) /\ new.sorted[s] = hb.sorted[s]
          BY <2>7, <2>9, <4>2
        <5>2. SortedTo(stats, hb, s, n[s], Depth(hb, s)) /\ Reach(s) \in 0 .. BucketNum
          BY <1>0, BucketFacts
        <5>3. Depth(hb, s) \in 0 .. Reach(s) /\ hb.sorted[s] = Cum(hb.part, s)[Depth(hb, s)]
          BY <5>2 DEF SortedTo
        <5>4. Depth(hb, s) \in 0 .. BucketNum /\ \A p \in 1 .. Depth(hb, s) : p \in 1 .. Reach(s)
          BY <1>0, <5>2, <5>3
        <5>5. Cum(hb.part, s)[Depth(hb, s)] \in Nat
          BY <1>0, <5>4, CumNat
        <5>6. hb.sorted[s] \in Nat /\ Depth(hb, s) \in Nat
          BY <5>3, <5>4, <5>5
        <5>7. \A p \in 1 .. Depth(hb, s) : new.part[BucketAt(s, p)] = hb.part[BucketAt(s, p)]
          BY <2>5, <2>12, <4>2, <5>4
        <5> QED BY <5>1, <5>6, <5>7
      <4> QED BY <4>1, <4>2
    <3> QED BY <2>5, <2>6, <2>10, <3>1 DEF Deeper
  <2> QED BY <2>16, <2>17
<1>7. hb.sorted[side] \in Nat
  BY <1>1, <1>3
<1> QED BY <1>5, <1>6, <1>7

-----------------------------------------------------------------------------
(* Walking.                                                                *)

\* The two sides have no bucket in common.
LEMMA SidesMeet ==
    ASSUME NEW side \in Sides, NEW part, Lines(part),
           NEW p \in 1 .. BucketNum, NEW j \in 1 .. Len(part[BucketAt(side, p)]),
           NEW q \in 0 .. BucketNum, p <= q
    PROVE  Cum(part, side)[p - 1] + j <= Cum(part, side)[q]
<1> DEFINE c == Cum(part, side)  x == c[p - 1]  n == Len(part[BucketAt(side, p)])
<1>1. c[p] = x + n /\ n \in Nat
  BY CumIs
<1>2. p \in 0 .. BucketNum /\ p - 1 \in 0 .. BucketNum
  BY BucketFacts
<1>3. c[p] <= c[q] /\ c[q] \in Nat /\ x \in Nat
  BY <1>2, CumClimbs, CumNat
<1>4. j \in 1 .. n
  OBVIOUS
<1> HIDE DEF x, n, c
<1>5. x + j <= c[q]
  BY <1>1, <1>3, <1>4
<1> QED BY <1>5 DEF x, c

\* No two OBJs are at the same place.
LEMMA OnePlace ==
    ASSUME NEW side \in Sides, NEW part, Lines(part),
           NEW p \in 1 .. BucketNum, NEW j \in 1 .. Len(part[BucketAt(side, p)]),
           NEW q \in 1 .. BucketNum, NEW k \in 1 .. Len(part[BucketAt(side, q)]),
           Cum(part, side)[p - 1] + j = Cum(part, side)[q - 1] + k
    PROVE  p = q /\ j = k
<1> DEFINE c == Cum(part, side)  x == c[p - 1]  y == c[q - 1]
<1>0. p \in Nat /\ q \in Nat /\ p - 1 \in 0 .. BucketNum /\ q - 1 \in 0 .. BucketNum
  BY BucketFacts
<1>1. x \in Nat /\ y \in Nat /\ j \in Nat /\ k \in Nat /\ 1 <= j /\ 1 <= k /\ x + j = y + k
  <2>1. x \in Nat /\ y \in Nat
    BY <1>0, CumNat
  <2>2. Len(part[BucketAt(side, p)]) \in Nat /\ Len(part[BucketAt(side, q)]) \in Nat
    BY CumIs
  <2> QED BY <2>1, <2>2
<1>2. p < q => x + j <= y
  <2> SUFFICES ASSUME p < q PROVE x + j <= y
    OBVIOUS
  <2>1. p <= q - 1
    BY <1>0
  <2> QED BY <1>0, <2>1, SidesMeet
<1>3. q < p => y + k <= x
  <2> SUFFICES ASSUME q < p PROVE y + k <= x
    OBVIOUS
  <2>1. q <= p - 1
    BY <1>0
  <2> QED BY <1>0, <2>1, SidesMeet
<1> HIDE DEF x, y
<1>4. ~(p < q) /\ ~(q < p)
  BY <1>1, <1>2, <1>3
<1>5. p = q
  BY <1>0, <1>4
<1>6. x = y
  BY <1>5 DEF x, y
<1> QED BY <1>1, <1>5, <1>6

\* The next one handed out stands at the next place.
LEMMA HandedMore ==
    ASSUME NEW hb, Lines(hb.part), NEW side \in Sides, NEW got, Line(got), Handed(hb, side, got),
           NEW q \in 1 .. BucketNum, NEW k \in 1 .. Len(hb.part[BucketAt(side, q)]),
           Len(got) + 1 = Cum(hb.part, side)[q - 1] + k
    PROVE  Handed(hb, side, Append(got, hb.part[BucketAt(side, q)][k]))
<1> DEFINE c == Cum(hb.part, side)  x == hb.part[BucketAt(side, q)][k]  more == Append(got, x)
<1>1. /\ Len(got) \in Nat /\ Len(more) = Len(got) + 1 /\ more[Len(got) + 1] = x
      /\ \A n \in 1 .. Len(got) : more[n] = got[n]
  BY LineIs
<1>2. ASSUME NEW p \in 1 .. BucketNum, NEW j \in 1 .. Len(hb.part[BucketAt(side, p)]),
             c[p - 1] + j <= Len(more)
      PROVE  more[c[p - 1] + j] = hb.part[BucketAt(side, p)][j]
  <2> DEFINE n == c[p - 1] + j
  <2>1. n \in Nat /\ 1 <= n
    <3>1. p - 1 \in 0 .. BucketNum
      BY BucketFacts
    <3>2. c[p - 1] \in Nat /\ Len(hb.part[BucketAt(side, p)]) \in Nat
      BY <3>1, CumNat, CumIs
    <3> HIDE DEF c
    <3> QED BY <3>2
  <2>2. CASE n <= Len(got)
    <3>1. got[n] = hb.part[BucketAt(side, p)][j]
      BY <2>2 DEF Handed
    <3> HIDE DEF n, more
    <3>2. n \in 1 .. Len(got)
      BY <1>1, <2>1, <2>2
    <3> QED BY <1>1, <3>1, <3>2 DEF n
  <2>3. CASE n = Len(got) + 1
    <3>1. p = q /\ j = k
      <4>1. c[p - 1] + j = c[q - 1] + k
        BY <2>3
      <4> QED BY <4>1, OnePlace
    <3>2. more[n] = x
      BY <1>1, <2>3
    <3> QED BY <3>1, <3>2
  <2>4. n <= Len(got) + 1
    BY <1>1, <1>2
  <2> HIDE DEF n
  <2>5. n <= Len(got) \/ n = Len(got) + 1
    BY <1>1, <2>1, <2>4
  <2> QED BY <2>2, <2>3, <2>5 DEF n
<1> HIDE DEF more
<1> QED BY <1>2 DEF Handed, more

\* A step of the walk of one side leaves the other's alone.
Only(w, v, side) ==
    /\ IsWalk(v) /\ v.begun = w.begun
    /\ \A s \in Sides \ {side} : /\ v.at[s] = w.at[s] /\ v.next[s] = w.next[s]
                                 /\ v.got[s] = w.got[s] /\ (s \in v.may <=> s \in w.may)

\* An OBJ is handed out that is next.
LEMMA HandOutKeeps ==
    ASSUME NEW hb, IsBucket(hb), NEW side \in Sides, Depth(hb, side) \in 0 .. BucketNum,
           NEW w, IsWalk(w), side \in w.begun,
           Line(w.got[side]), Handed(hb, side, w.got[side]),
           NEW q \in 1 .. Depth(hb, side), NEW k \in 1 .. Len(hb.part[BucketAt(side, q)]),
           Len(w.got[side]) + 1 = Cum(hb.part, side)[q - 1] + k
    PROVE  LET v == HandOut(hb, w, side, BucketAt(side, q), k)
           IN Only(w, v, side) /\ Along(hb, v, side)
<1> DEFINE i == BucketAt(side, q)  x == hb.part[i][k]  v == HandOut(hb, w, side, i, k)
           c == Cum(hb.part, side)
<1>0. Lines(hb.part) /\ q \in 1 .. BucketNum
  BY BucketFacts DEF IsBucket
<1>1. /\ v = [at |-> [w.at EXCEPT ![side] = i], next |-> [w.next EXCEPT ![side] = k + 1],
              got |-> [w.got EXCEPT ![side] = Append(@, x)], may |-> w.may \cup {side},
              begun |-> w.begun]
  BY DEF HandOut
<1> HIDE DEF v
<1>2. /\ DOMAIN w.at = Sides /\ DOMAIN w.next = Sides /\ DOMAIN w.got = Sides
      /\ w.begun \subseteq Sides /\ w.may \subseteq w.begun
  BY DEF IsWalk
<1>3. /\ v.at[side] = i /\ v.next[side] = k + 1 /\ v.got[side] = Append(w.got[side], x)
      /\ side \in v.may
  <2> HIDE DEF i, x
  <2> QED BY <1>1, <1>2
<1>4. Only(w, v, side)
  <2> HIDE DEF i, x
  <2>1. IsWalk(v)
    BY <1>1, <1>2 DEF IsWalk
  <2> QED BY <1>1, <1>2, <2>1 DEF Only
<1>5. Line(v.got[side]) /\ Len(v.got[side]) = Len(w.got[side]) + 1
  BY <1>3, LineIs
<1>6. Handed(hb, side, v.got[side])
  BY <1>0, <1>3, HandedMore
<1>7. Amid(hb, v, side, q)
  <2>1. Len(hb.part[i]) \in Nat
    BY <1>0, CumIs
  <2>2. q - 1 \in 0 .. BucketNum
    BY <1>0, BucketFacts
  <2>3. c[q - 1] \in Nat
    BY <1>0, <2>2, CumNat
  <2>4. Len(v.got[side]) = c[q - 1] + (k + 1) - 1
    <3> HIDE DEF c
    <3>1. Len(v.got[side]) = c[q - 1] + k
      BY <1>5 DEF c
    <3> QED BY <2>1, <2>3, <3>1
  <2>5. k + 1 \in 1 .. Len(hb.part[i]) + 1
    <3> HIDE DEF i
    <3> QED BY <2>1 DEF i
  <2> HIDE DEF c, i
  <2> QED BY <1>3, <2>4, <2>5 DEF Amid, c, i
<1>8. Along(hb, v, side)
  BY <1>0, <1>5, <1>6, <1>7 DEF Along
<1> QED BY <1>4, <1>8 DEF v

\* The filled buckets in the order of the side.
LEMMA FilledAre ==
    ASSUME NEW hb, NEW side \in Sides, NEW d \in 0 .. Reach(side), hb.last[side] = LastAt(side, d),
           NEW p \in 1 .. d + 1
    PROVE  Filled(hb, side, BucketAt(side, p))
              = BucketsAt(side, {q \in p .. d : hb.part[BucketAt(side, q)] # <<>>})
<1> DEFINE b == BucketAt(side, p)
<1>0. /\ BucketNum \in Nat /\ NoBucket = BucketNum /\ d \in 0 .. BucketNum /\ p \in Nat /\ d \in Nat
      /\ 1 <= p
  BY BucketFacts
<1>1. CASE side = "hot"
  <2>1. hb.last[side] = BucketNum - d /\ b = BucketNum - p
    BY <1>0, <1>1 DEF LastAt, BucketAt
  <2>2. Filled(hb, side, b) = {i \in BucketNum - d .. BucketNum - p : hb.part[i] # <<>>}
    BY <1>1, <2>1 DEF Filled
  <2>3. \A q \in p .. d : BucketAt(side, q) \in BucketNum - d .. BucketNum - p
    BY <1>0, <1>1 DEF BucketAt
  <2>4. \A i \in BucketNum - d .. BucketNum - p : BucketNum - i \in p .. d /\ BucketAt(side, BucketNum - i) = i
    BY <1>0, <1>1 DEF BucketAt
  <2> QED BY <2>2, <2>3, <2>4 DEF BucketsAt
<1>2. CASE side = "cold"
  <2>0. side # "hot"
    BY <1>2
  <2>1. b = p - 1
    BY <2>0 DEF BucketAt
  <2>2. Filled(hb, side, b) = {i \in p - 1 .. d - 1 : hb.part[i] # <<>>}
    <3>1. CASE d = 0
      <4>1. hb.last[side] = NoBucket
        BY <3>1 DEF LastAt
      <4>2. p - 1 .. d - 1 = {}
        BY <1>0, <3>1
      <4> QED BY <2>0, <4>1, <4>2 DEF Filled
    <3>2. CASE d # 0
      <4>1. hb.last[side] = d - 1 /\ hb.last[side] # NoBucket
        BY <1>0, <2>0, <3>2 DEF LastAt, BucketAt
      <4> HIDE DEF b
      <4> QED BY <2>0, <2>1, <4>1 DEF Filled
    <3> QED BY <3>1, <3>2
  <2>3. \A q \in p .. d : BucketAt(side, q) \in p - 1 .. d - 1
    BY <1>0, <2>0 DEF BucketAt
  <2>4. \A i \in p - 1 .. d - 1 : i + 1 \in p .. d /\ BucketAt(side, i + 1) = i
    BY <1>0, <2>0 DEF BucketAt
  <2> QED BY <2>2, <2>3, <2>4 DEF BucketsAt
<1> QED BY <1>1, <1>2 DEF Sides

\* Empty buckets add nothing.
LEMMA EmptyAddNothing ==
    ASSUME NEW part, Lines(part), NEW side \in Sides, NEW p \in 0 .. BucketNum, NEW q \in 0 .. BucketNum,
           p <= q, \A r \in p + 1 .. q : part[BucketAt(side, r)] = <<>>
    PROVE  Cum(part, side)[q] = Cum(part, side)[p]
<1> DEFINE c == Cum(part, side)
           T == {r \in p .. q : c[r] # c[p]}
<1>0. BucketNum \in Nat /\ p \in Nat /\ q \in Nat
  BY BucketFacts
<1> SUFFICES ASSUME c[q] # c[p] PROVE FALSE
  OBVIOUS
<1>1. T \subseteq Nat /\ q \in T
  BY <1>0
<1>2. PICK r \in T : \A x \in T : r <= x
  BY <1>1, LeastExists
<1>3. r \in p .. q /\ c[r] # c[p] /\ r # p
  BY <1>2
<1>4. r - 1 \in p .. q /\ r \in p + 1 .. q /\ r \in 1 .. BucketNum /\ ~(r <= r - 1) /\ r - 1 \in 0 .. BucketNum
  BY <1>0, <1>3
<1>5. c[r - 1] = c[p]
  BY <1>2, <1>4
<1>6. c[r] = c[r - 1] + Len(part[BucketAt(side, r)]) /\ c[r - 1] \in Nat
  BY <1>4, CumIs, CumNat
<1>7. Len(part[BucketAt(side, r)]) = 0
  BY <1>4
<1> HIDE DEF c
<1>8. c[r] = c[r - 1]
  BY <1>6, <1>7
<1> QED BY <1>3, <1>5, <1>8

\* Where a sort goes on and a cursor rests.
LEMMA StartIs ==
    ASSUME NEW hb, NEW side \in Sides, NEW d \in 0 .. Reach(side), hb.last[side] = LastAt(side, d)
    PROVE  StartOf(hb, side) = BucketAt(side, d + 1)
<1>1. d \in Nat /\ d <= BucketNum /\ BucketNum \in Nat /\ NoBucket = BucketNum
  BY BucketFacts
<1>2. CASE side = "hot"
  BY <1>1, <1>2 DEF StartOf, LastAt, BucketAt
<1>3. CASE side = "cold"
  <2>1. side # "hot"
    BY <1>3
  <2>2. CASE d = 0
    BY <1>1, <2>1, <2>2 DEF StartOf, LastAt, BucketAt
  <2>3. CASE d # 0
    <3>1. hb.last[side] = d - 1
      BY <2>1, <2>3 DEF LastAt, BucketAt
    <3> QED BY <1>1, <2>1, <3>1 DEF StartOf, BucketAt
  <2> QED BY <2>2, <2>3
<1> QED BY <1>2, <1>3 DEF Sides

\* The nearest of some buckets, as a walk looks for it.
LEMMA NearestIs ==
    ASSUME NEW side \in Sides, NEW P \in SUBSET (1 .. BucketNum), P # {}
    PROVE  \E q \in P : /\ \A r \in P : q <= r
                        /\ (CHOOSE i \in BucketsAt(side, P) : \A j \in BucketsAt(side, P) :
                               IF side = "hot" THEN j <= i ELSE i <= j) = BucketAt(side, q)
<1> DEFINE S == BucketsAt(side, P)
           Near(i) == \A j \in S : IF side = "hot" THEN j <= i ELSE i <= j
<1>0. BucketNum \in Nat /\ P \subseteq Nat
  BY BucketFacts
<1>1. PICK q \in P : \A r \in P : q <= r
  <2>1. PICK x : x \in P
    OBVIOUS
  <2> QED BY <1>0, <2>1, LeastExists
<1> DEFINE b == BucketAt(side, q)
<1>2. b \in S /\ Near(b)
  <2>1. \A r \in P : r \in Nat /\ q \in Nat /\ q <= r
    BY <1>0, <1>1
  <2> QED BY <1>0, <2>1 DEF BucketsAt, BucketAt
<1>3. \A i \in S : i \in Int
  BY <1>0 DEF BucketsAt, BucketAt
<1>4. \A i \in S : Near(i) => i = b
  <2> SUFFICES ASSUME NEW i \in S, Near(i) PROVE i = b
    OBVIOUS
  <2>1. i \in Int /\ b \in Int
    BY <1>2, <1>3
  <2>2. IF side = "hot" THEN b <= i ELSE i <= b
    BY <1>2
  <2>3. IF side = "hot" THEN i <= b ELSE b <= i
    BY <1>2
  <2> HIDE DEF b, S
  <2> QED BY <2>1, <2>2, <2>3
<1> HIDE DEF S, b, Near
<1>5. (CHOOSE i \in S : Near(i)) = b
  BY <1>2, <1>4
<1> QED BY <1>1, <1>5 DEF S, b, Near

\* Looking for the next bucket from the p-th one on.
LEMMA FirstFromKeeps ==
    ASSUME NEW hb, IsBucket(hb), NEW side \in Sides, NEW d \in 0 .. Reach(side),
           Depth(hb, side) = d, hb.last[side] = LastAt(side, d),
           NEW w, IsWalk(w), side \in w.begun,
           Line(w.got[side]), Handed(hb, side, w.got[side]),
           NEW p \in 1 .. d + 1, Len(w.got[side]) = Cum(hb.part, side)[p - 1]
    PROVE  LET v == FirstFrom(hb, w, side, BucketAt(side, p))
           IN Only(w, v, side) /\ Along(hb, v, side)
<1> DEFINE c == Cum(hb.part, side)
           P == {q \in p .. d : hb.part[BucketAt(side, q)] # <<>>}
           filled == Filled(hb, side, BucketAt(side, p))
           v == FirstFrom(hb, w, side, BucketAt(side, p))
<1>0. /\ BucketNum \in Nat /\ d \in 0 .. BucketNum /\ Lines(hb.part) /\ d \in Nat /\ p \in Nat /\ 1 <= p
      /\ p - 1 \in 0 .. BucketNum /\ p - 1 <= d /\ Reach(side) \in 0 .. BucketNum
  BY BucketFacts DEF IsBucket
<1>1. filled = BucketsAt(side, P)
  BY FilledAre
<1>2. P \subseteq 1 .. BucketNum
  BY <1>0
<1>3. CASE P # {}
  <2>1. PICK q \in P :
           /\ \A r \in P : q <= r
           /\ (CHOOSE i \in BucketsAt(side, P) : \A j \in BucketsAt(side, P) :
                  IF side = "hot" THEN j <= i ELSE i <= j) = BucketAt(side, q)
    <3> HIDE DEF P
    <3> QED BY <1>2, <1>3, NearestIs
  <2>2. /\ q \in 1 .. d /\ q \in 1 .. BucketNum /\ p <= q /\ q \in Nat
        /\ q - 1 \in 0 .. BucketNum /\ p - 1 <= q - 1
    BY <1>0
  <2> DEFINE s == hb.part[BucketAt(side, q)]
  <2>3. Line(s) /\ s # <<>>
    BY <2>2, BucketFacts, <1>0 DEF Lines
  <2>4. 1 \in 1 .. Len(s)
    <3> HIDE DEF s
    <3>1. s \in Seq(Range(s)) /\ Len(s) \in Nat
      BY <2>3 DEF Line
    <3>2. Len(s) # 0
      BY <2>3, <3>1
    <3> QED BY <3>1, <3>2
  <2>5. c[q - 1] = c[p - 1]
    <3>1. \A r \in (p - 1) + 1 .. q - 1 : hb.part[BucketAt(side, r)] = <<>>
      <4> SUFFICES ASSUME NEW r \in (p - 1) + 1 .. q - 1, hb.part[BucketAt(side, r)] # <<>> PROVE FALSE
        OBVIOUS
      <4>1. r \in P /\ ~(q <= r)
        BY <1>0, <2>2
      <4> QED BY <2>1, <4>1
    <3> HIDE DEF P, s
    <3> QED BY <1>0, <2>2, <3>1, EmptyAddNothing
  <2>6. v = HandOut(hb, w, side, BucketAt(side, q), 1)
    <3>1. filled # {}
      BY <1>1, <1>3 DEF BucketsAt
    <3>2. (CHOOSE i \in filled : \A j \in filled : IF side = "hot" THEN j <= i ELSE i <= j)
             = BucketAt(side, q)
      BY <1>1, <2>1
    <3> HIDE DEF filled, P
    <3> QED BY <3>1, <3>2 DEF FirstFrom, filled
  <2>7. Len(w.got[side]) + 1 = c[q - 1] + 1
    BY <2>5
  <2> HIDE DEF P, v, c
  <2>8. Depth(hb, side) \in 0 .. BucketNum /\ q \in 1 .. Depth(hb, side)
    BY <1>0, <2>2
  <2>9. Only(w, HandOut(hb, w, side, BucketAt(side, q), 1), side)
        /\ Along(hb, HandOut(hb, w, side, BucketAt(side, q), 1), side)
    BY <2>4, <2>7, <2>8, HandOutKeeps DEF c
  <2> QED BY <2>6, <2>9 DEF v
<1>4. CASE P = {}
  <2>1. filled = {}
    BY <1>1, <1>4 DEF BucketsAt
  <2> DEFINE x == Resting(hb, side)  M == w.may \ {side}
  <2>2. v = [at |-> [w.at EXCEPT ![side] = x], next |-> [w.next EXCEPT ![side] = 1],
             got |-> w.got, may |-> M, begun |-> w.begun]
    <3> HIDE DEF P, x
    <3> QED BY <2>1 DEF FirstFrom, x
  <2> HIDE DEF v, x
  <2>3. /\ DOMAIN w.at = Sides /\ DOMAIN w.next = Sides /\ DOMAIN w.got = Sides
        /\ w.begun \subseteq Sides /\ w.may \subseteq w.begun
    BY DEF IsWalk
  <2> HIDE DEF M
  <2>5. /\ v.at[side] = x /\ v.next[side] = 1 /\ v.got[side] = w.got[side] /\ v.may = M
    BY <2>2, <2>3
  <2>6. Only(w, v, side)
    <3>1. IsWalk(v)
      BY <2>2, <2>3 DEF IsWalk, M
    <3> QED BY <2>2, <2>3, <3>1 DEF Only, M
  <2>7. x = BucketAt(side, d + 1)
    BY StartIs DEF x, Resting
  <2>8. c[d] = c[p - 1]
    <3>1. \A r \in (p - 1) + 1 .. d : hb.part[BucketAt(side, r)] = <<>>
      BY <1>0, <1>4
    <3> QED BY <1>0, <3>1, EmptyAddNothing
  <2>9. AtRest(hb, v, side)
    <3> HIDE DEF c
    <3>1. Len(v.got[side]) = c[d]
      BY <2>5, <2>8 DEF c
    <3>2. side \notin v.may
      BY <2>5 DEF M
    <3> QED BY <2>5, <2>7, <3>1, <3>2 DEF AtRest, c
  <2>10. Along(hb, v, side)
    BY <2>5, <2>9 DEF Along
  <2> QED BY <2>6, <2>10 DEF v
<1> QED BY <1>3, <1>4

\* A bucket that was asked for, seen from one side.
LEMMA AskedIs ==
    ASSUME NEW st, NEW hb, NEW key, NEW n, Asked(st, hb, key, n), NEW side \in Sides
    PROVE  /\ IsBucket(hb) /\ Lines(hb.part) /\ hb.key = key
           /\ Depth(hb, side) \in 0 .. Reach(side) /\ Depth(hb, side) \in 0 .. BucketNum
           /\ Depth(hb, side) \in Nat
           /\ hb.last[side] = LastAt(side, Depth(hb, side))
           /\ hb.sorted[side] = Cum(hb.part, side)[Depth(hb, side)]
<1>1. IsBucket(hb) /\ Lines(hb.part) /\ hb.key = key /\ SortedTo(st, hb, side, n[side], Depth(hb, side))
  BY DEF Asked, IsBucket
<1>2. /\ Depth(hb, side) \in 0 .. Reach(side)
      /\ hb.last[side] = LastAt(side, Depth(hb, side))
      /\ hb.sorted[side] = Cum(hb.part, side)[Depth(hb, side)]
  BY <1>1 DEF SortedTo
<1>3. Depth(hb, side) \in 0 .. BucketNum /\ Depth(hb, side) \in Nat
  BY <1>2, BucketFacts
<1> QED BY <1>1, <1>2, <1>3

\* A step of one side's walk keeps the other's.
LEMMA BothWalk ==
    ASSUME NEW hb, NEW w, NEW v, NEW side \in Sides, Only(w, v, side), Along(hb, v, side),
           \A s \in w.begun \ {side} : Along(hb, w, s)
    PROVE  Walks(hb, v)
<1>1. IsWalk(v) /\ v.begun = w.begun /\ v.begun \subseteq Sides
  BY DEF Only, IsWalk
<1>2. ASSUME NEW s \in v.begun PROVE Along(hb, v, s)
  <2>1. CASE s = side
    BY <2>1
  <2>2. CASE s # side
    <3>1. s \in Sides \ {side} /\ Along(hb, w, s)
      BY <1>1, <2>2
    <3>2. v.at[s] = w.at[s] /\ v.next[s] = w.next[s] /\ v.got[s] = w.got[s] /\ (s \in v.may <=> s \in w.may)
      BY <3>1 DEF Only
    <3>3. AtRest(hb, w, s) => AtRest(hb, v, s)
      BY <3>2 DEF AtRest
    <3>4. \A q : Amid(hb, w, s, q) => Amid(hb, v, s, q)
      BY <3>2 DEF Amid
    <3> QED BY <3>1, <3>2, <3>3, <3>4 DEF Along
  <2> QED BY <2>1, <2>2
<1> QED BY <1>1, <1>2 DEF Walks

\* Asking for the first OBJ starts the walk of its side.
LEMMA FirstKeeps ==
    ASSUME NEW st, NEW hb, NEW key, NEW n, Asked(st, hb, key, n), NEW w, Walks(hb, w), NEW side \in Sides
    PROVE  Walks(hb, FirstOf(hb, w, side))
<1> DEFINE u == [at |-> w.at, next |-> w.next, got |-> [w.got EXCEPT ![side] = <<>>],
                 may |-> w.may, begun |-> w.begun \cup {side}]
           d == Depth(hb, side)
<1>0. IsWalk(w) /\ IsBucket(hb) /\ Lines(hb.part) /\ d \in 0 .. Reach(side) /\ d \in Nat
      /\ hb.last[side] = LastAt(side, d)
  BY AskedIs DEF Walks
<1>1. IsWalk(u) /\ u.begun = w.begun \cup {side} /\ u.got[side] = <<>>
  BY <1>0 DEF IsWalk
<1>2. \A s \in Sides \ {side} : u.got[s] = w.got[s]
  BY <1>0 DEF IsWalk
<1>3. (IF side = "hot" THEN Top ELSE 0) = BucketAt(side, 1)
  BY BucketFacts DEF BucketAt
<1>4. FirstOf(hb, w, side) = FirstFrom(hb, u, side, BucketAt(side, 1))
  BY <1>3 DEF FirstOf
<1>5. Line(u.got[side]) /\ Len(u.got[side]) = 0
  <2> DEFINE S == Range(<<>>)
  <2> HIDE DEF S
  <2>1. <<>> \in Seq(S) /\ Len(<<>>) = 0
    OBVIOUS
  <2> HIDE DEF u
  <2> QED BY <1>1, <2>1 DEF Line, S
<1>6. Handed(hb, side, u.got[side])
  <2>1. ASSUME NEW p \in 1 .. BucketNum, NEW j \in 1 .. Len(hb.part[BucketAt(side, p)])
        PROVE  ~(Cum(hb.part, side)[p - 1] + j <= 0)
    <3>1. p - 1 \in 0 .. BucketNum
      BY BucketFacts
    <3>2. Cum(hb.part, side)[p - 1] \in Nat /\ Len(hb.part[BucketAt(side, p)]) \in Nat
      BY <1>0, <3>1, CumNat, CumIs
    <3> DEFINE x == Cum(hb.part, side)[p - 1]
    <3> HIDE DEF x
    <3>3. ~(x + j <= 0)
      BY <3>2 DEF x
    <3> QED BY <3>3 DEF x
  <2> HIDE DEF u
  <2> QED BY <1>5, <2>1 DEF Handed
<1>7. 1 \in 1 .. d + 1 /\ Len(u.got[side]) = Cum(hb.part, side)[1 - 1]
  <2>1. 1 \in 1 .. d + 1 /\ 1 - 1 = 0
    BY <1>0
  <2>2. Cum(hb.part, side)[0] = 0
    BY <1>0, CumIs
  <2> HIDE DEF u
  <2>3. Cum(hb.part, side)[1 - 1] = 0
    BY <2>1, <2>2
  <2> QED BY <1>5, <2>1, <2>3
<1> DEFINE v == FirstFrom(hb, u, side, BucketAt(side, 1))
<1>8. side \in u.begun /\ Depth(hb, side) = d
  BY <1>1
<1>9. Only(u, v, side) /\ Along(hb, v, side)
  <2> HIDE DEF u, d
  <2> QED BY <1>0, <1>1, <1>5, <1>6, <1>7, <1>8, FirstFromKeeps
<1>10. \A s \in u.begun \ {side} : Along(hb, u, s)
  <2> SUFFICES ASSUME NEW s \in u.begun, s # side PROVE Along(hb, u, s)
    OBVIOUS
  <2>1. s \in w.begun /\ s \in Sides \ {side}
    BY <1>0, <1>1 DEF IsWalk
  <2>2. Along(hb, w, s)
    BY <2>1 DEF Walks
  <2>3. u.at = w.at /\ u.next = w.next /\ u.may = w.may /\ u.got[s] = w.got[s]
    BY <1>2, <2>1
  <2> HIDE DEF u
  <2>4. AtRest(hb, w, s) => AtRest(hb, u, s)
    BY <2>3 DEF AtRest
  <2>5. \A q : Amid(hb, w, s, q) => Amid(hb, u, s, q)
    BY <2>3 DEF Amid
  <2> QED BY <2>2, <2>3, <2>4, <2>5 DEF Along
<1> HIDE DEF u, v
<1>11. Walks(hb, v)
  BY <1>9, <1>10, BothWalk
<1> QED BY <1>4, <1>11 DEF v

\* Asking for the next OBJ goes one place on, or rests.
LEMMA NextKeeps ==
    ASSUME NEW st, NEW hb, NEW key, NEW n, Asked(st, hb, key, n), NEW w, Walks(hb, w), NEW side \in Sides,
           side \in w.may
    PROVE  Walks(hb, NextOf(hb, w, side))
<1> DEFINE d == Depth(hb, side)  c == Cum(hb.part, side)  v == NextOf(hb, w, side)
<1>0. IsWalk(w) /\ IsBucket(hb) /\ Lines(hb.part) /\ d \in 0 .. Reach(side) /\ d \in Nat
      /\ d \in 0 .. BucketNum
      /\ hb.last[side] = LastAt(side, d) /\ BucketNum \in Nat /\ NoBucket = BucketNum
  BY AskedIs, BucketFacts DEF Walks
<1>1. side \in w.begun /\ Along(hb, w, side)
  BY <1>0 DEF Walks, IsWalk
<1>2. PICK q \in 1 .. BucketNum : Amid(hb, w, side, q)
  BY <1>1 DEF Along, AtRest
<1> DEFINE s == hb.part[BucketAt(side, q)]  k == w.next[side]
<1>3. /\ q \in 1 .. d /\ w.at[side] = BucketAt(side, q) /\ k \in 1 .. Len(s) + 1
      /\ Len(w.got[side]) = c[q - 1] + k - 1
      /\ Line(w.got[side]) /\ Handed(hb, side, w.got[side])
  BY <1>1, <1>2 DEF Amid, Along
<1>4. /\ Len(s) \in Nat /\ c[q - 1] \in Nat /\ c[q] = c[q - 1] + Len(s) /\ q \in Nat
      /\ Len(w.got[side]) \in Nat
  <2>1. q - 1 \in 0 .. BucketNum
    BY <1>0
  <2>2. Len(s) \in Nat /\ c[q] = c[q - 1] + Len(s)
    BY <1>0, CumIs
  <2>3. c[q - 1] \in Nat
    BY <1>0, <2>1, CumNat
  <2>4. Len(w.got[side]) \in Nat
    BY <1>3, LineIs
  <2> QED BY <2>2, <2>3, <2>4, <1>0
<1>5. ~Past(hb, w, side)
  <2>1. CASE side = "hot"
    BY <1>0, <1>3, <2>1 DEF Past, LastAt, BucketAt
  <2>2. CASE side = "cold"
    <3>1. side # "hot" /\ d # 0
      BY <1>0, <1>3, <2>2
    <3>2. hb.last[side] = d - 1 /\ w.at[side] = q - 1
      BY <1>0, <1>3, <3>1 DEF LastAt, BucketAt
    <3>3. ~(q - 1 > d - 1)
      BY <1>0, <1>3
    <3> HIDE DEF d
    <3> QED BY <3>1, <3>2, <3>3 DEF Past
  <2> QED BY <2>1, <2>2 DEF Sides
<1>6. Only(w, v, side) /\ Along(hb, v, side)
  <2>1. CASE k <= Len(s)
    <3>1. v = HandOut(hb, w, side, BucketAt(side, q), k)
      BY <1>3, <1>5, <2>1 DEF NextOf
    <3>2. k \in 1 .. Len(s)
      <4> HIDE DEF k, s
      <4> QED BY <1>3, <1>4, <2>1
    <3>3. Len(w.got[side]) + 1 = c[q - 1] + k
      <4> HIDE DEF k, s, c
      <4> QED BY <1>3, <1>4
    <3> HIDE DEF v, k, c, d
    <3>4. /\ Only(w, HandOut(hb, w, side, BucketAt(side, q), k), side)
          /\ Along(hb, HandOut(hb, w, side, BucketAt(side, q), k), side)
      BY <1>0, <1>1, <1>3, <3>2, <3>3, HandOutKeeps DEF c, d
    <3> QED BY <3>1, <3>4
  <2>2. CASE ~(k <= Len(s))
    <3>1. (IF side = "hot" THEN BucketAt(side, q) - 1 ELSE BucketAt(side, q) + 1) = BucketAt(side, q + 1)
      BY <1>0, <1>4 DEF BucketAt
    <3>2. v = FirstFrom(hb, w, side, BucketAt(side, q + 1))
      BY <1>3, <1>5, <2>2, <3>1 DEF NextOf
    <3>3. Len(w.got[side]) = c[q]
      <4> HIDE DEF k, s, c
      <4> QED BY <1>3, <1>4, <2>2
    <3>4. q + 1 \in 1 .. d + 1 /\ (q + 1) - 1 = q
      BY <1>0, <1>3
    <3> DEFINE p == q + 1
    <3>5. p \in 1 .. d + 1 /\ Len(w.got[side]) = c[p - 1]
      BY <3>3, <3>4
    <3> HIDE DEF v, p, c, d, k
    <3>6. Depth(hb, side) = d
      BY DEF d
    <3>7. /\ Only(w, FirstFrom(hb, w, side, BucketAt(side, p)), side)
          /\ Along(hb, FirstFrom(hb, w, side, BucketAt(side, p)), side)
      BY <1>0, <1>1, <1>3, <3>5, <3>6, FirstFromKeeps DEF c
    <3> QED BY <3>2, <3>7 DEF p
  <2> QED BY <2>1, <2>2
<1>7. \A x \in w.begun \ {side} : Along(hb, w, x)
  BY DEF Walks
<1> HIDE DEF v
<1>8. Walks(hb, v)
  BY <1>6, <1>7, BothWalk
<1> QED BY <1>8 DEF v

\* Sorting further under a walk: it goes on where buckets were added.
LEMMA CarryKeeps ==
    ASSUME NEW st, NEW hb, NEW key, NEW n, Asked(st, hb, key, n),
           NEW new, NEW m, Asked(st, new, key, m), Deeper(hb, new), NEW w, Walks(hb, w)
    PROVE  Walks(new, [w EXCEPT !.may = @ \cup {s \in w.begun : new.sorted[s] > hb.sorted[s]}])
<1> DEFINE M == w.may \cup {s \in w.begun : new.sorted[s] > hb.sorted[s]}
           v == [w EXCEPT !.may = @ \cup {s \in w.begun : new.sorted[s] > hb.sorted[s]}]
<1>1. v = [w EXCEPT !.may = M]
  OBVIOUS
<1> HIDE DEF v
<1>2. IsWalk(w)
  BY DEF Walks
<1>3. /\ w = [at |-> w.at, next |-> w.next, got |-> w.got, may |-> w.may, begun |-> w.begun]
      /\ w.begun \subseteq Sides /\ M \subseteq w.begun
  BY <1>2 DEF IsWalk
<1> HIDE DEF M
<1>4. v = [at |-> w.at, next |-> w.next, got |-> w.got, may |-> M, begun |-> w.begun]
  BY <1>1, <1>3
<1>5. v.at = w.at /\ v.next = w.next /\ v.got = w.got /\ v.may = M /\ v.begun = w.begun
  BY <1>4
<1>6. IsWalk(v)
  BY <1>2, <1>3, <1>4, <1>5 DEF IsWalk
<1>7. ASSUME NEW s \in v.begun PROVE Along(new, v, s)
  <2> DEFINE c == Cum(hb.part, s)  d == Depth(hb, s)  e == Depth(new, s)  got == w.got[s]
  <2>1. s \in Sides /\ s \in w.begun /\ Along(hb, w, s)
    BY <1>3, <1>5 DEF Walks
  <2>2. /\ Lines(hb.part) /\ d \in 0 .. BucketNum /\ d \in Nat /\ e \in 0 .. BucketNum /\ e \in Nat
        /\ Lines(new.part)
    BY <2>1, AskedIs
  <2>3. /\ Cum(new.part, s) = c /\ d <= e
        /\ e > d <=> new.sorted[s] > hb.sorted[s]
        /\ \A p \in 1 .. d : new.part[BucketAt(s, p)] = hb.part[BucketAt(s, p)]
        /\ \A i \in Indices : Len(new.part[i]) = Len(hb.part[i])
    BY <2>1 DEF Deeper
  <2>4. BucketNum \in Nat
    BY BucketFacts
  <2>5. Line(got) /\ Handed(hb, s, got) /\ Len(got) \in Nat
    BY <2>1, LineIs DEF Along
  <2>6. \/ AtRest(hb, w, s)
        \/ \E q \in 1 .. BucketNum : Amid(hb, w, s, q)
    BY <2>1 DEF Along
  <2>7. Len(got) <= c[d]
    <3>1. CASE AtRest(hb, w, s)
      <4>1. Len(got) = c[d]
        BY <3>1 DEF AtRest
      <4> QED BY <2>5, <4>1
    <3>2. ASSUME NEW q \in 1 .. BucketNum, Amid(hb, w, s, q) PROVE Len(got) <= c[d]
      <4> DEFINE x == c[q - 1]  l == Len(hb.part[BucketAt(s, q)])  k == w.next[s]
      <4>1. q \in 1 .. d /\ k \in 1 .. l + 1 /\ Len(got) = x + k - 1
        BY <3>2 DEF Amid
      <4>2. q - 1 \in 0 .. BucketNum /\ q \in 0 .. BucketNum /\ q <= d
        BY <2>2, <2>4, <4>1
      <4>3. x \in Nat /\ l \in Nat /\ c[q] = x + l
        BY <2>1, <2>2, <4>2, CumNat, CumIs
      <4>4. c[q] <= c[d] /\ c[d] \in Nat
        BY <2>1, <2>2, <4>2, CumClimbs, CumNat
      <4> HIDE DEF x, l, k, c, d, got
      <4> QED BY <4>1, <4>3, <4>4
    <3> QED BY <2>6, <3>1, <3>2
  <2>8. Handed(new, s, got)
    <3> SUFFICES ASSUME NEW p \in 1 .. BucketNum, NEW j \in 1 .. Len(new.part[BucketAt(s, p)]),
                        c[p - 1] + j <= Len(got)
                 PROVE  got[c[p - 1] + j] = new.part[BucketAt(s, p)][j]
      BY <2>3 DEF Handed
    <3>1. j \in 1 .. Len(hb.part[BucketAt(s, p)])
      BY <2>1, <2>3, BucketFacts
    <3>2. got[c[p - 1] + j] = hb.part[BucketAt(s, p)][j]
      BY <2>5, <3>1 DEF Handed
    <3>3. p <= d
      <4> SUFFICES ASSUME d < p PROVE FALSE
        BY <2>2, <2>4
      <4>1. d <= p - 1 /\ p - 1 \in 0 .. BucketNum
        BY <2>2, <2>4
      <4>2. c[d] <= c[p - 1] /\ c[p - 1] \in Nat /\ c[d] \in Nat
        <5> HIDE DEF d
        <5> QED BY <2>1, <2>2, <4>1, CumClimbs, CumNat
      <4>3. j \in Nat /\ 1 <= j
        <5>1. Len(hb.part[BucketAt(s, p)]) \in Nat
          BY <2>1, <2>2, CumIs
        <5> QED BY <3>1, <5>1
      <4> HIDE DEF c, d, got
      <4> QED BY <2>5, <2>7, <4>2, <4>3
    <3>4. p \in 1 .. d
      BY <2>2, <3>3
    <3> QED BY <2>3, <3>2, <3>4
  <2>9. CASE \E q \in 1 .. BucketNum : Amid(hb, w, s, q)
    <3>1. PICK q \in 1 .. BucketNum : Amid(hb, w, s, q)
      BY <2>9
    <3>2. /\ s \in w.may /\ q \in 1 .. d /\ w.at[s] = BucketAt(s, q)
          /\ w.next[s] \in 1 .. Len(hb.part[BucketAt(s, q)]) + 1
          /\ Len(got) = c[q - 1] + w.next[s] - 1
      BY <3>1 DEF Amid
    <3>3. q \in 1 .. e /\ new.part[BucketAt(s, q)] = hb.part[BucketAt(s, q)]
      BY <2>2, <2>3, <3>2
    <3>4. s \in v.may
      BY <1>5, <3>2 DEF M
    <3>5. Amid(new, v, s, q)
      BY <1>5, <2>3, <3>2, <3>3, <3>4 DEF Amid
    <3> QED BY <1>5, <2>5, <2>8, <3>5 DEF Along
  <2>10. CASE AtRest(hb, w, s)
    <3>1. /\ s \notin w.may /\ w.at[s] = BucketAt(s, d + 1) /\ w.next[s] = 1 /\ Len(got) = c[d]
      BY <2>10 DEF AtRest
    <3>2. CASE e = d
      <4>1. s \notin v.may
        BY <1>5, <2>2, <2>3, <3>1, <3>2 DEF M
      <4>2. AtRest(new, v, s)
        BY <1>5, <2>3, <3>1, <3>2, <4>1 DEF AtRest
      <4> QED BY <1>5, <2>5, <2>8, <4>2 DEF Along
    <3>3. CASE e > d
      <4>1. s \in v.may
        BY <1>5, <2>1, <2>3, <3>3 DEF M
      <4>2. d + 1 \in 1 .. e /\ d + 1 \in 1 .. BucketNum /\ (d + 1) - 1 = d
        BY <2>2, <2>4, <3>3
      <4>3. Len(new.part[BucketAt(s, d + 1)]) \in Nat
        BY <2>1, <2>2, <4>2, CumIs
      <4>4. 1 \in 1 .. Len(new.part[BucketAt(s, d + 1)]) + 1
        BY <4>3
      <4>5. Len(got) = c[(d + 1) - 1] + 1 - 1
        <5>1. c[d] \in Nat
          BY <2>1, <2>2, CumNat
        <5>2. c[d] = c[d] + 1 - 1
          <6> HIDE DEF c, d
          <6> QED BY <5>1
        <5> HIDE DEF c, d
        <5> QED BY <3>1, <4>2, <5>2
      <4> DEFINE q == d + 1
      <4>6. /\ s \in v.may /\ q \in 1 .. e /\ v.at[s] = BucketAt(s, q) /\ v.next[s] = 1
            /\ 1 \in 1 .. Len(new.part[BucketAt(s, q)]) + 1
            /\ Len(v.got[s]) = Cum(new.part, s)[q - 1] + 1 - 1 /\ q \in 1 .. BucketNum
        BY <1>5, <2>3, <3>1, <4>1, <4>2, <4>4, <4>5
      <4> HIDE DEF q
      <4>7. Amid(new, v, s, q)
        BY <4>6 DEF Amid
      <4> QED BY <1>5, <2>5, <2>8, <4>6, <4>7 DEF Along
    <3> QED BY <2>2, <2>3, <3>2, <3>3
  <2> QED BY <2>6, <2>9, <2>10
<1>8. Walks(new, v)
  BY <1>6, <1>7 DEF Walks
<1> QED BY <1>8 DEF v

-----------------------------------------------------------------------------
(* The order of a walk.                                                    *)

\* Every place up to a depth is in a bucket.
LEMMA PlaceIs ==
    ASSUME NEW side \in Sides, NEW part, Lines(part), NEW d \in 0 .. BucketNum,
           NEW n \in 1 .. Cum(part, side)[d]
    PROVE  \E p \in 1 .. d : /\ n - Cum(part, side)[p - 1] \in 1 .. Len(part[BucketAt(side, p)])
                             /\ Cum(part, side)[p - 1] < n
                             /\ n = Cum(part, side)[p - 1] + (n - Cum(part, side)[p - 1])
<1> DEFINE c == Cum(part, side)
           T == {p \in 0 .. d : n <= c[p]}
<1>0. BucketNum \in Nat /\ d \in Nat /\ c[d] \in Nat /\ c[0] = 0 /\ n \in Nat /\ 1 <= n /\ n <= c[d]
  <2>1. c[d] \in Nat
    BY CumNat
  <2>2. c[0] = 0
    BY CumIs
  <2> HIDE DEF c
  <2> QED BY <2>1, <2>2, BucketFacts DEF c
<1>1. T \subseteq Nat /\ d \in T
  <2> HIDE DEF c
  <2> QED BY <1>0
<1>2. PICK p \in T : \A q \in T : p <= q
  BY <1>1, LeastExists
<1>3. p \in 0 .. d /\ n <= c[p]
  BY <1>2
<1>4. p # 0
  BY <1>0, <1>3
<1>5. p \in 1 .. d /\ p - 1 \in 0 .. d /\ ~(p <= p - 1) /\ p \in 1 .. BucketNum /\ p - 1 \in 0 .. BucketNum
  BY <1>0, <1>3, <1>4
<1>6. ~(n <= c[p - 1])
  BY <1>2, <1>5
<1> DEFINE x == c[p - 1]  l == Len(part[BucketAt(side, p)])
<1>7. x \in Nat /\ l \in Nat /\ c[p] = x + l
  BY <1>5, CumNat, CumIs
<1> HIDE DEF x, l
<1>8. n - x \in 1 .. l /\ x < n /\ n = x + (n - x)
  BY <1>0, <1>3, <1>6, <1>7 DEF x
<1> QED BY <1>5, <1>8 DEF x, l

\* Bucket indices and places of a side.
LEMMA IndexIs ==
    ASSUME NEW side \in Sides, NEW i \in Indices
    PROVE  \E p \in 1 .. BucketNum : i = BucketAt(side, p)
<1>0. BucketNum \in Nat /\ i \in 0 .. BucketNum - 1
  BY BucketFacts
<1>1. CASE side = "hot"
  <2>1. BucketNum - i \in 1 .. BucketNum /\ i = BucketAt(side, BucketNum - i)
    BY <1>0, <1>1 DEF BucketAt
  <2> QED BY <2>1
<1>2. CASE side = "cold"
  <2>1. i + 1 \in 1 .. BucketNum /\ i = BucketAt(side, i + 1)
    BY <1>0, <1>2 DEF BucketAt
  <2> QED BY <2>1
<1> QED BY <1>1, <1>2 DEF Sides

\* How many OBJs there are before a bucket.
Ahead(part, side, i) == IF side = "hot" THEN Hotter(part, i + 1) ELSE Colder(part, i - 1)

\* How many OBJs there are before a bucket.
LEMMA AheadIs ==
    ASSUME NEW side \in Sides, NEW part, NEW p \in 1 .. BucketNum
    PROVE  Ahead(part, side, BucketAt(side, p)) = Cum(part, side)[p - 1]
<1>0. BucketNum \in Nat
  BY BucketFacts
<1>1. CASE side = "hot"
  <2>1. BucketNum - p + 1 \in 0 .. BucketNum /\ BucketNum - (BucketNum - p + 1) = p - 1
    BY <1>0
  <2>2. Hotter(part, BucketNum - p + 1) = Cum(part, "hot")[BucketNum - (BucketNum - p + 1)]
    BY <2>1, SideCounts
  <2> QED BY <1>1, <2>1, <2>2 DEF Ahead, BucketAt
<1>2. CASE side = "cold"
  <2>1. p - 1 \in 0 .. BucketNum
    BY <1>0
  <2>2. Colder(part, (p - 1) - 1) = Cum(part, "cold")[p - 1]
    BY <2>1, SideCounts
  <2>3. side # "hot"
    BY <1>2
  <2> QED BY <1>2, <2>2, <2>3 DEF Ahead, BucketAt
<1> QED BY <1>1, <1>2 DEF Sides

\* The n-th OBJ of WalkOrder stands at the n-th place.
LEMMA OrderIs ==
    ASSUME NEW st, NEW hb, NEW key, NEW m, Asked(st, hb, key, m), NEW side \in Sides
    PROVE  /\ Order(hb, side) = [n \in 1 .. Cum(hb.part, side)[Depth(hb, side)] |-> Order(hb, side)[n]]
           /\ \A p \in 1 .. Depth(hb, side) : \A j \in 1 .. Len(hb.part[BucketAt(side, p)]) :
                 Order(hb, side)[Cum(hb.part, side)[p - 1] + j] = hb.part[BucketAt(side, p)][j]
<1> DEFINE c == Cum(hb.part, side)  d == Depth(hb, side)
           In(i, n) == Ahead(hb.part, side, i) < n /\ n <= Ahead(hb.part, side, i) + Len(hb.part[i])
           At(n) == CHOOSE i \in Indices : In(i, n)
<1>0. /\ Lines(hb.part) /\ d \in 0 .. BucketNum /\ d \in Nat /\ BucketNum \in Nat
      /\ hb.sorted[side] = c[d]
  BY AskedIs, BucketFacts
<1>1. Order(hb, side) = [n \in 1 .. c[d] |-> hb.part[At(n)][n - Ahead(hb.part, side, At(n))]]
  <2> HIDE DEF c, d
  <2> QED BY <1>0, Zenon DEF Order, Ahead
<1>2. ASSUME NEW p \in 1 .. d, NEW j \in 1 .. Len(hb.part[BucketAt(side, p)])
      PROVE  Order(hb, side)[c[p - 1] + j] = hb.part[BucketAt(side, p)][j]
  <2> DEFINE x == c[p - 1]  n == x + j  l == Len(hb.part[BucketAt(side, p)])  b == BucketAt(side, p)
  <2>1. p \in 1 .. BucketNum /\ p - 1 \in 0 .. BucketNum /\ b \in Indices /\ p <= d
    BY <1>0, BucketFacts
  <2>2. x \in Nat /\ l \in Nat /\ Ahead(hb.part, side, b) = x
    BY <1>0, <2>1, CumNat, CumIs, AheadIs
  <2>3. n <= c[d] /\ c[d] \in Nat
    <3> HIDE DEF d
    <3> QED BY <1>0, <2>1, SidesMeet, CumNat
  <2>4. n \in 1 .. c[d] /\ In(b, n) /\ n - x = j /\ n \in Nat
    <3>1. j \in 1 .. l
      OBVIOUS
    <3> HIDE DEF x, l, c, d, b
    <3> QED BY <2>2, <2>3, <3>1 DEF b, l
  <2>5. ASSUME NEW i \in Indices, In(i, n) PROVE i = b
    <3>1. PICK q \in 1 .. BucketNum : i = BucketAt(side, q)
      BY IndexIs
    <3> DEFINE y == c[q - 1]  k == n - y
    <3>2. q - 1 \in 0 .. BucketNum
      BY <1>0
    <3>3. y \in Nat /\ Len(hb.part[i]) \in Nat /\ Ahead(hb.part, side, i) = y
      BY <1>0, <3>1, <3>2, CumNat, CumIs, AheadIs
    <3>4. k \in 1 .. Len(hb.part[i]) /\ y + k = n
      <4> HIDE DEF y, n
      <4> QED BY <2>4, <2>5, <3>3
    <3>5. k \in 1 .. Len(hb.part[BucketAt(side, q)]) /\ c[p - 1] + j = c[q - 1] + k
      BY <3>1, <3>4
    <3> HIDE DEF k
    <3>6. p = q
      BY <1>0, <2>1, <3>5, OnePlace
    <3> QED BY <3>1, <3>6
  <2> HIDE DEF b, n, In
  <2>6. At(n) = b
    BY <2>1, <2>4, <2>5
  <2>7. Order(hb, side)[n] = hb.part[b][n - Ahead(hb.part, side, b)]
    <3> HIDE DEF At, c, d
    <3> QED BY <1>1, <2>4, <2>6
  <2> HIDE DEF x, c
  <2>8. Order(hb, side)[n] = hb.part[b][j]
    BY <2>2, <2>4, <2>7
  <2> QED BY <2>8 DEF n, b, x, c
<1>3. Order(hb, side) = [n \in 1 .. c[d] |-> Order(hb, side)[n]]
  <2> HIDE DEF c, d, At
  <2> QED BY <1>1
<1> QED BY <1>2, <1>3

\* What was handed out is in the order of the walk.
LEMMA FollowsOrder ==
    ASSUME NEW st, NEW hb, NEW key, NEW m, Asked(st, hb, key, m), NEW w, Walks(hb, w), NEW side \in w.begun
    PROVE  /\ side \in Sides
           /\ Len(w.got[side]) \in 0 .. Cum(hb.part, side)[Depth(hb, side)]
           /\ \A n \in 1 .. Len(w.got[side]) : w.got[side][n] = Order(hb, side)[n]
           /\ side \notin w.may => Len(w.got[side]) = Cum(hb.part, side)[Depth(hb, side)]
<1> DEFINE c == Cum(hb.part, side)  d == Depth(hb, side)  got == w.got[side]
<1>0. side \in Sides /\ Along(hb, w, side)
  BY DEF Walks, IsWalk
<1>1. Lines(hb.part) /\ d \in 0 .. BucketNum /\ d \in Nat /\ BucketNum \in Nat /\ c[d] \in Nat
  BY <1>0, AskedIs, BucketFacts, CumNat
<1>2. Line(got) /\ Handed(hb, side, got) /\ Len(got) \in Nat
  BY <1>0, LineIs DEF Along
<1>3. Len(got) <= c[d] /\ (side \notin w.may => Len(got) = c[d])
  <2>1. CASE AtRest(hb, w, side)
    <3>1. Len(got) = c[d]
      BY <2>1 DEF AtRest
    <3> QED BY <1>1, <3>1
  <2>2. ASSUME NEW q \in 1 .. BucketNum, Amid(hb, w, side, q) PROVE Len(got) <= c[d] /\ side \in w.may
    <3> DEFINE x == c[q - 1]  l == Len(hb.part[BucketAt(side, q)])  k == w.next[side]
    <3>1. q \in 1 .. d /\ k \in 1 .. l + 1 /\ Len(got) = x + k - 1 /\ side \in w.may
      BY <2>2 DEF Amid
    <3>2. q - 1 \in 0 .. BucketNum /\ q \in 0 .. BucketNum /\ q <= d
      BY <1>1, <3>1
    <3>3. x \in Nat /\ l \in Nat /\ c[q] = x + l
      BY <1>0, <1>1, <3>2, CumNat, CumIs
    <3>4. c[q] <= c[d]
      BY <1>0, <1>1, <3>2, CumClimbs
    <3> HIDE DEF x, l, k, c, d, got
    <3> QED BY <1>1, <3>1, <3>3, <3>4
  <2> QED BY <1>0, <2>1, <2>2 DEF Along
<1>4. ASSUME NEW n \in 1 .. Len(got) PROVE got[n] = Order(hb, side)[n]
  <2>1. n \in 1 .. c[d] /\ n \in Nat /\ n <= Len(got)
    <3> HIDE DEF got, c, d
    <3> QED BY <1>1, <1>2, <1>3
  <2>2. PICK p \in 1 .. d : /\ n - c[p - 1] \in 1 .. Len(hb.part[BucketAt(side, p)])
                            /\ c[p - 1] < n /\ n = c[p - 1] + (n - c[p - 1])
    BY <1>0, <1>1, <2>1, PlaceIs
  <2> DEFINE j == n - c[p - 1]
  <2>3. j \in 1 .. Len(hb.part[BucketAt(side, p)]) /\ c[p - 1] + j = n
    BY <2>2
  <2> HIDE DEF j
  <2>4. p \in 1 .. BucketNum
    BY <1>1
  <2>5. got[c[p - 1] + j] = hb.part[BucketAt(side, p)][j]
    BY <1>2, <2>1, <2>3, <2>4 DEF Handed
  <2>6. Order(hb, side)[c[p - 1] + j] = hb.part[BucketAt(side, p)][j]
    BY <1>0, <2>3, OrderIs
  <2> QED BY <2>3, <2>5, <2>6
<1> HIDE DEF got, c, d
<1>5. Len(got) \in 0 .. c[d]
  BY <1>1, <1>2, <1>3
<1> QED BY <1>0, <1>3, <1>4, <1>5 DEF got, c, d

\* What a filter rule gets is what stands in the order.
LEMMA AllInOrder ==
    ASSUME NEW st, NEW hb, NEW key, NEW m, Asked(st, hb, key, m), NEW side \in Sides
    PROVE  AllSatisfying(hb, side)
              = {Order(hb, side)[n] : n \in 1 .. Cum(hb.part, side)[Depth(hb, side)]}
<1> DEFINE c == Cum(hb.part, side)  d == Depth(hb, side)  o == Order(hb, side)
           P == {q \in 1 .. d : hb.part[BucketAt(side, q)] # <<>>}
<1>0. /\ Lines(hb.part) /\ d \in 0 .. BucketNum /\ d \in Nat /\ BucketNum \in Nat
      /\ d \in 0 .. Reach(side) /\ hb.last[side] = LastAt(side, d) /\ c[d] \in Nat
  BY AskedIs, BucketFacts, CumNat
<1>1. (IF side = "hot" THEN Top ELSE 0) = BucketAt(side, 1)
  BY BucketFacts DEF BucketAt
<1>2. Filled(hb, side, BucketAt(side, 1)) = BucketsAt(side, P)
  <2>1. 1 \in 1 .. d + 1
    BY <1>0
  <2> HIDE DEF d
  <2> QED BY <1>0, <2>1, FilledAre
<1>3. AllSatisfying(hb, side) = UNION {ToSet(hb.part[i]) : i \in BucketsAt(side, P)}
  BY <1>1, <1>2 DEF AllSatisfying
<1>4. \A q \in 1 .. d : q \in 1 .. BucketNum /\ BucketAt(side, q) \in Indices /\ q <= d
  BY <1>0, BucketFacts
<1>5. \A q \in 1 .. d : DOMAIN hb.part[BucketAt(side, q)] = 1 .. Len(hb.part[BucketAt(side, q)])
  BY <1>0, <1>4, LineIs DEF Lines
<1>6. ASSUME NEW x \in AllSatisfying(hb, side) PROVE \E n \in 1 .. c[d] : o[n] = x
  <2>1. PICK q \in 1 .. d : x \in ToSet(hb.part[BucketAt(side, q)])
    BY <1>3 DEF BucketsAt
  <2>2. PICK j \in 1 .. Len(hb.part[BucketAt(side, q)]) : x = hb.part[BucketAt(side, q)][j]
    BY <1>5, <2>1 DEF ToSet
  <2>3. o[c[q - 1] + j] = x
    BY <2>2, OrderIs
  <2>4. c[q - 1] + j \in 1 .. c[d]
    <3>1. c[q - 1] + j <= c[d]
      <4> HIDE DEF d
      <4> QED BY <1>0, <1>4, SidesMeet
    <3>2. c[q - 1] \in Nat /\ Len(hb.part[BucketAt(side, q)]) \in Nat
      <4>1. q - 1 \in 0 .. BucketNum
        BY <1>0
      <4> QED BY <1>0, <1>4, <4>1, CumNat, CumIs
    <3> HIDE DEF c, d
    <3> QED BY <1>0, <3>1, <3>2
  <2> QED BY <2>3, <2>4
<1>7. ASSUME NEW n \in 1 .. c[d] PROVE o[n] \in AllSatisfying(hb, side)
  <2>1. PICK p \in 1 .. d : /\ n - c[p - 1] \in 1 .. Len(hb.part[BucketAt(side, p)])
                            /\ c[p - 1] < n /\ n = c[p - 1] + (n - c[p - 1])
    BY <1>0, PlaceIs
  <2> DEFINE j == n - c[p - 1]  s == hb.part[BucketAt(side, p)]
  <2>2. j \in 1 .. Len(s) /\ c[p - 1] + j = n
    BY <2>1
  <2> HIDE DEF j
  <2>3. o[n] = s[j]
    <3>1. o[c[p - 1] + j] = s[j]
      BY <2>2, OrderIs
    <3> QED BY <2>2, <3>1
  <2>4. s[j] \in ToSet(s)
    BY <1>5, <2>2 DEF ToSet
  <2>5. s # <<>>
    <3> HIDE DEF s
    <3>1. Len(<<>>) = 0 /\ 1 .. 0 = {}
      OBVIOUS
    <3> QED BY <2>2, <3>1
  <2>6. BucketAt(side, p) \in BucketsAt(side, P)
    BY <2>5 DEF BucketsAt
  <2> QED BY <1>3, <2>3, <2>4, <2>6
<1> HIDE DEF o, c, d
<1>8. AllSatisfying(hb, side) = {o[n] : n \in 1 .. c[d]}
  BY <1>6, <1>7
<1> QED BY <1>8 DEF o, c, d

\* A walk of the invariant is in order.
LEMMA WalkIsInOrder ==
    ASSUME NEW st, NEW hb, NEW key, NEW m, Asked(st, hb, key, m), NEW w, Walks(hb, w), NEW side \in w.begun
    PROVE  /\ IsPrefix(w.got[side], Order(hb, side))
           /\ side \notin w.may => /\ w.got[side] = Order(hb, side)
                                   /\ ToSet(w.got[side]) = AllSatisfying(hb, side)
<1> DEFINE t == Cum(hb.part, side)[Depth(hb, side)]  o == Order(hb, side)  got == w.got[side]
<1>1. /\ side \in Sides /\ Len(got) \in 0 .. t /\ \A n \in 1 .. Len(got) : got[n] = o[n]
      /\ side \notin w.may => Len(got) = t
  BY FollowsOrder
<1>2. t \in Nat /\ o = [n \in 1 .. t |-> o[n]] /\ AllSatisfying(hb, side) = {o[n] : n \in 1 .. t}
  BY <1>1, AskedIs, CumNat, OrderIs, AllInOrder
<1>3. Line(got)
  BY <1>1 DEF Walks, Along
<1>4. Len(got) \in Nat /\ DOMAIN got = 1 .. Len(got) /\ got \in Seq(Range(got))
  BY <1>3, LineIs DEF Line
<1> HIDE DEF t, o, got
<1>5. o \in Seq(Range(o)) /\ Len(o) = t
  <2>1. DOMAIN o = 1 .. t
    BY <1>2
  <2>2. \A n \in 1 .. t : o[n] \in Range(o)
    BY <2>1 DEF Range
  <2>3. o \in [1 .. t -> Range(o)]
    BY <1>2, <2>2
  <2> QED BY <1>2, <2>3
<1>6. SubSeq(got, 1, Len(got)) = SubSeq(o, 1, Len(got))
  <2> DEFINE g == Len(got)  S == Range(o)  u == SubSeq(got, 1, g)  v == SubSeq(o, 1, g)
  <2>1. /\ g \in Nat /\ g <= t
        /\ \A n \in 1 .. g : got[n] = o[n] /\ o[n] \in S
    <3>1. DOMAIN o = 1 .. t /\ g \in Nat /\ g <= t
      BY <1>1, <1>2, <1>4
    <3>2. \A n \in 1 .. g : n \in DOMAIN o
      BY <1>2, <3>1
    <3> QED BY <1>1, <3>1, <3>2 DEF Range
  <2> HIDE DEF g, S
  <2>2. /\ v \in Seq(S) /\ Len(v) = (IF 1 <= g THEN g - 1 + 1 ELSE 0)
        /\ \A n \in 1 .. g - 1 + 1 : v[n] = o[1 + n - 1]
    BY <2>1, SubSeqProperties
  <2>3. /\ u \in Seq(S) /\ Len(u) = (IF 1 <= g THEN g - 1 + 1 ELSE 0)
        /\ \A n \in 1 .. g - 1 + 1 : u[n] = got[1 + n - 1]
    BY <2>1, SubSeqProperties
  <2>4. Len(u) = g /\ Len(v) = g /\ \A n \in 1 .. g : n \in 1 .. g - 1 + 1 /\ 1 + n - 1 = n
    BY <2>1, <2>2, <2>3
  <2> HIDE DEF u, v
  <2>5. \A n \in 1 .. Len(u) : u[n] = v[n]
    BY <2>1, <2>2, <2>3, <2>4
  <2>6. u = v
    BY <2>2, <2>3, <2>4, <2>5, SeqEqual
  <2> QED BY <2>6 DEF u, v, g
<1>7. IsPrefix(got, o)
  <2>1. Len(got) <= Len(o)
    BY <1>1, <1>2, <1>5
  <2> QED BY <1>6, <2>1, Zenon DEF IsPrefix
<1>8. ASSUME side \notin w.may PROVE got = o /\ ToSet(got) = AllSatisfying(hb, side)
  <2>1. Len(got) = t
    BY <1>1, <1>8
  <2>2. got = o
    BY <1>1, <1>4, <1>5, <2>1, SeqEqual
  <2>3. ToSet(got) = {o[n] : n \in 1 .. t}
    BY <1>4, <2>1, <2>2 DEF ToSet
  <2> QED BY <1>2, <2>2, <2>3
<1> QED BY <1>7, <1>8 DEF o, got

-----------------------------------------------------------------------------
(* The steps.                                                              *)

\* Partitioning leaves the OBJs in buckets, each in one and once.
LEMMA PartitionIs ==
    ASSUME NEW order, order \in Seq(Range(order)), NEW key, NEW type,
           NEW part \in Partitions(order, key, type)
    PROVE  Lines(part)
<1> DEFINE objs == ToSet(order)
<1>1. PICK f : part = [i \in Indices |-> Lined({o \in objs : f[o] = i}, order)]
  BY DEF Partitions
<1>2. IsFiniteSet(objs)
  <2>1. Len(order) \in Nat /\ DOMAIN order = 1 .. Len(order)
    OBVIOUS
  <2>2. IsFiniteSet(1 .. Len(order))
    BY <2>1, FS_Interval
  <2> DEFINE D == 1 .. Len(order)  g == [i \in D |-> order[i]]
  <2>3. g \in Surjection(D, objs)
    BY <2>1 DEF ToSet, Surjection
  <2> HIDE DEF D, g, objs
  <2>4. IsFiniteSet(objs)
    BY <2>2, <2>3, FS_Surjection DEF D
  <2> QED BY <2>4
<1>3. ASSUME NEW S \in SUBSET objs PROVE Line(Lined(S, order))
  <2> DEFINE s == Lined(S, order)  n == Cardinality(S)
  <2>1. n \in Nat
    BY <1>2, FS_Subset, FS_CardinalityType
  <2>2. DOMAIN s = 1 .. n /\ s = [i \in 1 .. n |-> s[i]]
    <3> DEFINE spot(o) == CHOOSE i \in DOMAIN order : order[i] = o
               F(i) == CHOOSE o \in S : Cardinality({p \in S : spot(p) < spot(o)}) = i - 1
    <3>1. s = [i \in 1 .. n |-> F(i)]
      BY Zenon DEF Lined
    <3> HIDE DEF F, s, n
    <3> QED BY <3>1
  <2> HIDE DEF s, n
  <2>3. \A i \in 1 .. n : s[i] \in Range(s)
    BY <2>2 DEF Range
  <2>4. s \in [1 .. n -> Range(s)]
    BY <2>2, <2>3
  <2>5. s \in Seq(Range(s))
    BY <2>1, <2>4
  <2> QED BY <2>5 DEF Line, s
<1>4. ASSUME NEW i \in Indices PROVE Line(part[i])
  <2>1. {o \in objs : f[o] = i} \in SUBSET objs
    OBVIOUS
  <2> DEFINE S == {o \in objs : f[o] = i}
  <2>2. part[i] = Lined(S, order)
    BY <1>1
  <2> HIDE DEF S, objs
  <2> QED BY <1>3, <2>1, <2>2 DEF S
<1>5. DOMAIN part = Indices
  BY <1>1
<1> QED BY <1>4, <1>5 DEF Lines

\* A new bucket, of which nothing was asked.
LEMMA NewIsAsked ==
    ASSUME NEW st, NEW key, NEW part, Lines(part)
    PROVE  Asked(st, NewBucket(key, part), key, [side \in Sides |-> 0])
<1> DEFINE hb == NewBucket(key, part)  n == [side \in Sides |-> 0]
<1>1. /\ hb.key = key /\ hb.part = part
      /\ hb.sorted = [side \in Sides |-> 0] /\ hb.last = [side \in Sides |-> NoBucket]
  BY DEF NewBucket, Sides
<1> HIDE DEF hb
<1>2. ASSUME NEW side \in Sides PROVE SortedTo(st, hb, side, n[side], Depth(hb, side))
  <2>1. hb.sorted[side] = 0 /\ hb.last[side] = NoBucket /\ n[side] = 0
    BY <1>1
  <2>2. Reach(side) \in 0 .. BucketNum /\ BucketNum \in Nat
    BY BucketFacts
  <2>3. 0 \in 0 .. Reach(side) /\ LastAt(side, 0) = NoBucket
    BY <2>2 DEF LastAt
  <2>4. Depth(hb, side) = 0
    BY <2>1, <2>3, DepthIs
  <2>5. Cum(hb.part, side)[0] = 0 /\ Cum(hb.part, side)[Reach(side)] \in Nat
    BY <1>1, <2>2, CumIs, CumNat
  <2>6. Capped(0, Cum(hb.part, side)[Reach(side)]) = 0
    <3> DEFINE t == Cum(hb.part, side)[Reach(side)]
    <3>1. t \in Nat
      BY <2>5
    <3> HIDE DEF t
    <3>2. Capped(0, t) = 0
      BY <3>1 DEF Capped
    <3> QED BY <3>2 DEF t
  <2>7. ~(0 > 0) /\ 1 .. 0 = {}
    OBVIOUS
  <2> QED BY <2>1, <2>3, <2>4, <2>5, <2>6, <2>7 DEF SortedTo
<1>3. IsBucket(hb)
  BY <1>1 DEF IsBucket
<1> HIDE DEF n
<1>4. Asked(st, hb, key, n)
  BY <1>1, <1>2, <1>3 DEF Asked
<1> QED BY <1>4 DEF hb, n

\* Sorting further and then further still.
LEMMA DeeperStill ==
    ASSUME NEW hb, NEW half, NEW new, NEW key, NEW i, NEW j, NEW k,
           Asked(stats, hb, key, i), Asked(stats, half, key, j), Asked(stats, new, key, k),
           Deeper(hb, half), Deeper(half, new)
    PROVE  Deeper(hb, new)
<1>1. ASSUME NEW s \in Sides
      PROVE  /\ Cum(new.part, s) = Cum(hb.part, s)
             /\ Depth(hb, s) <= Depth(new, s)
             /\ Depth(new, s) > Depth(hb, s) <=> new.sorted[s] > hb.sorted[s]
             /\ \A p \in 1 .. Depth(hb, s) : new.part[BucketAt(s, p)] = hb.part[BucketAt(s, p)]
  <2> DEFINE c == Cum(hb.part, s)  d == Depth(hb, s)  e == Depth(half, s)  f == Depth(new, s)
  <2>1. /\ Cum(half.part, s) = c /\ Cum(new.part, s) = c
        /\ d <= e /\ e <= f
        /\ e > d <=> half.sorted[s] > hb.sorted[s]
        /\ f > e <=> new.sorted[s] > half.sorted[s]
    BY DEF Deeper
  <2>2. /\ d \in Nat /\ e \in Nat /\ f \in Nat
        /\ hb.sorted[s] = c[d] /\ half.sorted[s] = c[e] /\ new.sorted[s] = c[f]
        /\ c[d] \in Nat /\ c[e] \in Nat /\ c[f] \in Nat
    <3>1. /\ Lines(hb.part) /\ d \in 0 .. BucketNum /\ d \in Nat /\ hb.sorted[s] = c[d]
      BY AskedIs
    <3>2. /\ Lines(half.part) /\ e \in 0 .. BucketNum /\ e \in Nat
          /\ half.sorted[s] = Cum(half.part, s)[e]
      BY AskedIs
    <3>3. /\ Lines(new.part) /\ f \in 0 .. BucketNum /\ f \in Nat
          /\ new.sorted[s] = Cum(new.part, s)[f]
      BY AskedIs
    <3>4. \A p \in 0 .. BucketNum : c[p] \in Nat
      BY <3>1, CumNat
    <3> HIDE DEF c, d, e, f
    <3> QED BY <2>1, <3>1, <3>2, <3>3, <3>4
  <2>3. /\ \A p \in 1 .. d : half.part[BucketAt(s, p)] = hb.part[BucketAt(s, p)]
        /\ \A p \in 1 .. e : new.part[BucketAt(s, p)] = half.part[BucketAt(s, p)]
    BY DEF Deeper
  <2> HIDE DEF c, d, e, f
  <2>4. d <= f /\ (f > d <=> new.sorted[s] > hb.sorted[s])
    BY <2>1, <2>2
  <2>5. \A p \in 1 .. d : p \in 1 .. e
    BY <2>1, <2>2
  <2>6. \A p \in 1 .. d : new.part[BucketAt(s, p)] = hb.part[BucketAt(s, p)]
    BY <2>3, <2>5
  <2> QED BY <2>1, <2>4, <2>6 DEF c, d, f
<1>2. /\ new.key = hb.key
      /\ \A x \in Indices : Len(new.part[x]) = Len(hb.part[x])
  BY DEF Deeper
<1> QED BY <1>1, <1>2 DEF Deeper

\* What was asked of a bucket, if so many more OBJs are asked of both sides.
More(n, m) == [side \in Sides |-> Larger(n[side], m)]

\* A call of Setup asks for OBJs of both sides.
LEMMA SortBothIs ==
    ASSUME NEW hb, NEW key, NEW n \in [Sides -> Nat], Asked(stats, hb, key, n),
           NEW m \in Nat, NEW new \in SortBoth(hb, m, m)
    PROVE  Asked(stats, new, key, More(n, m)) /\ Deeper(hb, new)
<1> DEFINE once == [n EXCEPT !["hot"] = Larger(@, m)]
           both == [once EXCEPT !["cold"] = Larger(@, m)]
<1>1. PICK half \in SortSide(hb, "hot", m) : new \in SortSide(half, "cold", m)
  BY DEF SortBoth
<1>2. "hot" \in Sides /\ "cold" \in Sides /\ Sides = {"hot", "cold"}
  BY DEF Sides
<1>3. once \in [Sides -> Nat]
  BY <1>2 DEF Larger
<1>4. both = More(n, m)
  BY <1>2 DEF More, Larger
<1>5. Asked(stats, half, key, once) /\ Deeper(hb, half)
  BY <1>1, <1>2, SortKeeps
<1> HIDE DEF once
<1>6. Asked(stats, new, key, both) /\ Deeper(half, new)
  BY <1>1, <1>2, <1>3, <1>5, SortKeeps
<1> HIDE DEF both
<1>7. Deeper(hb, new)
  BY <1>5, <1>6, DeeperStill
<1> QED BY <1>4, <1>6, <1>7

\* The rules have bases.
LEMMA RuleIs ==
    ASSUME NEW rule \in Rules, NEW u \in Units
    PROVE  rule.key \in Keys /\ OrderOf[u] \in Seq(Range(OrderOf[u]))
BY RegistryAssumption DEF Keys

\* The bucket that a call of Setup leaves.
LEMMA SetUpIs ==
    ASSUME HeatInv, NEW rule \in Rules, NEW u \in Units, NEW n \in Nat, NEW hb \in SetUp(rule, u, n)
    PROVE  /\ Asked(stats, hb, rule.key, More(asked[u][rule.key], n))
           /\ rule.key \in DOMAIN heat[u] => Deeper(heat[u][rule.key], hb)
<1> DEFINE key == rule.key  a == asked[u][key]
<1>0. /\ key \in Keys /\ OrderOf[u] \in Seq(Range(OrderOf[u]))
      /\ a \in [Sides -> Nat]
      /\ \A k \in DOMAIN heat[u] : Asked(stats, heat[u][k], k, asked[u][k])
  BY RuleIs DEF HeatInv
<1>1. \A k \in DOMAIN heat[u] : heat[u][k].key = k
  BY <1>0 DEF Asked
<1>2. CASE key \in DOMAIN heat[u]
  <2>1. Found(u, key) = {heat[u][key]}
    BY <1>1, <1>2 DEF Found
  <2>2. hb \in SortBoth(heat[u][key], n, n)
    <3>1. hb \in UNION {SortBoth(x, n, n) : x \in Found(u, key)}
      BY <2>1 DEF SetUp
    <3> QED BY <2>1, <3>1
  <2>3. Asked(stats, heat[u][key], key, a)
    BY <1>0, <1>2
  <2> HIDE DEF key, a
  <2>4. Asked(stats, hb, key, More(a, n)) /\ Deeper(heat[u][key], hb)
    BY <1>0, <2>2, <2>3, SortBothIs
  <2> QED BY <2>4 DEF key, a
<1>3. CASE key \notin DOMAIN heat[u]
  <2>1. Found(u, key) = {}
    <3>1. \A k \in DOMAIN heat[u] : heat[u][k].key # key
      BY <1>1, <1>3
    <3> QED BY <3>1 DEF Found
  <2>2. PICK part \in Partitions(OrderOf[u], key, rule.type) :
           hb \in SortBoth(NewBucket(key, part), n, n)
    BY <2>1 DEF SetUp
  <2>3. Lines(part)
    BY <1>0, PartitionIs
  <2>4. a = [s \in Sides |-> 0]
    BY <1>0, <1>3 DEF HeatInv
  <2> HIDE DEF key, a
  <2>5. Asked(stats, NewBucket(key, part), key, a)
    BY <2>3, <2>4, NewIsAsked
  <2>6. Asked(stats, hb, key, More(a, n))
    BY <1>0, <2>2, <2>5, SortBothIs
  <2> QED BY <1>3, <2>6 DEF key, a
<1> QED BY <1>2, <1>3

\* A new walk has not begun on either side.
LEMMA NewWalkWalks == \A hb : Walks(hb, NewWalk)
<1>1. /\ NewWalk = [at |-> NewWalk.at, next |-> NewWalk.next, got |-> NewWalk.got,
                    may |-> NewWalk.may, begun |-> NewWalk.begun]
      /\ DOMAIN NewWalk.at = Sides /\ DOMAIN NewWalk.next = Sides /\ DOMAIN NewWalk.got = Sides
      /\ NewWalk.begun = {} /\ NewWalk.may = {}
  BY DEF NewWalk
<1> QED BY <1>1 DEF Walks, IsWalk

\* The invariant holds at first.
LEMMA InitHeat == HeatInit => HeatInv
<1> SUFFICES ASSUME HeatInit PROVE HeatInv
  OBVIOUS
<1>1. /\ heat = [u \in Units |-> <<>>]
      /\ asked = [u \in Units |-> [key \in Keys |-> [side \in Sides |-> 0]]]
      /\ at = None /\ walk = NewWalk
  BY DEF HeatInit, Nothing, NothingAsked
<1>2. \A u \in Units : DOMAIN heat[u] = {}
  BY <1>1
<1>3. \A u \in Units : \A key \in Keys : asked[u][key] = [side \in Sides |-> 0]
  BY <1>1
<1>4. asked \in [Units -> [Keys -> [Sides -> Nat]]]
  BY <1>1
<1>5. DOMAIN heat = Units
  BY <1>1
<1> QED BY <1>1, <1>2, <1>3, <1>4, <1>5 DEF HeatInv

\* The buckets, without the walk.
Kept(st, h, a) ==
    /\ DOMAIN h = Units
    /\ a \in [Units -> [Keys -> [Sides -> Nat]]]
    /\ \A u \in Units : DOMAIN h[u] \subseteq Keys
    /\ \A u \in Units : \A key \in DOMAIN h[u] : Asked(st, h[u][key], key, a[u][key])
    /\ \A u \in Units : \A key \in Keys \ DOMAIN h[u] : a[u][key] = [side \in Sides |-> 0]

Walked(h, r, w) ==
    \/ r = None /\ w = NewWalk
    \/ \E u \in Units : \E key \in DOMAIN h[u] :
          r = [unit |-> u, key |-> key] /\ Walks(h[u][key], w)

\* The invariant in its two halves, now and after a step.
LEMMA InvIs == HeatInv <=> Kept(stats, heat, asked) /\ Walked(heat, at, walk)
BY DEF HeatInv, Kept, Walked

LEMMA InvWillBe == HeatInv' <=> Kept(stats', heat', asked') /\ Walked(heat', at', walk')
BY DEF HeatInv, Kept, Walked

\* A new window forgets all buckets.
LEMMA NewWindowKeepsHeat == HeatInv /\ NewHeatWindow => HeatInv'
<1> SUFFICES ASSUME NewHeatWindow PROVE HeatInv'
  OBVIOUS
<1>1. /\ heat' = [u \in Units |-> <<>>]
      /\ asked' = [u \in Units |-> [key \in Keys |-> [side \in Sides |-> 0]]]
      /\ at' = None /\ walk' = NewWalk
  BY DEF NewHeatWindow, Nothing, NothingAsked
<1>2. \A u \in Units : DOMAIN heat'[u] = {}
  BY <1>1
<1>3. \A u \in Units : \A key \in Keys : asked'[u][key] = [side \in Sides |-> 0]
  BY <1>1
<1>4. asked' \in [Units -> [Keys -> [Sides -> Nat]]] /\ DOMAIN heat' = Units
  BY <1>1
<1>5. Kept(stats', heat', asked')
  BY <1>2, <1>3, <1>4 DEF Kept
<1>6. Walked(heat', at', walk')
  BY <1>1 DEF Walked
<1> QED BY <1>5, <1>6, InvWillBe

\* Nothing changes, nothing breaks.
LEMMA StutterKeepsHeat == HeatInv /\ UNCHANGED heatVars => HeatInv'
<1> SUFFICES ASSUME HeatInv, UNCHANGED heatVars PROVE HeatInv'
  OBVIOUS
<1>1. stats' = stats /\ heat' = heat /\ asked' = asked /\ at' = at /\ walk' = walk
  BY DEF heatVars
<1>2. Kept(stats', heat', asked') /\ Walked(heat', at', walk')
  BY <1>1, InvIs
<1> QED BY <1>2, InvWillBe

\* The bucket of the rule at work.
LEMMA AtWork ==
    ASSUME HeatInv, at # None
    PROVE  \E u \in Units : \E key \in DOMAIN heat[u] :
              /\ at = [unit |-> u, key |-> key] /\ Looked = heat[u][key]
              /\ Asked(stats, Looked, key, asked[u][key]) /\ Walks(Looked, walk)
<1>0. PICK u \in Units : \E key \in DOMAIN heat[u] :
         at = [unit |-> u, key |-> key] /\ Walks(heat[u][key], walk)
  BY DEF HeatInv
<1>1. PICK key \in DOMAIN heat[u] :
         at = [unit |-> u, key |-> key] /\ Walks(heat[u][key], walk)
  BY <1>0
<1>2. Looked = heat[u][key]
  BY <1>1 DEF Looked
<1>3. Asked(stats, heat[u][key], key, asked[u][key])
  BY DEF HeatInv
<1> QED BY <1>1, <1>2, <1>3

\* A step of a walk leaves the buckets alone.
LEMMA WalkKeeps ==
    ASSUME HeatInv, at # None, UNCHANGED <<stats, heat, asked, setups, at>>,
           \A key, n : /\ Asked(stats, Looked, key, n) /\ Walks(Looked, walk)
                       => Walks(Looked, walk')
    PROVE  HeatInv'
<1>0. PICK u \in Units : \E key \in DOMAIN heat[u] :
         /\ at = [unit |-> u, key |-> key] /\ Looked = heat[u][key]
         /\ Asked(stats, Looked, key, asked[u][key]) /\ Walks(Looked, walk)
  BY AtWork
<1>1. PICK key \in DOMAIN heat[u] :
         /\ at = [unit |-> u, key |-> key] /\ Looked = heat[u][key]
         /\ Asked(stats, Looked, key, asked[u][key]) /\ Walks(Looked, walk)
  BY <1>0
<1>2. Walks(heat[u][key], walk')
  BY <1>1
<1>3. stats' = stats /\ heat' = heat /\ asked' = asked /\ at' = at
  OBVIOUS
<1>4. Walked(heat', at', walk')
  BY <1>1, <1>2, <1>3 DEF Walked
<1>5. Kept(stats', heat', asked')
  BY <1>3, InvIs
<1> QED BY <1>4, <1>5, InvWillBe

\* Starting a walk preserves the invariant.
LEMMA GetFirstKeeps ==
    ASSUME HeatInv, NEW side \in Sides, GetFirst(side)
    PROVE  HeatInv'
<1>1. /\ at # None /\ walk' = FirstOf(Looked, walk, side)
      /\ UNCHANGED <<stats, heat, asked, setups, at>>
  BY DEF GetFirst
<1>2. ASSUME NEW key, NEW n, Asked(stats, Looked, key, n), Walks(Looked, walk)
      PROVE  Walks(Looked, walk')
  <2>1. Walks(Looked, FirstOf(Looked, walk, side))
    BY <1>2, FirstKeeps
  <2> QED BY <1>1, <2>1
<1> QED BY <1>1, <1>2, WalkKeeps

\* Going on with a walk preserves the invariant.
LEMMA GetNextKeeps ==
    ASSUME HeatInv, NEW side \in Sides, GetNext(side)
    PROVE  HeatInv'
<1>1. /\ side \in walk.may /\ walk' = NextOf(Looked, walk, side)
      /\ UNCHANGED <<stats, heat, asked, setups, at>>
  BY DEF GetNext
<1>2. at # None
  <2>1. NewWalk.may = {}
    BY DEF NewWalk
  <2>2. at = None => walk = NewWalk
    <3> SUFFICES ASSUME at = None, walk # NewWalk PROVE FALSE
      OBVIOUS
    <3>1. PICK u, key : at = [unit |-> u, key |-> key]
      BY DEF HeatInv
    <3>2. DOMAIN at = {"unit", "key"} /\ DOMAIN at = {"unit"}
      BY <3>1 DEF None
    <3>3. "key" # "unit"
      OBVIOUS
    <3> QED BY <3>2, <3>3
  <2> QED BY <1>1, <2>1, <2>2
<1>3. ASSUME NEW key, NEW n, Asked(stats, Looked, key, n), Walks(Looked, walk)
      PROVE  Walks(Looked, walk')
  <2>1. Walks(Looked, NextOf(Looked, walk, side))
    BY <1>1, <1>3, NextKeeps
  <2> QED BY <1>1, <2>1
<1> QED BY <1>1, <1>2, <1>3, WalkKeeps

\* Setting up preserves the invariant, whatever walk is under way.
LEMMA SetupKeepsHeat ==
    ASSUME HeatInv, NEW rule \in Rules, NEW u \in Units, NEW n \in Nat, Setup(rule, u, n)
    PROVE  HeatInv'
<1> DEFINE key == rule.key
<1>0. /\ key \in Keys /\ stats' = stats
      /\ Kept(stats, heat, asked) /\ Walked(heat, at, walk)
  BY RuleIs, InvIs DEF Setup
<1>1. CASE at' = None /\ walk' = NewWalk /\ UNCHANGED <<heat, asked>>
  <2>1. Kept(stats', heat', asked')
    BY <1>0, <1>1
  <2>2. Walked(heat', at', walk')
    BY <1>1 DEF Walked
  <2> QED BY <2>1, <2>2, InvWillBe
<1>2. ASSUME NEW hb \in SetUp(rule, u, n),
             heat' = [heat EXCEPT ![u] = [k \in DOMAIN @ \cup {key} |-> IF k = key THEN hb ELSE @[k]]],
             asked' = [asked EXCEPT ![u][key] = [side \in Sides |-> Larger(@[side], n)]],
             at' = [unit |-> u, key |-> key], walk' = Carried(u, key, hb)
      PROVE  HeatInv'
  <2> DEFINE a == asked[u][key]  b == More(a, n)
  <2>1. /\ Asked(stats, hb, key, b)
        /\ key \in DOMAIN heat[u] => Deeper(heat[u][key], hb)
    BY SetUpIs
  <2>2. /\ DOMAIN heat = Units /\ asked \in [Units -> [Keys -> [Sides -> Nat]]]
        /\ \A x \in Units : DOMAIN heat[x] \subseteq Keys
        /\ \A x \in Units : \A k \in DOMAIN heat[x] : Asked(stats, heat[x][k], k, asked[x][k])
        /\ \A x \in Units : \A k \in Keys \ DOMAIN heat[x] : asked[x][k] = [s \in Sides |-> 0]
    BY <1>0 DEF Kept
  <2> HIDE DEF key
  <2>3. a \in [Sides -> Nat] /\ asked[u] \in [Keys -> [Sides -> Nat]]
    BY <1>0, <2>2
  <2>4. b \in [Sides -> Nat]
    BY <2>3 DEF More, Larger
  <2>5. /\ asked'[u][key] = b
        /\ \A x \in Units : \A k \in Keys : x # u \/ k # key => asked'[x][k] = asked[x][k]
        /\ asked' \in [Units -> [Keys -> [Sides -> Nat]]]
    <3> DEFINE f == [asked[u] EXCEPT ![key] = b]
    <3>1. f \in [Keys -> [Sides -> Nat]] /\ f[key] = b /\ \A k \in Keys : k # key => f[k] = asked[u][k]
      <4> HIDE DEF b
      <4> QED BY <1>0, <2>3, <2>4
    <3>2. asked' = [asked EXCEPT ![u] = f]
      BY <1>2 DEF More
    <3> HIDE DEF f, b
    <3>3. asked'[u] = f /\ asked' \in [Units -> [Keys -> [Sides -> Nat]]]
      BY <2>2, <3>1, <3>2
    <3>4. \A x \in Units : x # u => asked'[x] = asked[x]
      BY <2>2, <3>2
    <3> QED BY <3>1, <3>3, <3>4
  <2>6. /\ DOMAIN heat' = Units
        /\ DOMAIN heat'[u] = DOMAIN heat[u] \cup {key} /\ heat'[u][key] = hb
        /\ \A k \in DOMAIN heat[u] : k # key => heat'[u][k] = heat[u][k]
        /\ \A x \in Units : x # u => heat'[x] = heat[x]
    BY <1>2, <2>2
  <2>7. \A x \in Units : DOMAIN heat'[x] \subseteq Keys
    BY <1>0, <2>2, <2>6
  <2>8. ASSUME NEW x \in Units, NEW k \in DOMAIN heat'[x]
        PROVE  Asked(stats, heat'[x][k], k, asked'[x][k])
    <3>1. k \in Keys
      BY <2>7
    <3>2. CASE x = u /\ k = key
      <4>1. heat'[x][k] = hb /\ asked'[x][k] = b
        BY <2>5, <2>6, <3>2
      <4> QED BY <2>1, <3>2, <4>1
    <3>3. CASE ~(x = u /\ k = key)
      <4>1. k \in DOMAIN heat[x] /\ heat'[x][k] = heat[x][k]
        BY <2>6, <2>8, <3>3
      <4>2. asked'[x][k] = asked[x][k]
        BY <2>5, <3>1, <3>3
      <4>3. Asked(stats, heat[x][k], k, asked[x][k])
        BY <2>2, <4>1
      <4> QED BY <4>1, <4>2, <4>3
    <3> QED BY <3>2, <3>3
  <2>9. ASSUME NEW x \in Units, NEW k \in Keys \ DOMAIN heat'[x]
        PROVE  asked'[x][k] = [s \in Sides |-> 0]
    <3>1. k \notin DOMAIN heat[x] /\ ~(x = u /\ k = key)
      BY <2>6
    <3> QED BY <2>2, <2>5, <3>1
  <2>10. Kept(stats', heat', asked')
    <3> HIDE DEF a, b
    <3> QED BY <1>0, <2>5, <2>6, <2>7, <2>8, <2>9 DEF Kept
  <2>11. Walks(hb, walk')
    <3>1. CASE at # [unit |-> u, key |-> key]
      BY <1>2, <3>1, NewWalkWalks DEF Carried
    <3>2. CASE at = [unit |-> u, key |-> key]
      <4>1. at # None
        <5>1. DOMAIN at = {"unit", "key"} /\ DOMAIN None = {"unit"} /\ "key" # "unit"
          BY <3>2 DEF None
        <5> QED BY <5>1
      <4>2. PICK x \in Units : \E k \in DOMAIN heat[x] :
               /\ at = [unit |-> x, key |-> k] /\ Looked = heat[x][k]
               /\ Asked(stats, Looked, k, asked[x][k]) /\ Walks(Looked, walk)
        BY <4>1, AtWork
      <4>3. PICK k \in DOMAIN heat[x] :
               /\ at = [unit |-> x, key |-> k] /\ Looked = heat[x][k]
               /\ Asked(stats, Looked, k, asked[x][k]) /\ Walks(Looked, walk)
        BY <4>2
      <4>4. x = u /\ k = key
        <5>1. at.unit = x /\ at.unit = u /\ at.key = k /\ at.key = key
          BY <3>2, <4>3
        <5> QED BY <5>1
      <4>5. /\ key \in DOMAIN heat[u] /\ Walks(heat[u][key], walk)
            /\ Asked(stats, heat[u][key], key, asked[u][key]) /\ Deeper(heat[u][key], hb)
        BY <2>1, <4>3, <4>4
      <4>6. walk' = [walk EXCEPT !.may = @ \cup {s \in walk.begun :
                                                   hb.sorted[s] > heat[u][key].sorted[s]}]
        BY <1>2, <3>2 DEF Carried
      <4> DEFINE old == heat[u][key]
      <4>7. /\ Walks(old, walk) /\ Asked(stats, old, key, asked[u][key]) /\ Deeper(old, hb)
            /\ walk' = [walk EXCEPT !.may = @ \cup {s \in walk.begun : hb.sorted[s] > old.sorted[s]}]
        BY <4>5, <4>6
      <4> HIDE DEF old, b
      <4>8. Walks(hb, [walk EXCEPT !.may = @ \cup {s \in walk.begun : hb.sorted[s] > old.sorted[s]}])
        BY <2>1, <4>7, CarryKeeps
      <4> QED BY <4>7, <4>8
    <3> QED BY <3>1, <3>2
  <2>12. Walked(heat', at', walk')
    BY <1>2, <2>6, <2>11 DEF Walked
  <2> QED BY <2>10, <2>12, InvWillBe
<1>3. \/ \E hb \in SetUp(rule, u, n) :
            /\ heat' = [heat EXCEPT ![u] = [k \in DOMAIN @ \cup {key} |-> IF k = key THEN hb ELSE @[k]]]
            /\ asked' = [asked EXCEPT ![u][key] = [side \in Sides |-> Larger(@[side], n)]]
            /\ at' = [unit |-> u, key |-> key] /\ walk' = Carried(u, key, hb)
      \/ at' = None /\ walk' = NewWalk /\ UNCHANGED <<heat, asked>>
  BY Zenon DEF Setup
<1> QED BY <1>1, <1>2, <1>3

LEMMA HeatStep == HeatInv /\ [HeatNext]_heatVars => HeatInv'
<1> SUFFICES ASSUME HeatInv, [HeatNext]_heatVars PROVE HeatInv'
  OBVIOUS
<1>1. ASSUME NEW rule \in Rules, NEW u \in Units, NEW n \in 1 .. MaxAsked, Setup(rule, u, n)
      PROVE  HeatInv'
  <2>1. n \in Nat
    BY RegistryAssumption
  <2> QED BY <1>1, <2>1, SetupKeepsHeat
<1>2. ASSUME NEW side \in Sides, GetFirst(side) \/ GetNext(side) PROVE HeatInv'
  BY <1>2, GetFirstKeeps, GetNextKeeps
<1>3. CASE NewHeatWindow
  BY <1>3, NewWindowKeepsHeat
<1>4. CASE UNCHANGED heatVars
  BY <1>4, StutterKeepsHeat
<1> QED BY <1>1, <1>2, <1>3, <1>4 DEF HeatNext

LEMMA InvWalks == HeatInv => WalkInOrder
<1> SUFFICES ASSUME HeatInv, at # None, NEW side \in walk.begun
             PROVE  /\ IsPrefix(walk.got[side], Order(Looked, side))
                    /\ side \notin walk.may =>
                          /\ walk.got[side] = Order(Looked, side)
                          /\ ToSet(walk.got[side]) = AllSatisfying(Looked, side)
  BY DEF WalkInOrder
<1>1. PICK u \in Units : \E key \in DOMAIN heat[u] :
         /\ at = [unit |-> u, key |-> key] /\ Looked = heat[u][key]
         /\ Asked(stats, Looked, key, asked[u][key]) /\ Walks(Looked, walk)
  BY AtWork
<1>2. PICK key \in DOMAIN heat[u] :
         Asked(stats, Looked, key, asked[u][key]) /\ Walks(Looked, walk)
  BY <1>1
<1> QED BY <1>2, WalkIsInOrder

\* Whatever rules, calls of Setup and walks interleave, a walk hands out the sorted
\* OBJs in the order of the buckets, and ends when it has handed out all of them,
\* the ones that a filter rule of the same bases would get.
THEOREM WalksAreInOrder == HeatSpec => []WalkInOrder
<1>1. HeatSpec => []HeatInv
  BY InitHeat, HeatStep, PTL DEF HeatSpec
<1> QED BY <1>1, InvWalks, PTL

LEMMA AskedIsSorted ==
    ASSUME NEW hb, NEW key, NEW n \in [Sides -> Nat], Asked(stats, hb, key, n), NEW side \in Sides
    PROVE  LET total == OBJsOn(hb.part, side)
               want  == IF n[side] > total THEN total ELSE n[side]
               last  == hb.last[side]
               done  == IF side = "hot" THEN last .. Top
                        ELSE IF last = NoBucket THEN {} ELSE 0 .. last
               count(S) == Count(hb.part, S)
           IN /\ hb.key = key /\ hb.sorted[side] = count(done) /\ count(done) >= want
              /\ want > 0 => count(done \ {last}) < want
              /\ done \subseteq (IF side = "hot" THEN Boundary + 1 .. Top ELSE 0 .. Boundary)
              /\ \A i \in done : \A j, k \in DOMAIN hb.part[i] :
                    j < k => ~Before(hb, side, hb.part[i][k], hb.part[i][j])
<1> DEFINE c == Cum(hb.part, side)  r == Reach(side)  d == Depth(hb, side)
           total == OBJsOn(hb.part, side)
           want  == IF n[side] > total THEN total ELSE n[side]
           last  == hb.last[side]
           done  == IF side = "hot" THEN last .. Top
                    ELSE IF last = NoBucket THEN {} ELSE 0 .. last
<1>0. /\ Lines(hb.part) /\ d \in 0 .. r /\ d \in 0 .. BucketNum /\ d \in Nat /\ last = LastAt(side, d)
      /\ hb.sorted[side] = c[d] /\ hb.key = key /\ SortedTo(stats, hb, side, n[side], d)
      /\ BucketNum \in Nat /\ Boundary \in Nat /\ Top = BucketNum - 1 /\ NoBucket = BucketNum
      /\ r \in 0 .. BucketNum
  BY AskedIs, BucketFacts DEF Asked
<1>1. want = Capped(n[side], c[r])
  BY SideCounts DEF Capped
<1>2. /\ want <= c[d] /\ (d > 0 => c[d - 1] < want)
      /\ \A p \in 1 .. d : InOrder(stats, hb, side, BucketAt(side, p))
  BY <1>0, <1>1 DEF SortedTo
<1>3. c[d] \in Nat /\ c[r] \in Nat /\ want \in Nat
  <2>1. c[d] \in Nat /\ c[r] \in Nat
    BY <1>0, CumNat
  <2>2. n[side] \in Nat
    OBVIOUS
  <2> HIDE DEF c, d, r, want
  <2> QED BY <1>1, <2>1, <2>2 DEF Capped
<1>4. done = UpTo(side, d)
  <2>1. CASE side = "hot"
    <3>1. done = BucketNum - d .. BucketNum - 1
      BY <1>0, <2>1 DEF LastAt, BucketAt
    <3>2. UpTo(side, d) = {BucketNum - q : q \in 1 .. d}
      BY <2>1 DEF UpTo, BucketAt
    <3>3. \A i \in BucketNum - d .. BucketNum - 1 : BucketNum - i \in 1 .. d /\ i = BucketNum - (BucketNum - i)
      BY <1>0
    <3>4. \A q \in 1 .. d : BucketNum - q \in BucketNum - d .. BucketNum - 1
      BY <1>0
    <3> HIDE DEF done, d
    <3> QED BY <3>1, <3>2, <3>3, <3>4
  <2>2. CASE side = "cold"
    <3>0. side # "hot"
      BY <2>2
    <3>1. done = 0 .. d - 1
      <4>1. CASE d = 0
        BY <1>0, <3>0, <4>1 DEF LastAt
      <4>2. CASE d # 0
        <5>1. last = d - 1 /\ last # NoBucket
          BY <1>0, <3>0, <4>2 DEF LastAt, BucketAt
        <5> HIDE DEF last, d
        <5> QED BY <3>0, <5>1
      <4> QED BY <4>1, <4>2
    <3>2. UpTo(side, d) = {q - 1 : q \in 1 .. d}
      BY <3>0 DEF UpTo, BucketAt
    <3>3. \A i \in 0 .. d - 1 : i + 1 \in 1 .. d /\ i = (i + 1) - 1
      BY <1>0
    <3>4. \A q \in 1 .. d : q - 1 \in 0 .. d - 1
      BY <1>0
    <3> HIDE DEF done, d
    <3> QED BY <3>1, <3>2, <3>3, <3>4
  <2> QED BY <2>1, <2>2 DEF Sides
<1>5. Count(hb.part, done) = c[d]
  <2> HIDE DEF done
  <2> QED BY <1>0, <1>4 DEF Cum
<1>6. want > 0 => Count(hb.part, done \ {last}) < want
  <2> SUFFICES ASSUME want > 0 PROVE Count(hb.part, done \ {last}) < want
    OBVIOUS
  <2>1. d # 0
    <3>1. c[0] = 0
      BY <1>0, CumIs
    <3> HIDE DEF c, d, want
    <3> QED BY <1>2, <1>3, <3>1
  <2>2. d - 1 \in 0 .. BucketNum /\ d - 1 < BucketNum /\ (d - 1) + 1 = d /\ last = BucketAt(side, d)
    BY <1>0, <2>1 DEF LastAt
  <2>3. /\ UpTo(side, (d - 1) + 1) = UpTo(side, d - 1) \cup {BucketAt(side, (d - 1) + 1)}
        /\ BucketAt(side, (d - 1) + 1) \notin UpTo(side, d - 1)
    BY <2>2, UpToIs
  <2> HIDE DEF done, last, d, want, c
  <2>4. done \ {last} = UpTo(side, d - 1)
    BY <1>4, <2>2, <2>3
  <2>5. Count(hb.part, done \ {last}) = c[d - 1]
    BY <2>2, <2>4 DEF Cum, c
  <2> QED BY <1>0, <1>2, <2>1, <2>5
<1>7. done \subseteq (IF side = "hot" THEN Boundary + 1 .. Top ELSE 0 .. Boundary)
  <2>1. \A q \in 1 .. d : BucketAt(side, q)
                             \in (IF side = "hot" THEN Boundary + 1 .. Top ELSE 0 .. Boundary)
    <3>1. /\ side = "hot" => r = BucketNum - 1 - Boundary
          /\ side # "hot" => r = Boundary + 1
      BY BucketFacts DEF Sides
    <3> HIDE DEF d, r
    <3> QED BY <1>0, <3>1 DEF BucketAt
  <2> HIDE DEF done
  <2> QED BY <1>4, <2>1 DEF UpTo
<1>8. \A i \in done : \A j, k \in DOMAIN hb.part[i] :
         j < k => ~Before(hb, side, hb.part[i][k], hb.part[i][j])
  <2>1. \A a, b : Before(hb, side, a, b) <=> BeforeBy(stats, hb, side, a, b)
    BY DEF Before, BeforeBy
  <2>2. ASSUME NEW i \in done
        PROVE  \A j, k \in DOMAIN hb.part[i] :
                  j < k => ~Before(hb, side, hb.part[i][k], hb.part[i][j])
    <3>1. PICK p \in 1 .. d : i = BucketAt(side, p)
      BY <1>4 DEF UpTo
    <3>2. InOrder(stats, hb, side, i)
      BY <1>2, <3>1
    <3> QED BY <2>1, <3>2 DEF InOrder
  <2> QED BY <2>2
<1>9. hb.sorted[side] = Count(hb.part, done) /\ Count(hb.part, done) >= want
  <2> HIDE DEF done, c, d, want
  <2> QED BY <1>0, <1>2, <1>3, <1>5
<1> QED BY <1>0, <1>6, <1>7, <1>8, <1>9

LEMMA InvSorts == HeatInv => SortedAsAsked
<1> SUFFICES ASSUME HeatInv, NEW u \in Units, NEW key \in DOMAIN heat[u], NEW side \in Sides
             PROVE  LET hb    == heat[u][key]
                        total == OBJsOn(hb.part, side)
                        want  == IF asked[u][key][side] > total THEN total
                                 ELSE asked[u][key][side]
                        last  == hb.last[side]
                        done  == IF side = "hot" THEN last .. Top
                                 ELSE IF last = NoBucket THEN {} ELSE 0 .. last
                        count(S) == Count(hb.part, S)
                    IN /\ hb.key = key /\ hb.sorted[side] = count(done) /\ count(done) >= want
                       /\ want > 0 => count(done \ {last}) < want
                       /\ done \subseteq (IF side = "hot" THEN Boundary + 1 .. Top
                                          ELSE 0 .. Boundary)
                       /\ \A i \in done : \A j, k \in DOMAIN hb.part[i] :
                             j < k => ~Before(hb, side, hb.part[i][k], hb.part[i][j])
  BY Zenon DEF SortedAsAsked
<1> DEFINE hb == heat[u][key]  n == asked[u][key]
<1>1. Asked(stats, hb, key, n) /\ n \in [Sides -> Nat]
  BY DEF HeatInv
<1> HIDE DEF hb, n
<1> QED BY <1>1, AskedIsSorted, Zenon DEF hb, n

\* Whatever rules have used a bucket, each side has the OBJs sorted that were asked
\* for, not a bucket more than it takes, each bucket in the order of the comparator
\* that GetGreater or GetLess finds.
THEOREM BucketsAreSortedAsAsked == HeatSpec => []SortedAsAsked
<1>1. HeatSpec => []HeatInv
  BY InitHeat, HeatStep, PTL DEF HeatSpec
<1> QED BY <1>1, InvSorts, PTL

================================================================================
