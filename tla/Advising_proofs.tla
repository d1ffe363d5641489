---------------------------- MODULE Advising_proofs ----------------------------
(******************************************************************************)
(* Proofs about Advising: where advices lead, the flags that tell where there  *)
(* are any, and the walks that the planner makes through them.                 *)
(*                                                                             *)
(* The walks of the planner change of an advice only whether it is chosen and  *)
(* whether it lives (Same); the calls of a window each find their lists empty  *)
(* (Fresh); while a call is under way, the flags of tiers and disks are exact  *)
(* and that of the SubPool waits for the end of a tier-wise call (Told).  A    *)
(* walk's cursor leaves nothing behind that is neither chosen nor given, and   *)
(* of the tiers with advices left those up to the last one are exactly one     *)
(* turn ahead (Fits).                                                          *)
(******************************************************************************)
EXTENDS Advising, FiniteSetTheorems, WellFoundedInduction, TLAPS

--------------------------------------------------------------------------------
(* Lists of advices                                                            *)

Advices == [obj : OBJs, from : Tiers, to : Tiers, chosen : BOOLEAN, live : BOOLEAN]

\* What AdviceLeadsNext says of one list.
Leads(type, list) ==
    /\ \A i, j \in DOMAIN list : list[i].obj = list[j].obj => i = j
    /\ \A i \in DOMAIN list :
          LET a == list[i] IN
          /\ a.to \in Comb /\ a.from = TierOf[config.at[a.obj]]
          /\ IF type \in {"hot", "swapUp"}
             THEN a.to < a.from /\ Comb \cap (a.to + 1 .. a.from - 1) = {}
             ELSE a.to > a.from /\ Comb \cap (a.from + 1 .. a.to - 1) = {}

\* Reading changes of an advice only whether it is chosen and whether it lives.
Same(l, m) ==
    /\ m \in Seq(Advices) /\ DOMAIN m = DOMAIN l
    /\ \A i \in DOMAIN l : m[i].obj = l[i].obj /\ m[i].from = l[i].from /\ m[i].to = l[i].to

LEMMA SeqListed ==
    ASSUME NEW S, NEW n \in Nat, NEW f, f = [i \in 1 .. n |-> f[i]], \A i \in 1 .. n : f[i] \in S
    PROVE  f \in Seq(S)
  OBVIOUS

LEMMA LeadsAll ==
    AdviceLeadsNext <=> \A type \in AdviceTypes, unit \in Units : Leads(type, lists[type][unit])
  BY DEF AdviceLeadsNext, Leads

LEMMA SameSelf == ASSUME NEW l \in Seq(Advices) PROVE Same(l, l)
  BY DEF Same

LEMMA SameEmpty ==
    ASSUME NEW l \in Seq(Advices), NEW m, Same(l, m) PROVE l = <<>> <=> m = <<>>
<1>1. DOMAIN l = 1 .. Len(l) /\ DOMAIN m = 1 .. Len(m) /\ Len(l) \in Nat /\ Len(m) \in Nat
  BY DEF Same
<1>2. Len(l) = Len(m)
  BY <1>1 DEF Same
<1>3. (l = <<>> <=> Len(l) = 0) /\ (m = <<>> <=> Len(m) = 0)
  BY DEF Same
<1> QED BY <1>2, <1>3

LEMMA SameLeads ==
    ASSUME NEW type, NEW l \in Seq(Advices), NEW m, Same(l, m), Leads(type, l)
    PROVE  Leads(type, m)
<1>1. \A i, j \in DOMAIN m : m[i].obj = m[j].obj => i = j
  BY DEF Same, Leads
<1>2. \A i \in DOMAIN m :
          LET a == m[i] IN
          /\ a.to \in Comb /\ a.from = TierOf[config.at[a.obj]]
          /\ IF type \in {"hot", "swapUp"}
             THEN a.to < a.from /\ Comb \cap (a.to + 1 .. a.from - 1) = {}
             ELSE a.to > a.from /\ Comb \cap (a.from + 1 .. a.to - 1) = {}
  <2> SUFFICES ASSUME NEW i \in DOMAIN m
               PROVE  /\ m[i].to \in Comb /\ m[i].from = TierOf[config.at[m[i].obj]]
                      /\ IF type \in {"hot", "swapUp"}
                         THEN m[i].to < m[i].from /\ Comb \cap (m[i].to + 1 .. m[i].from - 1) = {}
                         ELSE m[i].to > m[i].from /\ Comb \cap (m[i].from + 1 .. m[i].to - 1) = {}
    OBVIOUS
  <2>1. i \in DOMAIN l /\ m[i].obj = l[i].obj /\ m[i].from = l[i].from /\ m[i].to = l[i].to
    BY DEF Same
  <2>2. /\ l[i].to \in Comb /\ l[i].from = TierOf[config.at[l[i].obj]]
        /\ IF type \in {"hot", "swapUp"}
           THEN l[i].to < l[i].from /\ Comb \cap (l[i].to + 1 .. l[i].from - 1) = {}
           ELSE l[i].to > l[i].from /\ Comb \cap (l[i].from + 1 .. l[i].to - 1) = {}
    BY <2>1 DEF Leads
  <2> HIDE DEF Comb
  <2> QED BY <2>1, <2>2
<1> QED BY <1>1, <1>2 DEF Leads

LEMMA LiveKept ==
    ASSUME NEW l \in Seq(Advices), NEW S, NEW m,
           m = [j \in DOMAIN l |-> IF j \in S THEN [l[j] EXCEPT !.live = FALSE] ELSE l[j]]
    PROVE  Same(l, m)
<1>1. DOMAIN l = 1 .. Len(l) /\ Len(l) \in Nat
  OBVIOUS
<1>2. ASSUME NEW j \in DOMAIN l
      PROVE  m[j] \in Advices /\ m[j].obj = l[j].obj /\ m[j].from = l[j].from /\ m[j].to = l[j].to
  <2>1. l[j] \in Advices
    OBVIOUS
  <2>2. m[j] = IF j \in S THEN [l[j] EXCEPT !.live = FALSE] ELSE l[j]
    OBVIOUS
  <2> QED BY <2>1, <2>2 DEF Advices
<1>3. m \in Seq(Advices) /\ DOMAIN m = DOMAIN l
  BY <1>1, <1>2
<1> QED BY <1>2, <1>3 DEF Same

LEMMA OneEntry ==
    ASSUME NEW l \in Seq(Advices), NEW n, NEW e,
           n \in DOMAIN l => /\ e \in Advices
                            /\ e.obj = l[n].obj /\ e.from = l[n].from /\ e.to = l[n].to,
           NEW m, m = [l EXCEPT ![n] = e]
    PROVE  Same(l, m)
<1>1. DOMAIN l = 1 .. Len(l) /\ Len(l) \in Nat
  OBVIOUS
<1>2. ASSUME NEW j \in DOMAIN l
      PROVE  m[j] \in Advices /\ m[j].obj = l[j].obj /\ m[j].from = l[j].from /\ m[j].to = l[j].to
  <2>1. l[j] \in Advices
    OBVIOUS
  <2>2. m[j] = IF j = n THEN e ELSE l[j]
    OBVIOUS
  <2> QED BY <2>1, <2>2
<1>3. DOMAIN m = DOMAIN l /\ m = [j \in DOMAIN l |-> m[j]]
  OBVIOUS
<1>4. m \in Seq(Advices)
  <2>1. m = [j \in 1 .. Len(l) |-> m[j]] /\ \A j \in 1 .. Len(l) : m[j] \in Advices
    BY <1>1, <1>2, <1>3
  <2> QED BY <1>1, <2>1, SeqListed
<1> QED BY <1>2, <1>3, <1>4 DEF Same

LEMMA ChosenKept ==
    ASSUME NEW l \in Seq(Advices), NEW n, NEW unit, NEW m, m = [l EXCEPT ![n] = Marked(l[n], unit)]
    PROVE  Same(l, m)
<1>1. ASSUME n \in DOMAIN l
      PROVE  /\ Marked(l[n], unit) \in Advices /\ Marked(l[n], unit).obj = l[n].obj
             /\ Marked(l[n], unit).from = l[n].from /\ Marked(l[n], unit).to = l[n].to
  <2>1. l[n] \in Advices
    BY <1>1
  <2> QED BY <2>1 DEF Advices, Marked
<1> QED BY <1>1, OneEntry

AllLists == [AdviceTypes -> [Units -> Seq(Advices)]]

--------------------------------------------------------------------------------
(* Tiers                                                                       *)

LEMMA Extremes ==
    ASSUME NEW S \in SUBSET Tiers, S # {}
    PROVE  /\ \E t \in S : \A u \in S : u <= t
           /\ \E t \in S : \A u \in S : t <= u
<1>1. S \subseteq {0, 1, 2}
  BY DEF Tiers
<1>2. CASE 2 \in S
  <2>1. CASE 0 \in S
    BY <1>1, <1>2, <2>1
  <2>2. CASE 0 \notin S /\ 1 \in S
    BY <1>1, <1>2, <2>2
  <2>3. CASE 0 \notin S /\ 1 \notin S
    BY <1>1, <1>2, <2>3
  <2> QED BY <2>1, <2>2, <2>3
<1>3. CASE 2 \notin S /\ 1 \in S
  <2>1. CASE 0 \in S
    BY <1>1, <1>3, <2>1
  <2>2. CASE 0 \notin S
    BY <1>1, <1>3, <2>2
  <2> QED BY <2>1, <2>2
<1>4. CASE 2 \notin S /\ 1 \notin S
  <2>1. S = {0}
    BY <1>1, <1>4
  <2> QED BY <2>1
<1> QED BY <1>2, <1>3, <1>4

LEMMA TargetFits ==
    ASSUME NEW comb \in SUBSET Tiers, NEW source \in Tiers, NEW type \in AdviceTypes,
           NEW to, to = TargetTier(comb, source, type), to # NoTier
    PROVE  /\ to \in comb
           /\ IF type \in {"hot", "swapUp"}
              THEN to < source /\ comb \cap (to + 1 .. source - 1) = {}
              ELSE to > source /\ comb \cap (source + 1 .. to - 1) = {}
<1> DEFINE upper == {t \in comb : t < source}
           lower == {t \in comb : t > source}
<1>1. CASE type \in {"hot", "swapUp"}
  <2>1. upper # {} /\ to = CHOOSE t \in upper : \A u \in upper : u <= t
    BY <1>1 DEF TargetTier, AdviceTypes
  <2>2. to \in upper /\ \A u \in upper : u <= to
    BY <2>1, Extremes
  <2>3. \A u \in comb : u \in Int
    BY DEF Tiers
  <2> QED BY <1>1, <2>2, <2>3 DEF Tiers
<1>2. CASE type \notin {"hot", "swapUp"}
  <2>1. lower # {} /\ to = CHOOSE t \in lower : \A u \in lower : t <= u
    BY <1>2 DEF TargetTier, AdviceTypes
  <2>2. to \in lower /\ \A u \in lower : to <= u
    BY <2>1, Extremes
  <2>3. \A u \in comb : u \in Int
    BY DEF Tiers
  <2> QED BY <1>2, <2>2, <2>3 DEF Tiers
<1> QED BY <1>1, <1>2

--------------------------------------------------------------------------------
(* The invariant                                                               *)

Flags == {"disk", "obj", "advice"}
AllFlags == [pool : SUBSET Flags, tier : [Tiers -> SUBSET Flags], disk : [Disks -> SUBSET Flags]]

Typed ==
    /\ config \in Configs
    /\ lists \in AllLists
    /\ flags \in AllFlags
    /\ calls \in Seq(Calls)
    /\ phase \in {"closed", "check", "generate", "ready"}
    /\ walk.holds => phase = "ready"

Has(u) == \E type \in AdviceTypes : lists[type][u] # <<>>
Below(t) == Has(t) \/ \E d \in DisksOf(t) : Has(d)
Some == \E u \in Units : Has(u)

\* Of the calls to come, those that are not refused find their lists empty; of the
\* present one, the lists of the units to come.
Fresh ==
    /\ \A i, j \in DOMAIN calls :
          /\ Valid(calls[i]) /\ Valid(calls[j])
          /\ calls[i].rule.type = calls[j].rule.type
          /\ calls[i].rule.scope = calls[j].rule.scope
          => i = j
    /\ \A i \in DOMAIN calls : Valid(calls[i]) =>
          \A u \in UnitsOf(calls[i].rule) :
             \/ i = 1 /\ steps # {} /\ u \notin steps
             \/ lists[calls[i].rule.type][u] = <<>>

\* What is under way, and where advices may be.
Running ==
    /\ steps # {} => /\ phase = "generate" /\ calls # <<>> /\ Valid(Head(calls))
                     /\ steps \subseteq UnitsOf(Head(calls).rule)
    /\ phase = "generate" => Comb # {}
    /\ phase \in {"closed", "check"} => lists = NoLists
    /\ \A u \in Units : Has(u) => u \in Comb \cup config.disks

\* The flags of tiers and disks tell at once where there is advice, that of the
\* SubPool after a tier-wise call.
Told ==
    phase \in {"generate", "ready"} =>
        /\ \A t \in Comb : "advice" \notin flags.tier[t] <=> Below(t)
        /\ \A d \in config.disks : "advice" \notin flags.disk[d] <=> Has(d)
        /\ "advice" \notin flags.pool => Some
        /\ Some /\ "advice" \in flags.pool =>
              steps # {} /\ Head(calls).rule.scope = "tier" /\ steps # Comb

Inv == Typed /\ Fresh /\ Running /\ Told /\ AdviceLeadsNext

LEMMA ConfigFits ==
    ASSUME config \in Configs
    PROVE  /\ config.disks \subseteq Disks /\ Comb \subseteq Tiers /\ Comb \subseteq config.tiers
           /\ \A o \in DOMAIN config.at : o \in OBJs /\ config.at[o] \in config.disks
           /\ \A d \in config.disks : TierOf[d] \in Comb
           /\ \A t \in Tiers : t \in Comb <=> DisksOf(t) # {}
           /\ Units = Tiers \cup Disks /\ Disks \cap Tiers = {}
  BY ConfigAssumption DEF Comb, DisksOf, Units

LEMMA CallFits == ASSUME NEW c \in Calls PROVE c.rule.type \in AdviceTypes
  BY DEF Calls, Rules

LEMMA NoneHas == ASSUME lists = NoLists PROVE ~Some /\ \A u \in Units : ~Has(u)
  BY DEF NoLists, Has, Some, Units

LEMMA NoLeads == ASSUME lists = NoLists PROVE AdviceLeadsNext
  BY DEF NoLists, AdviceLeadsNext

--------------------------------------------------------------------------------
(* Reading                                                                     *)

LEMMA ReadKeeps ==
    ASSUME Inv, lists' \in AllLists, UNCHANGED <<config, flags, calls, steps, phase>>,
           phase = "ready",
           \A type \in AdviceTypes, u \in Units : Same(lists[type][u], lists'[type][u])
    PROVE  Inv'
<1> DEFINE L == lists'
<1>1. \A type \in AdviceTypes, u \in Units : lists[type][u] = <<>> <=> L[type][u] = <<>>
  BY SameEmpty DEF Inv, Typed, AllLists
<1>2. \A type \in AdviceTypes, u \in Units : Leads(type, L[type][u])
  <2> SUFFICES ASSUME NEW type \in AdviceTypes, NEW u \in Units PROVE Leads(type, L[type][u])
    OBVIOUS
  <2>1. Leads(type, lists[type][u]) /\ lists[type][u] \in Seq(Advices)
    BY LeadsAll DEF Inv, Typed, AllLists
  <2>2. Same(lists[type][u], L[type][u])
    OBVIOUS
  <2> HIDE DEF L
  <2> QED BY <2>1, <2>2, SameLeads
<1>3. config' = config /\ flags' = flags /\ calls' = calls /\ steps' = steps /\ phase' = phase
  OBVIOUS
<1>4. Typed'
  BY <1>3 DEF Inv, Typed
<1>5. \A u \in Units : Has(u)' <=> Has(u)
  BY <1>1 DEF Has
<1>6. Comb' = Comb /\ \A t \in Tiers : DisksOf(t)' = DisksOf(t)
  BY <1>3 DEF Comb, DisksOf
<1>7. Fresh'
  <2>1. calls \in Seq(Calls) /\ config \in Configs
    BY DEF Inv, Typed
  <2>2. ASSUME NEW i \in DOMAIN calls, Valid(calls[i]), NEW u \in UnitsOf(calls[i].rule)
        PROVE  \/ i = 1 /\ steps # {} /\ u \notin steps
               \/ L[calls[i].rule.type][u] = <<>>
    <3>0. calls[i] \in Calls
      BY <2>1
    <3>1. calls[i].rule.type \in AdviceTypes
      BY <3>0, CallFits
    <3>2. u \in Units
      BY <2>1, ConfigFits DEF UnitsOf
    <3> QED BY <1>1, <2>2, <3>1, <3>2 DEF Inv, Fresh
  <2>3. \A rule : UnitsOf(rule)' = UnitsOf(rule)
    BY <1>3, <1>6 DEF UnitsOf
  <2> QED BY <1>3, <2>2, <2>3 DEF Inv, Fresh
<1>8. Running'
  BY <1>3, <1>5, <1>6 DEF Inv, Running, UnitsOf
<1>9. Some' <=> Some
  BY <1>5 DEF Some
<1>10. \A t \in Comb : Below(t)' <=> Below(t)
  BY <1>5, <1>6, ConfigFits DEF Below, Inv, Typed, DisksOf
<1>11. Told'
  <2>1. \A d \in config.disks : d \in Units
    BY ConfigFits DEF Inv, Typed
  <2> QED BY <1>3, <1>5, <1>6, <1>9, <1>10, <2>1 DEF Inv, Told
<1>12. AdviceLeadsNext'
  <2>1. ASSUME NEW type \in AdviceTypes, NEW u \in Units PROVE Leads(type, lists[type][u])'
    <3>1. PICK l : l = L[type][u]
      OBVIOUS
    <3>2. Leads(type, l) /\ config' = config /\ lists'[type][u] = l
      BY <1>2, <1>3, <3>1
    <3> HIDE DEF L
    <3> QED BY <3>2 DEF Leads, Comb
  <2> QED BY <2>1 DEF AdviceLeadsNext, Leads
<1> QED BY <1>4, <1>7, <1>8, <1>11, <1>12 DEF Inv

LEMMA PositionKeeps ==
    ASSUME Inv, NEW type, NEW d, NEW n, NEW w, ToPosition(type, d, n, w)
    PROVE  /\ lists' \in AllLists
           /\ \A s \in AdviceTypes, u \in Units : Same(lists[s][u], lists'[s][u])
<1> DEFINE list == lists[type][d]
           put(S) == [j \in DOMAIN list |-> IF j \in S THEN [list[j] EXCEPT !.live = FALSE] ELSE list[j]]
<1>1. lists \in AllLists
  BY DEF Inv, Typed
<1>2. PICK i \in n + 1 .. Len(list) + 1 :
         lists' = [lists EXCEPT ![type][d] = [j \in DOMAIN list |->
                      IF j \in n + 1 .. i - 1 \/ (w.holds /\ j = n)
                      THEN [list[j] EXCEPT !.live = FALSE] ELSE list[j]]]
  BY DEF ToPosition
<1>3. PICK S : \A j \in DOMAIN list : j \in S <=> j \in n + 1 .. i - 1 \/ (w.holds /\ j = n)
  <2>1. \A j \in DOMAIN list : j \in {k \in DOMAIN list : k \in n + 1 .. i - 1 \/ (w.holds /\ k = n)}
                              <=> j \in n + 1 .. i - 1 \/ (w.holds /\ j = n)
    OBVIOUS
  <2> QED BY <2>1
<1>4. lists' = [lists EXCEPT ![type][d] = put(S)]
  BY <1>2, <1>3
<1>5. CASE type \in AdviceTypes /\ d \in Units
  <2>1. list \in Seq(Advices)
    BY <1>1, <1>5 DEF AllLists
  <2>2. PICK m : m = put(S)
    OBVIOUS
  <2>3. Same(list, m)
    BY <2>1, <2>2, LiveKept
  <2>4. m \in Seq(Advices) /\ lists' = [lists EXCEPT ![type][d] = m]
    BY <1>4, <2>2, <2>3 DEF Same
  <2> HIDE DEF put
  <2>5. /\ lists' \in AllLists
        /\ \A s \in AdviceTypes, v \in Units :
              lists'[s][v] = IF s = type /\ v = d THEN m ELSE lists[s][v]
    <3> DEFINE M == lists'
    <3>1. M = [lists EXCEPT ![type][d] = m] /\ m \in Seq(Advices)
      BY <2>4
    <3> HIDE DEF M, list
    <3>2. /\ M \in AllLists
          /\ \A s \in AdviceTypes, v \in Units :
                M[s][v] = IF s = type /\ v = d THEN m ELSE lists[s][v]
      BY <1>1, <3>1 DEF AllLists
    <3> QED BY <3>2 DEF M
  <2>6. \A s \in AdviceTypes, v \in Units : Same(lists[s][v], lists[s][v])
    BY <1>1, SameSelf DEF AllLists
  <2> QED BY <2>3, <2>5, <2>6
<1>6. CASE ~ (type \in AdviceTypes /\ d \in Units)
  <2> HIDE DEF put
  <2>1. lists' = lists
    BY <1>1, <1>4, <1>6 DEF AllLists
  <2>2. \A s \in AdviceTypes, v \in Units : Same(lists[s][v], lists[s][v])
    BY <1>1, SameSelf DEF AllLists
  <2> QED BY <1>1, <2>1, <2>2
<1> QED BY <1>5, <1>6

LEMMA ReadStep ==
    ASSUME Inv,
           \/ \E type \in AdviceTypes : First(type) \/ \E d \in Disks : FirstOn(type, d)
           \/ Refuse \/ RefuseOn \/ Choose
    PROVE  Inv'
<1>0. lists \in AllLists
  BY DEF Inv, Typed
<1>1. UNCHANGED <<config, flags, calls, steps, phase>> /\ phase = "ready"
  BY DEF First, FirstOn, Refuse, RefuseOn, Choose, genVars, Inv, Typed
<1>2. /\ lists' \in AllLists
      /\ \A s \in AdviceTypes, u \in Units : Same(lists[s][u], lists'[s][u])
  <2>1. CASE lists' = lists
    BY <1>0, <2>1, SameSelf DEF AllLists
  <2>2. ASSUME NEW type \in AdviceTypes, NEW d \in Disks, FirstOn(type, d)
        PROVE  /\ lists' \in AllLists
               /\ \A s \in AdviceTypes, u \in Units : Same(lists[s][u], lists'[s][u])
    BY <2>2, PositionKeeps DEF FirstOn
  <2>3. CASE RefuseOn
    BY <2>3, PositionKeeps DEF RefuseOn
  <2>4. CASE Choose
    <3> DEFINE p == Last(walk.given)
               l == lists[walk.type][p.unit]
    <3>1. lists' = [lists EXCEPT ![walk.type][p.unit][p.at] = Marked(@, p.unit)]
      BY <2>4 DEF Choose
    <3>2. PICK m : m = [l EXCEPT ![p.at] = Marked(l[p.at], p.unit)]
      OBVIOUS
    <3>3. lists' = [lists EXCEPT ![walk.type][p.unit] = m]
      BY <3>1, <3>2
    <3>4. CASE walk.type \in AdviceTypes /\ p.unit \in Units
      <4>1. l \in Seq(Advices)
        BY <1>0, <3>4 DEF AllLists
      <4>2. Same(l, m)
        BY <3>2, <4>1, ChosenKept
      <4>3. m \in Seq(Advices)
        BY <4>2 DEF Same
      <4>4. /\ lists' \in AllLists
            /\ \A s \in AdviceTypes, v \in Units :
                  lists'[s][v] = IF s = walk.type /\ v = p.unit THEN m ELSE lists[s][v]
        <5> DEFINE M == lists'
                   t == walk.type
                   x == p.unit
        <5>1. M = [lists EXCEPT ![t][x] = m] /\ m \in Seq(Advices)
          BY <3>3, <4>3
        <5> HIDE DEF M, t, x, p, l
        <5>2. /\ M \in AllLists
              /\ \A s \in AdviceTypes, v \in Units :
                    M[s][v] = IF s = t /\ v = x THEN m ELSE lists[s][v]
          BY <1>0, <5>1 DEF AllLists
        <5> QED BY <5>2 DEF M, t, x
      <4>5. \A s \in AdviceTypes, v \in Units : Same(lists[s][v], lists[s][v])
        BY <1>0, SameSelf DEF AllLists
      <4> QED BY <4>2, <4>4, <4>5
    <3>5. CASE ~ (walk.type \in AdviceTypes /\ p.unit \in Units)
      <4>1. lists' = lists
        BY <1>0, <3>3, <3>5 DEF AllLists
      <4> QED BY <2>1, <4>1
    <3> QED BY <3>4, <3>5
  <2>6. (\E type \in AdviceTypes : First(type)) \/ Refuse => lists' = lists
    BY DEF First, Refuse, genVars
  <2> QED BY <2>1, <2>2, <2>3, <2>4, <2>6
<1> QED BY <1>1, <1>2, ReadKeeps

--------------------------------------------------------------------------------
(* Windows and calls                                                           *)

LEMMA InitInv == Init => Inv
<1> SUFFICES ASSUME Init PROVE Inv
  OBVIOUS
<1>1. lists = NoLists /\ calls = <<>> /\ steps = {} /\ phase = "closed" /\ config \in Configs
  BY DEF Init
<1>2. Typed
  <2>1. lists \in AllLists
    BY <1>1 DEF NoLists, AllLists
  <2>2. ~walk.holds
    BY DEF Init, NewWalk
  <2> QED BY <1>1, <2>1, <2>2 DEF Init, Typed, Flags, AllFlags
<1>3. AdviceLeadsNext
  BY <1>1, NoLeads
<1>4. \A u \in Units : ~Has(u)
  BY <1>1, NoneHas
<1> QED BY <1>1, <1>2, <1>3, <1>4 DEF Inv, Fresh, Running, Told

LEMMA OpenStep == ASSUME Inv, OpenWindow PROVE Inv'
<1>1. lists' = NoLists /\ steps' = {} /\ phase' = "check" /\ config' \in Configs
      /\ calls' \in Windows(config') /\ flags' = flags
  BY DEF OpenWindow
<1>2. calls' \in Seq(Calls)
  BY <1>1, ConfigAssumption
<1>3. \A i, j \in DOMAIN calls' :
          /\ Valid(calls'[i]) /\ Valid(calls'[j])
          /\ calls'[i].rule.type = calls'[j].rule.type
          /\ calls'[i].rule.scope = calls'[j].rule.scope
          => i = j
  BY <1>1, ConfigAssumption
<1>4. Typed'
  <2>1. lists' \in AllLists
    BY <1>1 DEF NoLists, AllLists
  <2>2. ~walk'.holds
    BY DEF OpenWindow, NewWalk
  <2> QED BY <1>1, <1>2, <2>1, <2>2 DEF Inv, Typed, Flags
<1>5. AdviceLeadsNext'
  BY <1>1 DEF NoLists, AdviceLeadsNext
<1>6. \A u \in Units : ~Has(u)'
  BY <1>1 DEF NoLists, Has, Units
<1>7. Fresh'
  <2>1. ASSUME NEW i \in DOMAIN calls', NEW u \in UnitsOf(calls[i].rule)'
        PROVE  lists'[calls'[i].rule.type][u] = <<>>
    <3>1. calls'[i] \in Calls
      BY <1>2
    <3>2. calls'[i].rule.type \in AdviceTypes
      BY <3>1, CallFits
    <3>3. u \in Units
      BY <1>1, ConfigAssumption DEF UnitsOf, Comb, Units
    <3> QED BY <1>1, <3>2, <3>3 DEF NoLists
  <2> QED BY <1>3, <2>1 DEF Fresh
<1> QED BY <1>1, <1>4, <1>5, <1>6, <1>7 DEF Inv, Running, Told

LEMMA CheckStep == ASSUME Inv, PreGenerateCheck PROVE Inv'
<1>1. /\ phase = "check" /\ lists = NoLists /\ steps = {} /\ ~walk.holds
      /\ UNCHANGED <<config, calls, steps, ret, lists, readVars>>
  BY DEF PreGenerateCheck, Inv, Typed, Running
<1>2. phase' \in {"generate", "ready"} /\ (phase' = "generate" => Comb # {})
  BY DEF PreGenerateCheck
<1>3. flags' \in [pool : SUBSET Flags, tier : [Tiers -> SUBSET Flags],
                  disk : [Disks -> SUBSET Flags]]
  <2>1. \A t \in Tiers : TierFlags(t) \in SUBSET Flags
    BY DEF TierFlags, Flags
  <2>2. CASE Comb = {}
    BY <2>2 DEF PreGenerateCheck, Inv, Typed, Flags, AllFlags
  <2>3. CASE Comb # {}
    <3> DEFINE pool == {"advice"} \cup (IF DOMAIN config.at = {} THEN {"obj"} ELSE {})
               tier == [t \in Tiers |-> IF t \in config.tiers THEN TierFlags(t) ELSE flags.tier[t]]
               disk == [d \in Disks |-> IF d \in config.disks THEN flags.disk[d] \cup {"advice"}
                                         ELSE flags.disk[d]]
    <3>1. flags' = [pool |-> pool, tier |-> tier, disk |-> disk]
      BY <2>3 DEF PreGenerateCheck
    <3>2. pool \in SUBSET Flags /\ disk \in [Disks -> SUBSET Flags]
      BY DEF Inv, Typed, Flags, AllFlags
    <3>3. tier \in [Tiers -> SUBSET Flags]
      BY <2>1 DEF Inv, Typed, AllFlags
    <3> HIDE DEF pool, tier, disk
    <3> QED BY <3>1, <3>2, <3>3
  <2> QED BY <2>2, <2>3
<1>4. /\ "advice" \in flags'.pool
      /\ Comb # {} => /\ \A t \in Comb : "advice" \in flags'.tier[t]
                      /\ \A d \in config.disks : "advice" \in flags'.disk[d]
  <2>1. CASE Comb = {}
    BY <2>1 DEF PreGenerateCheck, Inv, Typed, AllFlags
  <2>2. CASE Comb # {}
    <3>1. /\ flags'.pool = {"advice"} \cup (IF DOMAIN config.at = {} THEN {"obj"} ELSE {})
          /\ flags'.tier = [t \in Tiers |-> IF t \in config.tiers THEN TierFlags(t) ELSE flags.tier[t]]
          /\ flags'.disk = [d \in Disks |-> IF d \in config.disks
                                             THEN flags.disk[d] \cup {"advice"} ELSE flags.disk[d]]
      BY <2>2 DEF PreGenerateCheck
    <3>2. Comb \subseteq Tiers /\ Comb \subseteq config.tiers /\ config.disks \subseteq Disks
      BY ConfigFits DEF Inv, Typed
    <3>3. \A t : "advice" \in TierFlags(t)
      BY DEF TierFlags
    <3> HIDE DEF Comb
    <3> QED BY <3>1, <3>2, <3>3
  <2> QED BY <2>1, <2>2
<1>5. \A u \in Units : ~Has(u)'
  BY <1>1, NoneHas DEF Has
<1>6. Comb' = Comb /\ config' = config /\ \A t : DisksOf(t)' = DisksOf(t)
  BY <1>1 DEF Comb, DisksOf
<1>7. Typed'
  BY <1>1, <1>2, <1>3 DEF Inv, Typed, readVars, AllFlags
<1>8. Fresh'
  BY <1>1, <1>6 DEF Inv, Fresh, UnitsOf
<1>9. Running'
  BY <1>1, <1>2, <1>5, <1>6 DEF Running
<1>10. Told'
  <2>1. \A t \in Comb : ~Below(t)'
    BY <1>1, <1>5, <1>6, ConfigFits DEF Below, DisksOf, Inv, Typed
  <2>2. config.disks = {} => Comb = {}
    BY DEF Comb
  <2>3. \A d \in config.disks : d \in Units /\ Comb # {}
    BY ConfigFits DEF Inv, Typed
  <2>4. ~Some'
    BY <1>5 DEF Some
  <2> HIDE DEF Comb
  <2> QED BY <1>4, <1>5, <1>6, <2>1, <2>3, <2>4 DEF Told
<1>11. AdviceLeadsNext'
  BY <1>1 DEF NoLists, AdviceLeadsNext
<1> QED BY <1>7, <1>8, <1>9, <1>10, <1>11 DEF Inv

LEMMA BeginStep == ASSUME Inv, BeginCall PROVE Inv'
<1>1. /\ phase = "generate" /\ steps = {} /\ ~walk.holds
      /\ UNCHANGED <<config, flags, lists, readVars>>
  BY DEF BeginCall, Inv, Typed
<1>2. calls \in Seq(Calls)
  BY DEF Inv, Typed
<1>3. \/ phase' = "ready" /\ UNCHANGED <<calls, steps>>
      \/ calls # <<>> /\ calls' = Tail(calls) /\ UNCHANGED <<steps, phase>>
      \/ /\ calls # <<>> /\ Valid(Head(calls)) /\ steps' = UnitsOf(Head(calls).rule)
         /\ UNCHANGED <<calls, phase>>
  BY DEF BeginCall
<1>4. Typed'
  <2>1. calls' \in Seq(Calls)
    BY <1>2, <1>3
  <2>2. phase' \in {"generate", "ready"}
    BY <1>1, <1>3
  <2> QED BY <1>1, <2>1, <2>2 DEF Inv, Typed, readVars
<1>5. Comb' = Comb /\ config' = config /\ (\A t : DisksOf(t)' = DisksOf(t)) /\ \A r : UnitsOf(r)' = UnitsOf(r)
  BY <1>1 DEF Comb, DisksOf, UnitsOf
<1>6. (\A u : Has(u)' <=> Has(u)) /\ (\A t : Below(t)' <=> Below(t)) /\ (Some' <=> Some)
  BY <1>1, <1>5 DEF Has, Below, Some
<1>7. Fresh'
  <2>1. \A i \in DOMAIN calls : Valid(calls[i]) =>
           \A u \in UnitsOf(calls[i].rule) : lists[calls[i].rule.type][u] = <<>>
    BY <1>1 DEF Inv, Fresh
  <2>2. CASE calls' = calls
    BY <1>1, <1>5, <2>1, <2>2 DEF Inv, Fresh
  <2>3. CASE calls # <<>> /\ calls' = Tail(calls)
    <3>1. \A i \in DOMAIN calls' : i + 1 \in DOMAIN calls /\ i \in Int /\ calls'[i] = calls[i + 1]
      BY <1>2, <2>3
    <3>2. \A i, j \in DOMAIN calls' :
              /\ Valid(calls'[i]) /\ Valid(calls'[j])
              /\ calls'[i].rule.type = calls'[j].rule.type
              /\ calls'[i].rule.scope = calls'[j].rule.scope
              => i = j
      <4> SUFFICES ASSUME NEW i \in DOMAIN calls', NEW j \in DOMAIN calls',
                          Valid(calls'[i]), Valid(calls'[j]),
                          calls'[i].rule.type = calls'[j].rule.type,
                          calls'[i].rule.scope = calls'[j].rule.scope
                   PROVE  i = j
        OBVIOUS
      <4>1. i + 1 = j + 1
        BY <3>1 DEF Inv, Fresh
      <4> QED BY <3>1, <4>1
    <3>3. \A i \in DOMAIN calls' : Valid(calls'[i]) =>
              \A u \in UnitsOf(calls'[i].rule) : lists[calls'[i].rule.type][u] = <<>>
      BY <2>1, <3>1
    <3> QED BY <1>1, <1>5, <3>2, <3>3 DEF Fresh
  <2> QED BY <1>3, <2>2, <2>3
<1>8. Running'
  <2>1. steps' # {} => phase' = "generate" /\ calls' = calls /\ calls # <<>> /\ Valid(Head(calls))
                      /\ steps' = UnitsOf(Head(calls).rule)
    BY <1>1, <1>3
  <2>2. phase' \in {"generate", "ready"}
    BY <1>1, <1>3
  <2> QED BY <1>1, <1>5, <1>6, <2>1, <2>2 DEF Inv, Running
<1>9. Told'
  <2>1. Some /\ "advice" \in flags.pool => FALSE
    BY <1>1 DEF Inv, Told
  <2> QED BY <1>1, <1>5, <1>6, <2>1 DEF Inv, Told
<1>10. AdviceLeadsNext'
  <2>1. ASSUME NEW type \in AdviceTypes, NEW u \in Units PROVE Leads(type, lists[type][u])'
    <3>1. PICK l : l = lists[type][u]
      OBVIOUS
    <3>2. Leads(type, l) /\ config' = config /\ lists'[type][u] = l
      BY <1>1, <3>1, LeadsAll DEF Inv
    <3> QED BY <3>2 DEF Leads, Comb
  <2> QED BY <2>1 DEF AdviceLeadsNext, Leads
<1> QED BY <1>4, <1>7, <1>8, <1>9, <1>10 DEF Inv

--------------------------------------------------------------------------------
(* Generating                                                                  *)

\* One unit of the present call is done, with these advices in its list.
Generated(unit, r, given) ==
    LET rule == Head(calls).rule
        left == Left(rule, unit, r)
        pool == IF r = "ok" /\ unit \notin Tiers THEN flags.pool \ {"advice"} ELSE flags.pool
    IN /\ r \in {"ok", "nodata", "noentry"} /\ (r = "ok" <=> given # <<>>)
       /\ given \in Seq(Advices) /\ Leads(rule.type, given)
       /\ lists' \in AllLists /\ flags' \in AllFlags
       /\ \A type \in AdviceTypes, u \in Units :
             lists'[type][u] = IF type = rule.type /\ u = unit THEN given ELSE lists[type][u]
       /\ steps' = left /\ calls' = IF left = {} THEN Tail(calls) ELSE calls
       /\ \A t \in Tiers : flags'.tier[t] =
             IF r = "ok" /\ t = TierOfUnit(unit) THEN flags.tier[t] \ {"advice"} ELSE flags.tier[t]
       /\ \A d \in Disks : flags'.disk[d] =
             IF r = "ok" /\ d = unit THEN flags.disk[d] \ {"advice"} ELSE flags.disk[d]
       /\ flags'.pool =
             IF left = {} /\ LooksAtTiers(rule, r) /\ \E t \in Comb : "advice" \notin flags'.tier[t]
             THEN pool \ {"advice"} ELSE pool

\* The units of the present call.
LEMMA UnitFits ==
    ASSUME Inv, NEW unit \in steps
    PROVE  /\ phase = "generate" /\ calls # <<>> /\ calls \in Seq(Calls)
           /\ Head(calls) \in Calls /\ Head(calls) = calls[1]
           /\ Valid(Head(calls)) /\ Head(calls).rule.type \in AdviceTypes
           /\ Head(calls).rule.scope \in {"tier", "disk"}
           /\ unit \in UnitsOf(Head(calls).rule) /\ steps \subseteq UnitsOf(Head(calls).rule)
           /\ unit \in Units /\ TierOfUnit(unit) \in Comb
           /\ lists[Head(calls).rule.type][unit] = <<>>
<1>1. /\ phase = "generate" /\ calls # <<>> /\ Valid(Head(calls))
      /\ steps \subseteq UnitsOf(Head(calls).rule)
  BY DEF Inv, Running
<1>2. calls \in Seq(Calls) /\ config \in Configs
  BY DEF Inv, Typed
<1>3. Head(calls) \in Calls /\ Head(calls) = calls[1] /\ 1 \in DOMAIN calls
  BY <1>1, <1>2
<1>4. Head(calls).rule.type \in AdviceTypes
  BY <1>3, CallFits
<1>5. Head(calls).rule.scope \in {"tier", "disk"}
  BY <1>1 DEF Valid, ValidRule
<1>6. unit \in Units /\ TierOfUnit(unit) \in Comb
  BY <1>1, <1>2, ConfigFits DEF UnitsOf, TierOfUnit
<1>7. lists[Head(calls).rule.type][unit] = <<>>
  BY <1>1, <1>3 DEF Inv, Fresh
<1> QED BY <1>1, <1>2, <1>3, <1>4, <1>5, <1>6, <1>7

LEMMA AdviceIs ==
    ASSUME NEW o \in OBJs, NEW f \in Tiers, NEW t \in Tiers, NEW a,
           a = [obj |-> o, from |-> f, to |-> t, chosen |-> FALSE, live |-> TRUE]
    PROVE  a \in Advices /\ a.obj = o /\ a.from = f /\ a.to = t
  BY DEF Advices

\* An advice is given for an OBJ of the unit, towards a tier of the SubPool.
LEMMA GivenFits ==
    ASSUME Inv, NEW unit \in steps, NumOf(Head(calls).rule, unit) # 0,
           NEW os \in SUBSET OBJsOn(unit), NEW yield \in SetToSeqs(os), IsFiniteSet(os),
           NEW given, given = [i \in DOMAIN yield |-> Advice(yield[i], unit, Head(calls).rule)]
    PROVE  given \in Seq(Advices) /\ Leads(Head(calls).rule.type, given)
           /\ (given = <<>> <=> yield = <<>>)
<1> DEFINE rule == Head(calls).rule
           from == TierOfUnit(unit)
           to == TargetTier(Comb, from, rule.type)
<1>1. Comb \in SUBSET Tiers /\ from \in Tiers /\ from \in Comb /\ rule.type \in AdviceTypes
      /\ rule.scope \in {"tier", "disk"} /\ unit \in UnitsOf(rule) /\ config \in Configs
  BY UnitFits, ConfigFits DEF Inv, Typed
<1>2. to # NoTier
  <2>1. CASE rule.scope = "tier"
    <3>1. unit \in Tiers
      BY <1>1, <2>1 DEF UnitsOf
    <3> QED BY <2>1, <3>1 DEF NumOf, TierAdviceNum, AdviceNum, TierOfUnit
  <2>2. CASE rule.scope # "tier"
    <3>1. unit \notin Tiers
      BY <1>1, <2>2, ConfigFits DEF UnitsOf
    <3> QED BY <2>2, <3>1 DEF NumOf, DiskAdviceNum, AdviceNum, TierOfUnit
  <2> QED BY <2>1, <2>2
<1>3. /\ to \in Comb
      /\ IF rule.type \in {"hot", "swapUp"}
         THEN to < from /\ Comb \cap (to + 1 .. from - 1) = {}
         ELSE to > from /\ Comb \cap (from + 1 .. to - 1) = {}
  <2> DEFINE type == rule.type
             comb == Comb
  <2>1. to = TargetTier(comb, from, type) /\ comb \in SUBSET Tiers /\ from \in Tiers
        /\ type \in AdviceTypes /\ to # NoTier
    BY <1>1, <1>2
  <2> HIDE DEF from, rule, to, type, comb
  <2>2. /\ to \in comb
        /\ IF type \in {"hot", "swapUp"}
           THEN to < from /\ comb \cap (to + 1 .. from - 1) = {}
           ELSE to > from /\ comb \cap (from + 1 .. to - 1) = {}
    BY <2>1, TargetFits
  <2> QED BY <2>2 DEF type, comb
<1>4. /\ yield \in [1 .. Cardinality(os) -> os] /\ Cardinality(os) \in Nat
      /\ \A i, j \in 1 .. Cardinality(os) : yield[i] = yield[j] => i = j
  BY FS_CardinalityType DEF SetToSeqs
<1>5. \A o \in os : o \in OBJs /\ TierOf[config.at[o]] = from
  BY <1>1, ConfigFits DEF OBJsOn, TierOfUnit
<1> HIDE DEF from, to, rule
<1>6. \A i \in DOMAIN yield : given[i] = [obj |-> yield[i], from |-> from, to |-> to,
                                        chosen |-> FALSE, live |-> TRUE]
  BY DEF Advice, from, to, rule
<1>7. \A i \in DOMAIN yield : /\ given[i] \in Advices /\ given[i].obj = yield[i]
                             /\ given[i].from = from /\ given[i].to = to
  <2> SUFFICES ASSUME NEW i \in DOMAIN yield
               PROVE  /\ given[i] \in Advices /\ given[i].obj = yield[i]
                      /\ given[i].from = from /\ given[i].to = to
    OBVIOUS
  <2>1. yield[i] \in OBJs
    BY <1>4, <1>5
  <2>2. from \in Tiers /\ to \in Tiers
    BY <1>1, <1>3
  <2>3. given[i] = [obj |-> yield[i], from |-> from, to |-> to, chosen |-> FALSE, live |-> TRUE]
    BY <1>6
  <2> QED BY <2>1, <2>2, <2>3, AdviceIs
<1>8. DOMAIN given = 1 .. Cardinality(os) /\ DOMAIN yield = 1 .. Cardinality(os)
      /\ given = [i \in 1 .. Cardinality(os) |-> given[i]]
  BY <1>4
<1>9. given \in Seq(Advices)
  BY <1>4, <1>7, <1>8, SeqListed
<1>10. Leads(rule.type, given)
  BY <1>3, <1>4, <1>5, <1>7, <1>8 DEF Leads
<1>11. given = <<>> <=> yield = <<>>
  BY <1>4, <1>8, <1>9
<1> QED BY <1>9, <1>10, <1>11 DEF rule

LEMMA GenerateIs ==
    ASSUME Inv, Generate
    PROVE  \E unit \in steps, r \in {"ok", "nodata", "noentry"}, given \in Seq(Advices) :
              Generated(unit, r, given)
<1>0. PICK unit \in steps : \E yield \in Yields(Head(calls), unit) :
          LET rule == Head(calls).rule
              out  == Outcome(Head(calls), unit, yield)
              left == Left(rule, unit, out.ret)
          IN /\ lists' = out.lists /\ steps' = left
             /\ calls' = IF left = {} THEN Tail(calls) ELSE calls
             /\ flags' = IF left = {} /\ LooksAtTiers(rule, out.ret)
                         THEN [out.flags EXCEPT !.pool = PoolFlags(out.flags)]
                         ELSE out.flags
  BY DEF Generate
<1>1. PICK yield \in Yields(Head(calls), unit) :
          LET rule == Head(calls).rule
              out  == Outcome(Head(calls), unit, yield)
              left == Left(rule, unit, out.ret)
          IN /\ lists' = out.lists /\ steps' = left
             /\ calls' = IF left = {} THEN Tail(calls) ELSE calls
             /\ flags' = IF left = {} /\ LooksAtTiers(rule, out.ret)
                         THEN [out.flags EXCEPT !.pool = PoolFlags(out.flags)]
                         ELSE out.flags
  BY <1>0
<1> DEFINE call == Head(calls)
           rule == call.rule
           out == Outcome(call, unit, yield)
           r == out.ret
           left == Left(rule, unit, r)
<1>2. /\ lists' = out.lists /\ steps' = left
      /\ calls' = IF left = {} THEN Tail(calls) ELSE calls
      /\ flags' = IF left = {} /\ LooksAtTiers(rule, r)
                  THEN [out.flags EXCEPT !.pool = PoolFlags(out.flags)]
                  ELSE out.flags
  BY <1>1
<1>3. /\ lists \in AllLists /\ lists[rule.type][unit] = <<>> /\ rule.type \in AdviceTypes
      /\ unit \in Units /\ TierOfUnit(unit) \in Tiers
      /\ flags \in AllFlags
  BY UnitFits, ConfigFits DEF Inv, Typed
<1>4. CASE yield = <<"nodata">> \/ yield = <<>>
  <2>1. /\ out.lists = lists /\ out.flags = flags /\ r \in {"nodata", "noentry"}
    BY <1>4 DEF Outcome
  <2>2. /\ lists' = lists
        /\ flags' = IF left = {} /\ LooksAtTiers(rule, r)
                    THEN [flags EXCEPT !.pool = PoolFlags(flags)] ELSE flags
    BY <1>2, <2>1
  <2> HIDE DEF call, rule, out, r, left
  <2>3. /\ flags'.tier = flags.tier /\ flags'.disk = flags.disk
        /\ flags'.pool = IF left = {} /\ LooksAtTiers(rule, r) THEN PoolFlags(flags) ELSE flags.pool
    BY <1>3, <2>2 DEF AllFlags
  <2>3b. lists' \in AllLists /\ flags' \in AllFlags
    <3>1. PICK p : p = PoolFlags(flags)
      OBVIOUS
    <3>2. p \in SUBSET Flags
      BY <1>3, <3>1 DEF PoolFlags, AllFlags
    <3> QED BY <1>3, <2>2, <3>1, <3>2 DEF AllFlags
  <2> DEFINE given == <<>>
  <2>4. given \in Seq(Advices) /\ given = <<>> /\ Leads(rule.type, given)
    BY DEF Leads
  <2>5. \A type \in AdviceTypes, u \in Units :
             lists'[type][u] = IF type = rule.type /\ u = unit THEN given ELSE lists[type][u]
    BY <1>3, <2>2
  <2>6. Generated(unit, r, given)
    <3>1. /\ steps' = Left(rule, unit, r) /\ calls' = IF Left(rule, unit, r) = {} THEN Tail(calls) ELSE calls
          /\ r # "ok" /\ r \in {"ok", "nodata", "noentry"}
      BY <1>2, <2>1 DEF left
    <3>2. flags'.pool = IF Left(rule, unit, r) = {} /\ LooksAtTiers(rule, r)
                           /\ \E t \in Comb : "advice" \notin flags.tier[t]
                        THEN flags.pool \ {"advice"} ELSE flags.pool
      BY <2>3 DEF PoolFlags, left
    <3>3. rule = Head(calls).rule
      BY DEF rule, call
    <3> HIDE DEF given
    <3> QED BY <3>1, <3>2, <3>3, <2>3, <2>3b, <2>4, <2>5 DEF Generated
  <2> QED BY <2>1, <2>4, <2>6
<1>5. CASE yield # <<"nodata">> /\ yield # <<>>
  <2> DEFINE given == [i \in DOMAIN yield |-> Advice(yield[i], unit, rule)]
             tier == TierOfUnit(unit)
  <2>1. /\ r = "ok" /\ out.lists = [lists EXCEPT ![rule.type][unit] = @ \o given]
        /\ out.flags = [pool |-> flags.pool \ (IF unit \in Tiers THEN {} ELSE {"advice"}),
                        tier |-> [flags.tier EXCEPT ![tier] = @ \ {"advice"}],
                        disk |-> [d \in Disks |-> flags.disk[d] \ (IF d = unit THEN {"advice"}
                                                                   ELSE {})]]
    BY <1>5 DEF Outcome
  <2>2. PICK os \in SUBSET Passes(call.filters, unit) : yield \in SetToSeqs(os)
    BY <1>5 DEF Yields
  <2>3. NumOf(rule, unit) # 0
    BY <1>5 DEF Yields
  <2>4. os \in SUBSET OBJsOn(unit) /\ IsFiniteSet(os)
    <3>1. os \subseteq OBJsOn(unit)
      BY DEF Passes
    <3>2. os \subseteq OBJs
      BY <3>1, ConfigFits DEF OBJsOn, Inv, Typed
    <3> QED BY <3>1, <3>2, ConfigAssumption, FS_Subset
  <2>5. given \in Seq(Advices) /\ Leads(rule.type, given) /\ given # <<>>
    BY <1>5, <2>2, <2>3, <2>4, GivenFits
  <2>6. <<>> \o given = given
    BY <2>5
  <2>7. \A type \in AdviceTypes, u \in Units :
             out.lists[type][u] = IF type = rule.type /\ u = unit THEN given ELSE lists[type][u]
    <3> HIDE DEF given, out, rule
    <3> QED BY <1>3, <2>1, <2>6 DEF AllLists
  <2>8. /\ \A t \in Tiers : out.flags.tier[t] =
             IF t = tier THEN flags.tier[t] \ {"advice"} ELSE flags.tier[t]
        /\ \A d \in Disks : out.flags.disk[d] =
             IF d = unit THEN flags.disk[d] \ {"advice"} ELSE flags.disk[d]
        /\ out.flags.pool = IF unit \notin Tiers THEN flags.pool \ {"advice"} ELSE flags.pool
        /\ out.flags = [pool |-> out.flags.pool, tier |-> out.flags.tier, disk |-> out.flags.disk]
        /\ out.flags \in AllFlags
    <3> DEFINE P1 == flags.pool \ (IF unit \in Tiers THEN {} ELSE {"advice"})
               T1 == [flags.tier EXCEPT ![tier] = @ \ {"advice"}]
               D1 == [d \in Disks |-> flags.disk[d] \ (IF d = unit THEN {"advice"} ELSE {})]
    <3>1. out.flags = [pool |-> P1, tier |-> T1, disk |-> D1]
      BY <2>1
    <3>2. P1 = IF unit \notin Tiers THEN flags.pool \ {"advice"} ELSE flags.pool
      BY <1>3
    <3>3. \A t \in Tiers : T1[t] = IF t = tier THEN flags.tier[t] \ {"advice"} ELSE flags.tier[t]
      BY <1>3 DEF AllFlags
    <3>4. \A d \in Disks : D1[d] = IF d = unit THEN flags.disk[d] \ {"advice"} ELSE flags.disk[d]
      BY <1>3
    <3>5. P1 \in SUBSET Flags /\ T1 \in [Tiers -> SUBSET Flags] /\ D1 \in [Disks -> SUBSET Flags]
      BY <1>3 DEF AllFlags
    <3> HIDE DEF out, tier, P1, T1, D1
    <3>6. out.flags \in AllFlags
      BY <3>1, <3>5 DEF AllFlags
    <3> QED BY <3>1, <3>2, <3>3, <3>4, <3>6
  <2>9. /\ flags'.tier = out.flags.tier /\ flags'.disk = out.flags.disk
        /\ flags'.pool = IF left = {} /\ LooksAtTiers(rule, r) THEN PoolFlags(out.flags) ELSE out.flags.pool
    <3> DEFINE fl == out.flags
    <3>1. flags' = IF left = {} /\ LooksAtTiers(rule, r) THEN [fl EXCEPT !.pool = PoolFlags(fl)] ELSE fl
      BY <1>2
    <3>2. fl = [pool |-> fl.pool, tier |-> fl.tier, disk |-> fl.disk]
      BY <2>8
    <3>3. /\ flags'.tier = fl.tier /\ flags'.disk = fl.disk
          /\ flags'.pool = IF left = {} /\ LooksAtTiers(rule, r) THEN PoolFlags(fl) ELSE fl.pool
      <4> HIDE DEF fl, left, rule, r
      <4> QED BY <3>1, <3>2
    <3> QED BY <3>3
  <2>9b. lists' \in AllLists /\ flags' \in AllFlags
    <3>1. lists' \in AllLists
      <4>1. lists' = [lists EXCEPT ![rule.type][unit] = given]
        <5> HIDE DEF given, out, rule
        <5> QED BY <1>2, <1>3, <2>1, <2>6 DEF AllLists
      <4> HIDE DEF given, rule
      <4> QED BY <1>3, <2>5, <4>1 DEF AllLists
    <3>2. PICK fl : fl = out.flags
      OBVIOUS
    <3>3. PICK p : p = PoolFlags(fl)
      OBVIOUS
    <3>4. fl \in AllFlags /\ p \in SUBSET Flags
      BY <2>8, <3>2, <3>3 DEF PoolFlags, AllFlags
    <3>5. flags' = fl \/ flags' = [fl EXCEPT !.pool = p]
      BY <1>2, <3>2, <3>3
    <3> QED BY <3>1, <3>4, <3>5 DEF AllFlags
  <2>10. Generated(unit, r, given)
    <3> HIDE DEF given, out, r, left, rule, tier
    <3> QED BY <1>2, <2>1, <2>5, <2>7, <2>8, <2>9, <2>9b DEF Generated, PoolFlags, call, rule, left, tier
  <2> QED BY <2>1, <2>5, <2>10
<1> QED BY <1>4, <1>5

LEMMA GenerateStep == ASSUME Inv, Generate PROVE Inv'
<1>1. PICK unit \in steps, r \in {"ok", "nodata", "noentry"}, given \in Seq(Advices) :
         Generated(unit, r, given)
  BY GenerateIs
<1> DEFINE rule == Head(calls).rule
           left == Left(rule, unit, r)
<1>2. config' = config /\ phase' = phase /\ walk' = walk
  BY DEF Generate, readVars
<1>3. /\ phase = "generate" /\ calls # <<>> /\ calls \in Seq(Calls) /\ Head(calls) = calls[1]
      /\ Valid(Head(calls)) /\ rule.type \in AdviceTypes /\ rule.scope \in {"tier", "disk"}
      /\ unit \in UnitsOf(rule) /\ steps \subseteq UnitsOf(rule)
      /\ unit \in Units /\ TierOfUnit(unit) \in Comb
      /\ lists[rule.type][unit] = <<>>
  BY UnitFits
<1>4. /\ r = "ok" <=> given # <<>>
      /\ given \in Seq(Advices) /\ Leads(rule.type, given)
      /\ lists' \in AllLists /\ flags' \in AllFlags
      /\ \A type \in AdviceTypes, u \in Units :
            lists'[type][u] = IF type = rule.type /\ u = unit THEN given ELSE lists[type][u]
      /\ steps' = left /\ calls' = IF left = {} THEN Tail(calls) ELSE calls
  BY <1>1 DEF Generated
<1>5. /\ config \in Configs /\ Comb \subseteq Tiers /\ config.disks \subseteq Disks
      /\ Units = Tiers \cup Disks /\ Disks \cap Tiers = {}
      /\ \A d \in config.disks : TierOf[d] \in Comb
  BY ConfigFits DEF Inv, Typed
<1>6. Comb' = Comb /\ (\A t \in Tiers : DisksOf(t)' = DisksOf(t)) /\ \A q : UnitsOf(q)' = UnitsOf(q)
  BY <1>2 DEF Comb, DisksOf, UnitsOf
<1>7. left \subseteq steps \ {unit}
  BY DEF Left
<1> HIDE DEF rule, left
<1>8. \A u \in Units : Has(u)' <=> Has(u) \/ (u = unit /\ r = "ok")
  BY <1>3, <1>4 DEF Has
<1>9. Some' <=> Some \/ r = "ok"
  BY <1>3, <1>8 DEF Some
<1>10. \A t \in Comb : Below(t)' <=> Below(t) \/ (r = "ok" /\ t = TierOfUnit(unit))
  <2> SUFFICES ASSUME NEW t \in Comb
               PROVE  Below(t)' <=> Below(t) \/ (r = "ok" /\ t = TierOfUnit(unit))
    OBVIOUS
  <2>1. t \in Units /\ t \in Tiers /\ \A d \in DisksOf(t) : d \in Units
    BY <1>5 DEF DisksOf
  <2>2. t = TierOfUnit(unit) <=> t = unit \/ unit \in DisksOf(t)
    <3>1. unit \in Comb \/ unit \in config.disks
      BY <1>3 DEF UnitsOf
    <3> QED BY <1>5, <2>1, <3>1 DEF TierOfUnit, DisksOf
  <2>3. DisksOf(t)' = DisksOf(t)
    BY <1>6, <2>1
  <2> QED BY <1>8, <2>1, <2>2, <2>3 DEF Below
<1>11. Typed'
  <2>1. calls' \in Seq(Calls)
    BY <1>3, <1>4
  <2> QED BY <1>2, <1>4, <2>1 DEF Inv, Typed
<1>12. Fresh'
  <2>1. DOMAIN calls = 1 .. Len(calls) /\ Len(calls) \in Nat /\ Len(calls) > 0
    BY <1>3
  <2>2. ASSUME NEW i \in DOMAIN calls, Valid(calls[i]), NEW u \in UnitsOf(calls[i].rule)
        PROVE  \/ i = 1 /\ (u = unit \/ u \notin steps)
               \/ lists'[calls[i].rule.type][u] = <<>>
    <3>1. calls[i] \in Calls /\ calls[i].rule.type \in AdviceTypes /\ u \in Units
      BY <1>3, <1>5, <2>2, CallFits DEF UnitsOf
    <3>2. \/ i = 1 /\ u \notin steps
          \/ lists[calls[i].rule.type][u] = <<>>
      BY <2>2 DEF Inv, Fresh
    <3>3. CASE calls[i].rule.type = rule.type /\ u = unit
      <4>1. calls[i].rule.scope \in {"tier", "disk"}
        BY <2>2 DEF Valid, ValidRule
      <4>2. calls[i].rule.scope = rule.scope
        BY <1>3, <1>5, <2>2, <3>3, <4>1 DEF UnitsOf
      <4>3. i = 1
        BY <1>3, <2>1, <2>2, <3>3, <4>2 DEF Inv, Fresh, rule
      <4> QED BY <3>3, <4>3
    <3>4. CASE ~ (calls[i].rule.type = rule.type /\ u = unit)
      <4>1. lists'[calls[i].rule.type][u] = lists[calls[i].rule.type][u]
        BY <1>4, <3>1, <3>4
      <4> QED BY <3>2, <4>1
    <3> QED BY <3>3, <3>4
  <2>3. CASE left # {}
    <3>1. calls' = calls /\ steps' = left /\ steps' # {}
      BY <1>4, <2>3
    <3> QED BY <1>6, <1>7, <2>2, <3>1 DEF Inv, Fresh
  <2>4. CASE left = {}
    <3>1. calls' = Tail(calls)
      BY <1>4, <2>4
    <3>2. \A i \in DOMAIN calls' : i + 1 \in DOMAIN calls /\ i \in Int /\ i >= 1 /\ calls'[i] = calls[i + 1]
      BY <1>3, <2>1, <3>1
    <3>3. \A i, j \in DOMAIN calls' :
              /\ Valid(calls'[i]) /\ Valid(calls'[j])
              /\ calls'[i].rule.type = calls'[j].rule.type
              /\ calls'[i].rule.scope = calls'[j].rule.scope
              => i = j
      <4> SUFFICES ASSUME NEW i \in DOMAIN calls', NEW j \in DOMAIN calls',
                          Valid(calls'[i]), Valid(calls'[j]),
                          calls'[i].rule.type = calls'[j].rule.type,
                          calls'[i].rule.scope = calls'[j].rule.scope
                   PROVE  i = j
        OBVIOUS
      <4>1. i + 1 = j + 1
        BY <3>2 DEF Inv, Fresh
      <4> QED BY <3>2, <4>1
    <3>4. \A i \in DOMAIN calls' : Valid(calls'[i]) =>
              \A u \in UnitsOf(calls'[i].rule) : lists'[calls'[i].rule.type][u] = <<>>
      <4> SUFFICES ASSUME NEW i \in DOMAIN calls', Valid(calls'[i]),
                          NEW u \in UnitsOf(calls'[i].rule)
                   PROVE  lists'[calls'[i].rule.type][u] = <<>>
        OBVIOUS
      <4>1. i + 1 # 1 /\ i + 1 \in DOMAIN calls /\ calls'[i] = calls[i + 1]
        BY <3>2
      <4> QED BY <2>2, <4>1
    <3> QED BY <1>6, <3>3, <3>4 DEF Fresh
  <2> QED BY <2>3, <2>4
<1>13. Running'
  <2>1. steps' # {} => /\ phase' = "generate" /\ calls' = calls /\ calls # <<>> /\ Valid(Head(calls))
                      /\ steps' \subseteq UnitsOf(rule)
    BY <1>2, <1>3, <1>4, <1>7
  <2>2. \A u \in Units : Has(u)' => u \in Comb \cup config.disks
    BY <1>3, <1>8 DEF Inv, Running, UnitsOf
  <2>3. Comb # {}
    BY <1>3
  <2> QED BY <1>2, <1>3, <1>6, <2>1, <2>2, <2>3 DEF Running, rule
<1>14. Told'
  <2>1. /\ \A t \in Tiers : flags'.tier[t] =
             IF r = "ok" /\ t = TierOfUnit(unit) THEN flags.tier[t] \ {"advice"} ELSE flags.tier[t]
        /\ \A d \in Disks : flags'.disk[d] =
             IF r = "ok" /\ d = unit THEN flags.disk[d] \ {"advice"} ELSE flags.disk[d]
        /\ flags'.pool =
             LET pool == IF r = "ok" /\ unit \notin Tiers THEN flags.pool \ {"advice"} ELSE flags.pool
             IN IF left = {} /\ LooksAtTiers(rule, r) /\ \E t \in Comb : "advice" \notin flags'.tier[t]
                THEN pool \ {"advice"} ELSE pool
    BY <1>1 DEF Generated, rule, left
  <2>2. /\ \A t \in Comb : "advice" \notin flags.tier[t] <=> Below(t)
        /\ \A d \in config.disks : "advice" \notin flags.disk[d] <=> Has(d)
        /\ "advice" \notin flags.pool => Some
        /\ Some /\ "advice" \in flags.pool => rule.scope = "tier" /\ steps # Comb
    BY <1>3 DEF Inv, Told, rule
  <2>3. \A t \in Comb : "advice" \notin flags'.tier[t] <=> Below(t)'
    BY <1>5, <1>10, <2>1, <2>2
  <2>4. \A d \in config.disks : "advice" \notin flags'.disk[d] <=> Has(d)'
    BY <1>5, <1>8, <2>1, <2>2
  <2>5. \A u \in Units : Has(u)' => \E t \in Comb : Below(t)'
    <3> SUFFICES ASSUME NEW u \in Units, Has(u)' PROVE \E t \in Comb : Below(t)'
      OBVIOUS
    <3>1. u \in Comb \cup config.disks
      BY <1>3, <1>8 DEF Inv, Running, UnitsOf
    <3>2. CASE u \in Comb
      BY <3>2 DEF Below
    <3>3. CASE u \in config.disks
      <4>1. TierOf[u] \in Comb /\ u \in DisksOf(TierOf[u]) /\ TierOf[u] \in Tiers
        BY <1>5, <3>3 DEF DisksOf
      <4>2. u \in DisksOf(TierOf[u])'
        BY <1>2, <4>1 DEF DisksOf
      <4> QED BY <4>1, <4>2 DEF Below
    <3> QED BY <3>1, <3>2, <3>3
  <2>6. \A t \in Comb : Below(t)' => Some'
    <3> SUFFICES ASSUME NEW t \in Comb, Below(t)' PROVE Some'
      OBVIOUS
    <3>1. Below(t) \/ r = "ok"
      BY <1>10
    <3>2. Below(t) => Some
      BY <1>5 DEF Below, Some, DisksOf
    <3> QED BY <1>9, <3>1, <3>2
  <2>7. "advice" \notin flags'.pool => Some'
    BY <1>9, <2>1, <2>2, <2>3, <2>6
  <2>8. ASSUME Some', "advice" \in flags'.pool
        PROVE  left # {} /\ rule.scope = "tier" /\ left # Comb
    <3>1. "advice" \in flags.pool
      BY <2>1, <2>8
    <3>2. CASE rule.scope = "disk"
      <4>1. unit \notin Tiers
        BY <1>3, <1>5, <3>2 DEF UnitsOf
      <4>2. r # "ok"
        BY <2>1, <2>8, <4>1
      <4> QED BY <1>9, <2>2, <2>8, <3>1, <3>2, <4>2
    <3>3. CASE rule.scope = "tier"
      <4>1. steps \subseteq Comb /\ unit \in Comb
        BY <1>3, <3>3 DEF UnitsOf
      <4>2. left # Comb
        BY <1>7, <4>1
      <4>3. CASE LooksAtTiers(rule, r) /\ left = {}
        <5>1. \A t \in Comb : ~Below(t)'
          BY <2>1, <2>3, <2>8, <4>3
        <5> QED BY <2>5, <2>8, <5>1 DEF Some, Units
      <4>4. CASE ~LooksAtTiers(rule, r) /\ left = {}
        <5>1. r # "ok" /\ steps = Comb
          <6>1. CASE Cardinality(Comb) = 1
            <7>1. IsFiniteSet(Comb)
              <8>1. Comb \in SUBSET Nat /\ 2 \in Nat /\ \A t \in Comb : t <= 2
                BY <1>5 DEF Tiers
              <8> QED BY <8>1, FS_BoundedSetOfNaturals
            <7>2. PICK x : Comb = {x}
              BY <6>1, <7>1, FS_Singleton
            <7>3. steps = Comb
              BY <4>1, <7>2
            <7>4. r # "ok"
              BY <3>3, <4>4, <6>1 DEF LooksAtTiers
            <7> QED BY <7>3, <7>4
          <6>2. CASE Cardinality(Comb) # 1
            <7>1. steps = Tiers
              BY <3>3, <4>4, <6>2 DEF LooksAtTiers
            <7>2. steps \ {unit} # {}
              <8>1. 0 \in steps /\ 1 \in steps
                BY <7>1 DEF Tiers
              <8> QED BY <8>1
            <7>3. r # "ok"
              BY <4>4, <7>2 DEF left, Left
            <7> QED BY <1>5, <4>1, <7>1, <7>3
          <6> QED BY <6>1, <6>2
        <5> QED BY <1>9, <2>2, <2>8, <3>1, <5>1
      <4> QED BY <3>3, <4>2, <4>3, <4>4
    <3> QED BY <1>3, <3>2, <3>3
  <2>9. ASSUME Some', "advice" \in flags'.pool
        PROVE  steps' # {} /\ Head(calls').rule.scope = "tier" /\ steps' # Comb'
    BY <1>4, <1>6, <2>8, <2>9 DEF rule
  <2> QED BY <1>2, <1>6, <2>3, <2>4, <2>7, <2>9 DEF Told
<1>15. AdviceLeadsNext'
  <2>1. ASSUME NEW type \in AdviceTypes, NEW u \in Units PROVE Leads(type, lists[type][u])'
    <3>1. PICK l : l = IF type = rule.type /\ u = unit THEN given ELSE lists[type][u]
      OBVIOUS
    <3>2. Leads(type, l)
      BY <1>4, <3>1, LeadsAll DEF Inv
    <3>3. config' = config /\ lists'[type][u] = l
      BY <1>2, <1>4, <3>1
    <3> QED BY <3>2, <3>3 DEF Leads, Comb
  <2> QED BY <2>1 DEF AdviceLeadsNext, Leads
<1> QED BY <1>11, <1>12, <1>13, <1>14, <1>15 DEF Inv

--------------------------------------------------------------------------------
(* The theorems                                                                *)

LEMMA InvStep == Inv /\ [Next]_vars => Inv'
<1> SUFFICES ASSUME Inv, [Next]_vars PROVE Inv'
  OBVIOUS
<1>1. CASE OpenWindow
  BY <1>1, OpenStep
<1>2. CASE PreGenerateCheck
  BY <1>2, CheckStep
<1>3. CASE BeginCall
  BY <1>3, BeginStep
<1>4. CASE Generate
  BY <1>4, GenerateStep
<1>5. CASE \/ \E type \in AdviceTypes : First(type) \/ \E d \in Disks : FirstOn(type, d)
           \/ Refuse \/ RefuseOn \/ Choose
  BY <1>5, ReadStep
<1>6. CASE UNCHANGED vars
  <2>1. /\ config' = config /\ flags' = flags /\ calls' = calls /\ steps' = steps
        /\ lists' = lists /\ phase' = phase /\ walk' = walk
    BY <1>6 DEF vars, genVars, readVars
  <2>2. Comb' = Comb /\ (\A t : DisksOf(t)' = DisksOf(t)) /\ (\A q : UnitsOf(q)' = UnitsOf(q))
        /\ (\A u : Has(u)' = Has(u)) /\ Some' = Some
    BY <2>1 DEF Comb, DisksOf, UnitsOf, Has, Some
  <2>3. \A t : Below(t)' = Below(t)
    BY <2>2 DEF Below
  <2>4. Typed' /\ Running'
    BY <2>1, <2>2 DEF Inv, Typed, Running
  <2>5. Fresh'
    BY <2>1, <2>2 DEF Inv, Fresh
  <2>6. Told'
    BY <2>1, <2>2, <2>3 DEF Inv, Told
  <2>7. AdviceLeadsNext'
    <3>1. ASSUME NEW type \in AdviceTypes, NEW u \in Units PROVE Leads(type, lists[type][u])'
      <4>1. Leads(type, lists[type][u])
        BY LeadsAll DEF Inv
      <4> QED BY <2>1, <4>1 DEF Leads, Comb
    <3> QED BY <3>1 DEF AdviceLeadsNext, Leads
  <2> QED BY <2>4, <2>5, <2>6, <2>7 DEF Inv
<1> QED BY <1>1, <1>2, <1>3, <1>4, <1>5, <1>6 DEF Next

LEMMA InvHolds == Spec => []Inv
<1>1. Init => Inv
  BY InitInv
<1>2. Inv /\ [Next]_vars => Inv'
  BY InvStep
<1> QED BY <1>1, <1>2, PTL DEF Spec

\* Every advice that RelocationAdvice gives, in every window and whatever the
\* configuration becomes, moves an OBJ to the next tier of its SubPool on the
\* wanted side, and no list has two of an OBJ.
THEOREM AdviceLeadsNextHolds == Spec => []AdviceLeadsNext
<1>1. Inv => AdviceLeadsNext
  BY DEF Inv
<1> QED BY <1>1, InvHolds, PTL

\* When a window is ready, the flags that are kept in the configuration from
\* window to window tell where there is advice, for the SubPool, its tiers and
\* its disks.
THEOREM FlagsTellHolds == Spec => []FlagsTell
<1>1. Inv => FlagsTell
  <2> SUFFICES ASSUME Inv, phase = "ready" PROVE FlagsTell
    BY DEF FlagsTell
  <2>1. steps = {}
    BY DEF Inv, Running
  <2>2. "advice" \notin flags.pool <=> Some
    BY <2>1 DEF Inv, Told
  <2>3. \A t \in Comb : "advice" \notin flags.tier[t] <=> Below(t)
    BY DEF Inv, Told
  <2>4. \A d \in config.disks : "advice" \notin flags.disk[d] <=> Has(d)
    BY DEF Inv, Told
  <2> QED BY <2>2, <2>3, <2>4 DEF FlagsTell, Has, Below, Some
<1> QED BY <1>1, InvHolds, PTL

--------------------------------------------------------------------------------
(* Turns of the tiers.  N is the number of advices of each tier, X the places   *)
(* of those that are chosen or were given, k a cursor.                          *)

Cursors == [last : Tiers \cup {NoTier}, took : [Tiers -> Nat]]
At(t, i) == [unit |-> t, at |-> i]
Place(k) == At(k.last, k.took[k.last])

\* What NextTier finds.
Following(N, k) ==
    LET left  == {t \in Tiers : k.took[t] < N[t]}
        after == {t \in left : t > k.last}
    IN IF k.last = NoTier THEN NoTier ELSE Lowest(IF after # {} THEN after ELSE left)

\* Of the tiers with advices left those up to the last one are a turn ahead, and
\* no other is further; once there is no last one, all advices were taken.
InTurn(N, k) ==
    IF k.last = NoTier THEN \A t \in Tiers : k.took[t] = N[t]
    ELSE /\ k.took[k.last] >= 1
         /\ \A t \in Tiers : t <= k.last => /\ k.took[t] <= k.took[k.last]
                                            /\ k.took[t] < N[t] => k.took[t] = k.took[k.last]
         /\ \A t \in Tiers : t > k.last => /\ k.took[t] < k.took[k.last]
                                           /\ k.took[t] < N[t] => k.took[t] = k.took[k.last] - 1

\* All places passed are done with, but the one where the cursor stands.
Settled(X, k) ==
    \A t \in Tiers : \A i \in 1 .. k.took[t] :
        At(t, i) \in X \/ (t = k.last /\ i = k.took[t])

Fits(N, X, k) ==
    /\ k \in Cursors /\ \A t \in Tiers : k.took[t] <= N[t]
    /\ InTurn(N, k) /\ Settled(X, k)

LEMMA LowestIs ==
    ASSUME NEW S \in SUBSET Tiers
    PROVE  IF S = {} THEN Lowest(S) = NoTier ELSE Lowest(S) \in S /\ \A u \in S : Lowest(S) <= u
<1>1. CASE S = {}
  BY <1>1 DEF Lowest
<1>2. CASE S # {}
  <2>1. \E t \in S : \A u \in S : t <= u
    BY <1>2, Extremes
  <2> QED BY <1>2, <2>1, Zenon DEF Lowest
<1> QED BY <1>1, <1>2

\* The first of the tiers with advices left behind the last one, or else the first.
LEMMA FollowingIs ==
    ASSUME NEW N \in [Tiers -> Nat], NEW k \in Cursors, k.last # NoTier, NEW n, n = Following(N, k)
    PROVE  \/ n = NoTier /\ \A t \in Tiers : ~(k.took[t] < N[t])
           \/ /\ n \in Tiers /\ k.took[n] < N[n] /\ n > k.last
              /\ \A t \in Tiers : k.took[t] < N[t] /\ t > k.last => n <= t
           \/ /\ n \in Tiers /\ k.took[n] < N[n]
              /\ \A t \in Tiers : k.took[t] < N[t] => n <= t /\ t <= k.last
<1> DEFINE left == {t \in Tiers : k.took[t] < N[t]}
           after == {t \in left : t > k.last}
<1>1. n = Lowest(IF after # {} THEN after ELSE left)
  BY Zenon DEF Following
<1>2. left \in SUBSET Tiers /\ after \in SUBSET Tiers
  OBVIOUS
<1>3. CASE after # {}
  <2>1. n = Lowest(after)
    BY <1>1, <1>3
  <2>2. n \in after /\ \A u \in after : n <= u
    BY ONLY <1>2, <1>3, <2>1, LowestIs
  <2> QED BY <2>2
<1>4. CASE after = {} /\ left # {}
  <2>1. n = Lowest(left)
    BY <1>1, <1>4
  <2>2. n \in left /\ \A u \in left : n <= u
    BY ONLY <1>2, <1>4, <2>1, LowestIs
  <2>3. \A t \in left : t <= k.last
    BY <1>4 DEF Tiers, Cursors, NoTier
  <2> QED BY <2>2, <2>3
<1>5. CASE after = {} /\ left = {}
  <2>1. n = NoTier
    BY <1>1, <1>2, <1>5, LowestIs
  <2> QED BY <1>5, <2>1
<1> QED BY <1>3, <1>4, <1>5

\* A turn more, from a place that is done with.
LEMMA TurnFits ==
    ASSUME NEW N \in [Tiers -> Nat], NEW X, NEW k, Fits(N, X, k), k.last # NoTier,
           Place(k) \in X, NEW m, m = Taken(k, Following(N, k))
    PROVE  /\ Fits(N, X, m)
           /\ \A t \in Tiers : k.took[t] <= m.took[t]
           /\ m.last # NoTier => /\ m.took[m.last] = k.took[m.last] + 1
                                 /\ \A t \in Tiers : t # m.last => m.took[t] = k.took[t]
<1>0. k \in Cursors /\ k.last \in Tiers
  BY DEF Fits, Cursors
<1>1. PICK n : n = Following(N, k)
  OBVIOUS
<1>2. m = Taken(k, n)
  BY <1>1
<1>3. \A t \in Tiers : \A i \in 1 .. k.took[t] : At(t, i) \in X
  BY DEF Fits, Settled, Place
<1>4. CASE n = NoTier
  <2>0. n \notin Tiers
    BY <1>4 DEF Tiers, NoTier
  <2>1. \A t \in Tiers : ~(k.took[t] < N[t])
    BY <1>0, <1>1, <2>0, FollowingIs
  <2>2. m = [k EXCEPT !.last = NoTier]
    BY <1>2, <1>4 DEF Taken
  <2>3. m \in Cursors /\ m.last = NoTier /\ m.took = k.took
    BY <1>0, <2>2 DEF Cursors
  <2>4. \A t \in Tiers : m.took[t] = N[t]
    BY <1>0, <2>1, <2>3 DEF Fits, Cursors
  <2>5. InTurn(N, m) /\ Settled(X, m)
    BY <1>3, <2>3, <2>4 DEF InTurn, Settled
  <2> QED BY <1>0, <2>3, <2>4, <2>5 DEF Fits, Cursors
<1>5. CASE n # NoTier
  <2>0. /\ n \in Tiers /\ k.took[n] < N[n]
        /\ \/ n > k.last /\ \A t \in Tiers : k.took[t] < N[t] /\ t > k.last => n <= t
           \/ \A t \in Tiers : k.took[t] < N[t] => n <= t /\ t <= k.last
    BY <1>0, <1>1, <1>5, FollowingIs
  <2>1. m = [last |-> n, took |-> [k.took EXCEPT ![n] = @ + 1]]
    BY <1>2, <1>5 DEF Taken
  <2>2. /\ m.last = n /\ m.took \in [Tiers -> Nat] /\ m.took[n] = k.took[n] + 1
        /\ \A t \in Tiers : t # n => m.took[t] = k.took[t]
    BY <1>0, <2>0, <2>1 DEF Cursors
  <2>3. m \in Cursors
    BY <2>0, <2>1, <2>2 DEF Cursors
  <2>4. \A t \in Tiers : m.took[t] <= N[t] /\ k.took[t] <= m.took[t]
    BY <1>0, <2>0, <2>2 DEF Fits, Cursors
  <2>5. InTurn(N, k)
    BY DEF Fits
  <2>6. \A t \in Tiers : k.took[t] \in Nat /\ N[t] \in Nat /\ t \in Int
    BY <1>0 DEF Cursors, Tiers
  <2>7. PICK l \in Tiers : l = k.last
    BY <1>0
  <2>8. /\ k.took[l] >= 1
        /\ \A t \in Tiers : t <= l => /\ k.took[t] <= k.took[l]
                                      /\ k.took[t] < N[t] => k.took[t] = k.took[l]
        /\ \A t \in Tiers : t > l => /\ k.took[t] < k.took[l]
                                     /\ k.took[t] < N[t] => k.took[t] = k.took[l] - 1
    BY <2>5, <2>7 DEF InTurn
  <2>9. InTurn(N, m)
    <3>1. CASE n > l
      <4>1. k.took[n] = k.took[l] - 1
        BY <2>0, <2>8, <3>1
      <4>2. m.took[n] = k.took[l]
        BY <2>2, <2>6, <2>7, <4>1
      <4>3. \A t \in Tiers : t <= n => /\ m.took[t] <= m.took[n]
                                       /\ m.took[t] < N[t] => m.took[t] = m.took[n]
        BY <2>0, <2>2, <2>6, <2>7, <2>8, <3>1, <4>2
      <4>4. \A t \in Tiers : t > n => /\ m.took[t] < m.took[n]
                                      /\ m.took[t] < N[t] => m.took[t] = m.took[n] - 1
        BY <2>0, <2>2, <2>6, <2>7, <2>8, <3>1, <4>2
      <4>5. m.took[n] >= 1
        BY <2>2, <2>6, <2>0
      <4> QED BY <1>5, <2>2, <4>3, <4>4, <4>5 DEF InTurn
    <3>2. CASE n <= l
      <4>0. \A t \in Tiers : k.took[t] < N[t] => n <= t /\ t <= l
        BY <2>0, <2>6, <2>7, <3>2
      <4>1. m.took[n] = k.took[l] + 1
        BY <2>0, <2>2, <2>6, <2>8, <3>2
      <4>3. \A t \in Tiers : t <= n => /\ m.took[t] <= m.took[n]
                                       /\ m.took[t] < N[t] => m.took[t] = m.took[n]
        BY <2>0, <2>2, <2>6, <2>8, <4>0, <4>1
      <4>4. \A t \in Tiers : t > n => /\ m.took[t] < m.took[n]
                                      /\ m.took[t] < N[t] => m.took[t] = m.took[n] - 1
        BY <2>0, <2>2, <2>6, <2>8, <4>0, <4>1
      <4>5. m.took[n] >= 1
        BY <2>2, <2>6, <2>0
      <4> QED BY <1>5, <2>2, <4>3, <4>4, <4>5 DEF InTurn
    <3> QED BY <2>0, <2>6, <3>1, <3>2
  <2>10. Settled(X, m)
    <3> SUFFICES ASSUME NEW t \in Tiers, NEW i \in 1 .. m.took[t], ~(t = m.last /\ i = m.took[t])
                 PROVE  At(t, i) \in X
      BY DEF Settled
    <3>1. i \in 1 .. k.took[t]
      BY <2>0, <2>2, <2>6
    <3> QED BY <1>3, <3>1
  <2> QED BY <1>5, <2>2, <2>3, <2>4, <2>9, <2>10 DEF Fits
<1> QED BY <1>4, <1>5

\* The first turn.
LEMMA FirstFits ==
    ASSUME NEW N \in [Tiers -> Nat], NEW X, NEW n, n = Lowest({t \in Tiers : N[t] # 0}),
           NEW m, m = Taken(NoCursor, n)
    PROVE  Fits(N, X, m)
<1> DEFINE left == {t \in Tiers : N[t] # 0}
<1>0. left \in SUBSET Tiers /\ NoCursor \in Cursors /\ \A t \in Tiers : NoCursor.took[t] = 0
  BY DEF NoCursor, Cursors
<1>1. CASE left = {}
  <2>1. n = NoTier
    BY <1>0, <1>1, LowestIs
  <2>2. m = [NoCursor EXCEPT !.last = NoTier]
    BY <2>1 DEF Taken
  <2>3. m.last = NoTier /\ m \in Cursors /\ \A t \in Tiers : m.took[t] = 0 /\ N[t] = 0
    BY <1>0, <1>1, <2>2 DEF NoCursor, Cursors
  <2> QED BY <2>3 DEF Fits, InTurn, Settled, Cursors
<1>2. CASE left # {}
  <2>1. n \in left /\ \A u \in left : n <= u
    BY <1>0, <1>2, LowestIs
  <2>2. n # NoTier
    BY <2>1 DEF Tiers, NoTier
  <2>3. m = [last |-> n, took |-> [NoCursor.took EXCEPT ![n] = @ + 1]]
    BY <2>2 DEF Taken
  <2>0. PICK f \in [Tiers -> Nat] : f = NoCursor.took /\ \A t \in Tiers : f[t] = 0
    BY <1>0 DEF Cursors
  <2>9. n \in Tiers
    BY <2>1
  <2>10. PICK g : g = [f EXCEPT ![n] = f[n] + 1]
    OBVIOUS
  <2>11. g \in [Tiers -> Nat] /\ g[n] = 1 /\ \A t \in Tiers : t # n => g[t] = 0
    BY ONLY <2>0, <2>9, <2>10
  <2>12. m = [last |-> n, took |-> g]
    BY <2>0, <2>3, <2>10
  <2>4. m \in Cursors /\ m.last = n /\ m.took[n] = 1 /\ \A t \in Tiers : t # n => m.took[t] = 0
    BY ONLY <2>9, <2>11, <2>12 DEF Cursors
  <2>5. \A t \in Tiers : N[t] \in Nat /\ t \in Int
    BY DEF Tiers
  <2>6. InTurn(N, m)
    <3>0. ASSUME NEW t \in Tiers, t < n PROVE N[t] = 0
      <4>1. ~(n <= t)
        BY <2>5, <2>9, <3>0
      <4> QED BY <2>1, <4>1
    <3>1. ASSUME NEW t \in Tiers, t <= n
          PROVE  m.took[t] <= 1 /\ (m.took[t] < N[t] => m.took[t] = 1)
      <4>1. CASE t = n
        BY <2>4, <4>1
      <4>2. CASE t < n
        <5>1. m.took[t] = 0 /\ N[t] = 0
          BY <2>4, <2>5, <2>9, <3>0, <4>2
        <5> QED BY <5>1
      <4> QED BY <2>5, <2>9, <3>1, <4>1, <4>2
    <3>2. ASSUME NEW t \in Tiers, t > n
          PROVE  m.took[t] < 1 /\ (m.took[t] < N[t] => m.took[t] = 1 - 1)
      <4>1. m.took[t] = 0
        BY <2>4, <2>5, <2>9, <3>2
      <4> QED BY <4>1
    <3>3. m.last = n /\ n # NoTier /\ m.took[m.last] = 1
      BY <2>2, <2>4
    <3>4. \A t \in Tiers : t <= m.last =>
             m.took[t] <= m.took[m.last] /\ (m.took[t] < N[t] => m.took[t] = m.took[m.last])
      BY <3>1, <3>3
    <3>5. \A t \in Tiers : t > m.last =>
             m.took[t] < m.took[m.last] /\ (m.took[t] < N[t] => m.took[t] = m.took[m.last] - 1)
      BY <3>2, <3>3
    <3>6. m.took[m.last] >= 1
      BY <3>3
    <3> QED BY <3>3, <3>4, <3>5, <3>6, Zenon DEF InTurn
  <2>7. Settled(X, m)
    BY <2>4 DEF Settled
  <2>8. \A t \in Tiers : m.took[t] <= N[t]
    BY <2>1, <2>4, <2>5
  <2> QED BY <2>4, <2>6, <2>7, <2>8 DEF Fits
<1> QED BY <1>1, <1>2

--------------------------------------------------------------------------------
(* The search of Get...AdviceSatisfy                                            *)

LEMMA LeastExists ==
    ASSUME NEW T, T \subseteq Nat, T # {}
    PROVE  \E n \in T : \A m \in T : n <= m
<1>1. PICK R : IsWellFoundedOn(R, Nat) /\ \A a, b \in Nat : a < b => <<a, b>> \in R
  <2> DEFINE W == OpToRel(<, Nat)
  <2>1. IsWellFoundedOn(W, Nat)
    BY NatLessThanWellFounded
  <2>2. \A a, b \in Nat : a < b => <<a, b>> \in W
    BY DEF OpToRel
  <2> HIDE DEF W
  <2> QED BY <2>1, <2>2
<1>2. PICK x \in T : \A y \in T : ~(<<y, x>> \in R)
  <2>1. IsWellFoundedOn(R, Nat)
    BY <1>1
  <2>2. T \subseteq Nat /\ T # {}
    OBVIOUS
  <2> HIDE <1>1
  <2> QED BY <2>1, <2>2, WFMin, ZenonT(30)
<1>3. \A y \in T : ~(y < x)
  BY <1>1, <1>2
<1> QED BY <1>3

\* The advices of the tiers, in numbers, and the places of those that are chosen.
Lens(L) == [t \in Tiers |-> Len(L[t])]
Chosen(L) == {p \in [unit : Tiers, at : Nat] : p.at \in DOMAIN L[p.unit] /\ L[p.unit][p.at].chosen}
TierLists == {L \in [Units -> Seq(Advices)] : TRUE}

\* A cursor of a walk that gave the places G: they lie before it.
Behind(G, k) == \A p \in G : p.unit \in Tiers /\ p.at \in Nat /\ p.at <= k.took[p.unit]
Sound(L, G, k) ==
    /\ Fits(Lens(L), Chosen(L) \cup G, k) /\ Behind(G, k)
    /\ k.last # NoTier => Place(k) \notin G

Total(k) == k.took[0] + k.took[1] + k.took[2]
Found(L, k) == k.last = NoTier \/ ~L[k.last][k.took[k.last]].chosen

LEMMA LensFit ==
    ASSUME NEW L \in TierLists
    PROVE  Lens(L) \in [Tiers -> Nat] /\ \A t \in Tiers : Lens(L)[t] = Len(L[t]) /\ L[t] \in Seq(Advices)
  BY DEF Lens, TierLists, Units

LEMMA PlaceIs ==
    ASSUME NEW N, NEW X, NEW k, Fits(N, X, k), N \in [Tiers -> Nat], k.last # NoTier
    PROVE  /\ k.last \in Tiers /\ k.took[k.last] \in 1 .. N[k.last]
           /\ Place(k).unit = k.last /\ Place(k).at = k.took[k.last]
           /\ Place(k) \in [unit : Tiers, at : Nat]
<1>1. k.last \in Tiers /\ k.took[k.last] \in Nat /\ k.took[k.last] >= 1 /\ k.took[k.last] <= N[k.last]
  BY DEF Fits, Cursors, InTurn
<1>2. Place(k).unit = k.last /\ Place(k).at = k.took[k.last] /\ Place(k) = [unit |-> k.last, at |-> k.took[k.last]]
  BY DEF Place, At
<1> QED BY <1>1, <1>2

LEMMA SumsOfThree ==
    /\ \A a, b, c \in Nat : a + b + c \in Nat
    /\ \A a, b, c \in Nat : (a + 1) + b + c = a + b + c + 1
    /\ \A a, b, c \in Nat : a + (b + 1) + c = a + b + c + 1
    /\ \A a, b, c \in Nat : a + b + (c + 1) = a + b + c + 1
    /\ \A a, b, c, x, y, z \in Nat : x <= a /\ y <= b /\ z <= c => x + y + z <= a + b + c
  OBVIOUS

\* A turn from a place that is chosen or given, to one that was not given.
LEMMA TurnSound ==
    ASSUME NEW L \in TierLists, NEW G, NEW k, Fits(Lens(L), Chosen(L) \cup G, k), Behind(G, k),
           k.last # NoTier, Place(k) \in Chosen(L) \cup G,
           NEW m, m = Taken(k, Following(Lens(L), k))
    PROVE  Sound(L, G, m) /\ (m.last # NoTier => Total(m) = Total(k) + 1)
<1>0. Lens(L) \in [Tiers -> Nat]
  BY LensFit
<1>01. PICK N \in [Tiers -> Nat] : N = Lens(L)
  BY <1>0
<1>02. PICK X : X = Chosen(L) \cup G
  OBVIOUS
<1>03. Fits(N, X, k) /\ k.last # NoTier /\ Place(k) \in X /\ m = Taken(k, Following(N, k))
  BY <1>01, <1>02
<1>04. /\ Fits(N, X, m)
       /\ \A t \in Tiers : k.took[t] <= m.took[t]
       /\ m.last # NoTier => /\ m.took[m.last] = k.took[m.last] + 1
                             /\ \A t \in Tiers : t # m.last => m.took[t] = k.took[t]
  BY ONLY <1>01, <1>03, TurnFits
<1>1. /\ Fits(Lens(L), Chosen(L) \cup G, m)
      /\ \A t \in Tiers : k.took[t] <= m.took[t]
      /\ m.last # NoTier => /\ m.took[m.last] = k.took[m.last] + 1
                            /\ \A t \in Tiers : t # m.last => m.took[t] = k.took[t]
  BY <1>01, <1>02, <1>04
<1>2. \A t \in Tiers : k.took[t] \in Nat /\ m.took[t] \in Nat
  BY <1>1 DEF Fits, Cursors
<1>3. Behind(G, m)
  BY <1>1, <1>2 DEF Behind
<1>4. ASSUME m.last # NoTier PROVE Place(m) \notin G /\ Total(m) = Total(k) + 1
  <2>1. m.last \in Tiers /\ Place(m).unit = m.last /\ Place(m).at = m.took[m.last]
    BY <1>0, <1>1, <1>4, PlaceIs
  <2>2. Place(m) \notin G
    BY <1>1, <1>2, <1>4, <2>1 DEF Behind
  <2>3. m.last \in {0, 1, 2} /\ 0 \in Tiers /\ 1 \in Tiers /\ 2 \in Tiers
    BY <2>1 DEF Tiers
  <2>7. PICK a \in Nat, b \in Nat, c \in Nat : a = k.took[0] /\ b = k.took[1] /\ c = k.took[2]
    BY <1>2, <2>3
  <2>8. Total(k) = a + b + c
    BY ONLY <2>7 DEF Total
  <2>4. CASE m.last = 0
    <3>1. m.took[0] = k.took[0] + 1 /\ m.took[1] = k.took[1] /\ m.took[2] = k.took[2]
      BY <1>1, <1>4, <2>3, <2>4
    <3>2. Total(m) = (a + 1) + b + c
      BY ONLY <2>7, <3>1 DEF Total
    <3>3. Total(m) = Total(k) + 1
      BY ONLY <2>8, <3>2, SumsOfThree
    <3> QED BY <2>2, <3>3
  <2>5. CASE m.last = 1
    <3>1. m.took[0] = k.took[0] /\ m.took[1] = k.took[1] + 1 /\ m.took[2] = k.took[2]
      BY <1>1, <1>4, <2>3, <2>5
    <3>2. Total(m) = a + (b + 1) + c
      BY ONLY <2>7, <3>1 DEF Total
    <3>3. Total(m) = Total(k) + 1
      BY ONLY <2>8, <3>2, SumsOfThree
    <3> QED BY <2>2, <3>3
  <2>6. CASE m.last = 2
    <3>1. m.took[0] = k.took[0] /\ m.took[1] = k.took[1] /\ m.took[2] = k.took[2] + 1
      BY <1>1, <1>4, <2>3, <2>6
    <3>2. Total(m) = a + b + (c + 1)
      BY ONLY <2>7, <3>1 DEF Total
    <3>3. Total(m) = Total(k) + 1
      BY ONLY <2>8, <3>2, SumsOfThree
    <3> QED BY <2>2, <3>3
  <2> QED BY <2>2, <2>3, <2>4, <2>5, <2>6
<1> QED BY <1>1, <1>3, <1>4 DEF Sound

LEMMA NextIs ==
    ASSUME lists \in AllLists, NEW type \in AdviceTypes, NEW k
    PROVE  NextTier(type, k) = Following(Lens(lists[type]), k) /\ lists[type] \in TierLists
<1>1. lists[type] \in TierLists
  BY DEF AllLists, TierLists
<1>2. \A t \in Tiers : Lens(lists[type])[t] = Len(lists[type][t])
  BY <1>1, LensFit
<1>3. {t \in Tiers : k.took[t] < Len(lists[type][t])} = {t \in Tiers : k.took[t] < Lens(lists[type])[t]}
  BY <1>2
<1> QED BY <1>1, <1>3, Zenon DEF NextTier, Following

LEMMA PassedIs ==
    ASSUME lists \in AllLists, NEW type \in AdviceTypes, NEW G, NEW k, Sound(lists[type], G, k),
           NEW m, m = Passed(type, k)
    PROVE  /\ Sound(lists[type], G, m)
           /\ IF Found(lists[type], k) THEN m = k ELSE m.last = NoTier \/ Total(m) = Total(k) + 1
<1> DEFINE L == lists[type]
<1>1. CASE Found(L, k)
  <2>1. m = k
    BY <1>1 DEF Passed, Found
  <2> QED BY <1>1, <2>1
<1>2. CASE ~Found(L, k)
  <2>1. m = Taken(k, Following(Lens(L), k)) /\ L \in TierLists
    BY <1>2, NextIs DEF Passed, Found
  <2> HIDE DEF L
  <2>2. k.last # NoTier /\ L[k.last][k.took[k.last]].chosen
    BY <1>2 DEF Found
  <2>3. Fits(Lens(L), Chosen(L) \cup G, k) /\ Behind(G, k)
    BY DEF Sound, L
  <2>4. Lens(L) \in [Tiers -> Nat] /\ \A t \in Tiers : Lens(L)[t] = Len(L[t]) /\ L[t] \in Seq(Advices)
    BY <2>1, LensFit
  <2>5. /\ k.last \in Tiers /\ k.took[k.last] \in 1 .. Lens(L)[k.last]
        /\ Place(k).unit = k.last /\ Place(k).at = k.took[k.last]
        /\ Place(k) \in [unit : Tiers, at : Nat]
    BY <2>2, <2>3, <2>4, PlaceIs
  <2>6. k.took[k.last] \in DOMAIN L[k.last]
    BY <2>4, <2>5
  <2>7. Place(k) \in Chosen(L)
    BY <2>2, <2>5, <2>6 DEF Chosen
  <2>8. Sound(L, G, m) /\ (m.last # NoTier => Total(m) = Total(k) + 1)
    BY <2>1, <2>2, <2>3, <2>7, TurnSound
  <2> QED BY <1>2, <2>8 DEF L
<1> QED BY <1>1, <1>2

\* The cursors after 0, 1, ... passes.
Passes0(type, c, n, g) ==
    /\ g = [i \in 0 .. n |-> IF i = 0 THEN c ELSE Passed(type, g[i - 1])]

LEMMA PassesExist ==
    ASSUME NEW type, NEW c, NEW n \in Nat
    PROVE  \E g : Passes0(type, c, n, g)
<1> DEFINE B == {i \in Nat : ~\E g : Passes0(type, c, i, g)}
<1>1. ASSUME B # {} PROVE FALSE
  <2>0. B \subseteq Nat
    OBVIOUS
  <2>1. PICK i \in B : \A j \in B : i <= j
    <3> HIDE DEF B
    <3> QED BY <1>1, <2>0, LeastExists
  <2>2. CASE i = 0
    <3> DEFINE g == [j \in 0 .. 0 |-> c]
    <3>1. g = [j \in 0 .. i |-> IF j = 0 THEN c ELSE Passed(type, g[j - 1])]
      BY <2>2
    <3> HIDE DEF g
    <3>2. Passes0(type, c, i, g)
      BY <3>1 DEF Passes0
    <3> QED BY <2>1, <3>2
  <2>3. CASE i # 0
    <3>1. i - 1 \in Nat /\ i - 1 \notin B /\ i \in Nat
      BY <2>1, <2>3
    <3>2. PICK g : Passes0(type, c, i - 1, g)
      BY <3>1
    <3> DEFINE h == [j \in 0 .. i |-> IF j = 0 THEN c ELSE Passed(type, g[j - 1])]
    <3>3. \A j \in 0 .. i - 1 : g[j] = h[j]
      BY <3>1, <3>2 DEF Passes0
    <3>4. h = [j \in 0 .. i |-> IF j = 0 THEN c ELSE Passed(type, h[j - 1])]
      <4>1. ASSUME NEW j \in 0 .. i, j # 0 PROVE h[j - 1] = g[j - 1]
        <5>1. j - 1 \in 0 .. i - 1
          BY <3>1, <4>1
        <5> HIDE DEF h
        <5> QED BY <3>3, <5>1
      <4> QED BY <4>1
    <3> HIDE DEF h
    <3>5. Passes0(type, c, i, h)
      BY <3>4 DEF Passes0
    <3> QED BY <2>1, <3>5
  <2> QED BY <2>2, <2>3
<1> QED BY <1>1

LEMMA SearchFinds ==
    ASSUME lists \in AllLists, NEW type \in AdviceTypes, NEW G, NEW c, Sound(lists[type], G, c),
           NEW k, k = Unchosen(type, c)
    PROVE  Sound(lists[type], G, k) /\ Found(lists[type], k)
<1> DEFINE L == lists[type]
           all == Len(L[0]) + Len(L[1]) + Len(L[2])
<1>1. L \in TierLists /\ Lens(L) \in [Tiers -> Nat]
      /\ \A t \in Tiers : Lens(L)[t] = Len(L[t]) /\ Len(L[t]) \in Nat
  BY NextIs, LensFit
<1>2. 0 \in Tiers /\ 1 \in Tiers /\ 2 \in Tiers
  BY DEF Tiers
<1>20. Len(L[0]) \in Nat /\ Len(L[1]) \in Nat /\ Len(L[2]) \in Nat
  BY <1>1, <1>2
<1>21. Lens(L)[0] = Len(L[0]) /\ Lens(L)[1] = Len(L[1]) /\ Lens(L)[2] = Len(L[2])
  BY <1>1, <1>2
<1>3. all \in Nat
  BY ONLY <1>20, SumsOfThree
<1>4. PICK g : Passes0(type, c, all, g) /\ k = g[all]
  <2> DEFINE q == CHOOSE f : f = [n \in 0 .. all |-> IF n = 0 THEN c ELSE Passed(type, f[n - 1])]
  <2>1. k = q[all]
    BY Zenon DEF Unchosen
  <2>2. \E f : f = [n \in 0 .. all |-> IF n = 0 THEN c ELSE Passed(type, f[n - 1])]
    <3> HIDE DEF all
    <3>1. PICK f : Passes0(type, c, all, f)
      BY <1>3, PassesExist
    <3> QED BY <3>1 DEF Passes0
  <2>3. q = [n \in 0 .. all |-> IF n = 0 THEN c ELSE Passed(type, q[n - 1])]
    BY <2>2, Zenon
  <2> HIDE DEF q, all
  <2>4. Passes0(type, c, all, q)
    BY <2>3 DEF Passes0
  <2> QED BY <2>1, <2>4
<1> HIDE DEF all, L
<1>5. g[0] = c /\ \A i \in 1 .. all : g[i] = Passed(type, g[i - 1])
  BY <1>3, <1>4 DEF Passes0
<1> DEFINE Good(i) == Sound(L, G, g[i]) /\ (Found(L, g[i]) \/ Total(g[i]) >= i + 1)
           B == {i \in 0 .. all : ~Good(i)}
<1>6. ASSUME NEW m, Sound(L, G, m) PROVE Total(m) \in Nat /\ Total(m) <= all
  <2>1. Fits(Lens(L), Chosen(L) \cup G, m)
    BY <1>6 DEF Sound
  <2>2. \A t \in Tiers : m.took[t] \in Nat /\ m.took[t] <= Lens(L)[t]
    BY <2>1 DEF Fits, Cursors
  <2>3. /\ m.took[0] \in Nat /\ m.took[0] <= Len(L[0])
        /\ m.took[1] \in Nat /\ m.took[1] <= Len(L[1])
        /\ m.took[2] \in Nat /\ m.took[2] <= Len(L[2])
    BY <1>2, <1>21, <2>2
  <2> QED BY ONLY <1>20, <2>3, SumsOfThree DEF Total, all
<1>7. Good(0)
  <2>1. Sound(L, G, c)
    BY DEF L
  <2>2. Found(L, c) \/ Total(c) >= 0 + 1
    <3> SUFFICES ASSUME c.last # NoTier PROVE Total(c) >= 1
      BY DEF Found
    <3>1. Fits(Lens(L), Chosen(L) \cup G, c)
      BY <2>1 DEF Sound
    <3>2. c.last \in Tiers /\ c.took[c.last] \in 1 .. Lens(L)[c.last]
      BY <1>1, <3>1, PlaceIs
    <3>3. c.took[0] \in Nat /\ c.took[1] \in Nat /\ c.took[2] \in Nat
      BY <1>2, <3>1 DEF Fits, Cursors
    <3>4. c.last \in {0, 1, 2} /\ c.took[c.last] >= 1
      BY <1>1, <3>2 DEF Tiers
    <3>5. CASE c.last = 0
      BY <3>3, <3>4, <3>5 DEF Total
    <3>6. CASE c.last = 1
      BY <3>3, <3>4, <3>6 DEF Total
    <3>7. CASE c.last = 2
      BY <3>3, <3>4, <3>7 DEF Total
    <3> QED BY <3>4, <3>5, <3>6, <3>7
  <2> QED BY <1>5, <2>1, <2>2
<1>8. ASSUME NEW i \in 1 .. all, Good(i - 1) PROVE Good(i)
  <2>1. g[i] = Passed(type, g[i - 1]) /\ i \in Nat
    BY <1>3, <1>5
  <2>2. Sound(lists[type], G, g[i - 1]) /\ (Found(L, g[i - 1]) \/ Total(g[i - 1]) >= (i - 1) + 1)
    BY <1>8 DEF L
  <2>3. /\ Sound(L, G, g[i])
        /\ IF Found(L, g[i - 1]) THEN g[i] = g[i - 1]
           ELSE g[i].last = NoTier \/ Total(g[i]) = Total(g[i - 1]) + 1
    BY <2>1, <2>2, PassedIs DEF L
  <2>4. CASE Found(L, g[i - 1])
    BY <2>3, <2>4
  <2>5. CASE g[i].last = NoTier
    BY <2>3, <2>5 DEF Found
  <2>6. CASE ~Found(L, g[i - 1]) /\ Total(g[i]) = Total(g[i - 1]) + 1
    <3>1. Total(g[i - 1]) \in Nat
      BY <1>6, <2>2 DEF L
    <3>2. Total(g[i]) >= i + 1
      BY <2>1, <2>2, <2>6, <3>1
    <3> QED BY <2>3, <3>2
  <2> QED BY <2>3, <2>4, <2>5, <2>6
<1> HIDE DEF Good
<1>9. ASSUME B # {} PROVE FALSE
  <2>0. B \subseteq Nat
    BY <1>3
  <2>1. PICK i \in B : \A j \in B : i <= j
    <3> HIDE DEF B
    <3> QED BY <1>9, <2>0, LeastExists
  <2>2. i \in 0 .. all /\ i # 0 /\ ~Good(i)
    BY <1>7, <2>1
  <2>3. i - 1 \in 0 .. all /\ i \in 1 .. all /\ ~(i <= i - 1)
    BY <1>3, <2>2
  <2>4. i - 1 \notin B
    BY <2>1, <2>3
  <2>5. Good(i - 1)
    BY <2>3, <2>4
  <2> QED BY <1>8, <2>2, <2>3, <2>5
<1>10. Good(all)
  <2>1. all \in 0 .. all
    BY <1>3
  <2> QED BY <1>9, <2>1
<1>11. Sound(L, G, k) /\ (Found(L, k) \/ Total(k) >= all + 1)
  BY <1>4, <1>10 DEF Good
<1>12. ~(Total(k) >= all + 1)
  BY <1>3, <1>6, <1>11
<1> QED BY <1>11, <1>12 DEF L

--------------------------------------------------------------------------------
(* The walks                                                                    *)

Spots == [unit : Units, at : Nat]
Walks == [type : AdviceTypes, unit : Units \cup {NoTier}, given : Seq(Spots),
          holds : BOOLEAN, over : BOOLEAN]

Distinct(given) == \A i, j \in DOMAIN given : given[i] = given[j] => i = j

\* A walk w through the lists L, with the cursor k, or on a disk to position n.
TierWalk(w, L, k) ==
    /\ w.holds => /\ w.given # <<>> /\ k.last # NoTier /\ Last(w.given) = Place(k) /\ Found(L, k)
                  /\ Fits(Lens(L), Chosen(L) \cup ToSet(w.given), k) /\ Behind(ToSet(w.given), k)
    /\ w.over => \A t \in Tiers : \A i \in 1 .. Len(L[t]) : At(t, i) \in Chosen(L) \cup ToSet(w.given)
DiskWalk(w, n) ==
    w.unit \in Disks /\ \A p \in ToSet(w.given) : p.unit = w.unit /\ p.at <= n
Walked(w, L, k, n) ==
    /\ Distinct(w.given) /\ ~(w.holds /\ w.over)
    /\ IF w.unit = NoTier THEN TierWalk(w, L, k) ELSE DiskWalk(w, n)

WalkInv ==
    /\ walk \in Walks
    /\ cursor = [type \in AdviceTypes |-> cursor[type]]
    /\ diskAt \in [AdviceTypes -> [Disks -> Nat]]
    /\ phase # "ready" => walk = NewWalk(walk.type, NoTier)
    /\ Walked(walk, lists[walk.type], cursor[walk.type], diskAt[walk.type][walk.unit])

LEMMA TiersNotDisks ==
    NoTier \notin Disks /\ NoTier \notin Units /\ NoTier \notin Tiers /\ Disks \cap Tiers = {}
  BY ConfigAssumption DEF Tiers, NoTier, Units

LEMMA NewWalkIs ==
    ASSUME NEW type \in AdviceTypes, NEW unit \in Disks \cup {NoTier}, NEW w, w = NewWalk(type, unit)
    PROVE  /\ w \in Walks /\ w.type = type /\ w.unit = unit /\ w.given = <<>> /\ ~w.holds /\ ~w.over
           /\ \A L, k, n : Walked(w, L, k, n)
<1>1. w \in Walks /\ w.type = type /\ w.unit = unit /\ w.given = <<>> /\ ~w.holds /\ ~w.over
  BY DEF NewWalk, Walks, Units
<1>2. ToSet(w.given) = {} /\ Distinct(w.given)
  BY <1>1 DEF ToSet, Distinct
<1> QED BY <1>1, <1>2 DEF Walked, TierWalk, DiskWalk

LEMMA OneMore ==
    ASSUME NEW given \in Seq(Spots), Distinct(given), NEW p \in Spots, p \notin ToSet(given),
           NEW more, more = Append(given, p)
    PROVE  /\ more \in Seq(Spots) /\ Distinct(more) /\ more # <<>> /\ Last(more) = p
           /\ ToSet(more) = ToSet(given) \cup {p}
<1> DEFINE n == Len(given)
<1>1. /\ n \in Nat /\ DOMAIN given = 1 .. n
      /\ more \in Seq(Spots) /\ Len(more) = n + 1 /\ DOMAIN more = 1 .. n + 1
      /\ more[n + 1] = p /\ \A i \in 1 .. n : more[i] = given[i]
  OBVIOUS
<1> HIDE DEF n
<1>2. ToSet(more) = ToSet(given) \cup {p}
  <2>1. \A x : x \in ToSet(more) <=> \E i \in 1 .. n + 1 : x = more[i]
    BY <1>1 DEF ToSet
  <2>2. \A x : x \in ToSet(given) <=> \E i \in 1 .. n : x = given[i]
    BY <1>1 DEF ToSet
  <2>3. \A i : i \in 1 .. n + 1 <=> i \in 1 .. n \/ i = n + 1
    BY <1>1
  <2> QED BY <1>1, <2>1, <2>2, <2>3
<1>3. Distinct(more)
  <2>1. \A i \in 1 .. n : given[i] # p
    BY <1>1 DEF ToSet
  <2>2. \A i \in 1 .. n + 1 : i \in 1 .. n \/ i = n + 1
    BY <1>1
  <2> QED BY <1>1, <2>1, <2>2 DEF Distinct
<1>4. Last(more) = p /\ more # <<>>
  BY <1>1 DEF Last
<1> QED BY <1>1, <1>2, <1>3, <1>4

LEMMA HandsIs ==
    ASSUME NEW w \in Walks, Distinct(w.given), NEW p \in [unit : Units \cup {NoTier}, at : Nat],
           p \notin ToSet(w.given), NEW h, h = Hands(w, p)
    PROVE  /\ h \in Walks /\ h.type = w.type /\ h.unit = w.unit /\ Distinct(h.given)
           /\ h.holds = (p.unit # NoTier)
           /\ IF p.unit = NoTier THEN h.over /\ h.given = w.given
              ELSE /\ h.over = w.over /\ h.given # <<>> /\ Last(h.given) = p
                   /\ ToSet(h.given) = ToSet(w.given) \cup {p}
<1>1. CASE p.unit = NoTier
  <2>1. h = [w EXCEPT !.holds = FALSE, !.over = TRUE]
    BY <1>1 DEF Hands
  <2> QED BY <1>1, <2>1 DEF Walks
<1>2. CASE p.unit # NoTier
  <2>1. PICK more : more = Append(w.given, p)
    OBVIOUS
  <2>2. h = [w EXCEPT !.holds = TRUE, !.given = more]
    BY <1>2, <2>1 DEF Hands
  <2>3. p \in Spots /\ w.given \in Seq(Spots)
    BY <1>2 DEF Spots, Walks
  <2>4. /\ more \in Seq(Spots) /\ Distinct(more) /\ more # <<>> /\ Last(more) = p
        /\ ToSet(more) = ToSet(w.given) \cup {p}
    BY <2>1, <2>3, OneMore
  <2>5. h \in Walks /\ h.type = w.type /\ h.unit = w.unit /\ h.given = more /\ h.holds = TRUE /\ h.over = w.over
    BY <2>2, <2>4 DEF Walks
  <2> QED BY <1>2, <2>4, <2>5
<1> QED BY <1>1, <1>2

\* A search from a sound cursor hands out a place that is new and not chosen, or ends
\* when all advices are chosen or were given.
LEMMA HandsOut ==
    ASSUME lists \in AllLists, NEW w \in Walks, Distinct(w.given), w.unit = NoTier, ~w.over,
           NEW c, Sound(lists[w.type], ToSet(w.given), c), NEW k, k = Unchosen(w.type, c),
           NEW h, h = Hands(w, [unit |-> k.last, at |-> IF k.last = NoTier THEN 0 ELSE k.took[k.last]]),
           NEW n
    PROVE  h \in Walks /\ h.type = w.type /\ Walked(h, lists[w.type], k, n)
<1> DEFINE L == lists[w.type]
           G == ToSet(w.given)
           p == [unit |-> k.last, at |-> IF k.last = NoTier THEN 0 ELSE k.took[k.last]]
<1>0. w.type \in AdviceTypes /\ L \in TierLists
  BY NextIs DEF Walks
<1>1. Sound(L, G, k) /\ Found(L, k)
  BY <1>0, SearchFinds
<1>2. Lens(L) \in [Tiers -> Nat] /\ \A t \in Tiers : Lens(L)[t] = Len(L[t])
  BY <1>0, LensFit
<1> HIDE DEF L
<1>3. Fits(Lens(L), Chosen(L) \cup G, k) /\ Behind(G, k) /\ (k.last # NoTier => Place(k) \notin G)
  BY <1>1 DEF Sound
<1>4. CASE k.last = NoTier
  <2>1. p.unit = NoTier /\ p \in [unit : Units \cup {NoTier}, at : Nat]
    BY <1>4
  <2>2. p \notin G
    <3>1. \A q \in G : q \in Spots
      BY DEF ToSet, Walks
    <3>2. \A q \in G : q.unit \in Units
      BY <3>1 DEF Spots
    <3> QED BY <2>1, <3>2, TiersNotDisks
  <2>8. w \in Walks /\ Distinct(w.given) /\ h = Hands(w, p) /\ p \notin ToSet(w.given)
    BY <2>2
  <2> HIDE DEF p
  <2>3. /\ h \in Walks /\ h.type = w.type /\ h.unit = w.unit /\ Distinct(h.given)
        /\ ~h.holds /\ h.given = w.given
    <3>1. /\ h \in Walks /\ h.type = w.type /\ h.unit = w.unit /\ Distinct(h.given)
          /\ h.holds = (p.unit # NoTier)
          /\ IF p.unit = NoTier THEN h.over /\ h.given = w.given
             ELSE /\ h.over = w.over /\ h.given # <<>> /\ Last(h.given) = p
                  /\ ToSet(h.given) = ToSet(w.given) \cup {p}
      BY ONLY <2>1, <2>8, HandsIs
    <3> QED BY <2>1, <3>1
  <2>4. \A t \in Tiers : k.took[t] = Len(L[t])
    BY <1>2, <1>3, <1>4 DEF Fits, InTurn
  <2>5. \A t \in Tiers : \A i \in 1 .. Len(L[t]) : At(t, i) \in Chosen(L) \cup G
    <3>1. k.last \notin Tiers
      BY <1>4, TiersNotDisks
    <3>2. Settled(Chosen(L) \cup G, k)
      BY <1>3 DEF Fits
    <3> QED BY <2>4, <3>1, <3>2 DEF Settled
  <2>6. TierWalk(h, L, k)
    BY <2>3, <2>5 DEF TierWalk
  <2> QED BY <2>3, <2>6 DEF Walked, L
<1>5. CASE k.last # NoTier
  <2>1. /\ k.last \in Tiers /\ k.took[k.last] \in 1 .. Lens(L)[k.last]
        /\ Place(k) \in [unit : Tiers, at : Nat] /\ Place(k).unit = k.last
    BY <1>2, <1>3, <1>5, PlaceIs
  <2>2. p = Place(k)
    BY <1>5 DEF Place, At
  <2>3. p \in [unit : Units \cup {NoTier}, at : Nat] /\ p.unit # NoTier /\ p \notin G
    BY <1>3, <1>5, <2>1, <2>2 DEF Units
  <2>4. w \in Walks /\ Distinct(w.given) /\ h = Hands(w, p) /\ p \notin ToSet(w.given)
    BY <2>3
  <2> HIDE DEF p
  <2>5. /\ h \in Walks /\ h.type = w.type /\ h.unit = w.unit /\ Distinct(h.given)
        /\ h.over = w.over /\ h.given # <<>> /\ Last(h.given) = p
        /\ ToSet(h.given) = G \cup {p}
    BY ONLY <2>3, <2>4, HandsIs
  <2>6. Behind(ToSet(h.given), k)
    <3>1. p.unit \in Tiers /\ p.at \in Nat /\ p.at <= k.took[p.unit]
      <4>1. p.at = k.took[p.unit] /\ p.at \in Nat /\ p.unit \in Tiers
        BY <1>5, <2>1, <2>2 DEF Place, At
      <4> QED BY <4>1
    <3> QED BY <1>3, <2>5, <3>1 DEF Behind
  <2>7. Fits(Lens(L), Chosen(L) \cup ToSet(h.given), k)
    BY <1>3, <2>5 DEF Fits, Settled
  <2>8. TierWalk(h, L, k)
    BY <1>1, <1>5, <2>2, <2>5, <2>6, <2>7 DEF TierWalk
  <2> QED BY <2>5, <2>8 DEF Walked, L
<1> QED BY <1>4, <1>5

LEMMA FirstWalks == ASSUME Inv, WalkInv, NEW type \in AdviceTypes, First(type) PROVE WalkInv'
<1> DEFINE L == lists[type]
           c == Taken(NoCursor, FirstTier(type))
           w == NewWalk(type, NoTier)
<1>1. PICK k : k = Unchosen(type, c)
  OBVIOUS
<1>2. /\ cursor' = [cursor EXCEPT ![type] = k]
      /\ walk' = Hands(w, [unit |-> k.last, at |-> IF k.last = NoTier THEN 0 ELSE k.took[k.last]])
      /\ lists' = lists /\ diskAt' = diskAt /\ phase' = phase /\ phase = "ready"
  BY <1>1 DEF First, ToCursor, genVars
<1>3. lists \in AllLists
  BY DEF Inv, Typed
<1>4. L \in TierLists /\ Lens(L) \in [Tiers -> Nat]
      /\ \A t \in Tiers : Lens(L)[t] = Len(L[t]) /\ L[t] \in Seq(Advices)
  BY <1>3, NextIs, LensFit
<1>5. w \in Walks /\ w.type = type /\ w.unit = NoTier /\ w.given = <<>> /\ ~w.holds /\ ~w.over
  BY NewWalkIs
<1>6. ToSet(w.given) = {} /\ Distinct(w.given)
  BY <1>5 DEF ToSet, Distinct
<1>7. Sound(L, ToSet(w.given), c)
  <2>1. {t \in Tiers : L[t] # <<>>} = {t \in Tiers : Lens(L)[t] # 0}
    <3>1. \A t \in Tiers : L[t] # <<>> <=> Lens(L)[t] # 0
      <4> SUFFICES ASSUME NEW t \in Tiers PROVE L[t] # <<>> <=> Len(L[t]) # 0
        BY <1>4
      <4>1. L[t] \in Seq(Advices)
        BY <1>4
      <4> HIDE DEF L
      <4> QED BY <4>1
    <3> QED BY <3>1
  <2>2. c = Taken(NoCursor, Lowest({t \in Tiers : Lens(L)[t] # 0}))
    BY <2>1, Zenon DEF FirstTier
  <2> HIDE DEF c, L
  <2>3. Fits(Lens(L), Chosen(L) \cup {}, c)
    BY <1>4, <2>2, FirstFits
  <2> HIDE DEF w
  <2>4. Behind({}, c)
    BY DEF Behind
  <2> QED BY <1>6, <2>3, <2>4 DEF Sound
<1> HIDE DEF w, c
<1>8. PICK n : n = diskAt[type][NoTier]
  OBVIOUS
<1>9. walk' \in Walks /\ walk'.type = type /\ Walked(walk', L, k, diskAt[type][walk'.unit])
  <2>1. PICK h : h = walk'
    OBVIOUS
  <2>2. h = Hands(w, [unit |-> k.last, at |-> IF k.last = NoTier THEN 0 ELSE k.took[k.last]])
    BY <1>2, <2>1
  <2>3. k = Unchosen(w.type, c) /\ Sound(lists[w.type], ToSet(w.given), c)
    BY <1>1, <1>5, <1>7
  <2>4. \A m : h \in Walks /\ h.type = w.type /\ Walked(h, lists[w.type], k, m)
    BY <1>3, <1>5, <1>6, <2>2, <2>3, HandsOut
  <2> QED BY <1>5, <2>1, <2>4
<1>10. cursor'[type] = k /\ cursor' = [s \in AdviceTypes |-> cursor'[s]]
  BY <1>2 DEF WalkInv
<1> QED BY <1>2, <1>9, <1>10 DEF WalkInv

LEMMA RefuseWalks == ASSUME Inv, WalkInv, Refuse PROVE WalkInv'
<1> DEFINE type == walk.type
           L == lists[type]
           G == ToSet(walk.given)
           c == Taken(cursor[type], NextTier(type, cursor[type]))
<1>1. PICK k : k = Unchosen(type, c)
  OBVIOUS
<1>2. /\ cursor' = [cursor EXCEPT ![type] = k]
      /\ walk' = Hands(walk, [unit |-> k.last, at |-> IF k.last = NoTier THEN 0 ELSE k.took[k.last]])
      /\ lists' = lists /\ diskAt' = diskAt /\ phase' = phase
      /\ walk.holds /\ walk.unit = NoTier
  BY <1>1 DEF Refuse, ToCursor, genVars
<1>3. lists \in AllLists /\ phase = "ready"
  BY <1>2 DEF Inv, Typed
<1>4. /\ walk \in Walks /\ type \in AdviceTypes /\ Distinct(walk.given) /\ ~walk.over
      /\ TierWalk(walk, L, cursor[type])
  BY <1>2 DEF WalkInv, Walked, Walks
<1>5. Sound(L, G, c)
  <2>0. PICK b : b = cursor[type]
    OBVIOUS
  <2>1. L \in TierLists /\ c = Taken(b, Following(Lens(L), b))
    BY <1>3, <1>4, <2>0, NextIs
  <2>2. /\ walk.given # <<>> /\ b.last # NoTier /\ Last(walk.given) = Place(b)
        /\ Fits(Lens(L), Chosen(L) \cup G, b) /\ Behind(G, b)
    BY <1>2, <1>4, <2>0 DEF TierWalk
  <2>3. walk.given \in Seq(Spots)
    BY <1>4 DEF Walks
  <2>4. Place(b) \in G
    BY <2>2, <2>3 DEF Last, ToSet
  <2> HIDE DEF L, G, c
  <2>5. Place(b) \in Chosen(L) \cup G
    BY <2>4
  <2>6. b.last # NoTier /\ Fits(Lens(L), Chosen(L) \cup G, b) /\ Behind(G, b)
    BY <2>2
  <2> QED BY ONLY <2>1, <2>5, <2>6, TurnSound
<1>6. walk' \in Walks /\ walk'.type = type /\ Walked(walk', L, k, diskAt[type][walk'.unit])
  <2>1. PICK h : h = walk'
    OBVIOUS
  <2>2. h = Hands(walk, [unit |-> k.last, at |-> IF k.last = NoTier THEN 0 ELSE k.took[k.last]])
    BY <1>2, <2>1
  <2> HIDE DEF c
  <2>4. \A m : h \in Walks /\ h.type = type /\ Walked(h, L, k, m)
    BY <1>1, <1>2, <1>3, <1>4, <1>5, <2>2, HandsOut
  <2> QED BY <2>1, <2>4
<1>7. cursor'[type] = k /\ cursor' = [s \in AdviceTypes |-> cursor'[s]]
  BY <1>2, <1>4 DEF WalkInv
<1> QED BY <1>2, <1>3, <1>6, <1>7 DEF WalkInv

LEMMA PositionWalks ==
    ASSUME lists \in AllLists, diskAt \in [AdviceTypes -> [Disks -> Nat]],
           NEW type \in AdviceTypes, NEW d \in Disks, NEW n \in Nat, NEW w \in Walks,
           w.type = type, w.unit = d, Distinct(w.given), ~w.over,
           \A p \in ToSet(w.given) : p.unit = d /\ p.at <= n,
           ToPosition(type, d, n, w)
    PROVE  /\ diskAt' \in [AdviceTypes -> [Disks -> Nat]]
           /\ walk' \in Walks /\ walk'.type = type /\ walk'.unit = d
           /\ \A L, k : Walked(walk', L, k, diskAt'[type][d])
<1>1. PICK len \in Nat : len = Len(lists[type][d])
  BY DEF AllLists, Units
<1>2. PICK i \in n + 1 .. len + 1 :
         /\ diskAt' = [diskAt EXCEPT ![type][d] = IF i <= len THEN i ELSE len]
         /\ walk' = Hands(w, [unit |-> IF i <= len THEN d ELSE NoTier, at |-> i])
  BY <1>1, Zenon DEF ToPosition
<1>3. PICK m : m = IF i <= len THEN i ELSE len
  OBVIOUS
<1>4. m \in Nat /\ n <= m /\ i \in Nat /\ n < i /\ (i <= len => m = i)
  BY <1>1, <1>2, <1>3
<1>5. diskAt' \in [AdviceTypes -> [Disks -> Nat]] /\ diskAt'[type][d] = m
  BY <1>2, <1>3, <1>4
<1>6. PICK h : h = walk'
  OBVIOUS
<1>7. PICK p : p = [unit |-> IF i <= len THEN d ELSE NoTier, at |-> i]
  OBVIOUS
<1>8. p \in [unit : Units \cup {NoTier}, at : Nat] /\ p \notin ToSet(w.given) /\ h = Hands(w, p)
  <2>1. p.at = i /\ ~(p.at <= n)
    BY <1>4, <1>7
  <2> QED BY <1>2, <1>4, <1>6, <1>7, <2>1 DEF Units
<1>80. w \in Walks /\ Distinct(w.given)
  OBVIOUS
<1>9. /\ h \in Walks /\ h.type = w.type /\ h.unit = w.unit /\ Distinct(h.given)
      /\ h.holds = (p.unit # NoTier)
      /\ IF p.unit = NoTier THEN h.over /\ h.given = w.given
         ELSE /\ h.over = w.over /\ h.given # <<>> /\ Last(h.given) = p
              /\ ToSet(h.given) = ToSet(w.given) \cup {p}
  BY ONLY <1>8, <1>80, HandsIs
<1>10. \A q \in ToSet(w.given) : q.unit = d /\ q.at <= m
  <2> SUFFICES ASSUME NEW q \in ToSet(w.given) PROVE q.at <= m
    OBVIOUS
  <2>1. q \in Spots
    BY DEF ToSet, Walks
  <2>2. q.at \in Nat /\ q.at <= n
    BY <2>1 DEF Spots
  <2> QED BY <1>4, <2>2
<1>11. DiskWalk(h, m) /\ ~(h.holds /\ h.over)
  <2>1. CASE i <= len
    <3>1. p.unit = d /\ p.at = m /\ d # NoTier
      BY <1>4, <1>7, <2>1, TiersNotDisks
    <3>2. p.at <= m
      BY <1>4, <3>1
    <3> QED BY <1>9, <1>10, <3>1, <3>2 DEF DiskWalk
  <2>2. CASE ~(i <= len)
    <3>1. p.unit = NoTier
      BY <1>7, <2>2
    <3> QED BY <1>9, <1>10, <3>1 DEF DiskWalk
  <2> QED BY <2>1, <2>2
<1>12. d # NoTier
  BY TiersNotDisks
<1>13. \A L, k : Walked(h, L, k, m)
  BY <1>9, <1>11, <1>12 DEF Walked
<1> QED BY <1>5, <1>6, <1>9, <1>13

LEMMA OnDiskWalks ==
    ASSUME Inv, WalkInv, RefuseOn \/ \E type \in AdviceTypes : \E d \in Disks : FirstOn(type, d)
    PROVE  WalkInv'
<1>1. lists \in AllLists /\ diskAt \in [AdviceTypes -> [Disks -> Nat]] /\ walk \in Walks
  BY DEF Inv, Typed, WalkInv
<1>2. PICK type \in AdviceTypes, d \in Disks, n \in Nat, w \in Walks :
         /\ ToPosition(type, d, n, w) /\ w.type = type /\ w.unit = d /\ Distinct(w.given) /\ ~w.over
         /\ \A p \in ToSet(w.given) : p.unit = d /\ p.at <= n
         /\ cursor' = cursor /\ phase' = phase /\ phase = "ready"
  <2>1. CASE RefuseOn
    <3>1. walk.holds /\ walk.unit \in Disks /\ walk.unit # NoTier /\ walk.type \in AdviceTypes
      BY <1>1, <2>1, TiersNotDisks DEF RefuseOn, Walks
    <3>2. /\ Distinct(walk.given) /\ ~walk.over
          /\ \A p \in ToSet(walk.given) : p.unit = walk.unit /\ p.at <= diskAt[walk.type][walk.unit]
      BY <3>1 DEF WalkInv, Walked, DiskWalk
    <3>3. diskAt[walk.type][walk.unit] \in Nat
      BY <1>1, <3>1
    <3>4. ToPosition(walk.type, walk.unit, diskAt[walk.type][walk.unit], walk)
      BY <2>1 DEF RefuseOn
    <3>5. cursor' = cursor /\ phase' = phase /\ phase = "ready"
      BY <2>1, <3>1 DEF RefuseOn, Inv, Typed
    <3> QED BY <1>1, <3>1, <3>2, <3>3, <3>4, <3>5
  <2>2. CASE \E type \in AdviceTypes : \E d \in Disks : FirstOn(type, d)
    <3>1. PICK type \in AdviceTypes, d \in Disks : FirstOn(type, d)
      BY <2>2
    <3>2. PICK w : w = NewWalk(type, d)
      OBVIOUS
    <3>3. w \in Walks /\ w.type = type /\ w.unit = d /\ w.given = <<>> /\ ~w.holds /\ ~w.over
      BY <3>2, NewWalkIs
    <3>4. ToSet(w.given) = {} /\ Distinct(w.given)
      BY <3>3 DEF ToSet, Distinct
    <3>5. ToPosition(type, d, 0, w) /\ cursor' = cursor /\ phase' = phase /\ phase = "ready"
      BY <3>1, <3>2 DEF FirstOn
    <3> QED BY <3>3, <3>4, <3>5
  <2> QED BY <2>1, <2>2
<1>3. /\ diskAt' \in [AdviceTypes -> [Disks -> Nat]]
      /\ walk' \in Walks /\ walk'.type = type /\ walk'.unit = d
      /\ \A L, k : Walked(walk', L, k, diskAt'[type][d])
  BY <1>1, <1>2, PositionWalks
<1>4. Walked(walk', lists'[walk'.type], cursor'[walk'.type], diskAt'[walk'.type][walk'.unit])
  BY <1>3
<1>5. cursor' = [s \in AdviceTypes |-> cursor'[s]] /\ phase' = "ready"
  BY <1>2 DEF WalkInv
<1> QED BY <1>3, <1>4, <1>5 DEF WalkInv

LEMMA ChooseWalks == ASSUME Inv, WalkInv, Choose PROVE WalkInv'
<1>1. /\ walk' = [walk EXCEPT !.holds = FALSE] /\ walk.holds
      /\ cursor' = cursor /\ diskAt' = diskAt /\ phase' = phase /\ phase = "ready"
  BY DEF Choose, Inv, Typed
<1>2. walk \in Walks /\ ~walk.over
  BY <1>1 DEF WalkInv, Walked
<1>3. /\ walk' \in Walks /\ ~walk'.holds /\ ~walk'.over /\ walk'.given = walk.given
      /\ walk'.unit = walk.unit /\ walk'.type = walk.type
  BY <1>1, <1>2 DEF Walks
<1>4. Walked(walk, lists[walk.type], cursor[walk.type], diskAt[walk.type][walk.unit])
  BY DEF WalkInv
<1>5. \A L : Walked(walk', L, cursor'[walk'.type], diskAt'[walk'.type][walk'.unit])
  BY <1>1, <1>3, <1>4 DEF Walked, TierWalk, DiskWalk
<1> QED BY <1>1, <1>3, <1>5 DEF WalkInv

LEMMA InitWalks == Init => WalkInv
<1> SUFFICES ASSUME Init PROVE WalkInv
  OBVIOUS
<1>1. walk = NewWalk("hot", NoTier) /\ "hot" \in AdviceTypes
  BY DEF Init, AdviceTypes
<1>2. walk \in Walks /\ walk.type = "hot" /\ \A L, k, n : Walked(walk, L, k, n)
  BY <1>1, NewWalkIs
<1>3. cursor = [type \in AdviceTypes |-> cursor[type]] /\ diskAt \in [AdviceTypes -> [Disks -> Nat]]
  BY DEF Init
<1> QED BY <1>1, <1>2, <1>3 DEF WalkInv

LEMMA WalkStep == Inv /\ WalkInv /\ [Next]_vars => WalkInv'
<1> SUFFICES ASSUME Inv, WalkInv, [Next]_vars PROVE WalkInv'
  OBVIOUS
<1>1. CASE OpenWindow
  <2>1. /\ walk' = NewWalk("hot", NoTier) /\ "hot" \in AdviceTypes
        /\ cursor' = [type \in AdviceTypes |-> NoCursor]
        /\ diskAt' = [type \in AdviceTypes |-> [d \in Disks |-> 0]]
    BY <1>1 DEF OpenWindow, AdviceTypes
  <2>2. walk' \in Walks /\ walk'.type = "hot" /\ \A L, k, n : Walked(walk', L, k, n)
    BY <2>1, NewWalkIs
  <2>3. cursor' = [type \in AdviceTypes |-> cursor'[type]] /\ diskAt' \in [AdviceTypes -> [Disks -> Nat]]
    BY <2>1
  <2> QED BY <2>1, <2>2, <2>3 DEF WalkInv
<1>2. CASE PreGenerateCheck \/ BeginCall \/ Generate
  <2>1. walk' = walk /\ cursor' = cursor /\ diskAt' = diskAt /\ phase # "ready"
    BY <1>2 DEF PreGenerateCheck, BeginCall, Generate, readVars
  <2>2. walk = NewWalk(walk.type, NoTier) /\ walk \in Walks
    BY <2>1 DEF WalkInv
  <2>3. walk.type \in AdviceTypes
    BY <2>2 DEF Walks
  <2>4. \A L, k, n : Walked(walk, L, k, n)
    BY <2>2, <2>3, NewWalkIs
  <2>5. \A L, k, n : Walked(walk', L, k, n)
    BY <2>1, <2>4
  <2> QED BY <2>1, <2>2, <2>5 DEF WalkInv
<1>3. CASE \E type \in AdviceTypes : First(type)
  BY <1>3, FirstWalks
<1>4. CASE RefuseOn \/ \E type \in AdviceTypes : \E d \in Disks : FirstOn(type, d)
  BY <1>4, OnDiskWalks
<1>5. CASE Refuse
  BY <1>5, RefuseWalks
<1>6. CASE Choose
  BY <1>6, ChooseWalks
<1>7. CASE UNCHANGED vars
  BY <1>7 DEF vars, genVars, readVars, WalkInv
<1> QED BY <1>1, <1>2, <1>3, <1>4, <1>5, <1>6, <1>7 DEF Next

LEMMA DistinctCounted ==
    ASSUME NEW S, NEW given \in Seq(S), Distinct(given)
    PROVE  Cardinality(ToSet(given)) = Len(given)
<1>1. Len(given) \in Nat /\ DOMAIN given = 1 .. Len(given)
  OBVIOUS
<1>2. given \in Bijection(1 .. Len(given), ToSet(given))
  <2>1. given \in [1 .. Len(given) -> ToSet(given)]
    BY <1>1 DEF ToSet
  <2>2. \A x \in ToSet(given) : \E i \in 1 .. Len(given) : given[i] = x
    BY <1>1 DEF ToSet
  <2> QED BY <1>1, <2>1, <2>2 DEF Bijection, Injection, Surjection, Distinct, IsInjective
<1> QED BY <1>1, <1>2, FS_CountingElements DEF ExistsBijection

LEMMA WalkedComplete == ASSUME Inv, WalkInv PROVE WalksAreComplete
<1> DEFINE type == walk.type
           L == lists[type]
           G == ToSet(walk.given)
           k == cursor[type]
<1>1. walk \in Walks /\ type \in AdviceTypes /\ walk.given \in Seq(Spots) /\ lists \in AllLists
  BY DEF WalkInv, Walks, Inv, Typed
<1>2. Distinct(walk.given) /\ ~(walk.holds /\ walk.over) /\ (walk.unit = NoTier => TierWalk(walk, L, k))
  BY DEF WalkInv, Walked
<1>3. Cardinality(G) = Len(walk.given)
  BY <1>1, <1>2, DistinctCounted
<1>4. ASSUME walk.over, walk.unit = NoTier, NEW p \in Places(type, walk.unit)
      PROVE  lists[type][p.unit][p.at].chosen \/ p \in G
  <2>1. p \in [unit : Tiers, at : 1 .. Cardinality(OBJs)] /\ p.at <= Len(L[p.unit])
    BY <1>4 DEF Places
  <2>2. p.unit \in Tiers /\ p = At(p.unit, p.at)
    BY <2>1 DEF At
  <2>3. Cardinality(OBJs) \in Nat
    BY ConfigAssumption, FS_CardinalityType
  <2>4. L[p.unit] \in Seq(Advices)
    BY <1>1, <2>2 DEF AllLists, Units
  <2>5. p.at \in 1 .. Len(L[p.unit])
    BY <2>1, <2>3, <2>4
  <2>6. At(p.unit, p.at) \in Chosen(L) \cup G
    BY <1>2, <1>4, <2>2, <2>5 DEF TierWalk
  <2> QED BY <2>2, <2>6 DEF Chosen
<1>5. ASSUME walk.holds, walk.unit = NoTier, NEW t \in Tiers, NEW u \in Tiers, k.took[t] < Len(L[t])
      PROVE  k.took[u] <= k.took[t] + 1
  <2>1. L \in TierLists
    BY <1>1, NextIs
  <2>2. k.last # NoTier /\ Fits(Lens(L), Chosen(L) \cup G, k)
    BY <1>2, <1>5 DEF TierWalk
  <2>3. Lens(L)[t] = Len(L[t])
    BY <2>1, LensFit
  <2> HIDE DEF L, k, G
  <2>4. k \in Cursors /\ k.last \in Tiers /\ InTurn(Lens(L), k) /\ k.took[t] < Lens(L)[t]
    BY <1>5, <2>2, <2>3 DEF Fits, Cursors
  <2>5. k.took[t] \in Nat /\ k.took[u] \in Nat /\ k.took[k.last] \in Nat /\ k.last \in Int /\ t \in Int /\ u \in Int
    BY <2>4 DEF Cursors, Tiers
  <2>6. k.took[t] = k.took[k.last] \/ k.took[t] = k.took[k.last] - 1
    BY <2>2, <2>4, <2>5 DEF InTurn
  <2>7. k.took[u] <= k.took[k.last]
    BY <2>2, <2>4, <2>5 DEF InTurn
  <2> QED BY <2>5, <2>6, <2>7
<1>6. ASSUME walk.holds, walk.unit = NoTier
      PROVE  LET p == Last(walk.given) IN ~lists[type][p.unit][p.at].chosen
  <2>1. Last(walk.given) = Place(k) /\ Found(L, k) /\ k.last # NoTier
    BY <1>2, <1>6 DEF TierWalk
  <2>2. Place(k).unit = k.last /\ Place(k).at = k.took[k.last]
    BY DEF Place, At
  <2> QED BY <2>1, <2>2 DEF Found
<1> HIDE DEF L, k
<1> QED BY <1>3, <1>4, <1>5, <1>6 DEF WalksAreComplete, L, k

\* The planner never gets an advice twice in a walk nor one that was chosen before,
\* gets every one that is left before the walk ends, and the tiers take turns; for
\* all lists, disks and OBJs, and whatever it makes plans of
\* (TierBasedAdviceSet::GetFirstAdviceSatisfy, GetNextAdviceSatisfy, DiskAdvise).
THEOREM WalksAreCompleteHolds == Spec => []WalksAreComplete
<1>1. Inv /\ WalkInv => WalksAreComplete
  BY WalkedComplete
<1> QED BY <1>1, InitWalks, WalkStep, InvHolds, PTL DEF Spec
================================================================================
