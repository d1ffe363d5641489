------------------------------ MODULE MC_Advising ------------------------------
(***************************************************************************)
(* Instances of Advising: one disk in the upper tiers, two in the lowest.  *)
(***************************************************************************)
EXTENDS Advising

CONSTANTS ssd, ent, sata, sata2, o1, o2, o3, o4

MCTierOf    == (ssd :> 0) @@ (ent :> 1) @@ (sata :> 2) @@ (sata2 :> 2)
MCBandwidth == (ssd :> 9) @@ (ent :> 5) @@ (sata :> 2) @@ (sata2 :> 1)

Config(disks, at) ==
    [disks |-> disks, at |-> at, tiers |-> {MCTierOf[d] : d \in disks}, blocked |-> FALSE]
Three == Config({ssd, ent, sata}, (o1 :> ssd) @@ (o2 :> ent) @@ (o3 :> ent) @@ (o4 :> sata))
Gap   == Config({ssd, sata2}, (o1 :> ssd) @@ (o2 :> sata2))
Lower == [Config({ent, sata, sata2}, (o1 :> ent) @@ (o2 :> sata) @@ (o3 :> sata))
            EXCEPT !.tiers = Tiers]
Single == Config({ent}, o1 :> ent)
None   == Config({}, <<>>)
Bare   == Config({ssd, ent}, <<>>)
MCConfigs == {Three, Gap, Lower, Single, None, Bare, [Gap EXCEPT !.blocked = TRUE]}

\* The rules of RelocationAdvice (ASTRelocation.cpp:558-597).
Rule(type, scope, kind) ==
    [type |-> type, scope |-> scope, partition |-> {"long", "ema", kind, "rt"},
     sort |-> {"short", "ema", "accum", "ios"}]
HotRule  == Rule("hot", "tier", "rnd")
ColdRule == Rule("cold", "tier", "seq")
Call(rule) == [rule |-> rule, filters |-> <<>>]
Filter(rule, pass) == [rule |-> rule, pass |-> pass]

Tiering  == <<Call(HotRule), Call(ColdRule)>>
Swapping == <<Call(Rule("swapUp", "disk", "rnd")), Call(Rule("swapDown", "disk", "seq"))>>
\* Calls that filter, and two that are refused.
Filtering ==
    <<[rule |-> HotRule, filters |-> <<Filter(HotRule, {o2, o4})>>],
      [rule |-> ColdRule, filters |-> <<Filter(HotRule, {o1})>>],
      Call([ColdRule EXCEPT !.partition = {"rnd", "accum"}])>>

MCWindows(config0) ==
    IF config0 = Lower THEN {Swapping}
    ELSE IF config0 = Gap THEN {Tiering, Swapping}
    ELSE {Tiering, Filtering}
================================================================================
