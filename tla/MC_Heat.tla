-------------------------------- MODULE MC_Heat --------------------------------
(***************************************************************************)
(* An instance of HeatRegistry: a tier, its disk and an empty disk, three  *)
(* OBJs, four buckets.                                                     *)
(***************************************************************************)
EXTENDS HeatRegistry

CONSTANTS o1, o2, o3, tier, disk, empty

Order3 == <<o1, o2, o3>>

\* The bases of the production rule for hot OBJs (ASTRelocation.cpp:558-564).
HotPart == Base("long", "rnd", "rt")
HotSort == Base("short", "accum", "ios")

Stat(rt, ios, rnd, new) ==
    [young |-> new,
     long  |-> [rnd |-> [ios |-> rnd, bw |-> 0, rt |-> rt], seq |-> [ios |-> 0, bw |-> 0, rt |-> 0]],
     short |-> [rnd |-> [ios |-> ios, bw |-> 0, rt |-> 0], seq |-> [ios |-> 1, bw |-> 0, rt |-> 0]],
     raw   |-> [rnd |-> [ios |-> 0, bw |-> 0, rt |-> 0], seq |-> [ios |-> 0, bw |-> 0, rt |-> 0]]]

\* Wide and narrow ranges of the partition base; equal and different sort heats.
Spread(os, rts, ios, rnd, new) ==
    [o \in ToSet(os) |-> LET i == CHOOSE j \in DOMAIN os : os[j] = o
                         IN Stat(rts[i], ios[i], rnd[i], o \in new)]
Profiles3 ==
    {Spread(Order3, <<0, 5, 9>>, <<2, 1, 1>>, <<1, 2, 1>>, {}),
     Spread(Order3, <<0, 0, 9>>, <<2, 1, 1>>, <<1, 2, 1>>, {}),
     Spread(Order3, <<9, 9, 0>>, <<2, 1, 1>>, <<1, 2, 1>>, {}),
     Spread(Order3, <<1, 1, 3>>, <<2, 1, 1>>, <<1, 2, 1>>, {o1}),
     Spread(Order3, <<9, 0, 5>>, <<2, 1, 1>>, <<1, 2, 1>>, {o2, o3}),
     Spread(Order3, <<9, 0, 5>>, <<2, 1, 1>>, <<1, 2, 1>>, {o1, o2, o3})}

OrderOf3 == (tier :> Order3) @@ (disk :> <<o1, o2>>) @@ (empty :> <<>>)
Rule(type, scope, key) == [type |-> type, scope |-> scope, key |-> key]
HotKey  == [part |-> HotPart, sort |-> HotSort]
ColdKey == [part |-> HotPart, sort |-> Base("raw", "seq", "bw")]
Rules3  == {Rule("hot", "tier", HotKey), Rule("cold", "tier", HotKey),
            Rule("swapUp", "disk", HotKey), Rule("cold", "tier", ColdKey)}
================================================================================
