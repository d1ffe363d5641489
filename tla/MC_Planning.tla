------------------------------ MODULE MC_Planning ------------------------------
(***************************************************************************)
(* Instances of Planning: p1 has three disks in two tiers and advice in    *)
(* both directions, p2 has two disks and one advice.                       *)
(***************************************************************************)
EXTENDS Planning

CONSTANTS p1, p2, a, b, c, e, f, o1, o2, o3, o4

PQ == <<p1, p2>>
PoolsOfDisks == [d \in {a, b, c, e, f} |-> IF d \in {e, f} THEN p2 ELSE p1]
Tiers  == [d \in {a, b, c, e, f} |-> IF d \in {a, c, e} THEN 0 ELSE 1]
Ranks  == [d \in {a, b, c, e, f} |->
             CASE d = a -> 1 [] d = b -> 2 [] d = c -> 3 [] d = e -> 4 [] d = f -> 5]
Advised2 == [x \in {p1, p2} |->
    IF x = p1 THEN [promote |-> <<o1, o2>>, demote |-> <<o3>>]
    ELSE [promote |-> <<o4>>, demote |-> <<>>]]
Sources == [o \in {o1, o2, o3, o4} |-> CASE o = o1 -> b [] o = o2 -> b [] o = o3 -> a [] o = o4 -> f]
Targets == [o \in {o1, o2, o3, o4} |-> IF o = o3 THEN 1 ELSE 0]
SomeLack == {{}, {c}}
================================================================================
