------------------------------- MODULE MC_Config -------------------------------
(***************************************************************************)
(* Instances of ConfigSync: one SubPool that nobody touches, and one whose *)
(* two disks of one tier come and go.                                      *)
(***************************************************************************)
EXTENDS ConfigSync

CONSTANTS o1, o2, d1, d2, d3, p1, p2

TwoPools  == [d \in {d1, d2, d3} |-> IF d = d1 THEN p1 ELSE p2]
OneTier   == [d \in {d1, d2, d3} |-> 0]
Order     == [d \in {d1, d2, d3} |-> IF d = d1 THEN 1 ELSE IF d = d2 THEN 2 ELSE 3]
SomeOBJs  == {<<o1, d1>>, <<o2, d2>>}
KeptOBJs  == {<<o1, d1>>}
================================================================================
