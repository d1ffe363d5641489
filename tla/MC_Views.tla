-------------------------------- MODULE MC_Views --------------------------------
(***************************************************************************)
(* Two SubPools, the first with two disks of different tiers; a third disk *)
(* of its second tier may be added.  Answers have room for two OBJs.       *)
(***************************************************************************)
EXTENDS HubViews

DefPoolOf == <<1, 1, 2, 1>>
DefTierOf == <<1, 2, 1, 2>>
DefInitialOBJs == {<<1, 1>>, <<1, 2>>, <<2, 3>>}

\* Two IOs of which the second may follow the first.
DefIOs == {[offset |-> 0, len |-> 1, way |-> "read", usec |-> 1],
           [offset |-> 1, len |-> 1, way |-> "write", usec |-> 2]}
================================================================================
