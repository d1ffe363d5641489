---------------------------- MODULE MC_HubControl ----------------------------
(***************************************************************************)
(* Two SubPools, a day of four seconds, and up to three slices of it.      *)
(***************************************************************************)
EXTENDS HubControl

Slices == UNION {[1 .. n -> Ranges] : n \in 0 .. 3}

\* The first SubPool has any schedule, the second a simple one or none.
Lists == <<Slices, {<<>>, <<[start |-> 1, end |-> 2]>>}>>

ASSUME ListsFit == SchedulesCover
=============================================================================
