----------------------------- MODULE MC_Migration ------------------------------
(* The constants of the run. *)
EXTENDS MigrationPipeline

CONSTANTS o1, o2, d1, d2

\* Each disk is alone in its tier.
Tiers == [d \in Disks |-> IF d = d1 THEN 1 ELSE 2]
================================================================================
