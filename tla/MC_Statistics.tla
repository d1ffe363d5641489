------------------------------ MODULE MC_Statistics ------------------------------
EXTENDS IOStatistics, TLC

MCSettings == {[name \in WindowNames |-> IF name = "short" THEN 3 ELSE 2],
               [name \in WindowNames |-> IF name = "short" THEN 1 ELSE 3]}

MCDiskOf == [o \in OBJs |-> CHOOSE d \in Disks : TRUE]

\* An OBJ that is hardly read, and one that is read at random and written in
\* sequence.
Quiet == [f \in Fields |-> IF f = <<"rnd", "readIOs">> THEN 1 ELSE 0]
Busy  == [f \in Fields |->
             CASE f \in {<<"rnd", "readIOs">>, <<"seq", "writeIOs">>} -> 7
               [] f \in {<<"rnd", "readBW">>, <<"seq", "writeBW">>}  -> 30
               [] f \in Accesses \X Times                            -> 9
               [] OTHER                                              -> 0]
MCSamples == {Quiet, Busy}

ASSUME SamplesFit == ValuesFit

Symmetric == Permutations(OBJs)
================================================================================
