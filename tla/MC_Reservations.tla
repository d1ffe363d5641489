---------------------------- MODULE MC_Reservations ----------------------------
(* Small instances of Reservations. *)
EXTENDS Reservations, TLC

CONSTANTS d1, d2, d3, o1, o2

Row(ratio, size, bw, io) == [ratio |-> ratio, size |-> size, bw |-> bw, io |-> io]
Fast == [kind |-> "fast", cap |-> 4]
TheDevices ==
    <<[prop |-> Fast,
       rows |-> <<Row(100, 4, 150, 1100), Row(100, 64, 400, 600), Row(50, 64, 200, 500),
                  Row(50, 4, 120, 700), Row(0, 64, 300, 400), Row(0, 4, 100, 900)>>]>>
Props == (d1 :> Fast) @@ (d2 :> [kind |-> "fast", cap |-> 3]) @@ (d3 :> [kind |-> "slow", cap |-> 3])
ThePlaces == {(o1 :> d1) @@ (o2 :> d2)}
DefaultPerf == [bw |-> 300, io |-> 600]

IO(rndReads, rndWrites, seqReads, seqWrites, rndBW, seqBW) ==
    [rndReadIOs |-> rndReads, rndWriteIOs |-> rndWrites, seqReadIOs |-> seqReads,
     seqWriteIOs |-> seqWrites, rndBW |-> rndBW, seqBW |-> seqBW]
Idle  == IO(0, 0, 0, 0, 0, 0)
Small == IO(30, 70, 0, 0, 2000, 0)
Mix   == IO(400, 40, 20, 180, 5000, 4000)
TheLoads == {(d1 :> Mix) @@ (d2 :> Small) @@ (d3 :> Idle),
             (d1 :> Small) @@ (d2 :> Idle) @@ (d3 :> Mix)}
ASSUME ProfilesFitHere == ProfilesFit
TheDemands == {[io |-> 150, bw |-> 60000], [io |-> 0, bw |-> 210000]}
================================================================================
