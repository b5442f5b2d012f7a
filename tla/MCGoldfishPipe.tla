--------------------------- MODULE MCGoldfishPipe ---------------------------
(* Instances of GoldfishPipe for TLC.                                      *)
EXTENDS GoldfishPipe

CONSTANTS h1, main, cpu

OneHost == {h1, main, cpu}
MCOp == [pipe : 1..MaxPipe, flags : SUBSET (Event \cup {"CLOSED"})]
TwoIds == {0, 2}
ThreeIds == {0, 1, 2}
Read == {"READ"}
AnyService == {"loadable", "unloadable"}
AllLoadable == [i \in Id |-> {"loadable"}]
LastUnloadable == [i \in Id |-> IF i = 2 THEN {"unloadable"} ELSE {"loadable"}]

(* The snapshot is of no more use once it has been loaded for the last     *)
(* time: states that differ only in it behave alike.                       *)
Spent == loads = MaxLoad /\ ~Loading
MCView == <<runnerVars, deviceVars, tableVars, serviceVars, guestVars, snap, cursor, saves,
            loads, IF Spent THEN <<>> ELSE <<saved>>>>
=============================================================================
