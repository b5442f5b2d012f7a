--------------------------- MODULE MCGoldfishSync ---------------------------
(* Instances of GoldfishSync for TLC.                                      *)
EXTENDS GoldfishSync

CONSTANTS h1, h2, main, cpu

MCThread == {h1, h2, main, cpu}
MCOp == 1..MaxCmd
NoReply == {}
LastReplies == {MaxCmd}
MCSymmetry == {[t \in {h1, h2} |-> t], [t \in {h1, h2} |-> IF t = h1 THEN h2 ELSE h1]}
=============================================================================
