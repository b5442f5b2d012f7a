------------------------------- MODULE MCRcu ---------------------------------
(* Instances of Rcu for TLC.                                               *)
EXTENDS Rcu, TLC

CONSTANTS r1, r2, u1, u2

TwoReaders == {r1, r2}
TwoUpdaters == {u1, u2}
BothEvents == {"rcu_gp_event", "rcu_call_ready_event"}
MCSymmetry == Permutations(TwoReaders) \cup Permutations(TwoUpdaters)
=============================================================================
