---------------------------- MODULE MCThreadPool -----------------------------
(* Instances of ThreadPool for TLC.                                        *)
EXTENDS ThreadPool

CONSTANTS w1, w2

TwoWorkers == {w1, w2}
MCOther == {w1, w2, Vcpu}
MCBh == {"new_thread_bh", "completion_bh"}
=============================================================================
