SPECIFICATION Spec
CONSTANTS
    r1 = r1
    r2 = r2
    u1 = u1
    u2 = u2
    CallRcu = callRcu
    Reader <- TwoReaders
    Updater <- TwoUpdaters
    Event <- BothEvents
    Nodes = 2
    MaxDepth = 2
    Long64 = {TRUE, FALSE}
    UIntRange = 4
SYMMETRY MCSymmetry
INVARIANT FreedIsUnused
INVARIANT NeverAborts
INVARIANT NoLostWakeup
