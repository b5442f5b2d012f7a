SPECIFICATION Spec
CONSTANTS
    h1 = h1
    h2 = h2
    main = main
    cpu = cpu
    NoThread = NoThread
    Thread <- MCThread
    MainLoop = main
    Guest = cpu
    Op <- MCOp
    NeedsReply <- NoReply
    MaxCmd = 3
    MaxReboot = 0
    MaxSave = 1
    MaxLoad = 1
SYMMETRY MCSymmetry
INVARIANT SnapshotKeepsPending
CHECK_DEADLOCK FALSE
