SPECIFICATION FairSpec
CONSTANTS
    h1 = h1
    h2 = h2
    main = main
    cpu = cpu
    NoThread = NoThread
    Thread <- MCThread
    MainLoop = main
    Guest = cpu
    Op <- MCOp
    NeedsReply <- LastReplies
    MaxCmd = 3
    MaxReboot = 1
    MaxSave = 1
    MaxLoad = 1
INVARIANT TypeOK
INVARIANT PendingRaisesIrq
INVARIANT ListShape
INVARIANT CommandsInOrder
INVARIANT NoStrandedOperation
PROPERTY CommandsDelivered
CHECK_DEADLOCK FALSE
