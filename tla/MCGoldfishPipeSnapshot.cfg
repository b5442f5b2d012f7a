SPECIFICATION Spec
CONSTANTS
    h1 = h1
    main = main
    cpu = cpu
    NoThread = NoThread
    Thread <- OneHost
    MainLoop = main
    Guest = cpu
    Op <- MCOp
    Id <- TwoIds
    Event <- Read
    Service <- AnyService
    ServiceOf <- LastUnloadable
    BufferSize = 1
    InitialCapacity = 1
    AbortsPending = TRUE
    MaxPipe = 2
    MaxPending = 1
    MaxStopped = 1
    MaxSave = 1
    MaxLoad = 1
VIEW MCView
INVARIANT TypeOK
INVARIANT NoLostWakeup
INVARIANT HostPipePresent
PROPERTY ImplementsWakeups
