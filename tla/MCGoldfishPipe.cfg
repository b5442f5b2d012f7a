SPECIFICATION FairSpec
CONSTANTS
    h1 = h1
    main = main
    cpu = cpu
    NoThread = NoThread
    Thread <- OneHost
    MainLoop = main
    Guest = cpu
    Op <- MCOp
    Id <- ThreeIds
    Event <- Read
    Service <- AnyService
    ServiceOf <- AllLoadable
    BufferSize = 3
    InitialCapacity = 4
    AbortsPending = TRUE
    MaxPipe = 3
    MaxPending = 2
    MaxStopped = 1
    MaxSave = 0
    MaxLoad = 0
INVARIANT WantedListShape
INVARIANT NoLostWakeup
INVARIANT NoDanglingOperation
PROPERTY ImplementsWakeups
PROPERTY SignalledWakes
