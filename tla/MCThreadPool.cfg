SPECIFICATION FairSpec
CONSTANTS
    w1 = w1
    w2 = w2
    Loop = loop
    Vcpu = vcpu
    NoThread = NoThread
    OtherThread <- MCOther
    Bh <- MCBh
    Worker <- TwoWorkers
    Requests = 3
    max_threads = 2
INVARIANT NoLostNotify
INVARIANT WorkerFindsRequest
PROPERTY RequestsComplete
PROPERTY FreeReturns
CHECK_DEADLOCK FALSE
