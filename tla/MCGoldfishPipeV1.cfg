SPECIFICATION Spec
CONSTANTS
    c1 = c1
    c2 = c2
    c3 = c3
    Channel <- ThreeChannels
    Event <- Read
    Service <- AnyService
    ServiceOf <- LastUnloadable
    MaxPipe = 3
VIEW MCView
SYMMETRY Symmetry
INVARIANT TypeOK
INVARIANT WantedListLinked
INVARIANT SamePipeAfterChannelHigh
INVARIANT WantedRaisesIrq
INVARIANT NoLostWakeup
