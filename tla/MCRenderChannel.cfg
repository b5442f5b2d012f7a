SPECIFICATION FairSpec
CONSTANTS
    GuestToHostCapacity = 1
    HostToGuestCapacity = 2
    MaxSend = 6
    MaxSave = 1
    MaxLoad = 1
INVARIANT TypeOK
INVARIANT WaitersHaveReason
INVARIANT NoLostWakeup
INVARIANT StateIsCurrent
INVARIANT CommandsInOrder
INVARIANT RepliesInOrder
CHECK_DEADLOCK FALSE
PROPERTY SnapshotEnds
PROPERTY ThreadEnds
PROPERTY SendReturns
