SPECIFICATION Spec
CONSTANTS
    GuestToHostCapacity = 2
    HostToGuestCapacity = 2
    MaxSend = 3
    MaxSave = 1
    MaxLoad = 0
INVARIANT SnapshotIsWhole
CHECK_DEADLOCK FALSE
