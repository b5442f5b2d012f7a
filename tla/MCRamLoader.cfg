SPECIFICATION FairSpec
CONSTANTS
    a1 = a1
    g1 = g1
    PageCount = 3
    ZeroPage <- SecondZero
    PagefaultThread = pagefault
    ReaderThread = reader
    Accessor <- OneAccessor
    Guest <- OneGuest
    LoadRamRange <- LastTwo
    QueueSize = 2
    MaxError = 1
INVARIANT SavedPageSeenOnce
INVARIANT NullPageMeansClaimed
PROPERTY LoadingEnds
CHECK_DEADLOCK FALSE
