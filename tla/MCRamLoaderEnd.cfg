SPECIFICATION Spec
CONSTANTS
    a1 = a1
    g1 = g1
    PageCount = 3
    ZeroPage <- SecondZero
    PagefaultThread = pagefault
    ReaderThread = reader
    Accessor <- NoAccessor
    Guest <- NoGuest
    LoadRamRange <- NoRange
    QueueSize = 2
    MaxError = 0
INVARIANT StopMeansLoaded
CHECK_DEADLOCK FALSE
