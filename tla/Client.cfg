SPECIFICATION RingSpec
CONSTANTS
    RING_SIZE = 4
    Loader = b
    Consumer = c
    Producers = {b}
    Consumers = {c}
    Packets <- MCPackets
    Clip <- MCClip
    Script <- MCScript
    Empty = ""
    Free = Free
    KthreadFails = TRUE
    SharedSize = 3
    SharedPackets <- MCSharedPackets
INVARIANTS
    RingTypeOK
    PrintsScript
PROPERTIES
    AllPrinted
    ExitReturns
    SharedImplementsFifo
\* The module is loaded and removed once.
CHECK_DEADLOCK FALSE
