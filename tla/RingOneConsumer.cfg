SPECIFICATION FairSpec
CONSTANTS
    RING_SIZE = 3
    Producers = {p1, p2}
    Consumers = {c1}
    Packets <- MCPackets
    Clip <- MCClip
    Empty = ""
    Free = Free
INVARIANTS
    TypeOK
    PopFindsPacket
    NoLostWakeup
PROPERTIES
    ImplementsFifo
    TailMoves
