SPECIFICATION Spec
CONSTANTS
    RING_SIZE = 2
    Producers = {p1}
    Consumers = {c1, c2}
    Packets <- MCOnePacket
    Clip <- MCOneClip
    Empty = ""
    Free = Free
INVARIANTS
    PopFindsPacket
