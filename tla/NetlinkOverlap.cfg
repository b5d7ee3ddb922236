SPECIFICATION Spec
CONSTANTS
    Clients = {p1, p2}
    Broadcasters = {p1}
    NoPid = NoPid
    MAX_CLIENTS = 2
INVARIANTS
    BroadcastIsComplete
