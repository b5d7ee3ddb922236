SPECIFICATION CallbackSpec
CONSTANTS
    Clients = {c1, c2, c3}
    Notifiers = {n1, n2}
    Free = Free
    End = End
    SlotClients = {b1, b2}
    Null = Null
    Events = 2
    Blocks = {B, C, D}
    ModuleC = C
    EventCount = 2
    LastBlock = LastBlock
    Pids = {p1, p2, p3}
    Broadcasters = {p1}
    NoPid = NoPid
    MAX_CLIENTS = 2
    Listeners = {p1, p2}
    GroupIds = {5, 6}
    NoGroup = NoGroup
    SockBuf = 1
INVARIANTS
    CallbackTypeOK
    CursorIsAlive
    NotifyReachesAll
    RegistersAreSound
    EventsReachAll
PROPERTIES
    UnloadEnds
