SPECIFICATION DeviceSpec
CONSTANTS
    Readers = {r}
    Writers = {w1, w2}
    Messages = {m1, m2}
    Nothing = Nothing
    ReturnsOnSignal = TRUE
    MaxWrites = 2
    Pollers = {p1, p2}
    WakeNr = 1
    MaxPollWrites = 3
    Users = {u1, u2}
    Ids = {1, 2}
    Nodes = {n1, n2, n3}
    Room = 2
    Free = Free
    End = End
    Nobody = Nobody
    Styles = {"terminated", "sized"}
    BUF_SIZE = 3
    Chars = {a, b}
    NUL = NUL
    a = a
    b = b
    Scribes = {s1, s2}
    Viewers = {v}
    Chunks = {2, 4}
    SizeMod = 32
    INT_MAX = 15
INVARIANTS
    DeviceTypeOK
    NoLostWakeup
    ReadsReturnWrites
    NoPollerForgotten
    StaysInBuffer
    ReadsAreExact
    NodesAccounted
PROPERTIES
    WaitsEnd
\* After the last write both programs sleep in poll().
CHECK_DEADLOCK FALSE
