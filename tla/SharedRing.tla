----------------------------- MODULE SharedRing -----------------------------
(***************************************************************************)
(* The ring buffer that module A of lesson 27c shares with other modules:  *)
(* ring_push and ring_pop without a lock, in steps that touch what another *)
(* thread can see.  next is a local variable of ring_push; what is read of *)
(* head beside it is read again from the ring.                             *)
(***************************************************************************)
EXTENDS RingIndex

CONSTANTS
    Producers,   \* the threads that call ring_push
    Consumers,   \* the threads that call ring_pop
    Packets,     \* the messages
    Empty,       \* the content of a slot of the zeroed ring
    Clip         \* what strscpy keeps of a message

SharedAssumption ==
    /\ Producers \cap Consumers = {}
    /\ Empty \in Packets
    /\ Clip \in [Packets -> Packets]

VARIABLES
    data, head, tail,   \* struct ring_buffer
    pc,                 \* pc[t]: where thread t is
    arg,                \* arg[p]: the message p pushes
    next,               \* next[p]: the head that p is going to set
    res,                \* res[p]: what its last ring_push returned
    msg,                \* msg[c]: the buffer ring_pop copies to
    last                \* history: the packet popped last

sharedVars == <<data, head, tail, pc, arg, next, res, msg, last>>

Init ==
    /\ data = [i \in Slots |-> Empty]
    /\ head = 0 /\ tail = 0
    /\ pc = [t \in Producers \cup Consumers |-> "idle"]
    /\ arg = [p \in Producers |-> Empty]
    /\ next = [p \in Producers |-> 0]
    /\ res = [p \in Producers |-> "none"]
    /\ msg = [c \in Consumers |-> Empty]
    /\ last = Empty

Goto(t, from, to) == pc[t] = from /\ pc' = [pc EXCEPT ![t] = to]

PushCall(p, m) ==
    /\ Goto(p, "idle", "test")
    /\ arg' = [arg EXCEPT ![p] = m]
    /\ UNCHANGED <<data, head, tail, next, res, msg, last>>

PushFull(p) ==
    /\ Goto(p, "test", "idle")
    /\ Succ(head) = tail
    /\ res' = [res EXCEPT ![p] = "ENOSPC"]
    /\ UNCHANGED <<data, head, tail, arg, next, msg, last>>

\* Mutant: the test for a full ring is missing.
PushRoomAlways(p) ==
    /\ Goto(p, "test", "store")
    /\ next' = [next EXCEPT ![p] = Succ(head)]
    /\ UNCHANGED <<data, head, tail, arg, res, msg, last>>

PushRoom(p) ==
    /\ Goto(p, "test", "store")
    /\ Succ(head) # tail
    /\ next' = [next EXCEPT ![p] = Succ(head)]
    /\ UNCHANGED <<data, head, tail, arg, res, msg, last>>

PushStore(p) ==
    /\ Goto(p, "store", "advance")
    /\ data' = [data EXCEPT ![head] = Clip[arg[p]]]
    /\ UNCHANGED <<head, tail, arg, next, res, msg, last>>

PushAdvance(p) ==
    /\ Goto(p, "advance", "idle")
    /\ head' = next[p]
    /\ res' = [res EXCEPT ![p] = "ok"]
    /\ UNCHANGED <<data, tail, arg, next, msg, last>>

\* ring_pop returns -ENOENT.
PopEmpty(c) ==
    /\ pc[c] = "idle"
    /\ head = tail
    /\ UNCHANGED sharedVars

PopTest(c) ==
    /\ Goto(c, "idle", "copy")
    /\ head # tail
    /\ UNCHANGED <<data, head, tail, arg, next, res, msg, last>>

PopCopy(c) ==
    /\ Goto(c, "copy", "advance")
    /\ msg' = [msg EXCEPT ![c] = data[tail]]
    /\ UNCHANGED <<data, head, tail, arg, next, res, last>>

PopAdvance(c) ==
    /\ Goto(c, "advance", "idle")
    /\ tail' = Succ(tail)
    /\ last' = msg[c]
    /\ UNCHANGED <<data, head, arg, next, res, msg>>

PushStep(p) == PushFull(p) \/ PushRoom(p) \/ PushStore(p) \/ PushAdvance(p)
PopStep(c) == PopEmpty(c) \/ PopTest(c) \/ PopCopy(c) \/ PopAdvance(c)

Next ==
    \/ \E p \in Producers : PushStep(p) \/ \E m \in Packets : PushCall(p, m)
    \/ \E c \in Consumers : PopStep(c)

Spec == Init /\ [][Next]_sharedVars
-----------------------------------------------------------------------------
\* Type invariant.
TypeOK ==
    /\ data \in [Slots -> Packets]
    /\ head \in Slots /\ tail \in Slots
    /\ pc \in [Producers \cup Consumers
                 -> {"idle", "test", "store", "copy", "advance"}]
    /\ arg \in [Producers -> Packets]
    /\ next \in [Producers -> Slots]
    /\ res \in [Producers -> {"none", "ok", "ENOSPC"}]
    /\ msg \in [Consumers -> Packets]
    /\ last \in Packets

Fifo == INSTANCE BoundedFifo WITH
    queue <- Contents(data, head, tail), Capacity <- RING_SIZE - 1

\* With one producer and one consumer the ring needs no lock to be a bounded
\* FIFO queue (Shared_ring_buffer_Module-A.c:30-63).
ImplementsFifo == Fifo!Spec
=============================================================================
