--------------------------- MODULE ThreadsafeRing ---------------------------
(***************************************************************************)
(* The ring buffer that module A of lesson 27d exports: ring_push and      *)
(* ring_pop on a ring protected by a spinlock, with a wait queue on which  *)
(* ring_pop sleeps while the ring is empty.  One action per shared-memory  *)
(* step of a thread; pc[t] is the step thread t takes next.                *)
(*                                                                         *)
(* ring_pop reads head and tail for its wait condition without the lock,   *)
(* and does not look at them again once it holds it.                       *)
(***************************************************************************)
EXTENDS RingIndex

CONSTANTS
    Producers,   \* threads that call ring_push
    Consumers,   \* threads that call ring_pop
    Packets,     \* messages
    Empty,       \* the empty string, which is what kzalloc leaves in a slot
    Clip,        \* strscpy into MAX_PACKET bytes: Clip[m] is what is kept of m
    Free         \* the value of lock when nobody holds it

ASSUME ThreadAssumption ==
    /\ Producers \cap Consumers = {}
    /\ Free \notin Producers \cup Consumers

\* Truncating a message that was truncated already changes nothing.
ASSUME ClipAssumption ==
    /\ Empty \in Packets
    /\ Clip \in [Packets -> Packets]
    /\ \A m \in Packets : Clip[Clip[m]] = Clip[m]
    /\ Clip[Empty] = Empty

Threads == Producers \cup Consumers

VARIABLES
    data, head, tail,   \* struct ring_buffer
    lock,               \* its spinlock: the thread that holds it, or Free
    read_queue,         \* its wait queue: who is on it and not woken yet
    pc,                 \* the next step of each thread
    arg,                \* arg[p]: the msg argument of p's ring_push
    res,                \* res[p]: the result of p's last ring_push
    msg,                \* msg[c]: the buffer c passed to ring_pop
    last                \* history: the packet the last completed pop removed

ring == <<data, head, tail>>
vars == <<data, head, tail, lock, read_queue, pc, arg, res, msg, last>>

Goto(t, step) == pc' = [pc EXCEPT ![t] = step]

Init ==
    /\ data = [i \in Slots |-> Empty]
    /\ head = 0
    /\ tail = 0
    /\ lock = Free
    /\ read_queue = {}
    /\ pc = [t \in Threads |-> "idle"]
    /\ arg = [p \in Producers |-> Empty]
    /\ res = [p \in Producers |-> "none"]
    /\ msg = [c \in Consumers |-> Empty]
    /\ last = Empty

(***************************************************************************)
(* ring_push                                                               *)
(***************************************************************************)
PushCall(p, m) ==
    /\ pc[p] = "idle"
    /\ arg' = [arg EXCEPT ![p] = m]
    /\ Goto(p, "acquire")
    /\ UNCHANGED <<ring, lock, read_queue, res, msg, last>>

\* Mutant: the lock is not waited for.
PushLockBusy(p) ==
    /\ pc[p] = "acquire"
    /\ lock' = p
    /\ Goto(p, "check")
    /\ UNCHANGED <<ring, read_queue, arg, res, msg, last>>

PushLock(p) ==
    /\ pc[p] = "acquire"
    /\ lock = Free
    /\ lock' = p
    /\ Goto(p, "check")
    /\ UNCHANGED <<ring, read_queue, arg, res, msg, last>>

\* The ring is full: unlock and return -ENOSPC.
PushFull(p) ==
    /\ pc[p] = "check"
    /\ Succ(head) = tail
    /\ lock' = Free
    /\ res' = [res EXCEPT ![p] = "ENOSPC"]
    /\ Goto(p, "idle")
    /\ UNCHANGED <<ring, read_queue, arg, msg, last>>

PushStore(p) ==
    /\ pc[p] = "check"
    /\ Succ(head) # tail
    /\ data' = [data EXCEPT ![head] = Clip[arg[p]]]
    /\ Goto(p, "advance")
    /\ UNCHANGED <<head, tail, lock, read_queue, arg, res, msg, last>>

PushAdvance(p) ==
    /\ pc[p] = "advance"
    /\ head' = Succ(head)
    /\ res' = [res EXCEPT ![p] = "ok"]
    /\ Goto(p, "unlock")
    /\ UNCHANGED <<data, tail, lock, read_queue, arg, msg, last>>

PushUnlock(p) ==
    /\ pc[p] = "unlock"
    /\ lock' = Free
    /\ Goto(p, "wake")
    /\ UNCHANGED <<ring, read_queue, arg, res, msg, last>>

\* Mutant: nobody is woken.
PushWakeNobody(p) ==
    /\ pc[p] = "wake"
    /\ Goto(p, "idle")
    /\ UNCHANGED <<ring, lock, read_queue, arg, res, msg, last>>

\* wake_up_interruptible after the lock is released: every sleeper is made
\* runnable and leaves the queue.
PushWake(p) ==
    /\ pc[p] = "wake"
    /\ read_queue' = {}
    /\ Goto(p, "idle")
    /\ UNCHANGED <<ring, lock, arg, res, msg, last>>

(***************************************************************************)
(* ring_pop: wait_event_interruptible, then the locked part.  Its caller   *)
(* is a kernel thread, to which no signal is delivered.                    *)
(***************************************************************************)
PopCall(c) ==
    /\ pc[c] = "idle"
    /\ Goto(c, "test")
    /\ UNCHANGED <<ring, lock, read_queue, arg, res, msg, last>>

\* First look at the condition, before any queueing.
PopTest(c) ==
    /\ pc[c] = "test"
    /\ Goto(c, IF head # tail THEN "acquire" ELSE "prepare")
    /\ UNCHANGED <<ring, lock, read_queue, arg, res, msg, last>>

\* Mutant: the thread sleeps without looking at the condition again.
WaitPrepareBlind(c) ==
    /\ pc[c] = "prepare"
    /\ read_queue' = read_queue \cup {c}
    /\ Goto(c, "asleep")
    /\ UNCHANGED <<ring, lock, arg, res, msg, last>>

\* prepare_to_wait_event: join the queue before looking again.
WaitPrepare(c) ==
    /\ pc[c] = "prepare"
    /\ read_queue' = read_queue \cup {c}
    /\ Goto(c, "recheck")
    /\ UNCHANGED <<ring, lock, arg, res, msg, last>>

\* The condition holds: finish_wait leaves the queue.
WaitDone(c) ==
    /\ pc[c] = "recheck"
    /\ head # tail
    /\ read_queue' = read_queue \ {c}
    /\ Goto(c, "acquire")
    /\ UNCHANGED <<ring, lock, arg, res, msg, last>>

WaitSleep(c) ==
    /\ pc[c] = "recheck"
    /\ head = tail
    /\ Goto(c, "asleep")
    /\ UNCHANGED <<ring, lock, read_queue, arg, res, msg, last>>

\* Mutant: a wake-up is taken for a packet ("if" instead of "while").
WaitResumeOnce(c) ==
    /\ pc[c] = "asleep"
    /\ c \notin read_queue
    /\ Goto(c, "acquire")
    /\ UNCHANGED <<ring, lock, read_queue, arg, res, msg, last>>

\* schedule() returns once the thread was woken; the loop queues it again.
WaitResume(c) ==
    /\ pc[c] = "asleep"
    /\ c \notin read_queue
    /\ Goto(c, "prepare")
    /\ UNCHANGED <<ring, lock, read_queue, arg, res, msg, last>>

PopLock(c) ==
    /\ pc[c] = "acquire"
    /\ lock = Free
    /\ lock' = c
    /\ Goto(c, "copy")
    /\ UNCHANGED <<ring, read_queue, arg, res, msg, last>>

PopCopy(c) ==
    /\ pc[c] = "copy"
    /\ msg' = [msg EXCEPT ![c] = Clip[data[tail]]]
    /\ Goto(c, "advance")
    /\ UNCHANGED <<ring, lock, read_queue, arg, res, last>>

PopAdvance(c) ==
    /\ pc[c] = "advance"
    /\ tail' = Succ(tail)
    /\ last' = msg[c]
    /\ Goto(c, "unlock")
    /\ UNCHANGED <<data, head, lock, read_queue, arg, res, msg>>

PopUnlock(c) ==
    /\ pc[c] = "unlock"
    /\ lock' = Free
    /\ Goto(c, "idle")
    /\ UNCHANGED <<ring, read_queue, arg, res, msg, last>>

PushStep(p) ==
    PushLock(p) \/ PushFull(p) \/ PushStore(p) \/ PushAdvance(p)
        \/ PushUnlock(p) \/ PushWake(p)

PopStep(c) ==
    PopTest(c) \/ WaitPrepare(c) \/ WaitDone(c) \/ WaitSleep(c)
        \/ WaitResume(c) \/ PopLock(c) \/ PopCopy(c) \/ PopAdvance(c)
        \/ PopUnlock(c)

Next ==
    \/ \E p \in Producers : (\E m \in Packets : PushCall(p, m)) \/ PushStep(p)
    \/ \E c \in Consumers : PopCall(c) \/ PopStep(c)

Spec == Init /\ [][Next]_vars

\* A thread inside ring_push or ring_pop keeps running; only the calls
\* themselves are up to the environment, except that the consumer thread of
\* module B calls ring_pop again and again.
Fairness ==
    /\ \A p \in Producers : SF_vars(PushLock(p)) /\ WF_vars(PushStep(p))
    /\ \A c \in Consumers :
           SF_vars(PopLock(c)) /\ WF_vars(PopCall(c) \/ PopStep(c))

FairSpec == Spec /\ Fairness
-----------------------------------------------------------------------------
PushSteps == {"idle", "acquire", "check", "advance", "unlock", "wake"}
PopSteps == {"idle", "test", "prepare", "recheck", "asleep", "acquire",
             "copy", "advance", "unlock"}

\* Every variable has the type its declaration gives it, and indices stay
\* inside data[RING_SIZE].
TypeOK ==
    /\ data \in [Slots -> Packets]
    /\ head \in Slots
    /\ tail \in Slots
    /\ lock \in Threads \cup {Free}
    /\ read_queue \in SUBSET Consumers
    /\ pc \in [Threads -> PushSteps \cup PopSteps]
    /\ \A p \in Producers : pc[p] \in PushSteps
    /\ \A c \in Consumers : pc[c] \in PopSteps
    /\ arg \in [Producers -> Packets]
    /\ res \in [Producers -> {"none", "ok", "ENOSPC"}]
    /\ msg \in [Consumers -> Packets]
    /\ last \in Packets

\* The thread is in the code between spin_lock and spin_unlock.
InLock(t) == pc[t] \in {"check", "copy", "advance", "unlock"}

\* The spinlock is held by the one thread that is inside the locked code.
LockHolder == \A t \in Threads : InLock(t) <=> lock = t

\* Between the two halves of the locked part of ring_push the packet is in
\* the slot that head points to, and there is room for it; between those of
\* ring_pop the packet is in the caller's buffer and still in the ring.
Halfway ==
    /\ \A p \in Producers :
           pc[p] = "advance" => data[head] = Clip[arg[p]] /\ Succ(head) # tail
    /\ \A c \in Consumers : pc[c] = "advance" => msg[c] = Clip[data[tail]]

\* What a slot holds went through strscpy.
Clipped == \A i \in Slots : Clip[data[i]] = data[i]

\* ring_pop, once past its wait, finds a packet: the wait condition it read
\* without the lock still holds when it removes the packet
\* (Threadsafe_ring_buffer_Module-A.c:65-76).  With several consumers it does
\* not: two of them can pass the wait for the same packet.
PopFindsPacket ==
    \A c \in Consumers : pc[c] \in {"acquire", "copy", "advance"} => head # tail

\* No lost wake-up: while a packet is in the ring, a consumer that sleeps has
\* been woken already, or a producer is on its way to wake it
\* (Threadsafe_ring_buffer_Module-A.c:52-56 against :65-67).
NoLostWakeup ==
    \A c \in Consumers :
        (pc[c] = "asleep" /\ c \in read_queue /\ head # tail)
            => \E p \in Producers : pc[p] \in {"unlock", "wake"}

\* The ring is a FIFO queue with RING_SIZE - 1 places: each push appends the
\* clipped message or reports a full ring, and each pop removes the oldest.
Fifo == INSTANCE BoundedFifo WITH
    queue <- Contents(data, head, tail),
    Capacity <- RING_SIZE - 1

ImplementsFifo == Fifo!Spec

\* Every packet is eventually taken out by the consumer that loops on
\* ring_pop (Threadsafe_ring_buffer_Module-B.c:15-19): the ring never keeps
\* one at its tail for ever.
TailMoves == \A i \in Slots : (tail = i /\ head # i) ~> (tail # i)
=============================================================================
