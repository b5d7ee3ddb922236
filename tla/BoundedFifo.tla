---------------------------- MODULE BoundedFifo ----------------------------
(***************************************************************************)
(* What a ring buffer shared between kernel modules promises: a FIFO queue *)
(* that holds at most Capacity packets.  A producer that finds it full is  *)
(* told so and changes nothing; a consumer always gets the oldest packet.  *)
(* The ring buffers of lessons 27c and 27d are shown to implement it.      *)
(***************************************************************************)
EXTENDS Naturals, Sequences

CONSTANTS
    Producers,   \* the threads that call ring_push
    Packets,     \* the messages
    Empty,       \* the empty message
    Clip,        \* Clip[m] is what a slot of MAX_PACKET bytes keeps of m
    Capacity     \* how many packets fit

VARIABLES
    queue,       \* the packets in the buffer, oldest first
    arg,         \* arg[p]: the message p wants to push
    res,         \* res[p]: the outcome of the last push of p
    last         \* the packet the last pop removed

fifoVars == <<queue, arg, res, last>>

Init ==
    /\ queue = <<>>
    /\ arg = [p \in Producers |-> Empty]
    /\ res = [p \in Producers |-> "none"]
    /\ last = Empty

Submit(p, m) ==
    /\ arg' = [arg EXCEPT ![p] = m]
    /\ UNCHANGED <<queue, res, last>>

Push(p) ==
    /\ Len(queue) < Capacity
    /\ queue' = Append(queue, Clip[arg[p]])
    /\ res' = [res EXCEPT ![p] = "ok"]
    /\ UNCHANGED <<arg, last>>

Reject(p) ==
    /\ Len(queue) = Capacity
    /\ res' = [res EXCEPT ![p] = "ENOSPC"]
    /\ UNCHANGED <<queue, arg, last>>

Pop ==
    /\ queue # <<>>
    /\ last' = Head(queue)
    /\ queue' = Tail(queue)
    /\ UNCHANGED <<arg, res>>

Next ==
    \/ \E p \in Producers :
        \/ \E m \in Packets : Submit(p, m)
        \/ Push(p)
        \/ Reject(p)
    \/ Pop

Spec == Init /\ [][Next]_fifoVars
=============================================================================
