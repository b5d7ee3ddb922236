---------------------------- MODULE MCRingClient ----------------------------
(***************************************************************************)
(* The two rings between modules for TLC, with one client each: that of    *)
(* lesson 27d with its module B, which pushes packets A, B and C into a    *)
(* ring that holds exactly three, or that of lesson 27c with one producer  *)
(* and one consumer.  The other one stays as it is initially.              *)
(***************************************************************************)
EXTENDS RingClient

CONSTANTS SharedSize, SharedPackets   \* RING_SIZE and Packets of lesson 27c

MCPackets == {"", "A", "B", "C"}
MCClip == [m \in MCPackets |-> m]
MCScript == <<"A", "B", "C">>
MCSharedPackets == {"", "A", "B"}

VARIABLES
    lesson,   \* the ring that is used
    dataC, headC, tailC, pcC, argC, next, resC, msgC, lastC

Shared == INSTANCE SharedRing WITH
    RING_SIZE <- SharedSize, Packets <- SharedPackets,
    Clip <- [m \in SharedPackets |-> m],
    data <- dataC, head <- headC, tail <- tailC, pc <- pcC, arg <- argC,
    res <- resC, msg <- msgC, last <- lastC

ASSUME SharedRingAssumption ==
    Shared!SharedAssumption /\ SharedSize \in Nat \ {0, 1}

varsC == <<dataC, headC, tailC, pcC, argC, next, resC, msgC, lastC>>

RingInit == lesson \in {"27c", "27d"} /\ ClientInit /\ Shared!Init

RingNext ==
    \/ lesson = "27d" /\ ClientNext /\ UNCHANGED <<lesson, varsC>>
    \/ lesson = "27c" /\ Shared!Next /\ UNCHANGED <<lesson, clientVars>>

RingSpec ==
    /\ RingInit
    /\ [][RingNext]_<<lesson, clientVars, varsC>>
    /\ lesson = "27d" => ClientFairness
-----------------------------------------------------------------------------
\* Type invariants of both rings.
RingTypeOK == ClientTypeOK /\ Shared!TypeOK

\* What module B prints is what it pushed, in order, and at most one message
\* more once it is stopped (Threadsafe_ring_buffer_Module-B.c:15-19, 33-49).
PrintsScript == PrintsPrefix /\ OneMoreAtMost

\* Without a lock, the ring of lesson 27c is a bounded FIFO queue for one
\* producer and one consumer (Shared_ring_buffer_Module-A.c:30-63).
SharedImplementsFifo == Shared!ImplementsFifo
=============================================================================
