----------------------- MODULE ThreadsafeRingProofs -----------------------
(***************************************************************************)
(* Theorems about ThreadsafeRing, for every ring size and any number of    *)
(* producers.  Those that need it assume a single consumer thread, which   *)
(* is how module B of lesson 27d uses the ring.                            *)
(***************************************************************************)
EXTENDS ThreadsafeRing, RingIndexProofs

USE ThreadAssumption

(***************************************************************************)
(* Mutual exclusion, and what holds between the two halves of a locked     *)
(* part: inductive for any number of consumers.                            *)
(***************************************************************************)
SafeInv == TypeOK /\ LockHolder /\ Halfway /\ Clipped

\* module_a_init leaves an empty ring with the lock free.
LEMMA SafeInit == Init => SafeInv
  BY RingSizeAssumption, ClipAssumption
     DEF Init, SafeInv, TypeOK, LockHolder, InLock, Halfway, Clipped, Slots,
         Threads, PushSteps, PopSteps

\* No step of ring_push or ring_pop breaks the types, the ownership of the
\* lock, or the room and the packet that a thread in the locked code counts on.
LEMMA SafeStep == SafeInv /\ [Next]_vars => SafeInv'
<1> SUFFICES ASSUME SafeInv, [Next]_vars PROVE SafeInv'
  OBVIOUS
<1> USE DEF SafeInv, TypeOK, LockHolder, InLock, Halfway, Clipped, Threads,
            PushSteps, PopSteps, Goto, ring
<1>1. ASSUME NEW p \in Producers, NEW m \in Packets, PushCall(p, m)
      PROVE  SafeInv'
  BY <1>1 DEF PushCall
<1>2. ASSUME NEW p \in Producers, PushLock(p) PROVE SafeInv'
  BY <1>2 DEF PushLock
<1>3. ASSUME NEW p \in Producers, PushFull(p) PROVE SafeInv'
  BY <1>3 DEF PushFull
<1>4. ASSUME NEW p \in Producers, PushStore(p) PROVE SafeInv'
  BY <1>4, ClipAssumption DEF PushStore
<1>5. ASSUME NEW p \in Producers, PushAdvance(p) PROVE SafeInv'
  BY <1>5, SuccSlot DEF PushAdvance
<1>6. ASSUME NEW p \in Producers, PushUnlock(p) PROVE SafeInv'
  BY <1>6 DEF PushUnlock
<1>7. ASSUME NEW p \in Producers, PushWake(p) PROVE SafeInv'
  BY <1>7 DEF PushWake
<1>8. ASSUME NEW c \in Consumers, PopCall(c) PROVE SafeInv'
  BY <1>8 DEF PopCall
<1>9. ASSUME NEW c \in Consumers, PopTest(c) PROVE SafeInv'
  BY <1>9 DEF PopTest
<1>10. ASSUME NEW c \in Consumers,
              WaitPrepare(c) \/ WaitDone(c) \/ WaitSleep(c) \/ WaitResume(c)
       PROVE  SafeInv'
  BY <1>10 DEF WaitPrepare, WaitDone, WaitSleep, WaitResume
<1>11. ASSUME NEW c \in Consumers, PopLock(c) PROVE SafeInv'
  BY <1>11 DEF PopLock
<1>12. ASSUME NEW c \in Consumers, PopCopy(c) PROVE SafeInv'
  BY <1>12, ClipAssumption DEF PopCopy
<1>13. ASSUME NEW c \in Consumers, PopAdvance(c) PROVE SafeInv'
  BY <1>13, SuccSlot DEF PopAdvance
<1>14. ASSUME NEW c \in Consumers, PopUnlock(c) PROVE SafeInv'
  BY <1>14 DEF PopUnlock
<1>15. CASE UNCHANGED vars
  BY <1>15 DEF vars
<1> QED
  BY <1>1, <1>2, <1>3, <1>4, <1>5, <1>6, <1>7, <1>8, <1>9, <1>10, <1>11,
     <1>12, <1>13, <1>14, <1>15 DEF Next, PushStep, PopStep

\* Types, and indices that never leave data[RING_SIZE].
THEOREM TypeCorrect == Spec => []TypeOK
<1>1. SafeInv => TypeOK
  BY DEF SafeInv
<1> QED
  BY SafeInit, SafeStep, <1>1, PTL DEF Spec

\* ring_lock: at most one thread is in the locked code, the one that holds it.
THEOREM MutualExclusion ==
    Spec => [](\A s, t \in Threads : InLock(s) /\ InLock(t) => s = t)
<1>1. SafeInv => \A s, t \in Threads : InLock(s) /\ InLock(t) => s = t
  BY DEF SafeInv, LockHolder
<1> QED
  BY SafeInit, SafeStep, <1>1, PTL DEF Spec

(***************************************************************************)
(* With one consumer, nobody else moves tail between its wait and its pop. *)
(***************************************************************************)
SingleConsumer == \A c, d \in Consumers : c = d

PopInv == SafeInv /\ PopFindsPacket /\ NoLostWakeup

\* An empty ring with nobody in it satisfies the invariant of the waits.
LEMMA PopInit == Init => PopInv
  BY SafeInit DEF Init, PopInv, PopFindsPacket, NoLostWakeup, Threads

\* With one consumer no step empties the ring under ring_pop or leaves it
\* asleep beside a packet whose producer has already called wake_up.
LEMMA PopStepInv ==
    ASSUME SingleConsumer
    PROVE  PopInv /\ [Next]_vars => PopInv'
<1> SUFFICES ASSUME PopInv, [Next]_vars PROVE PopInv'
  OBVIOUS
<1>1. SafeInv'
  BY SafeStep DEF PopInv
<1>2. PopFindsPacket'
  <2> USE DEF PopInv, SafeInv, TypeOK, LockHolder, InLock, Halfway,
              PopFindsPacket, Threads, Goto, ring, SingleConsumer
  <2>1. ASSUME NEW p \in Producers, PushAdvance(p) PROVE PopFindsPacket'
    BY <2>1, SuccSlot DEF PushAdvance
  <2>2. ASSUME NEW p \in Producers,
               \/ \E m \in Packets : PushCall(p, m)
               \/ PushLock(p) \/ PushFull(p) \/ PushStore(p)
               \/ PushUnlock(p) \/ PushWake(p)
        PROVE  PopFindsPacket'
    BY <2>2 DEF PushCall, PushLock, PushFull, PushStore, PushUnlock, PushWake
  <2>3. ASSUME NEW c \in Consumers, PopTest(c) \/ WaitDone(c)
        PROVE  PopFindsPacket'
    BY <2>3 DEF PopTest, WaitDone
  <2>4. ASSUME NEW c \in Consumers, PopAdvance(c) PROVE PopFindsPacket'
    BY <2>4 DEF PopAdvance
  <2>5. ASSUME NEW c \in Consumers,
               \/ PopCall(c) \/ WaitPrepare(c) \/ WaitSleep(c)
               \/ WaitResume(c) \/ PopLock(c) \/ PopCopy(c) \/ PopUnlock(c)
        PROVE  PopFindsPacket'
    BY <2>5 DEF PopCall, WaitPrepare, WaitSleep, WaitResume, PopLock,
                PopCopy, PopUnlock
  <2>6. CASE UNCHANGED vars
    BY <2>6 DEF vars
  <2> QED
    BY <2>1, <2>2, <2>3, <2>4, <2>5, <2>6 DEF Next, PushStep, PopStep
<1>3. NoLostWakeup'
  <2> USE DEF PopInv, SafeInv, TypeOK, LockHolder, InLock, NoLostWakeup,
              Threads, Goto, ring, SingleConsumer
  <2>1. ASSUME NEW p \in Producers, PushAdvance(p) PROVE NoLostWakeup'
    BY <2>1 DEF PushAdvance
  <2>2. ASSUME NEW p \in Producers, PushUnlock(p) PROVE NoLostWakeup'
    BY <2>2 DEF PushUnlock
  <2>3. ASSUME NEW p \in Producers, PushWake(p) PROVE NoLostWakeup'
    BY <2>3 DEF PushWake
  <2>4. ASSUME NEW p \in Producers,
               \/ \E m \in Packets : PushCall(p, m)
               \/ PushLock(p) \/ PushFull(p) \/ PushStore(p)
        PROVE  NoLostWakeup'
    BY <2>4 DEF PushCall, PushLock, PushFull, PushStore
  <2>5. ASSUME NEW c \in Consumers, PopAdvance(c) PROVE NoLostWakeup'
    BY <2>5 DEF PopAdvance
  <2>6. ASSUME NEW c \in Consumers, WaitSleep(c) PROVE NoLostWakeup'
    BY <2>6 DEF WaitSleep
  <2>7. ASSUME NEW c \in Consumers,
               \/ PopCall(c) \/ PopTest(c) \/ WaitPrepare(c) \/ WaitDone(c)
               \/ WaitResume(c) \/ PopLock(c) \/ PopCopy(c) \/ PopUnlock(c)
        PROVE  NoLostWakeup'
    BY <2>7 DEF PopCall, PopTest, WaitPrepare, WaitDone, WaitResume, PopLock,
                PopCopy, PopUnlock
  <2>8. CASE UNCHANGED vars
    BY <2>8 DEF vars
  <2> QED
    BY <2>1, <2>2, <2>3, <2>4, <2>5, <2>6, <2>7, <2>8
       DEF Next, PushStep, PopStep
<1> QED
  BY <1>1, <1>2, <1>3 DEF PopInv

\* A single consumer never takes a packet from an empty ring.
THEOREM PopNeverFindsRingEmpty ==
    ASSUME SingleConsumer
    PROVE  Spec => []PopFindsPacket
<1>1. PopInv => PopFindsPacket
  BY DEF PopInv
<1> QED
  BY PopInit, PopStepInv, <1>1, PTL DEF Spec

\* The wake-up that follows the unlock reaches every consumer that went to
\* sleep before it: waking after the unlock is late enough and early enough.
THEOREM WakeupNeverLost ==
    ASSUME SingleConsumer
    PROVE  Spec => []NoLostWakeup
<1>1. PopInv => NoLostWakeup
  BY DEF PopInv
<1> QED
  BY PopInit, PopStepInv, <1>1, PTL DEF Spec

(***************************************************************************)
(* The ring implements a FIFO queue.  ring_push takes effect when it       *)
(* advances head or finds the ring full, ring_pop when it advances tail;   *)
(* every other step leaves the queue as it is.                             *)
(***************************************************************************)
LEMMA RefineInit == Init => Fifo!Init
<1> SUFFICES ASSUME Init PROVE Fifo!Init
  OBVIOUS
<1>1. Count(head, tail) = 0
  BY RingSizeAssumption DEF Init, Count
<1>2. Contents(data, head, tail) = <<>>
  BY <1>1 DEF Contents
<1> QED
  BY <1>2 DEF Init, Fifo!Init

\* A step that leaves the ring and the histories alone maps to a stutter.
LEMMA RefineStutter ==
    UNCHANGED <<ring, arg, res, last>> => UNCHANGED Fifo!fifoVars
<1> SUFFICES ASSUME UNCHANGED <<ring, arg, res, last>>
             PROVE  UNCHANGED Fifo!fifoVars
  OBVIOUS
<1>1. Contents(data, head, tail)' = Contents(data, head, tail)
  BY DEF ring, Contents
<1> QED
  BY <1>1 DEF Fifo!fifoVars

\* The abstract queue is as long as the ring is full.
LEMMA QueueLength ==
    TypeOK => Len(Contents(data, head, tail)) = Count(head, tail)
<1> SUFFICES ASSUME data \in [Slots -> Packets], head \in Slots, tail \in Slots
             PROVE  Len(Contents(data, head, tail)) = Count(head, tail)
  BY DEF TypeOK
<1> QED
  BY ContentsSeq

\* A step of ring_push is a Push, a failed Push (-ENOSPC) or a stutter.
LEMMA RefinePush ==
    ASSUME SafeInv, NEW p \in Producers, PushStep(p)
    PROVE  [Fifo!Next]_(Fifo!fifoVars)
<1> USE DEF SafeInv, TypeOK, Halfway
<1>1. CASE PushFull(p)
  <2>1. Len(Contents(data, head, tail)) = RING_SIZE - 1
    BY <1>1, QueueLength, CountRange DEF PushFull
  <2>2. Contents(data, head, tail)' = Contents(data, head, tail)
    BY <1>1 DEF PushFull, ring, Contents
  <2>3. Fifo!Reject(p)
    BY <1>1, <2>1, <2>2 DEF PushFull, Fifo!Reject
  <2> QED
    BY <2>3 DEF Fifo!Next
<1>2. CASE PushStore(p)
  <2>1. data' = [data EXCEPT ![head] = Clip[arg[p]]] /\ Clip[arg[p]] \in Packets
    BY <1>2, ClipAssumption DEF PushStore
  <2>2. Contents(data', head, tail) = Contents(data, head, tail)
    BY <2>1, FilledSlots DEF Contents
  <2>3. head' = head /\ tail' = tail
    BY <1>2 DEF PushStore
  <2>4. Contents(data, head, tail)' = Contents(data, head, tail)
    BY <2>2, <2>3 DEF Contents
  <2> QED
    BY <1>2, <2>4 DEF PushStore, Fifo!fifoVars
<1>3. CASE PushAdvance(p)
  <2>1. Succ(head) # tail /\ data[head] = Clip[arg[p]]
    BY <1>3 DEF PushAdvance
  <2>2. Contents(data, Succ(head), tail)
            = Append(Contents(data, head, tail), Clip[arg[p]])
    BY <2>1, ContentsPush
  <2>3. data' = data /\ head' = Succ(head) /\ tail' = tail
    BY <1>3 DEF PushAdvance
  <2>4. Contents(data, head, tail)'
            = Append(Contents(data, head, tail), Clip[arg[p]])
    BY <2>2, <2>3 DEF Contents
  <2>5. Len(Contents(data, head, tail)) < RING_SIZE - 1
    BY <2>1, QueueLength, CountRange, RingSizeAssumption
  <2>6. Fifo!Push(p)
    BY <1>3, <2>4, <2>5 DEF PushAdvance, Fifo!Push
  <2> QED
    BY <2>6 DEF Fifo!Next
<1>4. CASE PushLock(p) \/ PushUnlock(p) \/ PushWake(p)
  BY <1>4, RefineStutter DEF PushLock, PushUnlock, PushWake
<1> QED
  BY <1>1, <1>2, <1>3, <1>4 DEF PushStep

\* A step of ring_pop is a Pop when it advances tail, and a stutter otherwise.
LEMMA RefinePop ==
    ASSUME PopInv, NEW c \in Consumers, PopCall(c) \/ PopStep(c)
    PROVE  [Fifo!Next]_(Fifo!fifoVars)
<1> USE DEF PopInv, SafeInv, TypeOK
<1>1. CASE PopAdvance(c)
  <2>1. head # tail
    BY <1>1 DEF PopAdvance, PopFindsPacket
  <2>2. msg[c] = data[tail]
    BY <1>1 DEF PopAdvance, Halfway, Clipped
  <2>3. /\ Contents(data, head, tail) # <<>>
        /\ Head(Contents(data, head, tail)) = data[tail]
        /\ Contents(data, head, Succ(tail)) = Tail(Contents(data, head, tail))
    BY <2>1, ContentsPop
  <2>4. data' = data /\ head' = head /\ tail' = Succ(tail)
    BY <1>1 DEF PopAdvance
  <2>5. Contents(data, head, tail)' = Tail(Contents(data, head, tail))
    BY <2>3, <2>4 DEF Contents
  <2>6. Fifo!Pop
    BY <1>1, <2>2, <2>3, <2>5 DEF PopAdvance, Fifo!Pop
  <2> QED
    BY <2>6 DEF Fifo!Next
<1>2. CASE \/ PopCall(c) \/ PopTest(c) \/ WaitPrepare(c) \/ WaitDone(c)
           \/ WaitSleep(c) \/ WaitResume(c) \/ PopLock(c) \/ PopCopy(c)
           \/ PopUnlock(c)
  BY <1>2, RefineStutter
     DEF PopCall, PopTest, WaitPrepare, WaitDone, WaitSleep, WaitResume,
         PopLock, PopCopy, PopUnlock, ring
<1> QED
  BY <1>1, <1>2 DEF PopStep

\* Every step of the ring is a step of the queue or a stutter.
LEMMA RefineStep ==
    PopInv /\ [Next]_vars => [Fifo!Next]_(Fifo!fifoVars)
<1> SUFFICES ASSUME PopInv, [Next]_vars PROVE [Fifo!Next]_(Fifo!fifoVars)
  OBVIOUS
<1>1. ASSUME NEW p \in Producers, NEW m \in Packets, PushCall(p, m)
      PROVE  [Fifo!Next]_(Fifo!fifoVars)
  <2>1. Contents(data, head, tail)' = Contents(data, head, tail)
    BY <1>1 DEF PushCall, ring, Contents
  <2>2. Fifo!Submit(p, m)
    BY <1>1, <2>1 DEF PushCall, Fifo!Submit
  <2> QED
    BY <2>2 DEF Fifo!Next
<1>2. CASE UNCHANGED vars
  BY <1>2, RefineStutter DEF vars, ring
<1> QED
  BY <1>1, <1>2, RefinePush, RefinePop DEF Next, PopInv

\* For one consumer the exported ring_push / ring_pop pair is a bounded FIFO
\* queue: no packet is lost, repeated or reordered, and -ENOSPC is returned
\* exactly when RING_SIZE - 1 packets are waiting.
THEOREM RingImplementsFifo ==
    ASSUME SingleConsumer
    PROVE  Spec => ImplementsFifo
<1>1. Spec => []PopInv
  BY PopInit, PopStepInv, PTL DEF Spec
<1> QED
  BY <1>1, RefineInit, RefineStep, PTL DEF Spec, ImplementsFifo, Fifo!Spec
=============================================================================
