-------------------------- MODULE RingClientProofs --------------------------
(***************************************************************************)
(* Theorems about the two rings between modules with their clients, stated *)
(* of their composition MCRingClient: module B of lesson 27d, for every    *)
(* ring size and every script that fits, and the unlocked ring of lesson   *)
(* 27c with one producer and one consumer, for every size.                 *)
(***************************************************************************)
EXTENDS MCRingClient, ThreadsafeRingProofs

(***************************************************************************)
(* Lesson 27d.  The script fits into the ring, so that neither index ever  *)
(* wraps before module B is stopped: head is the number of packets that    *)
(* module_b_init has put into the ring, tail the number that the consumer  *)
(* has taken out.  What it was before the stop says nothing afterwards:    *)
(* the wait that the stop interrupts may pop from an empty ring.           *)
(***************************************************************************)
Pushing == pc[Loader] \in {"acquire", "check", "advance"}

InitProgress ==
    /\ module # "loading" => pc[Loader] = "idle"
    /\ module = "absent" => pushed = 0
    /\ Pushing => pushed > 0 /\ arg[Loader] = Script[pushed]
    /\ head = IF Pushing THEN pushed - 1 ELSE pushed

Delivered ==
    /\ \A i \in 0 .. head - 1 : data[i] = Clip[Script[i + 1]]
    /\ tail <= head
    /\ tail = IF pc[Consumer] = "unlock" THEN Len(received) + 1 ELSE Len(received)
    /\ pc[Consumer] \in {"acquire", "copy", "advance"} => tail < head
    /\ pc[Consumer] = "unlock" => msg[Consumer] = Clip[Script[tail]]
    /\ \A i \in 1 .. Len(received) : received[i] = Clip[Script[i]]

LastCall ==
    /\ module \in {"stopping", "gone"} /\ consumer = "task"
    /\ Len(received) <= IF pc[Consumer] = "idle" THEN before_stop + 1 ELSE before_stop

ClientInv ==
    /\ SafeInv
    /\ ClientTypeOK
    /\ InitProgress
    /\ ~should_stop => Delivered
    /\ should_stop => LastCall

\* Module B has one thread of each kind, and they are different threads.
LEMMA TwoThreads ==
    /\ Loader \in Producers /\ Consumer \in Consumers
    /\ Loader # Consumer
    /\ \A p \in Producers : p = Loader
    /\ \A c \in Consumers : c = Consumer
    /\ {Loader, Consumer} \subseteq Threads
  BY ClientAssumption, ThreadAssumption DEF Threads

\* What module B does to the ring is a step of ring_push or ring_pop, except
\* that kthread_stop ends the wait in ring_pop.
LEMMA ClientRingSteps ==
    ClientTypeOK /\ [ClientNext]_clientVars =>
        [Next]_vars \/ KthreadStop \/ WaitInterrupted
<1> SUFFICES ASSUME ClientTypeOK, ClientNext
             PROVE  [Next]_vars \/ KthreadStop \/ WaitInterrupted
  BY DEF clientVars
<1> USE TwoThreads
<1>1. CASE InitPush
  <2>1. Script[pushed + 1] \in Packets
    BY <1>1, ClientAssumption DEF InitPush, ClientTypeOK
  <2> QED
    BY <1>1, <2>1 DEF InitPush, Next
<1>2. CASE LoaderRuns
  BY <1>2 DEF LoaderRuns, Next
<1>3. CASE ThreadLoop \/ ThreadWaits \/ ThreadPops \/ ThreadPrints
  BY <1>3 DEF ThreadLoop, ThreadWaits, ThreadPops, ThreadPrints, Next, PopStep
<1>4. CASE \/ KthreadRun \/ InitReturn \/ ExitReturn \/ ThreadReturn
           \/ KthreadStopErrPtr \/ ExitCall
  BY <1>4 DEF KthreadRun, InitReturn, ExitReturn, ThreadReturn,
              KthreadStopErrPtr, ExitCall
<1> QED
  BY <1>1, <1>2, <1>3, <1>4 DEF ClientNext, LoaderStep, ConsumerStep

\* Neither the stop nor the wait that it interrupts touches what the lock
\* protects.
LEMMA ClientSafeStep ==
    SafeInv /\ ClientTypeOK /\ [ClientNext]_clientVars => SafeInv'
<1> SUFFICES ASSUME SafeInv, KthreadStop \/ WaitInterrupted PROVE SafeInv'
  BY ClientRingSteps, SafeStep
<1> USE TwoThreads DEF SafeInv, TypeOK, LockHolder, InLock, Halfway, Clipped,
        PushSteps, PopSteps, Goto, ring
<1>1. CASE KthreadStop
  BY <1>1 DEF KthreadStop
<1>2. CASE WaitInterrupted
  BY <1>2 DEF WaitInterrupted
<1> QED
  BY <1>1, <1>2

\* An empty ring, no thread, nothing printed.
LEMMA ClientInvInit == ClientInit => ClientInv
<1> SUFFICES ASSUME ClientInit PROVE ClientInv
  OBVIOUS
<1>1. SafeInv
  BY SafeInit DEF ClientInit
<1>2. pushed = 0 /\ Len(Script) \in Nat /\ received = << >> /\ before_stop = 0
  BY ClientAssumption DEF ClientInit
<1>3. received \in Seq(Packets) /\ Len(received) = 0
  BY <1>2
<1>4. ClientTypeOK
  <2>1. pushed \in 0 .. Len(Script) /\ before_stop \in Nat
    BY <1>2
  <2> QED
    BY <1>1, <1>3, <2>1 DEF ClientInit, ClientTypeOK, SafeInv
<1>5. pc[Loader] = "idle" /\ pc[Consumer] = "idle" /\ head = 0 /\ tail = 0
  BY TwoThreads DEF ClientInit, Init
<1>6. InitProgress
  BY <1>2, <1>5 DEF InitProgress, Pushing
<1>7. Delivered /\ ~should_stop
  BY <1>3, <1>5 DEF Delivered, ClientInit
<1> QED
  BY <1>1, <1>4, <1>6, <1>7 DEF ClientInv

\* What the prover needs to know of the numbers in a state.
LEMMA ClientNumbers ==
    ASSUME ClientInv
    PROVE  /\ RING_SIZE \in Nat /\ Len(Script) \in Nat /\ Len(Script) < RING_SIZE
           /\ head \in 0 .. RING_SIZE - 1 /\ tail \in 0 .. RING_SIZE - 1
           /\ pushed \in 0 .. Len(Script)
           /\ received \in Seq(Packets) /\ Len(received) \in Nat
           /\ before_stop \in Nat
<1>1. Script \in Seq(Packets) /\ received \in Seq(Packets)
  BY ClientAssumption DEF ClientInv, ClientTypeOK
<1>2. Len(Script) \in Nat /\ Len(received) \in Nat
  BY <1>1
<1> QED
  BY <1>1, <1>2, ClientAssumption, RingSizeAssumption
     DEF ClientInv, ClientTypeOK, SafeInv, TypeOK, Slots

\* While module_b_init pushes, module B is not stopped and the ring has room:
\* its ring_push never returns -ENOSPC.
LEMMA RoomForScript ==
    ASSUME ClientInv, Pushing
    PROVE  /\ module = "loading" /\ ~should_stop
           /\ Succ(head) = head + 1 /\ Succ(head) # tail
<1>1. module = "loading" /\ head = pushed - 1 /\ pushed > 0
  BY DEF ClientInv, InitProgress, Pushing
<1>2. ~should_stop
  BY <1>1 DEF ClientInv, LastCall
<1>3. tail <= head
  BY <1>2 DEF ClientInv, Delivered
<1>4. head \in Slots /\ head + 1 < RING_SIZE
  BY <1>1, ClientNumbers DEF Slots
<1>5. Succ(head) = head + 1
  BY <1>4, SuccSlot, ClientNumbers
<1> QED
  BY <1>1, <1>2, <1>3, <1>5, ClientNumbers

\* The types of module B's variables.
LEMMA ClientTypesStep == ClientInv /\ [ClientNext]_clientVars => ClientTypeOK'
<1> SUFFICES ASSUME ClientInv, [ClientNext]_clientVars PROVE ClientTypeOK'
  OBVIOUS
<1>1. TypeOK'
  BY ClientSafeStep DEF ClientInv, SafeInv
<1> USE <1>1, ClientNumbers DEF ClientTypeOK
<1>2. ClientTypeOK
  BY DEF ClientInv
<1>3. CASE KthreadRun
  BY <1>2, <1>3 DEF KthreadRun
<1>4. CASE InitPush
  BY <1>2, <1>4 DEF InitPush
<1>5. CASE InitReturn \/ ExitReturn \/ ThreadReturn \/ KthreadStopErrPtr \/ ExitCall
  BY <1>2, <1>5 DEF InitReturn, ExitReturn, ThreadReturn, KthreadStopErrPtr, ExitCall
<1>6. CASE LoaderRuns \/ ThreadLoop \/ ThreadWaits \/ WaitInterrupted \/ ThreadPops
  BY <1>2, <1>6 DEF LoaderRuns, ThreadLoop, ThreadWaits, WaitInterrupted,
                    ThreadPops, client
<1>7. CASE ThreadPrints
  <2>1. msg[Consumer] \in Packets
    BY TwoThreads DEF ClientInv, SafeInv, TypeOK
  <2>2. received' \in Seq(Packets)
    BY <1>7, <2>1 DEF ThreadPrints
  <2> QED
    BY <1>2, <1>7, <2>2 DEF ThreadPrints
<1>8. CASE KthreadStop
  BY <1>2, <1>8 DEF KthreadStop
<1>9. CASE UNCHANGED clientVars
  BY <1>2, <1>9 DEF clientVars, client
<1> QED
  BY <1>3, <1>4, <1>5, <1>6, <1>7, <1>8, <1>9
     DEF ClientNext, LoaderStep, ConsumerStep

\* head counts what module_b_init has pushed.
LEMMA InitProgressStep ==
    ClientInv /\ [ClientNext]_clientVars => InitProgress'
<1> SUFFICES ASSUME ClientInv, [ClientNext]_clientVars PROVE InitProgress'
  OBVIOUS
<1> USE DEF InitProgress, Pushing
<1>1. InitProgress /\ TypeOK
  BY DEF ClientInv, SafeInv
<1>2. CASE InitPush
  BY <1>1, <1>2, TwoThreads, ClientNumbers
     DEF InitPush, PushCall, Goto, ring, TypeOK, Threads
<1>3. CASE LoaderRuns
  <2> USE <1>1, <1>3, TwoThreads, ClientNumbers
      DEF LoaderRuns, client, Goto, ring, TypeOK
  <2>1. CASE PushLock(Loader)
    BY <2>1 DEF PushLock
  <2>2. CASE PushFull(Loader)
    BY <2>2, RoomForScript DEF PushFull
  <2>3. CASE PushStore(Loader)
    BY <2>3 DEF PushStore
  <2>4. CASE PushAdvance(Loader)
    BY <2>4, RoomForScript DEF PushAdvance
  <2>5. CASE PushUnlock(Loader) \/ PushWake(Loader)
    BY <2>5 DEF PushUnlock, PushWake
  <2> QED
    BY <2>1, <2>2, <2>3, <2>4, <2>5 DEF PushStep
<1>4. CASE KthreadRun \/ InitReturn \/ ExitReturn \/ ThreadReturn \/ KthreadStopErrPtr \/ ExitCall
  BY <1>1, <1>4 DEF KthreadRun, InitReturn, ExitReturn, ThreadReturn,
                    KthreadStopErrPtr, ExitCall, vars, ring
<1>5. ASSUME ConsumerStep, ~ThreadReturn
      PROVE  UNCHANGED <<module, pushed, head, arg>> /\ pc'[Loader] = pc[Loader]
  <2> USE <1>1, TwoThreads DEF Goto, ring, client, TypeOK, Threads
  <2>1. CASE ThreadLoop \/ WaitInterrupted \/ ThreadPrints
    BY <2>1 DEF ThreadLoop, WaitInterrupted, ThreadPrints, PopCall, PopUnlock
  <2>2. CASE ThreadWaits
    BY <2>2 DEF ThreadWaits, PopTest, WaitPrepare, WaitDone, WaitSleep, WaitResume
  <2>3. CASE ThreadPops
    BY <2>3 DEF ThreadPops, PopLock, PopCopy, PopAdvance
  <2> QED
    BY <1>5, <2>1, <2>2, <2>3 DEF ConsumerStep
<1>6. CASE KthreadStop
  BY <1>1, <1>6, TwoThreads DEF KthreadStop, ring, TypeOK, Threads
<1>7. CASE UNCHANGED clientVars
  BY <1>1, <1>7 DEF clientVars, client, vars, ring
<1> QED
  BY <1>1, <1>2, <1>3, <1>4, <1>5, <1>6, <1>7 DEF ClientNext, LoaderStep

\* Each packet that is in the ring, or on its way to the consumer or printed, is
\* the one of the script with its number.
LEMMA DeliveredStep ==
    ClientInv /\ [ClientNext]_clientVars /\ ~should_stop' => Delivered'
<1> SUFFICES ASSUME ClientInv, [ClientNext]_clientVars, ~should_stop'
             PROVE  Delivered'
  OBVIOUS
<1>1. /\ TypeOK /\ Halfway /\ Clipped /\ InitProgress
      /\ ClientTypeOK
  BY DEF ClientInv, SafeInv
<1>2. ~KthreadStop /\ ~should_stop
  <2>1. ~KthreadStop
    BY DEF KthreadStop
  <2>2. UNCHANGED should_stop
    BY <2>1 DEF ClientNext, LoaderStep, ConsumerStep, KthreadRun, InitPush,
         InitReturn, LoaderRuns, ExitReturn, ThreadLoop, ThreadReturn,
         ThreadWaits, WaitInterrupted, ThreadPops, ThreadPrints,
         KthreadStopErrPtr, ExitCall, clientVars, client
  <2> QED
    BY <2>1, <2>2
<1>3. Delivered
  BY <1>2 DEF ClientInv
<1> USE TwoThreads, ClientNumbers DEF Delivered
<1>4. CASE UNCHANGED <<ring, received>> /\ UNCHANGED pc[Consumer] /\ UNCHANGED msg
  BY <1>3, <1>4 DEF ring
<1>5. CASE LoaderRuns
  <2> USE <1>1, <1>3, <1>5 DEF LoaderRuns, client, Goto, ring, TypeOK, Threads
  <2>1. CASE PushStore(Loader)
    <3>1. /\ data' = [data EXCEPT ![head] = Clip[arg[Loader]]]
          /\ UNCHANGED <<head, tail, msg, received>> /\ pc'[Consumer] = pc[Consumer]
      BY <2>1 DEF PushStore
    <3>2. head \in Nat /\ \A i \in 0 .. head - 1 : data'[i] = data[i]
      BY <3>1 DEF Slots
    <3> QED
      BY <3>1, <3>2
  <2>2. CASE PushAdvance(Loader)
    <3>1. Pushing /\ head' = head + 1 /\ head = pushed - 1
      BY <2>2, RoomForScript DEF PushAdvance, Pushing, InitProgress
    <3>2. data[head] = Clip[Script[head + 1]]
      BY <2>2, <3>1 DEF PushAdvance, Halfway, InitProgress
    <3>3. UNCHANGED <<data, tail, msg, received>> /\ pc'[Consumer] = pc[Consumer]
      BY <2>2 DEF PushAdvance
    <3>4. head \in Nat /\ tail \in Nat
      BY DEF Slots
    <3>5. \A i \in 0 .. head' - 1 : data'[i] = Clip[Script[i + 1]]
      <4>1. ASSUME NEW i \in 0 .. head' - 1 PROVE data'[i] = Clip[Script[i + 1]]
        <5>1. i \in 0 .. head - 1 \/ i = head
          BY <3>1, <3>4, <4>1
        <5>2. CASE i \in 0 .. head - 1
          BY <3>3, <5>2
        <5>3. CASE i = head
          BY <3>2, <3>3, <5>3
        <5> QED
          BY <5>1, <5>2, <5>3
      <4> QED
        BY <4>1
    <3>6. tail' <= head' /\ (tail < head => tail' < head')
      BY <3>1, <3>3, <3>4
    <3> QED
      BY <3>3, <3>5, <3>6
  <2>3. CASE PushFull(Loader)
    BY <2>3, RoomForScript DEF PushFull, Pushing
  <2>4. CASE PushLock(Loader) \/ PushUnlock(Loader) \/ PushWake(Loader)
    BY <1>4, <2>4 DEF PushLock, PushUnlock, PushWake
  <2> QED
    BY <2>1, <2>2, <2>3, <2>4 DEF PushStep
<1>6. CASE InitPush
  BY <1>1, <1>4, <1>6 DEF InitPush, PushCall, Goto, TypeOK, Threads
<1>7. CASE \/ KthreadRun \/ InitReturn \/ ExitReturn \/ ThreadReturn
           \/ KthreadStopErrPtr \/ ExitCall \/ UNCHANGED clientVars
  BY <1>4, <1>7 DEF KthreadRun, InitReturn, ExitReturn, ThreadReturn,
                    KthreadStopErrPtr, ExitCall, clientVars, client, vars, ring
<1>8. CASE ThreadLoop \/ ThreadWaits
  <2> USE <1>1, <1>3, <1>8 DEF client, Goto, ring, TypeOK, Threads
  <2>1. CASE ThreadLoop
    BY <2>1 DEF ThreadLoop, PopCall
  <2>2. CASE PopTest(Consumer) \/ WaitPrepare(Consumer)
    BY <2>2, <1>2 DEF ThreadLoop, ThreadWaits, PopTest, WaitPrepare, PopCall
  <2>3. CASE WaitDone(Consumer) \/ WaitSleep(Consumer) \/ WaitResume(Consumer)
    BY <2>3, <1>2 DEF ThreadLoop, ThreadWaits, WaitDone, WaitSleep, WaitResume
  <2> QED
    BY <2>1, <2>2, <2>3 DEF ThreadWaits
<1>9. CASE WaitInterrupted
  BY <1>2, <1>9 DEF WaitInterrupted
<1>10. CASE ThreadPops
  <2> USE <1>1, <1>3, <1>10 DEF client, Goto, ring, TypeOK, Threads, ThreadPops
  <2>1. CASE PopLock(Consumer) \/ PopCopy(Consumer)
    BY <2>1 DEF PopLock, PopCopy
  <2>2. CASE PopAdvance(Consumer)
    <3>1. tail' = tail + 1 /\ tail < head
      BY <2>2, SuccSlot DEF PopAdvance, Slots
    <3>2. msg[Consumer] = Clip[Script[tail + 1]]
      BY <2>2, <3>1 DEF PopAdvance, Halfway, Clipped, Slots
    <3>3. /\ pc[Consumer] = "advance" /\ pc'[Consumer] = "unlock"
          /\ UNCHANGED <<data, head, msg, received>>
      BY <2>2 DEF PopAdvance
    <3>4. /\ tail' <= head'
          /\ tail' = Len(received') + 1
          /\ msg'[Consumer] = Clip[Script[tail']]
      BY <3>1, <3>2, <3>3
    <3> QED
      BY <3>3, <3>4
  <2> QED
    BY <2>1, <2>2
<1>11. CASE ThreadPrints
  <2>1. received' = Append(received, msg[Consumer]) /\ msg[Consumer] \in Packets
    BY <1>1, <1>11 DEF ThreadPrints, TypeOK
  <2>2. /\ Len(received') = Len(received) + 1
        /\ \A i \in 1 .. Len(received) : received'[i] = received[i]
        /\ received'[Len(received) + 1] = msg[Consumer]
    BY <2>1
  <2> QED
    BY <1>1, <1>3, <1>11, <2>2
       DEF ThreadPrints, PopUnlock, Goto, ring, TypeOK, Threads
<1> QED
  BY <1>5, <1>6, <1>7, <1>8, <1>9, <1>10, <1>11, <1>2
     DEF ClientNext, LoaderStep, ConsumerStep

\* kthread_stop lets the call in progress end, and the loop does not call again.
LEMMA LastCallStep ==
    ClientInv /\ [ClientNext]_clientVars /\ should_stop' => LastCall'
<1> SUFFICES ASSUME ClientInv, [ClientNext]_clientVars, should_stop'
             PROVE  LastCall'
  OBVIOUS
<1>1. TypeOK /\ InitProgress
  BY DEF ClientInv, SafeInv
<1> USE TwoThreads, ClientNumbers DEF LastCall
<1>2. CASE KthreadStop
  BY <1>1, <1>2 DEF KthreadStop, TypeOK, Threads
<1>3. ASSUME ~KthreadStop PROVE LastCall'
  <2>1. should_stop
    BY <1>3 DEF ClientNext, LoaderStep, ConsumerStep, KthreadRun, InitPush,
         InitReturn, LoaderRuns, ExitReturn, ThreadLoop, ThreadReturn,
         ThreadWaits, WaitInterrupted, ThreadPops, ThreadPrints,
         KthreadStopErrPtr, ExitCall, clientVars, client
  <2>2. LastCall
    BY <2>1 DEF ClientInv
  <2> USE <2>2
  <2>3. CASE UNCHANGED clientVars
    BY <2>3 DEF clientVars, client, vars
  <2>4. CASE LoaderStep
    <3>1. ~LoaderRuns
      BY <1>1 DEF LoaderRuns, PushStep, PushLock, PushFull, PushStore,
                  PushAdvance, PushUnlock, PushWake, InitProgress
    <3> QED
      BY <1>3, <2>4, <3>1 DEF LoaderStep, KthreadRun, InitPush, InitReturn,
                        KthreadStopErrPtr, ExitReturn, vars
  <2>5. CASE ThreadReturn \/ KthreadStopErrPtr \/ ExitCall
    BY <2>5 DEF ThreadReturn, KthreadStopErrPtr, ExitCall, vars
  <2>6. CASE ThreadWaits \/ WaitInterrupted \/ ThreadPops
    <3>1. pc[Consumer] # "idle" /\ UNCHANGED <<module, consumer, received, before_stop>>
      BY <2>6 DEF ThreadWaits, WaitInterrupted, ThreadPops, client, PopTest,
                  WaitPrepare, WaitDone, WaitSleep, WaitResume, PopLock,
                  PopCopy, PopAdvance
    <3> QED
      BY <3>1
  <2>7. CASE ThreadPrints
    <3>1. Len(received') = Len(received) + 1
      BY <1>1, <2>7 DEF ThreadPrints, TypeOK
    <3>2. pc[Consumer] = "unlock" /\ pc'[Consumer] = "idle"
      BY <1>1, <2>7 DEF ThreadPrints, PopUnlock, Goto, TypeOK, Threads
    <3> QED
      BY <2>7, <3>1, <3>2 DEF ThreadPrints
  <2>8. ~ThreadLoop
    BY <2>1 DEF ThreadLoop
  <2> QED
    BY <1>3, <2>3, <2>4, <2>5, <2>6, <2>7, <2>8 DEF ClientNext, ConsumerStep
<1> QED
  BY <1>2, <1>3

\* All the parts together.
LEMMA ClientInvStep == ClientInv /\ [ClientNext]_clientVars => ClientInv'
<1> SUFFICES ASSUME ClientInv, [ClientNext]_clientVars PROVE ClientInv'
  OBVIOUS
<1>1. SafeInv'
  BY ClientSafeStep DEF ClientInv
<1> QED
  BY <1>1, ClientTypesStep, InitProgressStep, DeliveredStep, LastCallStep
     DEF ClientInv

(***************************************************************************)
(* Lesson 27c.  The index arithmetic is that of RingIndex, for SharedSize. *)
(***************************************************************************)
Index == INSTANCE RingIndexProofs WITH RING_SIZE <- SharedSize

\* The lemmas on the index arithmetic, for the ring of lesson 27c.
LEMMA SharedIndex ==
    ASSUME NEW h \in Shared!Slots, NEW t \in Shared!Slots
    PROVE  /\ Shared!Succ(h) \in Shared!Slots
           /\ Shared!Count(h, t) \in 0 .. SharedSize - 1
           /\ Shared!Count(h, t) = 0 <=> h = t
           /\ Shared!Count(h, t) = SharedSize - 1 <=> Shared!Succ(h) = t
           /\ \A i \in 1 .. Shared!Count(h, t) : (t + i - 1) % SharedSize # h
<1>1. Index!Succ(h) = Shared!Succ(h) /\ Index!Slots = Shared!Slots
  BY DEF Index!Succ, Shared!Succ, Index!Slots, Shared!Slots
<1>2. Index!Count(h, t) = Shared!Count(h, t)
  BY DEF Index!Count, Shared!Count
<1>3. SharedSize \in Nat \ {0, 1}
  BY SharedRingAssumption
<1>4. Shared!Succ(h) \in Shared!Slots
  BY <1>1, <1>3, Index!SuccSlot
<1>5. /\ Shared!Count(h, t) \in 0 .. SharedSize - 1
      /\ Shared!Count(h, t) = 0 <=> h = t
      /\ Shared!Count(h, t) = SharedSize - 1 <=> Shared!Succ(h) = t
  BY <1>1, <1>2, <1>3, Index!CountRange
<1>6. \A i \in 1 .. Shared!Count(h, t) : (t + i - 1) % SharedSize # h
  BY <1>1, <1>2, <1>3, Index!FilledSlots
<1> QED
  BY <1>4, <1>5, <1>6

\* In the ring of lesson 27c too, different slots have different successors, and
\* none is its own.
LEMMA SharedSucc ==
    ASSUME NEW i \in Shared!Slots, NEW j \in Shared!Slots
    PROVE  Shared!Succ(i) # i /\ (Shared!Succ(i) = Shared!Succ(j) => i = j)
<1>1. SharedSize \in Nat \ {0, 1}
  BY SharedRingAssumption
<1>2. Index!Slots = Shared!Slots /\ \A k : Index!Succ(k) = Shared!Succ(k)
  BY DEF Index!Succ, Shared!Succ, Index!Slots, Shared!Slots
<1>3. \A k \in Shared!Slots : Shared!Succ(k) = IF k + 1 = SharedSize THEN 0 ELSE k + 1
  BY <1>1, <1>2, Index!SuccSlot
<1> QED
  BY <1>1, <1>3 DEF Shared!Slots

\* What advancing head and tail does to the packets in the ring of lesson 27c.
LEMMA SharedContents ==
    ASSUME NEW d \in [Shared!Slots -> SharedPackets],
           NEW h \in Shared!Slots, NEW t \in Shared!Slots
    PROVE  /\ Len(Shared!Contents(d, h, t)) = Shared!Count(h, t)
           /\ Shared!Succ(h) # t =>
                  Shared!Contents(d, Shared!Succ(h), t)
                      = Append(Shared!Contents(d, h, t), d[h])
           /\ h # t =>
                  /\ Shared!Contents(d, h, t) # <<>>
                  /\ Head(Shared!Contents(d, h, t)) = d[t]
                  /\ Shared!Contents(d, h, Shared!Succ(t))
                         = Tail(Shared!Contents(d, h, t))
<1>1. SharedSize \in Nat \ {0, 1}
  BY SharedRingAssumption
<1>2. Index!Slots = Shared!Slots
  BY DEF Index!Slots, Shared!Slots
<1>3. \A i : Index!Succ(i) = Shared!Succ(i)
  BY DEF Index!Succ, Shared!Succ
<1>4. \A i, j : Index!Count(i, j) = Shared!Count(i, j)
  BY DEF Index!Count, Shared!Count
<1>5. \A i, j : Index!Contents(d, i, j) = Shared!Contents(d, i, j)
  BY <1>4 DEF Index!Contents, Shared!Contents
<1>6. Len(Shared!Contents(d, h, t)) = Shared!Count(h, t)
  BY <1>1, <1>2, <1>4, <1>5, Index!ContentsSeq
<1>7. ASSUME Shared!Succ(h) # t
      PROVE  Shared!Contents(d, Shared!Succ(h), t)
                 = Append(Shared!Contents(d, h, t), d[h])
  <2>1. Index!Succ(h) # t
    BY <1>3, <1>7
  <2>2. Index!Contents(d, Index!Succ(h), t) = Append(Index!Contents(d, h, t), d[h])
    BY <1>1, <1>2, <2>1, Index!ContentsPush, ZenonT(30)
  <2> QED
    BY <1>3, <1>5, <2>2
<1>8. ASSUME h # t
      PROVE  /\ Shared!Contents(d, h, t) # <<>>
             /\ Head(Shared!Contents(d, h, t)) = d[t]
             /\ Shared!Contents(d, h, Shared!Succ(t))
                    = Tail(Shared!Contents(d, h, t))
  <2>1. /\ Index!Contents(d, h, t) # <<>>
        /\ Head(Index!Contents(d, h, t)) = d[t]
        /\ Index!Contents(d, h, Index!Succ(t)) = Tail(Index!Contents(d, h, t))
    BY <1>1, <1>2, <1>8, Index!ContentsPop, ZenonT(60)
  <2> QED
    BY <1>3, <1>5, <2>1
<1> QED
  BY <1>6, <1>7, <1>8

(***************************************************************************)
(* With one producer and one consumer, each finds the ring as it left it:  *)
(* only the producer moves head, only the consumer moves tail, and what    *)
(* the other one does leaves room where there was room and a packet where  *)
(* there was one.                                                          *)
(***************************************************************************)
SharedInv ==
    /\ Shared!TypeOK
    /\ pcC[Loader] \in {"idle", "test", "store", "advance"}
    /\ pcC[Consumer] \in {"idle", "copy", "advance"}
    /\ pcC[Loader] \in {"store", "advance"} =>
           next[Loader] = Shared!Succ(headC) /\ next[Loader] # tailC
    /\ pcC[Loader] = "advance" => dataC[headC] = argC[Loader]
    /\ pcC[Consumer] \in {"copy", "advance"} => headC # tailC
    /\ pcC[Consumer] = "advance" => msgC[Consumer] = dataC[tailC]

\* The ring is empty and nobody is in ring_push or ring_pop.
LEMMA SharedInit == Shared!Init => SharedInv
<1> SUFFICES ASSUME Shared!Init PROVE SharedInv
  OBVIOUS
<1>1. 0 \in Shared!Slots
  BY SharedRingAssumption DEF Shared!Slots
<1>2. Shared!TypeOK
  BY <1>1, SharedRingAssumption DEF Shared!Init, Shared!TypeOK, Shared!SharedAssumption
<1> QED
  BY <1>2, TwoThreads DEF Shared!Init, SharedInv

\* The producer stores to a slot that the consumer does not read, and advances
\* head to a slot that the consumer has left.
LEMMA SharedStep == SharedInv /\ [Shared!Next]_varsC => SharedInv'
<1> SUFFICES ASSUME SharedInv, [Shared!Next]_varsC PROVE SharedInv'
  OBVIOUS
<1>1. headC \in Shared!Slots /\ tailC \in Shared!Slots
  BY DEF SharedInv, Shared!TypeOK
<1>2. Shared!Succ(headC) \in Shared!Slots /\ Shared!Succ(tailC) \in Shared!Slots
  BY <1>1, SharedIndex
<1>3. Shared!Succ(headC) # headC
  BY <1>1, SharedSucc
<1> USE TwoThreads, <1>1, <1>2 DEF SharedInv, Shared!TypeOK, Shared!Goto
<1>4. ASSUME NEW m \in SharedPackets, Shared!PushCall(Loader, m) PROVE SharedInv'
  BY <1>4 DEF Shared!PushCall
<1>5. CASE Shared!PushFull(Loader)
  BY <1>5 DEF Shared!PushFull
<1>6. CASE Shared!PushRoom(Loader)
  BY <1>6 DEF Shared!PushRoom
<1>7. CASE Shared!PushStore(Loader)
  <2>1. dataC' = [dataC EXCEPT ![headC] = argC[Loader]]
    BY <1>7 DEF Shared!PushStore
  <2> QED
    BY <1>7, <2>1 DEF Shared!PushStore
<1>8. CASE Shared!PushAdvance(Loader)
  BY <1>8, <1>3 DEF Shared!PushAdvance
<1>9. CASE Shared!PopEmpty(Consumer) \/ UNCHANGED varsC
  BY <1>9 DEF Shared!PopEmpty, Shared!sharedVars, varsC
<1>10. CASE Shared!PopTest(Consumer)
  BY <1>10 DEF Shared!PopTest
<1>11. CASE Shared!PopCopy(Consumer)
  BY <1>11 DEF Shared!PopCopy
<1>12. CASE Shared!PopAdvance(Consumer)
  <2>1. headC # tailC
    BY <1>12 DEF Shared!PopAdvance
  <2>2. Shared!Succ(headC) # Shared!Succ(tailC)
    BY <2>1, SharedSucc
  <2> QED
    BY <1>12, <2>2 DEF Shared!PopAdvance
<1> QED
  BY <1>4, <1>5, <1>6, <1>7, <1>8, <1>9, <1>10, <1>11, <1>12
     DEF Shared!Next, Shared!PushStep, Shared!PopStep

\* An empty ring is an empty queue.
LEMMA SharedFifoInit == Shared!Init => Shared!Fifo!Init
<1> SUFFICES ASSUME Shared!Init PROVE Shared!Fifo!Init
  OBVIOUS
<1>1. headC = 0 /\ tailC = 0
  BY DEF Shared!Init
<1>2. Shared!Count(headC, tailC) = 0
  BY <1>1, SharedRingAssumption DEF Shared!Count
<1>3. Shared!Contents(dataC, headC, tailC) = <<>>
  BY <1>2 DEF Shared!Contents
<1> QED
  BY <1>3 DEF Shared!Init, Shared!Fifo!Init

\* ring_push takes effect when it advances head or finds the ring full, ring_pop
\* when it advances tail; the other steps leave the queue as it is, the store to
\* the free slot too.
LEMMA SharedFifoStep ==
    SharedInv /\ [Shared!Next]_varsC => [Shared!Fifo!Next]_(Shared!Fifo!fifoVars)
<1> SUFFICES ASSUME SharedInv, [Shared!Next]_varsC
             PROVE  [Shared!Fifo!Next]_(Shared!Fifo!fifoVars)
  OBVIOUS
<1> DEFINE queue == Shared!Contents(dataC, headC, tailC)
<1>1. /\ headC \in Shared!Slots /\ tailC \in Shared!Slots
      /\ dataC \in [Shared!Slots -> SharedPackets]
      /\ argC[Loader] \in SharedPackets
  BY TwoThreads DEF SharedInv, Shared!TypeOK
<1>2. Len(queue) = Shared!Count(headC, tailC)
  BY <1>1, SharedContents
<1>3. ASSUME UNCHANGED <<dataC, headC, tailC>> PROVE queue' = queue
  BY <1>3 DEF Shared!Contents
<1> USE TwoThreads DEF Shared!Goto, Shared!Fifo!Next, Shared!Fifo!fifoVars
<1>4. ASSUME NEW m \in SharedPackets, Shared!PushCall(Loader, m)
      PROVE  Shared!Fifo!Next
  BY <1>3, <1>4 DEF Shared!PushCall, Shared!Fifo!Submit
<1>5. CASE Shared!PushFull(Loader)
  <2>1. Len(queue) = SharedSize - 1
    BY <1>1, <1>2, <1>5, SharedIndex DEF Shared!PushFull
  <2> QED
    BY <1>3, <1>5, <2>1 DEF Shared!PushFull, Shared!Fifo!Reject
<1>6. CASE Shared!PushStore(Loader)
  <2>1. dataC' = [dataC EXCEPT ![headC] = argC[Loader]]
    BY <1>1, <1>6 DEF Shared!PushStore
  <2>2. Shared!Contents(dataC', headC, tailC) = queue
    <3>1. \A i \in 1 .. Shared!Count(headC, tailC) :
              dataC'[(tailC + i - 1) % SharedSize] = dataC[(tailC + i - 1) % SharedSize]
      BY <1>1, <2>1, SharedIndex
    <3> QED
      BY <3>1 DEF Shared!Contents
  <2>3. queue' = queue
    BY <1>6, <2>2 DEF Shared!PushStore, Shared!Contents
  <2> QED
    BY <1>6, <2>3 DEF Shared!PushStore
<1>7. CASE Shared!PushAdvance(Loader)
  <2>1. headC' = Shared!Succ(headC) /\ Shared!Succ(headC) # tailC
    BY <1>7 DEF Shared!PushAdvance, SharedInv
  <2>2. Shared!Contents(dataC, Shared!Succ(headC), tailC) = Append(queue, dataC[headC])
    BY <1>1, <2>1, SharedContents
  <2>3. queue' = Append(queue, argC[Loader])
    BY <1>7, <2>1, <2>2 DEF Shared!PushAdvance, SharedInv, Shared!Contents
  <2>4. Len(queue) < SharedSize - 1
    BY <1>1, <1>2, <2>1, SharedIndex, SharedRingAssumption
  <2>5. Shared!Fifo!Push(Loader)
    BY <1>1, <1>7, <2>3, <2>4 DEF Shared!PushAdvance, Shared!Fifo!Push
  <2> QED
    BY <2>5
<1>8. CASE Shared!PopAdvance(Consumer)
  <2>1. headC # tailC /\ msgC[Consumer] = dataC[tailC]
    BY <1>8 DEF Shared!PopAdvance, SharedInv
  <2>2. /\ queue # <<>> /\ Head(queue) = dataC[tailC]
        /\ Shared!Contents(dataC, headC, Shared!Succ(tailC)) = Tail(queue)
    BY <1>1, <2>1, SharedContents
  <2>3. queue' = Tail(queue)
    BY <1>8, <2>2 DEF Shared!PopAdvance, Shared!Contents
  <2>4. Shared!Fifo!Pop
    BY <1>8, <2>1, <2>2, <2>3 DEF Shared!PopAdvance, Shared!Fifo!Pop
  <2> QED
    BY <2>4
<1>9. CASE \/ Shared!PushRoom(Loader) \/ Shared!PopEmpty(Consumer)
           \/ Shared!PopTest(Consumer) \/ Shared!PopCopy(Consumer)
           \/ UNCHANGED varsC
  BY <1>3, <1>9 DEF Shared!PushRoom, Shared!PopEmpty, Shared!PopTest,
                    Shared!PopCopy, Shared!sharedVars, varsC
<1> QED
  BY <1>4, <1>5, <1>6, <1>7, <1>8, <1>9
     DEF Shared!Next, Shared!PushStep, Shared!PopStep

(***************************************************************************)
(* The composition                                                         *)
(***************************************************************************)
allVars == <<lesson, clientVars, varsC>>

\* Whichever ring is used, each takes a step of its own or none, and both keep
\* their invariants.
LEMMA RingInvariants ==
    RingSpec =>
        /\ RingInit
        /\ [](ClientInv /\ SharedInv)
        /\ [][ClientNext]_clientVars /\ [][Shared!Next]_varsC
<1>1. RingInit => ClientInv /\ SharedInv
  BY ClientInvInit, SharedInit DEF RingInit
<1>2. [RingNext]_allVars => [ClientNext]_clientVars /\ [Shared!Next]_varsC
  BY DEF RingNext, allVars
<1>3. RingSpec => RingInit /\ [][RingNext]_allVars
  BY DEF RingSpec, allVars
<1> QED
  BY <1>1, <1>2, <1>3, ClientInvStep, SharedStep, PTL

\* Types of both rings and of module B, whatever the moment at which module B is
\* stopped: no index leaves its array, also when the stop makes ring_pop go on
\* with an empty ring (RingTypeOK).
THEOREM RingTypes == RingSpec => []RingTypeOK
<1>1. ClientInv /\ SharedInv => RingTypeOK
  BY DEF ClientInv, SharedInv, RingTypeOK
<1> QED
  BY <1>1, RingInvariants, PTL

\* Until it is stopped the consumer of module B has printed a prefix of what
\* module_b_init pushed, and at most one message more afterwards
\* (Threadsafe_ring_buffer_Module-B.c:15-19, 33-49).
THEOREM ConsumerPrintsScript == RingSpec => []PrintsScript
<1>1. ClientInv => PrintsScript
  <2> SUFFICES ASSUME ClientInv PROVE PrintsPrefix /\ OneMoreAtMost
    BY DEF PrintsScript
  <2> USE ClientNumbers
  <2>1. PrintsPrefix
    <3> SUFFICES ASSUME ~should_stop
                 PROVE  /\ Len(received) <= pushed
                        /\ \A i \in 1 .. Len(received) :
                               received[i] = Clip[Script[i]]
      BY DEF PrintsPrefix
    <3>1. Delivered /\ head <= pushed
      BY DEF ClientInv, InitProgress
    <3> QED
      BY <3>1 DEF Delivered
  <2>2. OneMoreAtMost
    BY DEF ClientInv, LastCall, OneMoreAtMost
  <2> QED
    BY <2>1, <2>2
<1> QED
  BY <1>1, RingInvariants, PTL

\* Without a lock, the ring of lesson 27c is a bounded FIFO queue for one
\* producer and one consumer, whatever its size
\* (Shared_ring_buffer_Module-A.c:30-63).
THEOREM SharedRingIsFifo == RingSpec => SharedImplementsFifo
<1>1. RingInit => Shared!Fifo!Init
  BY SharedFifoInit DEF RingInit
<1> QED
  BY <1>1, RingInvariants, SharedFifoStep, PTL
     DEF SharedImplementsFifo, Shared!ImplementsFifo, Shared!Fifo!Spec
=============================================================================
