--------------------------- MODULE HardwareProofs ---------------------------
(***************************************************************************)
(* Theorems about the drivers that work with a device (lessons 21a and 26e *)
(* to 26g), stated of their composition MCHardware.  What is said of the   *)
(* DMA buffers assumes one writer: two writers break it, as a run shows.   *)
(***************************************************************************)
EXTENDS MCHardware, FiniteSetTheorems, TLAPS

(***************************************************************************)
(* Lesson 21a, any number of writers                                       *)
(***************************************************************************)
\* An idle device has its buffers unmapped.
LEMMA DmaTypesInit == Init => TypeOK
<1>1. Init => dma_done \in Nat
  BY DEF Init
<1>2. Init => data_len \in BOOLEAN
  BY DEF Init
<1>3. Init => pc \in [Writers -> WriteSteps]
  BY DEF Init, WriteSteps
<1>4. Init => /\ mapped \in [Writers -> [src : Int, dst : Int]]
              /\ \A w \in Writers :
                  mapped[w].src = 0 /\ mapped[w].dst = 0 /\ pc[w] = "idle"
  BY DEF Init, Unmapped
<1> QED
  BY <1>1, <1>2, <1>3, <1>4 DEF Init, TypeOK, SrcMapped, DstMapped

\* dmaengine_terminate_sync adds as many completions as callbacks had begun.
LEMMA CallbacksCounted ==
    ASSUME TypeOK, NEW S \in SUBSET callbacks
    PROVE  Cardinality(S) \in Nat
<1>1. S \in SUBSET Writers
  BY DEF TypeOK
<1> QED
  BY <1>1, FS_Subset, FS_CardinalityType, DmaAssumption

\* Every path through do_dma_transfer unmaps what it has mapped, once, and the
\* completion is never below zero.
LEMMA DmaTypesStep == TypeOK /\ [Next]_vars => TypeOK'
<1> SUFFICES ASSUME TypeOK, [Next]_vars PROVE TypeOK'
  OBVIOUS
<1> USE DEF TypeOK, WriteSteps, SrcMapped, DstMapped, Goto, Return, buffers, engine
<1>1. ASSUME NEW w \in Writers, NEW m \in Messages, WriteCall(w, m)
      PROVE  TypeOK'
  BY <1>1 DEF WriteCall
<1>2. ASSUME NEW w \in Writers, WriteCopy(w) PROVE TypeOK'
  BY <1>2 DEF WriteCopy
<1>3. ASSUME NEW w \in Writers, WriteFault(w) PROVE TypeOK'
  BY <1>3 DEF WriteFault
<1>4. ASSUME NEW w \in Writers, WriteClear(w) PROVE TypeOK'
  BY <1>4 DEF WriteClear
<1>5. ASSUME NEW w \in Writers, MapSrc(w) \/ MapDst(w) PROVE TypeOK'
  <2>1. CASE MapSrc(w)
    <3>1. pc'[w] = "map_dst"
      BY <2>1 DEF MapSrc
    <3>2. \A v \in Writers : v # w => pc'[v] = pc[v] /\ mapped'[v] = mapped[v]
      BY <2>1 DEF MapSrc, MapBuf
    <3>3. mapped'[w].src = 1 /\ mapped'[w].dst = 0
      BY <2>1 DEF MapSrc, MapBuf
    <3>4. /\ mapped' \in [Writers -> [src : Int, dst : Int]]
          /\ pc' \in [Writers -> WriteSteps]
      BY <2>1 DEF MapSrc, MapBuf
    <3> QED
      BY <2>1, <3>1, <3>2, <3>3, <3>4 DEF MapSrc
  <2>2. CASE MapDst(w)
    <3>1. pc'[w] = "prep"
      BY <2>2 DEF MapDst
    <3>2. \A v \in Writers : v # w => pc'[v] = pc[v] /\ mapped'[v] = mapped[v]
      BY <2>2 DEF MapDst, MapBuf
    <3>3. mapped'[w].src = 1 /\ mapped'[w].dst = 1
      BY <2>2 DEF MapDst, MapBuf
    <3>4. /\ mapped' \in [Writers -> [src : Int, dst : Int]]
          /\ pc' \in [Writers -> WriteSteps]
      BY <2>2 DEF MapDst, MapBuf
    <3> QED
      BY <2>2, <3>1, <3>2, <3>3, <3>4 DEF MapDst
  <2> QED
    BY <1>5, <2>1, <2>2
<1>6. ASSUME NEW w \in Writers, MapSrcFail(w) \/ MapDstFail(w) PROVE TypeOK'
  <2>1. CASE MapSrcFail(w)
    BY <2>1 DEF MapSrcFail
  <2>2. CASE MapDstFail(w)
    <3>1. /\ pc' = [pc EXCEPT ![w] = "unmap_src"]
          /\ pc[w] = "map_dst" /\ mapped[w].src = 1 /\ mapped[w].dst = 0
          /\ UNCHANGED mapped
      BY <2>2 DEF MapDstFail
    <3>2. \A v \in Writers :
            /\ mapped'[v].src = IF pc'[v] \in SrcMapped THEN 1 ELSE 0
            /\ mapped'[v].dst = IF pc'[v] \in DstMapped THEN 1 ELSE 0
      BY <3>1
    <3> QED
      BY <2>2, <3>1, <3>2 DEF MapDstFail
  <2> QED
    BY <1>6, <2>1, <2>2
<1>7. ASSUME NEW w \in Writers, Arm(w) PROVE TypeOK'
  BY <1>7 DEF Arm
<1>8. ASSUME NEW w \in Writers, Submit(w) PROVE TypeOK'
  BY <1>8 DEF Submit
<1>9. ASSUME NEW w \in Writers, TransferFail(w) PROVE TypeOK'
  BY <1>9 DEF TransferFail
<1>10. ASSUME NEW w \in Writers, WaitDone(w) PROVE TypeOK'
  BY <1>10 DEF WaitDone
<1>11. ASSUME NEW w \in Writers, WaitTimeout(w) PROVE TypeOK'
  BY <1>11 DEF WaitTimeout
<1>12. ASSUME NEW w \in Writers, Terminate(w) PROVE TypeOK'
  <2>1. dma_done' \in Nat
    BY <1>12, CallbacksCounted DEF Terminate
  <2> QED
    BY <1>12, <2>1 DEF Terminate
<1>13. ASSUME NEW w \in Writers, UnmapDst(w) \/ UnmapSrc(w) PROVE TypeOK'
  <2>1. CASE UnmapDst(w)
    <3>1. pc'[w] = "unmap_src"
      BY <2>1 DEF UnmapDst
    <3>2. \A v \in Writers : v # w => pc'[v] = pc[v] /\ mapped'[v] = mapped[v]
      BY <2>1 DEF UnmapDst, UnmapBuf
    <3>3. mapped'[w].src = 1 /\ mapped'[w].dst = 0
      BY <2>1 DEF UnmapDst, UnmapBuf
    <3>4. /\ mapped' \in [Writers -> [src : Int, dst : Int]]
          /\ pc' \in [Writers -> WriteSteps]
      BY <2>1 DEF UnmapDst, UnmapBuf
    <3> QED
      BY <2>1, <3>1, <3>2, <3>3, <3>4 DEF UnmapDst
  <2>2. CASE UnmapSrc(w)
    <3>1. pc'[w] = "length" \/ pc'[w] = "idle"
      BY <2>2 DEF UnmapSrc
    <3>2. \A v \in Writers : v # w => pc'[v] = pc[v] /\ mapped'[v] = mapped[v]
      BY <2>2 DEF UnmapSrc, UnmapBuf
    <3>3. mapped'[w].src = 0 /\ mapped'[w].dst = 0
      BY <2>2 DEF UnmapSrc, UnmapBuf
    <3>4. /\ mapped' \in [Writers -> [src : Int, dst : Int]]
          /\ pc' \in [Writers -> WriteSteps]
      BY <2>2 DEF UnmapSrc, UnmapBuf
    <3> QED
      BY <2>2, <3>1, <3>2, <3>3, <3>4 DEF UnmapSrc
  <2> QED
    BY <1>13, <2>1, <2>2
<1>14. ASSUME NEW w \in Writers, WriteLength(w) PROVE TypeOK'
  BY <1>14 DEF WriteLength
<1>15. ASSUME NEW w \in Writers, DmaFinish(w) PROVE TypeOK'
  BY <1>15 DEF DmaFinish
<1>16. ASSUME NEW w \in Writers, DmaCallback(w) PROVE TypeOK'
  BY <1>16 DEF DmaCallback
<1>17. CASE Read
  BY <1>17 DEF Read
<1>18. CASE UNCHANGED vars
  BY <1>18 DEF vars
<1> QED
  BY <1>1, <1>2, <1>3, <1>4, <1>5, <1>6, <1>7, <1>8, <1>9, <1>10, <1>11,
     <1>12, <1>13, <1>14, <1>15, <1>16, <1>17, <1>18 DEF Next, WriteStep

(***************************************************************************)
(* Lesson 21a, one writer.  A transfer is with the controller, or has its  *)
(* callback outstanding, or has completed; the first two only while its    *)
(* writer waits or stops it, so that dst_buf is not written behind the     *)
(* writer's back.                                                          *)
(***************************************************************************)
SingleWriter == \A v, w \in Writers : v = w

Transfer(w) ==
    /\ w \in active \/ w \in callbacks => pc[w] \in {"wait", "terminate"}
    /\ ~(w \in active /\ w \in callbacks)
    /\ pc[w] = "submit" => dma_done = 0 /\ w \notin completed
    /\ pc[w] \in {"wait", "terminate"} =>
           /\ w \in active => dma_done = 0 /\ w \notin completed
           /\ w \in callbacks => dma_done = 0 /\ w \in completed
           /\ dma_done > 0 => w \in completed
           /\ w \in completed => dst_buf = src_buf

Written(w) ==
    /\ pc[w] \notin {"idle", "copy"} => src_buf = arg[w]
    /\ pc[w] = "terminate" => ret[w] = "ETIMEDOUT"
    /\ pc[w] = "length" => ret[w] = "ok"
    /\ pc[w] \in {"unmap", "unmap_src", "length", "idle"} /\ ret[w] = "ok" => dst_buf = arg[w]

DmaInv == TypeOK /\ \A w \in Writers : Transfer(w) /\ Written(w)

\* No transfer has begun and no write has returned.
LEMMA DmaInit == Init => DmaInv
  BY DmaTypesInit DEF Init, DmaInv, Transfer, Written

\* With one writer a late callback finds its own transfer stopped, and
\* reinit_completion takes its count away before the next transfer is waited for.
LEMMA DmaStep ==
    ASSUME SingleWriter
    PROVE  DmaInv /\ [Next]_vars => DmaInv'
<1> SUFFICES ASSUME DmaInv, [Next]_vars PROVE DmaInv'
  OBVIOUS
<1>1. TypeOK /\ TypeOK'
  BY DmaTypesStep DEF DmaInv
<1>2. CASE Read \/ UNCHANGED vars
  BY <1>1, <1>2 DEF Read, vars, buffers, engine, DmaInv, Transfer, Written
<1>3. ASSUME NEW w \in Writers, NEW m \in Messages, WriteCall(w, m)
      PROVE  DmaInv'
  BY <1>1, <1>3 DEF WriteCall, Goto, buffers, engine, DmaInv, Transfer, Written,
     TypeOK, SingleWriter
<1>4. ASSUME NEW w \in Writers, WriteStep(w) \/ DmaFinish(w) \/ DmaCallback(w)
      PROVE  DmaInv'
  <2> USE DEF TypeOK, Transfer, Written, Goto, Return, buffers, engine
  <2>1. SUFFICES Transfer(w)' /\ Written(w)'
    BY <1>1 DEF DmaInv, SingleWriter
  <2>2. Transfer(w) /\ Written(w)
    BY DEF DmaInv
  <2>3. CASE WriteCopy(w)
    BY <1>1, <2>2, <2>3 DEF WriteCopy
  <2>4. CASE WriteFault(w)
    BY <1>1, <2>2, <2>4 DEF WriteFault
  <2>5. CASE WriteClear(w)
    BY <1>1, <2>2, <2>5 DEF WriteClear
  <2>6. CASE MapSrc(w) \/ MapDst(w)
    BY <1>1, <2>2, <2>6 DEF MapSrc, MapDst
  <2>7. CASE MapSrcFail(w) \/ MapDstFail(w)
    BY <1>1, <2>2, <2>7 DEF MapSrcFail, MapDstFail
  <2>8. CASE Arm(w)
    BY <1>1, <2>2, <2>8 DEF Arm
  <2>9. CASE Submit(w)
    BY <1>1, <2>2, <2>9 DEF Submit
  <2>10. CASE TransferFail(w)
    BY <1>1, <2>2, <2>10 DEF TransferFail
  <2>11. CASE WaitDone(w)
    BY <1>1, <2>2, <2>11 DEF WaitDone
  <2>12. CASE WaitTimeout(w)
    BY <1>1, <2>2, <2>12 DEF WaitTimeout
  <2>13. CASE Terminate(w)
    BY <1>1, <2>2, <2>13 DEF Terminate
  <2>14. CASE UnmapDst(w) \/ UnmapSrc(w)
    BY <1>1, <2>2, <2>14 DEF UnmapDst, UnmapSrc
  <2>15. CASE WriteLength(w)
    BY <1>1, <2>2, <2>15 DEF WriteLength
  <2>16. CASE DmaFinish(w)
    BY <1>1, <2>2, <2>16 DEF DmaFinish
  <2>17. CASE DmaCallback(w)
    BY <1>1, <2>2, <2>17 DEF DmaCallback
  <2> QED
    BY <1>4, <2>3, <2>4, <2>5, <2>6, <2>7, <2>8, <2>9, <2>10, <2>11, <2>12,
       <2>13, <2>14, <2>15, <2>16, <2>17 DEF WriteStep
<1> QED
  BY <1>2, <1>3, <1>4 DEF Next

(***************************************************************************)
(* Lesson 26g: what the cache holds, by the phase of probe and of resume.  *)
(***************************************************************************)
Identified == {"pwr", "write", "verify", "up", "suspended", "sync", "sync_who"}
Woken == {"verify", "up", "suspended", "sync", "sync_who"}

CacheInv ==
    /\ C!TypeOK
    /\ phase = "check" => val = cached_who
    /\ phase \in Identified => cached_who \in Supported
    /\ phase \in Woken => cached_pwr = Awake
    /\ phase \in {"verify", "sync_who"} => chip = Awake
    /\ phase = "up" => chip = Awake \/ cache_dirty
    /\ phase = "sync" => cache_dirty

\* Before probe the cache is empty.
LEMMA CacheInit == C!Init => CacheInv
  BY DEF C!Init, CacheInv, C!TypeOK, Identified, Woken

\* probe fills the cache with what the chip holds, and mpu_resume marks it dirty
\* before it writes it back: a sync that stops half-way leaves it dirty.
LEMMA CacheStep == CacheInv /\ [C!Next]_varsC => CacheInv'
<1> SUFFICES ASSUME CacheInv, [C!Next]_varsC PROVE CacheInv'
  OBVIOUS
<1> USE DEF CacheInv, C!TypeOK, Identified, Woken, C!Then, C!cacheFlags
<1>1. CASE C!RegmapInit
  BY <1>1 DEF C!RegmapInit
<1>2. CASE C!ReadWho
  BY <1>2 DEF C!ReadWho
<1>3. CASE C!CheckWho
  BY <1>3 DEF C!CheckWho
<1>4. CASE C!ReadPwr
  BY <1>4 DEF C!ReadPwr
<1>5. CASE C!WritePwr
  BY <1>5 DEF C!WritePwr
<1>6. CASE C!VerifyPwr
  BY <1>6 DEF C!VerifyPwr
<1>7. CASE C!ProbeAccessFails
  BY <1>7 DEF C!ProbeAccessFails
<1>8. CASE C!Unbind
  BY <1>8 DEF C!Unbind
<1>9. CASE C!Suspend
  BY <1>9 DEF C!Suspend
<1>10. CASE C!PowerLost
  BY <1>10 DEF C!PowerLost
<1>11. CASE C!Resume
  BY <1>11 DEF C!Resume
<1>12. CASE C!SyncPwr
  BY <1>12 DEF C!SyncPwr
<1>13. CASE C!SyncWho
  BY <1>13 DEF C!SyncWho
<1>14. CASE C!SyncFails
  BY <1>14 DEF C!SyncFails
<1>15. CASE UNCHANGED varsC
  BY <1>15 DEF varsC
<1> QED
  BY <1>1, <1>2, <1>3, <1>4, <1>5, <1>6, <1>7, <1>8, <1>9, <1>10, <1>11,
     <1>12, <1>13, <1>14, <1>15 DEF C!Next

(***************************************************************************)
(* Lesson 26e: the value that the poll has seen last decides.              *)
(***************************************************************************)
PollInv == W!TypeOK /\ W!AwakeWhenProbed

\* Nothing has been polled yet.
LEMMA PollInit == W!Init => PollInv
  BY DEF W!Init, PollInv, W!TypeOK, W!AwakeWhenProbed, W!Errors

\* The chip does not go back to sleep by itself, and the poll gives up only after
\* a read that comes after the deadline.
LEMMA PollStep == PollInv /\ [W!Next]_varsW => PollInv'
<1> SUFFICES ASSUME PollInv, [W!Next]_varsW PROVE PollInv'
  OBVIOUS
<1> USE DEF PollInv, W!TypeOK, W!AwakeWhenProbed, W!Errors, W!Then
<1>1. CASE W!ProbeCall
  BY <1>1 DEF W!ProbeCall
<1>2. CASE W!ProbeReads
  BY <1>2 DEF W!ProbeReads
<1>3. CASE W!WrongChip
  BY <1>3 DEF W!WrongChip
<1>4. CASE W!SleepBit
  BY <1>4 DEF W!SleepBit
<1>5. CASE W!VerifySleep
  BY <1>5 DEF W!VerifySleep
<1>6. CASE W!WakeBit
  BY <1>6 DEF W!WakeBit
<1>7. CASE W!PollRead
  BY <1>7 DEF W!PollRead
<1>8. CASE W!PollAgain
  BY <1>8 DEF W!PollAgain
<1>9. CASE W!PollLast
  BY <1>9 DEF W!PollLast
<1>10. CASE W!AccessFails
  BY <1>10 DEF W!AccessFails
<1>11. CASE W!ChipWakes
  BY <1>11 DEF W!ChipWakes
<1>12. CASE W!Deadline
  BY <1>12 DEF W!Deadline
<1>13. CASE UNCHANGED varsW
  BY <1>13 DEF varsW
<1> QED
  BY <1>1, <1>2, <1>3, <1>4, <1>5, <1>6, <1>7, <1>8, <1>9, <1>10, <1>11,
     <1>12, <1>13 DEF W!Next, W!Probe

(***************************************************************************)
(* Lesson 26f: as long as the data-ready bit is clear, every edge that is  *)
(* latched, and the one that a pulse on the pin will make, calls for a run *)
(* that finds nothing.  There are at most two of them, one behind the      *)
(* other, because an edge is latched once; each counts from the moment the *)
(* bit is cleared, and the run that clears it starts the count at zero.    *)
(***************************************************************************)
Edges == (IF edge THEN 1 ELSE 0) + (IF int_pin THEN 1 ELSE 0)

SensorInv ==
    /\ I!TypeOK
    /\ binding = "bound" <=> irq_run # "none"
    /\ ~int_status =>
           /\ irq_run \in {"none", "wait"} => empty + Edges <= 2
           /\ irq_run = "read" => 1 + empty + Edges <= 2
           /\ irq_run = "test" /\ read_ok /\ ~status => 1 + empty + Edges <= 2
    /\ irq_run = "test" /\ read_ok /\ ~status => empty < 2

\* Edges that are outstanding are at most the latched one and the next one.
LEMMA EdgeBound == I!TypeOK => Edges \in 0 .. 2
  BY DEF I!TypeOK, Edges

\* The chip may have a sample ready before the driver is loaded, but no edge.
LEMMA SensorInit == I!Init => SensorInv
<1> SUFFICES ASSUME I!Init PROVE SensorInv
  OBVIOUS
<1>1. empty = 0 /\ Edges = 0
  BY DEF I!Init, Edges
<1>2. I!TypeOK
  <2>1. empty \in 0 .. 2
    BY <1>1
  <2> QED
    BY <2>1 DEF I!Init, I!TypeOK
<1> QED
  BY <1>1, <1>2 DEF I!Init, SensorInv

\* A run that takes an edge uses it up, and a sample that makes the next one sets
\* the bit.
LEMMA SensorStep == SensorInv /\ [I!Next]_varsI => SensorInv'
<1> SUFFICES ASSUME SensorInv, [I!Next]_varsI PROVE SensorInv'
  OBVIOUS
<1> USE DEF SensorInv, I!TypeOK, Edges, I!sensorLine, I!sensorRun
<1>0. I!TypeOK' => Edges' \in 0 .. 2
  BY DEF I!TypeOK, Edges
<1>1. CASE I!Sample
  BY <1>1 DEF I!Sample
<1>2. CASE I!PinFalls
  <2>1. Edges' <= Edges
    BY <1>2 DEF I!PinFalls
  <2>2. I!TypeOK'
    BY <1>2 DEF I!PinFalls
  <2> HIDE DEF Edges
  <2> QED
    BY <1>2, <2>1, <2>2, <1>0, EdgeBound DEF I!PinFalls
<1>3. CASE I!SensorProbe
  BY <1>3 DEF I!SensorProbe
<1>4. CASE I!EnableInt
  BY <1>4 DEF I!EnableInt
<1>5. CASE I!RequestIrq
  BY <1>5 DEF I!RequestIrq
<1>6. CASE I!SensorProbeFails
  BY <1>6 DEF I!SensorProbeFails
<1>7. CASE I!SensorUnbind
  <2>1. Edges' <= Edges
    <3>1. (edge' = edge \/ ~edge') /\ int_pin' = int_pin
      BY <1>7 DEF I!SensorUnbind
    <3> QED
      BY <3>1
  <2>2. I!TypeOK'
    BY <1>7 DEF I!SensorUnbind
  <2> HIDE DEF Edges
  <2> QED
    BY <1>7, <2>1, <2>2, <1>0, EdgeBound DEF I!SensorUnbind
<1>8. CASE I!IrqRuns
  <2>1. Edges' = Edges - 1
    BY <1>8 DEF I!IrqRuns
  <2>2. I!TypeOK'
    BY <1>8 DEF I!IrqRuns
  <2> HIDE DEF Edges
  <2> QED
    BY <1>8, <2>1, <2>2, <1>0, EdgeBound DEF I!IrqRuns
<1>9. CASE I!ReadStatus
  <2>1. Edges' = Edges
    BY <1>9 DEF I!ReadStatus
  <2>2. I!TypeOK'
    BY <1>9 DEF I!ReadStatus
  <2> HIDE DEF Edges
  <2> QED
    BY <1>9, <2>1, <2>2, <1>0, EdgeBound DEF I!ReadStatus
<1>10. CASE I!ReadStatusFails
  BY <1>10 DEF I!ReadStatusFails
<1>11. CASE I!IrqNone
  BY <1>11 DEF I!IrqNone
<1>12. CASE I!IrqReports
  BY <1>12 DEF I!IrqReports
<1>13. CASE I!IrqHandled
  BY <1>13 DEF I!IrqHandled
<1>14. CASE UNCHANGED varsI
  BY <1>14 DEF varsI
<1> QED
  BY <1>1, <1>2, <1>3, <1>4, <1>5, <1>6, <1>7, <1>8, <1>9, <1>10, <1>11,
     <1>12, <1>13, <1>14 DEF I!Next, I!Chip, I!Irq

(***************************************************************************)
(* The composition.  allVars are the variables of all the drivers.         *)
(***************************************************************************)
allVars == <<lesson, vars, varsC, varsW, varsI>>

\* Whichever driver is loaded, each driver takes a step of its own or none.
LEMMA EachItsOwn ==
    [HardwareNext]_allVars =>
        /\ [Next]_vars /\ [C!Next]_varsC /\ [W!Next]_varsW /\ [I!Next]_varsI
  BY DEF HardwareNext, allVars

\* The drivers keep their invariants; for the DMA device these are the types,
\* with any number of writers.
LEMMA HardwareInvariants ==
    HardwareSpec => [](TypeOK /\ CacheInv /\ PollInv /\ SensorInv)
<1>1. HardwareInit => TypeOK /\ CacheInv /\ PollInv /\ SensorInv
  BY DmaTypesInit, CacheInit, PollInit, SensorInit DEF HardwareInit
<1>2. HardwareSpec => HardwareInit /\ [][HardwareNext]_allVars
  BY DEF HardwareSpec, allVars
<1> QED
  BY <1>1, <1>2, EachItsOwn, DmaTypesStep, CacheStep, PollStep, SensorStep, PTL

\* The variables of every driver have their types; each DMA buffer is mapped once
\* and unmapped once on every path that returns (dma_mem2mem.c:79-136), and no more than two
\* runs in a row of the sensor's interrupt find nothing (HardwareTypeOK).
THEOREM HardwareTypes == HardwareSpec => []HardwareTypeOK
<1>1. TypeOK /\ CacheInv /\ PollInv /\ SensorInv => HardwareTypeOK
  BY DEF CacheInv, PollInv, SensorInv, HardwareTypeOK
<1> QED
  BY <1>1, HardwareInvariants, PTL

\* Whatever accesses fail and whenever the power goes: the chip is awake as the
\* cache says, or the cache knows that it may not be; a probe that succeeds has
\* seen the chip awake; and of three runs of the sensor's interrupt one finds a
\* sample (regcache_ex.c:86-91, :159-179, regmap_read_poll_timeout.c:119-151,
\* regmap_interrupt_driven.c:44-49).
THEOREM ChipState == HardwareSpec => []ChipIsAsReported
<1>1. CacheInv => C!CacheTellsChip
  BY DEF CacheInv, C!CacheTellsChip, Identified, Woken
<1>2. PollInv => W!AwakeWhenProbed
  BY DEF PollInv
<1>3. SensorInv => I!FindsNothingTwice
  BY DEF SensorInv, I!FindsNothingTwice
<1> QED
  BY <1>1, <1>2, <1>3, HardwareInvariants, PTL DEF ChipIsAsReported

\* With one writer the DMA device keeps its invariant.
LEMMA DmaInvariant ==
    ASSUME SingleWriter
    PROVE  HardwareSpec => []DmaInv /\ [][Next]_vars
<1>1. HardwareInit => DmaInv
  BY DmaInit DEF HardwareInit
<1>2. HardwareSpec => HardwareInit /\ [][HardwareNext]_allVars
  BY DEF HardwareSpec, allVars
<1>3. DmaInv /\ [Next]_vars => DmaInv'
  BY DmaStep
<1> QED
  BY <1>1, <1>2, <1>3, EachItsOwn, PTL

\* A transfer that timed out is stopped before its buffers are unmapped: the
\* controller works on mapped memory only (dma_mem2mem.c:117-134).
THEOREM DmaOnMappedMemory ==
    ASSUME SingleWriter
    PROVE  HardwareSpec => []DeviceOwnsMapped
<1>1. DmaInv => DeviceOwnsMapped
  BY DEF DmaInv, Transfer, TypeOK, SrcMapped, DstMapped, DeviceOwnsMapped
<1> QED
  BY <1>1, DmaInvariant, PTL

\* A write() that reports success has its own data in dst_buf, whatever timed out
\* before it (dma_mem2mem.c:102-129, :162-168).
THEOREM SuccessfulWrites ==
    ASSUME SingleWriter
    PROVE  HardwareSpec => []WriteIsCopied
<1>1. DmaInv => WriteIsCopied
  BY DEF DmaInv, Written, WriteIsCopied
<1> QED
  BY <1>1, DmaInvariant, PTL

\* A read() that follows a successful write() and precedes the next one returns
\* what was written (dma_mem2mem.c:160-182).
THEOREM ReadsAfterWrites ==
    ASSUME SingleWriter
    PROVE  HardwareSpec => ReadsReturnWrites
<1>1. DmaInv /\ [Next]_vars => [ReadReturnsWrite]_vars
  <2> SUFFICES ASSUME DmaInv, Next PROVE ReadReturnsWrite
    BY DEF vars
  <2>1. CASE Read
    BY <2>1 DEF Read, DmaInv, Written, ReadReturnsWrite
  <2>2. CASE got' = got
    BY <2>2 DEF ReadReturnsWrite
  <2>3. Read \/ got' = got
    BY DEF Next, WriteCall, WriteStep, WriteCopy, WriteFault, WriteClear, MapSrc,
           MapSrcFail, MapDst, MapDstFail, Arm, Submit, TransferFail, WaitDone,
           WaitTimeout, Terminate, UnmapDst, UnmapSrc, WriteLength, DmaFinish, DmaCallback
  <2> QED
    BY <2>1, <2>2, <2>3
<1> QED
  BY <1>1, DmaInvariant, PTL DEF ReadsReturnWrites
=============================================================================
