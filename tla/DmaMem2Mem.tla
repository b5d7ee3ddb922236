----------------------------- MODULE DmaMem2Mem -----------------------------
(***************************************************************************)
(* The DMA device of lesson 21a: write() copies the user's data to src_buf *)
(* and has the DMA controller copy it to dst_buf, read() returns dst_buf.  *)
(* There is one channel, one completion, one pair of buffers and no lock.  *)
(*                                                                         *)
(* The controller copies a whole buffer when it finishes; it may also not  *)
(* finish within the five seconds that the driver waits.  Its callback     *)
(* runs some time after the transfer has finished.                         *)
(***************************************************************************)
EXTENDS Integers, FiniteSets

CONSTANTS Writers, Messages, Zero

ASSUME DmaAssumption == Zero \notin Messages /\ IsFiniteSet(Writers)

VARIABLES
    src_buf, dst_buf,
    data_len,     \* whether data_len is set; all messages have one length
    dma_done,     \* the count of the completion
    active,       \* the transfers, by writer, that the controller works on
    callbacks,    \* finished transfers whose callback has not run
    completed,    \* transfers with status DMA_COMPLETE
    mapped,       \* mapped[w][b]: how often w has mapped buffer b for the
                  \* device, less how often it has unmapped it
    pc, arg,
    ret,          \* ret[w]: what w's write returns
    got           \* what the last read() returned, Zero before the first

vars == <<src_buf, dst_buf, data_len, dma_done, active, callbacks, completed,
          mapped, pc, arg, ret, got>>
buffers == <<src_buf, dst_buf, data_len>>
engine == <<dma_done, active, callbacks, completed>>

\* dma_map_single and dma_unmap_single
Unmapped == [src |-> 0, dst |-> 0]
MapBuf(w, b) == mapped' = [mapped EXCEPT ![w][b] = @ + 1]
UnmapBuf(w, b) == mapped' = [mapped EXCEPT ![w][b] = @ - 1]

Init ==
    /\ src_buf = Zero
    /\ dst_buf = Zero
    /\ data_len = FALSE
    /\ dma_done = 0
    /\ active = {}
    /\ callbacks = {}
    /\ completed = {}
    /\ mapped = [w \in Writers |-> Unmapped]
    /\ pc = [w \in Writers |-> "idle"]
    /\ arg = [w \in Writers |-> Zero]
    /\ ret = [w \in Writers |-> "none"]
    /\ got = Zero

Goto(w, step) == pc' = [pc EXCEPT ![w] = step]
Return(w, r) == ret' = [ret EXCEPT ![w] = r]

(***************************************************************************)
(* dev_write                                                               *)
(***************************************************************************)
WriteCall(w, m) ==
    /\ pc[w] = "idle"
    /\ arg' = [arg EXCEPT ![w] = m]
    /\ Goto(w, "copy")
    /\ UNCHANGED <<buffers, engine, mapped, ret, got>>

WriteCopy(w) ==
    /\ pc[w] = "copy"
    /\ src_buf' = arg[w]
    /\ Goto(w, "clear")
    /\ UNCHANGED <<dst_buf, data_len, engine, mapped, arg, ret, got>>

\* copy_from_user fails, after it may have copied something.
WriteFault(w) ==
    /\ pc[w] = "copy"
    /\ src_buf' \in {src_buf, arg[w]}
    /\ Return(w, "EFAULT")
    /\ Goto(w, "idle")
    /\ UNCHANGED <<dst_buf, data_len, engine, mapped, arg, got>>

WriteClear(w) ==
    /\ pc[w] = "clear"
    /\ dst_buf' = Zero
    /\ Goto(w, "map")
    /\ UNCHANGED <<src_buf, data_len, engine, mapped, arg, ret, got>>

(***************************************************************************)
(* do_dma_transfer                                                         *)
(***************************************************************************)
MapSrc(w) ==
    /\ pc[w] = "map"
    /\ MapBuf(w, "src")
    /\ Goto(w, "map_dst")
    /\ UNCHANGED <<buffers, engine, arg, ret, got>>

MapSrcFail(w) ==
    /\ pc[w] = "map"
    /\ Return(w, "ENOMEM")
    /\ Goto(w, "idle")
    /\ UNCHANGED <<buffers, engine, mapped, arg, got>>

MapDst(w) ==
    /\ pc[w] = "map_dst"
    /\ MapBuf(w, "dst")
    /\ Goto(w, "prep")
    /\ UNCHANGED <<buffers, engine, arg, ret, got>>

\* Mutant: the error path goes to the label that unmaps both buffers.
MapDstFailUnmap(w) ==
    /\ pc[w] = "map_dst"
    /\ Return(w, "ENOMEM")
    /\ Goto(w, "unmap")
    /\ UNCHANGED <<buffers, engine, mapped, arg, got>>

MapDstFail(w) ==
    /\ pc[w] = "map_dst"
    /\ Return(w, "ENOMEM")
    /\ Goto(w, "unmap_src")
    /\ UNCHANGED <<buffers, engine, mapped, arg, got>>

\* reinit_completion, once the transfer is described.
Arm(w) ==
    /\ pc[w] = "prep"
    /\ dma_done' = 0
    /\ completed' = completed \ {w}
    /\ Goto(w, "submit")
    /\ UNCHANGED <<buffers, active, callbacks, mapped, arg, ret, got>>

\* dmaengine_submit and dma_async_issue_pending
Submit(w) ==
    /\ pc[w] = "submit"
    /\ active' = active \cup {w}
    /\ Goto(w, "wait")
    /\ UNCHANGED <<buffers, dma_done, callbacks, completed, mapped, arg, ret, got>>

\* Mutant: ret is not set before the goto, and do_dma_transfer returns 0.
TransferFailSilent(w) ==
    /\ pc[w] \in {"prep", "submit"}
    /\ Return(w, "ok")
    /\ Goto(w, "unmap")
    /\ UNCHANGED <<buffers, engine, mapped, arg, got>>

\* dmaengine_prep_dma_memcpy returns NULL, or the submission is refused.
TransferFail(w) ==
    /\ pc[w] \in {"prep", "submit"}
    /\ Return(w, "EIO")
    /\ Goto(w, "unmap")
    /\ UNCHANGED <<buffers, engine, mapped, arg, got>>

WaitDone(w) ==
    /\ pc[w] = "wait"
    /\ dma_done > 0
    /\ dma_done' = dma_done - 1
    /\ Return(w, IF w \in completed THEN "ok" ELSE "EIO")
    /\ Goto(w, "unmap")
    /\ UNCHANGED <<buffers, active, callbacks, completed, mapped, arg, got>>

\* Mutant: the wait has no timeout.
WaitTimeoutNever(w) == FALSE

\* Mutant: the result of the wait is not looked at.
WaitTimeoutIgnored(w) ==
    /\ pc[w] = "wait"
    /\ dma_done = 0
    /\ Return(w, "ok")
    /\ Goto(w, "unmap")
    /\ UNCHANGED <<buffers, engine, mapped, arg, got>>

WaitTimeout(w) ==
    /\ pc[w] = "wait"
    /\ dma_done = 0
    /\ Return(w, "ETIMEDOUT")
    /\ Goto(w, "terminate")
    /\ UNCHANGED <<buffers, engine, mapped, arg, got>>

\* Mutant: the transfer that timed out is not stopped.
TerminateNot(w) ==
    /\ pc[w] = "terminate"
    /\ Goto(w, "unmap")
    /\ UNCHANGED <<buffers, engine, mapped, arg, ret, got>>

\* dmaengine_terminate_sync stops the whole channel and waits for callbacks
\* that have begun; one that has not begun is dropped.
Terminate(w) ==
    /\ pc[w] = "terminate"
    /\ active' = {}
    /\ callbacks' = {}
    /\ \E S \in SUBSET callbacks : dma_done' = dma_done + Cardinality(S)
    /\ Goto(w, "unmap")
    /\ UNCHANGED <<buffers, completed, mapped, arg, ret, got>>

UnmapDst(w) ==
    /\ pc[w] = "unmap"
    /\ UnmapBuf(w, "dst")
    /\ Goto(w, "unmap_src")
    /\ UNCHANGED <<buffers, engine, arg, ret, got>>

\* The last statement before do_dma_transfer returns, also where the second
\* mapping has failed.
UnmapSrc(w) ==
    /\ pc[w] = "unmap_src"
    /\ UnmapBuf(w, "src")
    /\ Goto(w, IF ret[w] = "ok" THEN "length" ELSE "idle")
    /\ UNCHANGED <<buffers, engine, arg, ret, got>>

\* Back in dev_write, after a transfer that succeeded.
WriteLength(w) ==
    /\ pc[w] = "length"
    /\ data_len' = TRUE
    /\ Goto(w, "idle")
    /\ UNCHANGED <<src_buf, dst_buf, engine, mapped, arg, ret, got>>

(***************************************************************************)
(* The DMA controller and its interrupt                                    *)
(***************************************************************************)
DmaFinish(w) ==
    /\ w \in active
    /\ dst_buf' = src_buf
    /\ active' = active \ {w}
    /\ completed' = completed \cup {w}
    /\ callbacks' = callbacks \cup {w}
    /\ UNCHANGED <<src_buf, data_len, dma_done, mapped, pc, arg, ret, got>>

\* dma_callback
DmaCallback(w) ==
    /\ w \in callbacks
    /\ callbacks' = callbacks \ {w}
    /\ dma_done' = dma_done + 1
    /\ UNCHANGED <<buffers, active, completed, mapped, pc, arg, ret, got>>

(***************************************************************************)
(* dev_read at offset 0                                                    *)
(***************************************************************************)
Read ==
    /\ data_len
    /\ got' = dst_buf
    /\ UNCHANGED <<buffers, engine, mapped, pc, arg, ret>>

WriteStep(w) ==
    \/ WriteCopy(w) \/ WriteFault(w) \/ WriteClear(w)
    \/ MapSrc(w) \/ MapSrcFail(w) \/ MapDst(w) \/ MapDstFail(w)
    \/ Arm(w) \/ Submit(w) \/ TransferFail(w) \/ WaitDone(w) \/ WaitTimeout(w)
    \/ Terminate(w) \/ UnmapDst(w) \/ UnmapSrc(w) \/ WriteLength(w)

Next ==
    \/ \E w \in Writers :
        \/ \E m \in Messages : WriteCall(w, m)
        \/ WriteStep(w) \/ DmaFinish(w) \/ DmaCallback(w)
    \/ Read

Spec == Init /\ [][Next]_vars

\* A writer goes on, and its wait ends after five seconds at the latest; the
\* controller need not finish.
Fairness == \A w \in Writers : WF_vars(WriteStep(w))
-----------------------------------------------------------------------------
WriteSteps == {"idle", "copy", "clear", "map", "map_dst", "prep", "submit", "wait",
               "terminate", "unmap", "unmap_src", "length"}

\* Where do_dma_transfer has mapped a buffer and not yet unmapped it.
SrcMapped == {"map_dst", "prep", "submit", "wait", "terminate", "unmap", "unmap_src"}
DstMapped == {"prep", "submit", "wait", "terminate", "unmap"}

\* Type invariant; each buffer is mapped once and unmapped once, on every path
\* that returns.
TypeOK ==
    /\ {src_buf, dst_buf, got} \subseteq Messages \cup {Zero}
    /\ data_len \in BOOLEAN
    /\ dma_done \in Nat
    /\ active \in SUBSET Writers
    /\ callbacks \in SUBSET Writers
    /\ completed \in SUBSET Writers
    /\ mapped \in [Writers -> [src : Int, dst : Int]]
    /\ \A w \in Writers :
        /\ mapped[w].src = IF pc[w] \in SrcMapped THEN 1 ELSE 0
        /\ mapped[w].dst = IF pc[w] \in DstMapped THEN 1 ELSE 0
    /\ pc \in [Writers -> WriteSteps]
    /\ arg \in [Writers -> Messages \cup {Zero}]
    /\ ret \in [Writers -> {"none", "ok", "EFAULT", "ENOMEM", "EIO", "ETIMEDOUT"}]

\* The controller works on mapped buffers only: a transfer that timed out is
\* stopped before its buffers are unmapped (dma_mem2mem.c:117-134).
DeviceOwnsMapped ==
    \A w \in active : mapped[w].src > 0 /\ mapped[w].dst > 0

\* A write that reports success has copied its own data to dst_buf: neither a
\* late callback of a transfer that timed out nor another writer makes it
\* believe so (dma_mem2mem.c:102-129, :162-168).
WriteIsCopied == \A w \in Writers : pc[w] = "length" => dst_buf = arg[w]

\* After a write that succeeded, and before the next one begins, read()
\* returns what was written: data_len and dst_buf belong together
\* (dma_mem2mem.c:160-169 against :171-182, with one writer).
ReadReturnsWrite ==
    \A w \in Writers :
        (got' # got /\ pc[w] = "idle" /\ ret[w] = "ok") => got' = arg[w]
ReadsReturnWrites == [][ReadReturnsWrite]_vars

\* Every write returns, whether the controller answers or not.
WriteReturns == \A w \in Writers : (pc[w] # "idle") ~> (pc[w] = "idle")
=============================================================================
