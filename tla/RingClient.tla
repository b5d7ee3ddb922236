----------------------------- MODULE RingClient -----------------------------
(***************************************************************************)
(* Module B of lesson 27d on top of the ring of module A.  module_b_init   *)
(* starts the consumer thread and pushes three packets, module_b_exit      *)
(* stops the thread.                                                       *)
(*                                                                         *)
(* kthread_stop (Linux 6.6) sets the should_stop flag, makes               *)
(* signal_pending() true for the thread and wakes it, so that an           *)
(* interruptible wait returns -ERESTARTSYS; it then blocks until the       *)
(* thread function has returned.  ring_pop ignores what its wait returns.  *)
(***************************************************************************)
EXTENDS ThreadsafeRing

CONSTANTS
    Loader,       \* the thread that runs module_b_init and module_b_exit
    Consumer,     \* the thread module_b_init starts
    Script,       \* the packets module_b_init pushes, in order
    KthreadFails  \* whether kthread_run may return an error pointer

ASSUME ClientAssumption ==
    /\ Producers = {Loader}
    /\ Consumers = {Consumer}
    /\ Script \in Seq(Packets)
    /\ Len(Script) < RING_SIZE
    /\ KthreadFails \in BOOLEAN

VARIABLES
    consumer,      \* the task pointer: "null", "task" or "errptr"
    module,        \* where module B is in its life
    pushed,        \* how many packets of Script module_b_init has submitted
    should_stop,   \* KTHREAD_SHOULD_STOP of the consumer thread
    alive,         \* the thread function has started and not returned
    received,      \* history: what the consumer printed
    before_stop    \* history: how many of those before kthread_stop

client == <<consumer, module, pushed, should_stop, alive, received, before_stop>>
clientVars == <<vars, client>>

ClientInit ==
    /\ Init
    /\ consumer = "null"
    /\ module = "absent"
    /\ pushed = 0
    /\ should_stop = FALSE
    /\ alive = FALSE
    /\ received = <<>>
    /\ before_stop = 0

(***************************************************************************)
(* module_b_init                                                           *)
(***************************************************************************)
KthreadRun ==
    /\ module = "absent"
    /\ module' = "loading"
    /\ \/ consumer' = "task" /\ alive' = TRUE
       \/ KthreadFails /\ consumer' = "errptr" /\ UNCHANGED alive
    /\ UNCHANGED <<vars, pushed, should_stop, received, before_stop>>

\* The next ring_push; its result is ignored.
InitPush ==
    /\ module = "loading"
    /\ pushed < Len(Script)
    /\ PushCall(Loader, Script[pushed + 1])
    /\ pushed' = pushed + 1
    /\ UNCHANGED <<consumer, module, should_stop, alive, received, before_stop>>

InitReturn ==
    /\ module = "loading"
    /\ pushed = Len(Script)
    /\ pc[Loader] = "idle"
    /\ module' = "live"
    /\ UNCHANGED <<vars, consumer, pushed, should_stop, alive, received,
                   before_stop>>

LoaderRuns ==
    /\ PushStep(Loader)
    /\ UNCHANGED client

(***************************************************************************)
(* consumer_thread: pc[Consumer] = "idle" is the test of its while loop.   *)
(***************************************************************************)
\* Mutant: while (1) instead of while (!kthread_should_stop()).
ThreadLoopForever ==
    /\ alive
    /\ PopCall(Consumer)
    /\ UNCHANGED client

ThreadLoop ==
    /\ alive
    /\ ~should_stop
    /\ PopCall(Consumer)
    /\ UNCHANGED client

ThreadReturn ==
    /\ alive
    /\ should_stop
    /\ pc[Consumer] = "idle"
    /\ alive' = FALSE
    /\ UNCHANGED <<vars, consumer, module, pushed, should_stop, received,
                   before_stop>>

\* The wait as ring_pop runs it, while no signal is pending.
ThreadWaits ==
    /\ \/ PopTest(Consumer) \/ WaitPrepare(Consumer) \/ WaitDone(Consumer)
       \/ WaitResume(Consumer)
       \/ ~should_stop /\ WaitSleep(Consumer)
    /\ UNCHANGED client

\* prepare_to_wait_event sees the pending signal and the condition is false:
\* the wait is over with -ERESTARTSYS, and ring_pop goes on.
WaitInterrupted ==
    /\ should_stop
    /\ pc[Consumer] = "recheck"
    /\ head = tail
    /\ read_queue' = read_queue \ {Consumer}
    /\ Goto(Consumer, "acquire")
    /\ UNCHANGED <<ring, lock, arg, res, msg, last, client>>

ThreadPops ==
    /\ PopLock(Consumer) \/ PopCopy(Consumer) \/ PopAdvance(Consumer)
    /\ UNCHANGED client

\* ring_pop returns 0, always, and the thread prints the message.
ThreadPrints ==
    /\ PopUnlock(Consumer)
    /\ received' = Append(received, msg[Consumer])
    /\ UNCHANGED <<consumer, module, pushed, should_stop, alive, before_stop>>

(***************************************************************************)
(* module_b_exit                                                           *)
(***************************************************************************)
ExitCall ==
    /\ module = "live"
    /\ module' = "stopping"
    /\ UNCHANGED <<vars, consumer, pushed, should_stop, alive, received,
                   before_stop>>

\* Mutant: module_b_exit sets a flag of its own and wakes nobody.
KthreadStopSilent ==
    /\ module = "stopping"
    /\ consumer = "task"
    /\ ~should_stop
    /\ should_stop' = TRUE
    /\ before_stop' = Len(received)
    /\ UNCHANGED <<vars, consumer, module, pushed, alive, received>>

KthreadStop ==
    /\ module = "stopping"
    /\ consumer = "task"
    /\ ~should_stop
    /\ should_stop' = TRUE
    /\ before_stop' = Len(received)
    /\ pc' = IF pc[Consumer] = "asleep" THEN [pc EXCEPT ![Consumer] = "prepare"]
                                        ELSE pc
    /\ UNCHANGED <<ring, lock, read_queue, arg, res, msg, last, consumer, module,
                   pushed, alive, received>>

\* An error pointer is not NULL: kthread_stop dereferences it, and the module
\* cannot be removed any more.
KthreadStopErrPtr ==
    /\ module = "stopping"
    /\ consumer = "errptr"
    /\ module' = "oops"
    /\ UNCHANGED <<vars, consumer, pushed, should_stop, alive, received,
                   before_stop>>

\* kthread_stop has waited for the thread function to return.
ExitReturn ==
    /\ module = "stopping"
    /\ should_stop
    /\ ~alive
    /\ module' = "gone"
    /\ UNCHANGED <<vars, consumer, pushed, should_stop, alive, received,
                   before_stop>>

LoaderStep ==
    \/ KthreadRun \/ InitPush \/ InitReturn \/ LoaderRuns
    \/ KthreadStop \/ KthreadStopErrPtr \/ ExitReturn

ConsumerStep ==
    \/ ThreadLoop \/ ThreadReturn \/ ThreadWaits \/ WaitInterrupted
    \/ ThreadPops \/ ThreadPrints

ClientNext == LoaderStep \/ ConsumerStep \/ ExitCall

ClientSpec == ClientInit /\ [][ClientNext]_clientVars

\* Both threads keep running and the spinlock is granted in arrival order;
\* nothing makes the administrator remove the module.
ClientFairness ==
    /\ WF_clientVars(LoaderStep) /\ SF_clientVars(PushLock(Loader) /\ LoaderRuns)
    /\ WF_clientVars(ConsumerStep)
    /\ SF_clientVars(PopLock(Consumer) /\ ThreadPops)
-----------------------------------------------------------------------------
\* Type invariant of what module B adds to the ring.
ClientTypeOK ==
    /\ TypeOK
    /\ consumer \in {"null", "task", "errptr"}
    /\ module \in {"absent", "loading", "live", "stopping", "gone", "oops"}
    /\ pushed \in 0 .. Len(Script)
    /\ should_stop \in BOOLEAN
    /\ alive \in BOOLEAN
    /\ received \in Seq(Packets)
    /\ before_stop \in Nat

\* Until it is stopped, the consumer has printed a prefix of what
\* module_b_init pushed: nothing lost, repeated or reordered
\* (Threadsafe_ring_buffer_Module-B.c:15-19, 33-41).
PrintsPrefix ==
    ~should_stop =>
        /\ Len(received) <= pushed
        /\ \A i \in 1 .. Len(received) : received[i] = Clip[Script[i]]

\* kthread_stop lets the call of ring_pop in progress finish and no more: the
\* thread prints at most one message after it (Module-B.c:15, :49).
OneMoreAtMost == should_stop => Len(received) <= before_stop + 1

\* Unless kthread_run failed or the module is removed first, every packet is
\* printed in the end.
AllPrinted ==
    (module = "live" /\ consumer = "task")
        ~> (Len(received) = Len(Script) \/ should_stop)

\* Where kthread_run has succeeded, module_b_exit returns: the thread leaves its
\* wait and its loop.  Where it has failed, consumer is an error pointer and
\* passes for a thread (Threadsafe_ring_buffer_Module-B.c:48-49): module_b_exit
\* does not return.
ExitReturns == (module = "stopping" /\ consumer = "task") ~> (module = "gone")
=============================================================================
