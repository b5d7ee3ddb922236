----------------------------- MODULE KthreadIrq -----------------------------
(***************************************************************************)
(* Lesson 18: an interrupt handler that sets a flag and wakes a kernel     *)
(* thread of the driver, with the driver's probe and remove.               *)
(*                                                                         *)
(* my_probe requests the interrupt before it starts the thread; my_remove  *)
(* stops the thread, and the driver core releases the managed resources    *)
(* afterwards: the interrupt first, the memory of struct my_device last.   *)
(***************************************************************************)
VARIABLES
    phase,        \* where probe, remove and the driver core are
    irq_on,       \* the interrupt is requested
    allocated,    \* struct my_device exists
    isr,          \* the next step of button_irq, "idle" outside it
    thread,       \* the next step of thread_fn, "none" before, "exited" after
    waitq,        \* the thread is on its wait queue
    should_stop,  \* KTHREAD_SHOULD_STOP
    data_ready

vars == <<phase, irq_on, allocated, isr, thread, waitq, should_stop, data_ready>>

Init ==
    /\ phase = "unbound"
    /\ irq_on = FALSE
    /\ allocated = FALSE
    /\ isr = "idle"
    /\ thread = "none"
    /\ waitq = FALSE
    /\ should_stop = FALSE
    /\ data_ready = FALSE

(***************************************************************************)
(* my_probe                                                                *)
(***************************************************************************)
\* devm_kzalloc, the GPIO and devm_request_irq; if one of them fails the
\* driver core releases the ones before it and nothing has happened.
ProbeIrq ==
    /\ phase = "unbound"
    /\ phase' = "probing"
    /\ allocated' = TRUE
    /\ irq_on' = TRUE
    /\ data_ready' = FALSE
    /\ UNCHANGED <<isr, thread, waitq, should_stop>>

ProbeThread ==
    /\ phase = "probing"
    /\ phase' = "bound"
    /\ thread' = "loop"
    /\ UNCHANGED <<irq_on, allocated, isr, waitq, should_stop, data_ready>>

\* kthread_run fails: probe returns the error.
ProbeFail ==
    /\ phase = "probing"
    /\ phase' = "devres"
    /\ UNCHANGED <<irq_on, allocated, isr, thread, waitq, should_stop, data_ready>>

(***************************************************************************)
(* button_irq                                                              *)
(***************************************************************************)
IsrEnter ==
    /\ irq_on
    /\ isr = "idle"
    /\ isr' = "set"
    /\ UNCHANGED <<phase, irq_on, allocated, thread, waitq, should_stop, data_ready>>

IsrSet ==
    /\ isr = "set"
    /\ data_ready' = TRUE
    /\ isr' = "wake"
    /\ UNCHANGED <<phase, irq_on, allocated, thread, waitq, should_stop>>

\* Mutant: the thread is not woken.
IsrWakeNobody ==
    /\ isr = "wake"
    /\ isr' = "idle"
    /\ UNCHANGED <<phase, irq_on, allocated, thread, waitq, should_stop, data_ready>>

IsrWake ==
    /\ isr = "wake"
    /\ waitq' = FALSE
    /\ isr' = "idle"
    /\ UNCHANGED <<phase, irq_on, allocated, thread, should_stop, data_ready>>

(***************************************************************************)
(* thread_fn                                                               *)
(***************************************************************************)
ThreadStep(from, to) ==
    /\ thread = from
    /\ thread' = to
    /\ UNCHANGED <<phase, irq_on, allocated, isr, should_stop>>

Condition == data_ready \/ should_stop

ThreadLoop ==
    /\ ThreadStep("loop", IF should_stop THEN "exited" ELSE "wait")
    /\ UNCHANGED <<waitq, data_ready>>

\* wait_event_interruptible: look, join the queue, look again, sleep.  The
\* signal that kthread_stop raises comes with should_stop, which ends the
\* wait anyway.
ThreadWait ==
    /\ ThreadStep("wait", IF Condition THEN "check" ELSE "prepare")
    /\ UNCHANGED <<waitq, data_ready>>

ThreadPrepare ==
    /\ ThreadStep("prepare", "recheck")
    /\ waitq' = TRUE
    /\ UNCHANGED data_ready

\* Mutant: the thread does not leave the queue.
ThreadAwakeQueued ==
    /\ Condition
    /\ ThreadStep("recheck", "check")
    /\ UNCHANGED <<waitq, data_ready>>

ThreadAwake ==
    /\ Condition
    /\ ThreadStep("recheck", "check")
    /\ waitq' = FALSE
    /\ UNCHANGED data_ready

ThreadSleep ==
    /\ ~Condition
    /\ ThreadStep("recheck", "asleep")
    /\ UNCHANGED <<waitq, data_ready>>

ThreadResume ==
    /\ ~waitq
    /\ ThreadStep("asleep", "prepare")
    /\ UNCHANGED <<waitq, data_ready>>

ThreadCheck ==
    /\ ThreadStep("check", IF should_stop THEN "exited" ELSE "clear")
    /\ UNCHANGED <<waitq, data_ready>>

ThreadClear ==
    /\ ThreadStep("clear", "process")
    /\ data_ready' = FALSE
    /\ UNCHANGED waitq

ThreadProcess ==
    /\ ThreadStep("process", "loop")
    /\ UNCHANGED <<waitq, data_ready>>

(***************************************************************************)
(* my_remove, then the driver core.  kthread_stop wakes the thread.        *)
(***************************************************************************)
Remove ==
    /\ phase = "bound"
    /\ phase' = "stopping"
    /\ should_stop' = TRUE
    /\ thread' = IF thread = "asleep" THEN "prepare" ELSE thread
    /\ UNCHANGED <<irq_on, allocated, isr, waitq, data_ready>>

\* Mutant: my_remove does not wait for the thread.
RemoveReturnEarly ==
    /\ phase = "stopping"
    /\ phase' = "devres"
    /\ UNCHANGED <<irq_on, allocated, isr, thread, waitq, should_stop, data_ready>>

RemoveReturn ==
    /\ phase = "stopping"
    /\ thread = "exited"
    /\ phase' = "devres"
    /\ UNCHANGED <<irq_on, allocated, isr, thread, waitq, should_stop, data_ready>>

\* free_irq waits for a running handler.
FreeIrq ==
    /\ phase = "devres"
    /\ irq_on
    /\ isr = "idle"
    /\ irq_on' = FALSE
    /\ UNCHANGED <<phase, allocated, isr, thread, waitq, should_stop, data_ready>>

FreeDevice ==
    /\ phase = "devres"
    /\ ~irq_on
    /\ allocated' = FALSE
    /\ phase' = "gone"
    /\ UNCHANGED <<irq_on, isr, thread, waitq, should_stop, data_ready>>

Isr == IsrSet \/ IsrWake

Thread ==
    \/ ThreadLoop \/ ThreadWait \/ ThreadPrepare \/ ThreadAwake \/ ThreadSleep
    \/ ThreadResume \/ ThreadCheck \/ ThreadClear \/ ThreadProcess

Driver ==
    \/ ProbeIrq \/ ProbeThread \/ ProbeFail \/ RemoveReturn \/ FreeIrq
    \/ FreeDevice

Next == IsrEnter \/ Isr \/ Thread \/ Driver \/ Remove

Spec == Init /\ [][Next]_vars

\* Interrupt handlers run to their end, the thread and the task that loads or
\* unloads the driver are scheduled; free_irq disables the line, so that it
\* gets its turn between interrupts.  Nobody has to press or to unload.
Fairness == WF_vars(Isr) /\ WF_vars(Thread) /\ WF_vars(Driver) /\ SF_vars(FreeIrq)

FairSpec == Spec /\ Fairness
-----------------------------------------------------------------------------
\* Type invariant; the thread is on the queue only while it waits.
TypeOK ==
    /\ phase \in {"unbound", "probing", "bound", "stopping", "devres", "gone"}
    /\ irq_on \in BOOLEAN
    /\ allocated \in BOOLEAN
    /\ isr \in {"idle", "set", "wake"}
    /\ thread \in {"none", "loop", "wait", "prepare", "recheck", "asleep",
                   "check", "clear", "process", "exited"}
    /\ waitq \in BOOLEAN
    /\ waitq => thread \in {"prepare", "recheck", "asleep"}
    /\ should_stop \in BOOLEAN
    /\ data_ready \in BOOLEAN

\* Neither the handler nor the thread outlives struct my_device, although
\* presses keep coming until the interrupt is freed (kthread_IRQ.c:155-167).
NoUseAfterFree ==
    ~allocated => isr = "idle" /\ ~irq_on /\ thread \in {"none", "exited"}

\* The thread answers presses as a bottom half should (kthread_IRQ.c:57-92).
Half == INSTANCE BottomHalf WITH
    pending <- data_ready,
    busy <- (thread = "process"),
    shutdown <- IF thread = "exited" THEN "done"
                ELSE IF should_stop THEN "begun" ELSE "no"

ImplementsHalf == Half!Spec

\* Every press is answered unless the driver is being removed.
PressAnswered == (phase = "bound" /\ data_ready) ~> (~data_ready \/ should_stop)

\* my_remove returns: kthread_stop does not wait for a thread that sleeps
\* (kthread_IRQ.c:59-65, :162).
RemoveReturns == (phase = "stopping") ~> (phase = "gone")
=============================================================================
