----------------------------- MODULE ThreadedIrq -----------------------------
(***************************************************************************)
(* The threaded interrupt of lesson 16: top_irq returns IRQ_WAKE_THREAD,   *)
(* and the kernel runs thread_irq in a thread of its own.  The bit         *)
(* IRQTF_RUNTHREAD holds a wake-up that the thread has not taken yet.      *)
(* my_remove is empty: the driver core frees the interrupt, which stops    *)
(* the thread, before it frees struct my_device.                           *)
(***************************************************************************)
VARIABLES
    phase,         \* "unbound", "bound", "freeing", "stopping", "gone"
    top,           \* top_irq runs
    runthread,     \* IRQTF_RUNTHREAD
    irq_thread,    \* "none", "wait", "asleep", "run" or "exited"
    allocated      \* struct my_device

threadedVars == <<phase, top, runthread, irq_thread, allocated>>

Init ==
    /\ phase = "unbound"
    /\ top = FALSE
    /\ runthread = FALSE
    /\ irq_thread = "none"
    /\ allocated = FALSE

\* The thread is created with the interrupt; a probe that fails leaves nothing.
ThreadedProbe ==
    /\ phase = "unbound"
    /\ phase' = "bound"
    /\ irq_thread' = "wait"
    /\ allocated' = TRUE
    /\ UNCHANGED <<top, runthread>>

TopEnter ==
    /\ phase = "bound"
    /\ ~top
    /\ top' = TRUE
    /\ UNCHANGED <<phase, runthread, irq_thread, allocated>>

\* Return IRQ_WAKE_THREAD.
TopReturn ==
    /\ top
    /\ top' = FALSE
    /\ runthread' = TRUE
    /\ irq_thread' = IF irq_thread = "asleep" THEN "wait" ELSE irq_thread
    /\ UNCHANGED <<phase, allocated>>

\* irq_wait_for_interrupt, as the thread runs it.
ThreadTake ==
    /\ irq_thread = "wait"
    /\ runthread
    /\ runthread' = FALSE
    /\ irq_thread' = "run"
    /\ UNCHANGED <<phase, top, allocated>>

ThreadIdle ==
    /\ irq_thread = "wait"
    /\ ~runthread /\ phase # "stopping"
    /\ irq_thread' = "asleep"
    /\ UNCHANGED <<phase, top, runthread, allocated>>

ThreadExits ==
    /\ irq_thread = "wait"
    /\ ~runthread /\ phase = "stopping"
    /\ irq_thread' = "exited"
    /\ UNCHANGED <<phase, top, runthread, allocated>>

\* thread_irq: it sleeps for a second.
ThreadIrq ==
    /\ irq_thread = "run"
    /\ irq_thread' = "wait"
    /\ UNCHANGED <<phase, top, runthread, allocated>>

\* my_remove returns at once; free_irq disconnects the handler,
DisconnectIrq ==
    /\ phase = "bound"
    /\ phase' = "freeing"
    /\ UNCHANGED <<top, runthread, irq_thread, allocated>>

\* waits for a running top_irq and stops the thread.
StopThread ==
    /\ phase = "freeing"
    /\ ~top
    /\ phase' = "stopping"
    /\ irq_thread' = IF irq_thread = "asleep" THEN "wait" ELSE irq_thread
    /\ UNCHANGED <<top, runthread, allocated>>

ReleaseDevice ==
    /\ phase = "stopping"
    /\ irq_thread = "exited"
    /\ phase' = "gone"
    /\ allocated' = FALSE
    /\ UNCHANGED <<top, runthread, irq_thread>>

Thread == ThreadTake \/ ThreadIdle \/ ThreadExits \/ ThreadIrq
Freeing == StopThread \/ ReleaseDevice

Next == ThreadedProbe \/ TopEnter \/ TopReturn \/ Thread \/ DisconnectIrq \/ Freeing

Spec == Init /\ [][Next]_threadedVars

Fairness ==
    WF_threadedVars(TopReturn) /\ WF_threadedVars(Thread) /\ WF_threadedVars(Freeing)
-----------------------------------------------------------------------------
\* Type invariant.
TypeOK ==
    /\ phase \in {"unbound", "bound", "freeing", "stopping", "gone"}
    /\ top \in BOOLEAN
    /\ runthread \in BOOLEAN
    /\ irq_thread \in {"none", "wait", "asleep", "run", "exited"}
    /\ allocated \in BOOLEAN

\* Neither half outlives struct my_device, although my_remove does nothing
\* (request_threaded_irq.c:123-130, :144-148).
NoUseAfterFree == ~allocated => ~top /\ irq_thread \in {"none", "exited"}

\* thread_irq is a bottom half (request_threaded_irq.c:49-71).
Half == INSTANCE BottomHalf WITH
    pending <- runthread,
    busy <- (irq_thread = "run"),
    shutdown <- IF irq_thread = "exited" THEN "done"
                ELSE IF phase = "stopping" THEN "begun" ELSE "no"

ImplementsHalf == Half!Spec

\* Every press is answered, also one that comes just before my_remove
\* (request_threaded_irq.c:55, :62-71).
PressAnswered == top ~> (irq_thread = "run")

\* Removing the driver ends.
RemoveReturns == (phase = "freeing") ~> (phase = "gone")
=============================================================================
