---------------------------- MODULE WorkqueueIrq ----------------------------
(***************************************************************************)
(* Lesson 17: an interrupt handler that queues a work item on the system   *)
(* workqueue, with the driver's probe and remove.                          *)
(*                                                                         *)
(* my_remove cancels the work while the interrupt is still requested: the  *)
(* driver core frees the interrupt, and then struct my_device with the     *)
(* work item in it, only after my_remove has returned.                     *)
(***************************************************************************)
EXTENDS Naturals

CONSTANTS
    LateIrq,     \* whether an interrupt may be handled once my_remove has begun
    MaxPresses   \* bound on the number of presses

ASSUME IrqAssumption == LateIrq \in BOOLEAN /\ MaxPresses \in Nat

VARIABLES
    phase,       \* where probe, remove and the driver core are
    irq_on,      \* the interrupt is requested
    allocated,   \* struct my_device exists
    isr,         \* button_irq is running, before its schedule_work
    pending,     \* the work item's PENDING bit
    queued,      \* the work item is on the queue
    running,     \* my_work_func is running
    presses      \* how many interrupts came

vars == <<phase, irq_on, allocated, isr, pending, queued, running, presses>>

Init ==
    /\ phase = "unbound"
    /\ irq_on = FALSE
    /\ allocated = FALSE
    /\ isr = FALSE
    /\ pending = FALSE
    /\ queued = FALSE
    /\ running = FALSE
    /\ presses = 0

\* my_probe.  When one of its steps fails, the driver core undoes the steps
\* before it; the interrupt comes last.
Probe ==
    /\ phase = "unbound"
    /\ phase' = "bound"
    /\ allocated' = TRUE
    /\ irq_on' = TRUE
    /\ UNCHANGED <<isr, pending, queued, running, presses>>

(***************************************************************************)
(* button_irq                                                              *)
(***************************************************************************)
IsrEnter ==
    /\ irq_on
    /\ ~isr
    /\ presses < MaxPresses
    /\ LateIrq \/ phase = "bound"
    /\ isr' = TRUE
    /\ presses' = presses + 1
    /\ UNCHANGED <<phase, irq_on, allocated, pending, queued, running>>

\* schedule_work does nothing while the work is pending.
IsrSchedule ==
    /\ isr
    /\ isr' = FALSE
    /\ pending' = TRUE
    /\ queued' = (queued \/ ~pending)
    /\ UNCHANGED <<phase, irq_on, allocated, running, presses>>

(***************************************************************************)
(* A worker thread: it takes the item off the queue, so that the item can  *)
(* be queued again while my_work_func runs, and never runs it twice at a   *)
(* time.                                                                   *)
(***************************************************************************)
\* Mutant: a second worker runs the item at the same time.
WorkStartTwice ==
    /\ queued
    /\ queued' = FALSE
    /\ pending' = FALSE
    /\ running' = TRUE
    /\ UNCHANGED <<phase, irq_on, allocated, isr, presses>>

WorkStart ==
    /\ queued
    /\ ~running
    /\ queued' = FALSE
    /\ pending' = FALSE
    /\ running' = TRUE
    /\ UNCHANGED <<phase, irq_on, allocated, isr, presses>>

WorkEnd ==
    /\ running
    /\ running' = FALSE
    /\ UNCHANGED <<phase, irq_on, allocated, isr, pending, queued, presses>>

(***************************************************************************)
(* my_remove: cancel_work_sync takes the PENDING bit, so that the item     *)
(* cannot be queued, waits for a running handler and gives the bit back.   *)
(***************************************************************************)
CancelGrab ==
    /\ phase = "bound"
    /\ LateIrq \/ ~isr
    /\ phase' = "canceling"
    /\ pending' = TRUE
    /\ queued' = FALSE
    /\ UNCHANGED <<irq_on, allocated, isr, running, presses>>

CancelDone ==
    /\ phase = "canceling"
    /\ ~running
    /\ phase' = "devres"
    /\ pending' = FALSE
    /\ UNCHANGED <<irq_on, allocated, isr, queued, running, presses>>

(***************************************************************************)
(* The driver core                                                         *)
(***************************************************************************)
\* free_irq waits for a running handler.
FreeIrq ==
    /\ phase = "devres"
    /\ irq_on
    /\ ~isr
    /\ irq_on' = FALSE
    /\ UNCHANGED <<phase, allocated, isr, pending, queued, running, presses>>

FreeDevice ==
    /\ phase = "devres"
    /\ ~irq_on
    /\ phase' = "gone"
    /\ allocated' = FALSE
    /\ UNCHANGED <<irq_on, isr, pending, queued, running, presses>>

Work == WorkStart \/ WorkEnd

Driver == Probe \/ CancelDone \/ FreeIrq \/ FreeDevice

Next == IsrEnter \/ IsrSchedule \/ Work \/ Driver \/ CancelGrab

Spec == Init /\ [][Next]_vars

\* Handlers run to their end, worker threads are scheduled and the task that
\* unloads the driver goes on; nobody has to press or to unload.
Fairness ==
    WF_vars(IsrSchedule) /\ WF_vars(Work) /\ WF_vars(Driver) /\ SF_vars(FreeIrq)

FairSpec == Spec /\ Fairness
-----------------------------------------------------------------------------
\* Type invariant; an item on the queue has its PENDING bit set.
TypeOK ==
    /\ phase \in {"unbound", "bound", "canceling", "devres", "gone"}
    /\ irq_on \in BOOLEAN
    /\ allocated \in BOOLEAN
    /\ isr \in BOOLEAN
    /\ pending \in BOOLEAN
    /\ queued \in BOOLEAN
    /\ queued => pending
    /\ running \in BOOLEAN
    /\ presses \in Nat

\* The work item answers presses as a bottom half should, and none of it is
\* left once cancel_work_sync has returned (Workqueue_IRQ.c:40-65, :119-130).
Half == INSTANCE BottomHalf WITH
    pending <- queued,
    busy <- running,
    shutdown <- CASE phase \in {"unbound", "bound"} -> "no"
                  [] phase = "canceling" -> "begun"
                  [] OTHER -> "done"

ImplementsHalf == Half!Spec

\* my_work_func never runs on, and is never queued with, a struct my_device
\* that was freed (Workqueue_IRQ.c:42-53, :125).
NoWorkAfterFree == ~allocated => ~queued /\ ~running

\* Every press is answered unless the driver is being removed.
PressAnswered == queued ~> (~queued \/ phase # "bound")

\* my_remove returns, however long my_work_func sleeps.
RemoveReturns == (phase = "canceling") ~> (phase = "gone")
=============================================================================
