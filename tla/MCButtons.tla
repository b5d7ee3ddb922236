------------------------------ MODULE MCButtons ------------------------------
(***************************************************************************)
(* The drivers with a handler that runs by itself for TLC.  One of them is *)
(* loaded: the button of lesson 14, 16, 17 or 18, or the threads, work     *)
(* item or timer of lessons 11 to 13 ("stop").  The others stay as they    *)
(* are initially.                                                          *)
(***************************************************************************)
EXTENDS WorkqueueIrq

CONSTANT Kinds   \* as in StopFlag

VARIABLES
    lesson,   \* the driver that is loaded
    phase18, irq_on18, allocated18, isr18, thread, waitq, should_stop,
    data_ready,
    phase14, isr14, pressed, reader, signal, false_report, interrupted,
    phase16, top, runthread, irq_thread, allocated16,
    kind, phaseS, turn, at, told

K == INSTANCE KthreadIrq WITH
    phase <- phase18, irq_on <- irq_on18, allocated <- allocated18,
    isr <- isr18
E == INSTANCE ButtonEvent WITH phase <- phase14, isr <- isr14
T == INSTANCE ThreadedIrq WITH phase <- phase16, allocated <- allocated16
S == INSTANCE StopFlag WITH phase <- phaseS

ASSUME S!StopAssumption

vars18 == <<phase18, irq_on18, allocated18, isr18, thread, waitq, should_stop,
            data_ready>>
vars14 == <<phase14, isr14, pressed, reader, signal, false_report, interrupted>>
vars16 == <<phase16, top, runthread, irq_thread, allocated16>>
varsS == <<kind, phaseS, turn, at, told>>

ButtonInit ==
    /\ lesson \in {"14", "16", "17", "18", "stop"}
    /\ Init /\ K!Init /\ E!Init /\ T!Init /\ S!Init

ButtonNext ==
    \/ lesson = "17" /\ Next /\ UNCHANGED <<lesson, vars18, vars14, vars16, varsS>>
    \/ lesson = "18" /\ K!Next /\ UNCHANGED <<lesson, vars, vars14, vars16, varsS>>
    \/ lesson = "14" /\ E!Next /\ UNCHANGED <<lesson, vars, vars18, vars16, varsS>>
    \/ lesson = "16" /\ T!Next /\ UNCHANGED <<lesson, vars, vars18, vars14, varsS>>
    \/ lesson = "stop" /\ S!Next /\ UNCHANGED <<lesson, vars, vars18, vars14, vars16>>

ButtonSpec ==
    /\ ButtonInit
    /\ [][ButtonNext]_<<lesson, vars, vars18, vars14, vars16, varsS>>
    /\ lesson = "17" => Fairness
    /\ lesson = "18" => K!Fairness
    /\ lesson = "14" => E!Fairness
    /\ lesson = "16" => T!Fairness
    /\ lesson = "stop" => S!Fairness
-----------------------------------------------------------------------------
\* Type invariants of the drivers.
ButtonTypeOK == TypeOK /\ K!TypeOK /\ E!TypeOK /\ T!TypeOK /\ S!TypeOK

\* No work item, handler, thread or timer outlives what it uses
\* (Workqueue_IRQ.c:119-130, kthread_IRQ.c:155-167,
\* request_threaded_irq.c:123-148, and the exits of lessons 11 to 13).
NoUseAfterFree ==
    NoWorkAfterFree /\ K!NoUseAfterFree /\ T!NoUseAfterFree /\ S!NothingRunsOn

\* The work item, the two threads and the reader serve the button as a bottom
\* half should (Workqueue_IRQ.c:40-65, kthread_IRQ.c:57-92,
\* request_threaded_irq.c:49-71, gpio_irq_drv.c:70-89).
AllImplementHalf ==
    ImplementsHalf /\ K!ImplementsHalf /\ T!ImplementsHalf /\ E!ImplementsHalf

\* Every press is answered by each of them, unless the driver is being removed.
EveryPressAnswered ==
    PressAnswered /\ K!PressAnswered /\ T!PressAnswered /\ E!PressAnswered

\* Removing any of these drivers ends (Workqueue_IRQ.c:125, kthread_IRQ.c:162,
\* Binding_custom_workqueue.c:72-78).
EveryRemoveReturns ==
    RemoveReturns /\ K!RemoveReturns /\ T!RemoveReturns /\ S!StopReturns
=============================================================================
