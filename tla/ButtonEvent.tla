----------------------------- MODULE ButtonEvent -----------------------------
(***************************************************************************)
(* The button of lesson 14: the interrupt handler sets pressed and wakes   *)
(* the reader; a read waits for pressed, clears it and reports one press.  *)
(* There is no lock, and what wait_event_interruptible returns is not      *)
(* looked at: a read that a signal interrupts may report a press that did  *)
(* not happen.  One process reads (see BlockingRead for several).          *)
(***************************************************************************)
VARIABLES
    phase,     \* of the module: "out", "in", "freed" (free_irq), "gone"
    isr,       \* the handler: "idle", "set" or "wake" is its next step
    pressed,
    reader,    \* the next step of the reader
    signal,    \* the reader has a signal pending
    false_report,   \* history: no press since the last report backs this one
    interrupted     \* history: the wait was ended by a signal

eventVars == <<phase, isr, pressed, reader, signal, false_report, interrupted>>
eventHistories == <<false_report, interrupted>>

Init ==
    /\ phase = "out"
    /\ isr = "idle"
    /\ pressed = FALSE
    /\ reader = "idle"
    /\ signal = FALSE
    /\ false_report = FALSE
    /\ interrupted = FALSE

EventLoad ==
    /\ phase = "out"
    /\ phase' = "in"
    /\ UNCHANGED <<isr, pressed, reader, signal, eventHistories>>

\* gpio_irq_handler
EventEnter ==
    /\ phase = "in"
    /\ isr = "idle"
    /\ isr' = "set"
    /\ UNCHANGED <<phase, pressed, reader, signal, eventHistories>>

EventSet ==
    /\ isr = "set"
    /\ isr' = "wake"
    /\ pressed' = TRUE
    /\ UNCHANGED <<phase, reader, signal, eventHistories>>

EventWake ==
    /\ isr = "wake"
    /\ isr' = "idle"
    /\ reader' = IF reader = "asleep" THEN "wait" ELSE reader
    /\ UNCHANGED <<phase, pressed, signal, eventHistories>>

\* dev_read
EventRead ==
    /\ phase = "in"
    /\ reader = "idle"
    /\ reader' = "wait"
    /\ UNCHANGED <<phase, isr, pressed, signal, eventHistories>>

EventSleep ==
    /\ reader = "wait"
    /\ ~pressed /\ ~signal
    /\ reader' = "asleep"
    /\ UNCHANGED <<phase, isr, pressed, signal, eventHistories>>

\* The wait is over: the flag is set, or a signal came.
EventReady ==
    /\ reader = "wait"
    /\ pressed \/ signal
    /\ reader' = "clear"
    /\ signal' = FALSE
    /\ interrupted' = ~pressed
    /\ UNCHANGED <<phase, isr, pressed, false_report>>

EventSignal ==
    /\ reader \in {"wait", "asleep"}
    /\ reader' = "wait"
    /\ signal' = TRUE
    /\ UNCHANGED <<phase, isr, pressed, eventHistories>>

EventClear ==
    /\ reader = "clear"
    /\ pressed' = FALSE
    /\ false_report' = ~pressed
    /\ reader' = "copy"
    /\ UNCHANGED <<phase, isr, signal, interrupted>>

\* copy_to_user; when it fails the press is gone all the same.
EventCopy ==
    /\ reader = "copy"
    /\ reader' = "idle"
    /\ UNCHANGED <<phase, isr, pressed, signal, eventHistories>>

\* gpio_exit runs once the device is closed; free_irq waits for the handler.
EventFreeIrq ==
    /\ phase = "in"
    /\ reader = "idle"
    /\ isr = "idle"
    /\ phase' = "freed"
    /\ UNCHANGED <<isr, pressed, reader, signal, eventHistories>>

EventGone ==
    /\ phase = "freed"
    /\ phase' = "gone"
    /\ UNCHANGED <<isr, pressed, reader, signal, eventHistories>>

Reading == EventSleep \/ EventReady \/ EventClear \/ EventCopy

Next ==
    \/ EventLoad \/ EventEnter \/ EventSet \/ EventWake
    \/ EventRead \/ Reading \/ EventSignal
    \/ EventFreeIrq \/ EventGone

Spec == Init /\ [][Next]_eventVars

\* The handler runs to its end and a process in dev_read is scheduled.
Fairness == WF_eventVars(EventSet \/ EventWake) /\ WF_eventVars(Reading)
-----------------------------------------------------------------------------
\* Type invariant.
TypeOK ==
    /\ phase \in {"out", "in", "freed", "gone"}
    /\ isr \in {"idle", "set", "wake"}
    /\ pressed \in BOOLEAN
    /\ reader \in {"idle", "wait", "asleep", "clear", "copy"}
    /\ signal \in BOOLEAN
    /\ false_report \in BOOLEAN
    /\ interrupted \in BOOLEAN

\* A read serves the button as a bottom half should: a press that comes while
\* it wakes up shares its report, one that comes later makes a report of its
\* own, and none is reported without a press, unless a signal ended the wait
\* (gpio_irq_drv.c:70-89).
Half == INSTANCE BottomHalf WITH
    pending <- pressed,
    busy <- (reader = "copy" /\ ~false_report),
    shutdown <- CASE phase \in {"out", "in"} -> "no"
                  [] phase = "freed" -> "begun"
                  [] OTHER -> "done"

ImplementsHalf ==
    /\ Half!Spec
    /\ [](reader = "copy" /\ false_report => interrupted)

\* A process that reads is told of a press (gpio_irq_drv.c:73-83).
PressAnswered == (pressed /\ reader \in {"wait", "asleep"}) ~> (reader = "copy")
=============================================================================
