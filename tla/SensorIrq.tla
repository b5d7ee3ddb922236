----------------------------- MODULE SensorIrq -----------------------------
(***************************************************************************)
(* The sensor interrupt of lesson 26f.  A new sample sets the data-ready   *)
(* bit of INT_STATUS and, as INT_PIN_CFG and INT_ENABLE are written, makes *)
(* a pulse on the pin; the falling edge at its end is the interrupt, and   *)
(* the kernel runs mpu9250_irq in a thread.  Reading INT_STATUS clears it. *)
(* An edge that comes while the thread runs makes it run once more.        *)
(*                                                                         *)
(* Nobody looks at what regmap_read returns: when it fails, status is      *)
(* whatever was on the stack, and the chip may have cleared the bit.       *)
(* remove does nothing, and neither it nor a failing probe disables the    *)
(* interrupt in the chip.                                                  *)
(***************************************************************************)
EXTENDS Naturals

VARIABLES
    binding,      \* "unbound", "enable" and "request" in probe, "bound"
    int_enable,   \* INT_ENABLE
    int_status,   \* bit 0 of INT_STATUS
    int_pin,      \* a pulse is on the pin
    edge,         \* an edge that no run has answered yet
    irq_run,      \* the next step of mpu9250_irq; "none" without an interrupt
    status,       \* the local variable, bit 0
    read_ok,      \* history: the read of status succeeded
    empty         \* history: the runs in a row that have found nothing

sensorVars == <<binding, int_enable, int_status, int_pin, edge, irq_run,
                status, read_ok, empty>>
sensorLine == <<int_enable, int_status, int_pin, edge>>
sensorRun == <<irq_run, status, read_ok, empty>>

Init ==
    /\ binding = "unbound"
    /\ int_enable \in BOOLEAN
    /\ int_status \in BOOLEAN
    /\ int_pin = FALSE
    /\ edge = FALSE
    /\ irq_run = "none"
    /\ status = FALSE
    /\ read_ok = TRUE
    /\ empty = 0

(***************************************************************************)
(* The chip, which takes samples all the time                              *)
(***************************************************************************)
Sample ==
    /\ ~int_pin
    /\ int_status' = TRUE
    /\ int_pin' = int_enable
    /\ UNCHANGED <<binding, int_enable, edge, sensorRun>>

\* An edge that nobody has requested may be latched or not.
PinFalls ==
    /\ int_pin
    /\ int_pin' = FALSE
    /\ edge' \in IF binding = "bound" THEN {TRUE} ELSE {TRUE, edge}
    /\ UNCHANGED <<binding, int_enable, int_status, sensorRun>>

(***************************************************************************)
(* mpu9250_probe, and the release by the driver core                       *)
(***************************************************************************)
\* WHO_AM_I is right and INT_PIN_CFG is written.
SensorProbe ==
    /\ binding = "unbound"
    /\ binding' = "enable"
    /\ UNCHANGED <<sensorLine, sensorRun>>

EnableInt ==
    /\ binding = "enable"
    /\ binding' = "request"
    /\ int_enable' = TRUE
    /\ UNCHANGED <<int_status, int_pin, edge, sensorRun>>

RequestIrq ==
    /\ binding = "request"
    /\ binding' = "bound"
    /\ irq_run' = "wait"
    /\ UNCHANGED <<sensorLine, status, read_ok, empty>>

\* A write that fails may have reached the chip.
SensorProbeFails ==
    /\ binding \in {"enable", "request"}
    /\ binding' = "unbound"
    /\ int_enable' \in {int_enable, TRUE}
    /\ UNCHANGED <<int_status, int_pin, edge, sensorRun>>

\* free_irq waits for the thread, and may drop an edge.
SensorUnbind ==
    /\ binding = "bound"
    /\ irq_run = "wait"
    /\ binding' = "unbound"
    /\ irq_run' = "none"
    /\ edge' \in {edge, FALSE}
    /\ UNCHANGED <<int_enable, int_status, int_pin, status, read_ok, empty>>

(***************************************************************************)
(* mpu9250_irq                                                             *)
(***************************************************************************)
IrqRuns ==
    /\ irq_run = "wait"
    /\ edge
    /\ edge' = FALSE
    /\ irq_run' = "read"
    /\ UNCHANGED <<binding, int_enable, int_status, int_pin, status, read_ok,
                   empty>>

ReadStatus ==
    /\ irq_run = "read"
    /\ irq_run' = "test"
    /\ status' = int_status
    /\ int_status' = FALSE
    /\ read_ok' = TRUE
    /\ UNCHANGED <<binding, int_enable, int_pin, edge, empty>>

ReadStatusFails ==
    /\ irq_run = "read"
    /\ irq_run' = "test"
    /\ status' \in BOOLEAN
    /\ int_status' \in {int_status, FALSE}
    /\ read_ok' = FALSE
    /\ UNCHANGED <<binding, int_enable, int_pin, edge, empty>>

\* IRQ_NONE
IrqNone ==
    /\ irq_run = "test"
    /\ ~status
    /\ irq_run' = "wait"
    /\ empty' = IF read_ok THEN empty + 1 ELSE 0
    /\ UNCHANGED <<binding, sensorLine, status, read_ok>>

\* The sample is read, which may fail, and printed; a second is slept.
IrqReports ==
    /\ irq_run = "test"
    /\ status
    /\ irq_run' = "sleep"
    /\ UNCHANGED <<binding, sensorLine, status, read_ok, empty>>

\* IRQ_HANDLED
IrqHandled ==
    /\ irq_run = "sleep"
    /\ irq_run' = "wait"
    /\ empty' = 0
    /\ UNCHANGED <<binding, sensorLine, status, read_ok>>

Chip == Sample \/ PinFalls
Irq == IrqRuns \/ ReadStatus \/ ReadStatusFails \/ IrqNone \/ IrqReports \/ IrqHandled

Next ==
    \/ Chip \/ Irq
    \/ SensorProbe \/ EnableInt \/ RequestIrq \/ SensorProbeFails \/ SensorUnbind

Spec == Init /\ [][Next]_sensorVars

\* The sensor takes its samples, and the thread is scheduled.
Fairness == WF_sensorVars(Chip) /\ WF_sensorVars(Irq)
-----------------------------------------------------------------------------
\* Type invariant.
TypeOK ==
    /\ binding \in {"unbound", "enable", "request", "bound"}
    /\ int_enable \in BOOLEAN /\ int_status \in BOOLEAN
    /\ int_pin \in BOOLEAN /\ edge \in BOOLEAN
    /\ irq_run \in {"none", "wait", "read", "test", "sleep"}
    /\ status \in BOOLEAN /\ read_ok \in BOOLEAN
    /\ empty \in 0 .. 2

\* A run may find nothing, when the one before it has cleared the bit between
\* a sample and its edge, or after two samples.  It happens twice in a row at
\* most: the third run finds a sample unless the bus fails, so that the
\* kernel, which counts IRQ_NONE, does not take the line for stuck
\* (regmap_interrupt_driven.c:44-49, :150-157).
FindsNothingTwice ==
    irq_run = "test" /\ read_ok /\ ~status => empty < 2

\* The interrupt does not get stuck: while the driver is bound, a sample that
\* is ready is read, unless the bus fails, also one that came before the
\* interrupt was requested (regmap_interrupt_driven.c:44-49, :130-157).
DataReadyIsRead ==
    (binding = "bound" /\ int_status)
        ~> \/ ~int_status \/ binding # "bound"
           \/ irq_run = "test" /\ ~read_ok
=============================================================================
