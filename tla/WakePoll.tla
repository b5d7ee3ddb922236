------------------------------ MODULE WakePoll ------------------------------
(***************************************************************************)
(* The probe of lesson 26e puts the chip to sleep, wakes it and polls     *)
(* until it says that it is awake or 100 ms are over.  There is no cache.  *)
(* The chip may take any time to clear its sleep bit, and any access may   *)
(* fail on the bus.                                                        *)
(***************************************************************************)
VARIABLES
    sleeping,    \* BIT(6) of PWR_MGMT_1, as a read returns it
    waking,      \* the bit was written 0
    deadline,    \* the time of the poll is over
    step,        \* the next step of probe, or what it returned
    seen         \* the value that the last read of the poll returned

pollVars == <<sleeping, waking, deadline, step, seen>>

Init ==
    /\ sleeping \in BOOLEAN
    /\ waking = FALSE
    /\ deadline = FALSE
    /\ step = "unbound"
    /\ seen = TRUE

Then(from, to) == step = from /\ step' = to

ProbeCall ==
    /\ Then("unbound", "read")
    /\ UNCHANGED <<sleeping, waking, deadline, seen>>

\* WHO_AM_I and PWR_MGMT_1 are read.
ProbeReads ==
    /\ Then("read", "sleep")
    /\ UNCHANGED <<sleeping, waking, deadline, seen>>

WrongChip ==
    /\ Then("read", "ENODEV")
    /\ UNCHANGED <<sleeping, waking, deadline, seen>>

\* regmap_update_bits reads, and writes if the bit differs.
SleepBit ==
    /\ Then("sleep", "verify")
    /\ sleeping' = TRUE
    /\ UNCHANGED <<waking, deadline, seen>>

VerifySleep ==
    /\ Then("verify", "wake")
    /\ UNCHANGED <<sleeping, waking, deadline, seen>>

WakeBit ==
    /\ Then("wake", "poll")
    /\ waking' = TRUE
    /\ UNCHANGED <<sleeping, deadline, seen>>

\* read_poll_timeout: a read, and out if the condition holds;
PollRead ==
    /\ Then("poll", IF sleeping THEN "late" ELSE "ok")
    /\ seen' = sleeping
    /\ UNCHANGED <<sleeping, waking, deadline>>

\* before the deadline usleep_range and around,
PollAgain ==
    /\ ~deadline
    /\ Then("late", "poll")
    /\ UNCHANGED <<sleeping, waking, deadline, seen>>

\* after it one more read, which decides.
PollLast ==
    /\ deadline
    /\ Then("late", IF sleeping THEN "ETIMEDOUT" ELSE "ok")
    /\ seen' = sleeping
    /\ UNCHANGED <<sleeping, waking, deadline>>

AccessFails ==
    /\ step \in {"read", "sleep", "verify", "wake", "poll"} \/ (step = "late" /\ deadline)
    /\ step' = "EIO"
    /\ UNCHANGED <<sleeping, waking, deadline, seen>>

Probe ==
    \/ ProbeReads \/ WrongChip \/ SleepBit \/ VerifySleep \/ WakeBit
    \/ PollRead \/ PollAgain \/ PollLast \/ AccessFails

\* The chip wakes up.
ChipWakes ==
    /\ waking
    /\ sleeping' = FALSE
    /\ UNCHANGED <<waking, deadline, step, seen>>

Deadline ==
    /\ step \in {"poll", "late"}
    /\ deadline' = TRUE
    /\ UNCHANGED <<sleeping, waking, step, seen>>

Next == ProbeCall \/ Probe \/ ChipWakes \/ Deadline

Spec == Init /\ [][Next]_pollVars

\* Probe is scheduled and time passes; the chip need not wake up.
Fairness == WF_pollVars(Probe) /\ WF_pollVars(Deadline)
-----------------------------------------------------------------------------
Errors == {"ENODEV", "EIO", "ETIMEDOUT"}

\* Type invariant.
TypeOK ==
    /\ {sleeping, waking, deadline, seen} \subseteq BOOLEAN
    /\ step \in Errors \cup {"unbound", "read", "sleep", "verify", "wake",
                              "poll", "late", "ok"}

\* A probe that succeeds leaves the chip awake, and one that times out has
\* looked once more after the deadline (regmap_read_poll_timeout.c:119-151).
AwakeWhenProbed ==
    /\ step = "ok" => ~sleeping
    /\ step = "ETIMEDOUT" => deadline /\ seen

\* Probe returns, also when the chip never wakes up
\* (regmap_read_poll_timeout.c:130-142).
ProbeReturns == (step = "read") ~> (step \in Errors \cup {"ok"})
=============================================================================
