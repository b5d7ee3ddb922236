---------------------------- MODULE BlockingRead ----------------------------
(***************************************************************************)
(* The character devices of lessons 7 and 10: one buffer, one flag, one    *)
(* wait queue and no lock.  my_read sleeps until the flag is set, copies   *)
(* the buffer and clears the flag; my_write fills the buffer, sets the     *)
(* flag and wakes the sleepers.  Any number of processes may have the      *)
(* device open.                                                            *)
(*                                                                         *)
(* The wait is expanded as the kernel has it: a process joins the queue    *)
(* before it tests the flag again, and goes to sleep unless it was woken   *)
(* or has a signal since.                                                  *)
(***************************************************************************)
EXTENDS Naturals, FiniteSets

CONSTANTS
    Readers, Writers,    \* processes
    Messages,            \* what they write
    Nothing,             \* the initial content of the buffer
    ReturnsOnSignal,     \* lesson 7 returns what its wait returned, 10 does not
    MaxWrites            \* bound on the number of calls of my_write

ASSUME ReadAssumption ==
    /\ Readers \cap Writers = {}
    /\ Nothing \notin Messages
    /\ ReturnsOnSignal \in BOOLEAN
    /\ MaxWrites \in Nat

VARIABLES
    buffer,           \* a message, or what is left of a write that failed
    data_available,
    my_wq,            \* the readers on the wait queue
    pc,               \* the next step of each process
    signal,           \* processes with a signal pending
    arg,              \* arg[w]: what w's my_write stores
    copy,             \* copy[r]: what r's last copy_to_user copied
    writes, reads     \* histories: flags set, and reads that returned data

vars == <<buffer, data_available, my_wq, pc, signal, arg, copy, writes, reads>>
histories == <<writes, reads>>

Init ==
    /\ buffer = Nothing
    /\ data_available = FALSE
    /\ my_wq = {}
    /\ pc = [t \in Readers \cup Writers |-> "idle"]
    /\ signal = {}
    /\ arg = [w \in Writers |-> Nothing]
    /\ copy = [r \in Readers |-> Nothing]
    /\ writes = 0
    /\ reads = 0

Goto(t, step) == pc' = [pc EXCEPT ![t] = step]

(***************************************************************************)
(* my_read                                                                 *)
(***************************************************************************)
ReadCall(r) ==
    /\ pc[r] = "idle"
    /\ Goto(r, "wait")
    /\ signal' = signal \ {r}
    /\ UNCHANGED <<buffer, data_available, my_wq, arg, copy, histories>>

ReadTest(r) ==
    /\ pc[r] = "wait"
    /\ Goto(r, IF data_available THEN "copy" ELSE "prepare")
    /\ UNCHANGED <<buffer, data_available, my_wq, signal, arg, copy, histories>>

\* Mutant: the flag is not tested again once the process is on the queue.
WaitPrepareBlind(r) ==
    /\ pc[r] = "prepare"
    /\ my_wq' = my_wq \cup {r}
    /\ Goto(r, "schedule")
    /\ UNCHANGED <<buffer, data_available, signal, arg, copy, histories>>

\* prepare_to_wait_event queues the process, unless it has a signal.
WaitPrepare(r) ==
    /\ pc[r] = "prepare"
    /\ my_wq' = IF r \in signal THEN my_wq \ {r} ELSE my_wq \cup {r}
    /\ Goto(r, IF r \in signal THEN "interrupted" ELSE "recheck")
    /\ UNCHANGED <<buffer, data_available, signal, arg, copy, histories>>

\* finish_wait takes it off the queue.
WaitRecheck(r) ==
    /\ pc[r] = "recheck"
    /\ my_wq' = IF data_available THEN my_wq \ {r} ELSE my_wq
    /\ Goto(r, IF data_available THEN "copy" ELSE "schedule")
    /\ UNCHANGED <<buffer, data_available, signal, arg, copy, histories>>

\* A wake-up since has taken the process off the queue: it does not sleep.
WaitSchedule(r) ==
    /\ pc[r] = "schedule"
    /\ Goto(r, IF r \in my_wq \ signal THEN "asleep" ELSE "prepare")
    /\ UNCHANGED <<buffer, data_available, my_wq, signal, arg, copy, histories>>

\* Mutant of lesson 7: the result of the wait is ignored.
ReadInterruptedGoesOn(r) ==
    /\ pc[r] = "interrupted"
    /\ signal' = signal \ {r}
    /\ Goto(r, "copy")
    /\ UNCHANGED <<buffer, data_available, my_wq, arg, copy, histories>>

\* The wait returns -ERESTARTSYS, unless the flag is set after all.
ReadInterrupted(r) ==
    /\ pc[r] = "interrupted"
    /\ signal' = signal \ {r}
    /\ Goto(r, IF data_available \/ ~ReturnsOnSignal THEN "copy" ELSE "idle")
    /\ UNCHANGED <<buffer, data_available, my_wq, arg, copy, histories>>

ReadCopy(r) ==
    /\ pc[r] = "copy"
    /\ copy' = [copy EXCEPT ![r] = buffer]
    /\ Goto(r, "clear")
    /\ UNCHANGED <<buffer, data_available, my_wq, signal, arg, histories>>

\* copy_to_user fails: the flag stays set.
ReadFault(r) ==
    /\ pc[r] = "copy"
    /\ Goto(r, "idle")
    /\ UNCHANGED <<buffer, data_available, my_wq, signal, arg, copy, histories>>

ReadClear(r) ==
    /\ pc[r] = "clear"
    /\ data_available' = FALSE
    /\ reads' = reads + 1
    /\ Goto(r, "idle")
    /\ UNCHANGED <<buffer, my_wq, signal, arg, copy, writes>>

(***************************************************************************)
(* my_write                                                                *)
(***************************************************************************)
WriteCall(w, m) ==
    /\ pc[w] = "idle"
    /\ writes + Cardinality({v \in Writers : pc[v] # "idle"}) < MaxWrites
    /\ arg' = [arg EXCEPT ![w] = m]
    /\ Goto(w, "store")
    /\ UNCHANGED <<buffer, data_available, my_wq, signal, copy, histories>>

WriteStore(w) ==
    /\ pc[w] = "store"
    /\ buffer' = arg[w]
    /\ Goto(w, "announce")
    /\ UNCHANGED <<data_available, my_wq, signal, arg, copy, histories>>

\* copy_from_user fails, after it may have copied something: -EFAULT, the
\* flag is left alone.
WriteFault(w) ==
    /\ pc[w] = "store"
    /\ buffer' \in {buffer, arg[w]}
    /\ Goto(w, "idle")
    /\ UNCHANGED <<data_available, my_wq, signal, arg, copy, histories>>

WriteAnnounce(w) ==
    /\ pc[w] = "announce"
    /\ data_available' = TRUE
    /\ writes' = writes + 1
    /\ Goto(w, "wake")
    /\ UNCHANGED <<buffer, my_wq, signal, arg, copy, reads>>

\* wake_up_interruptible empties the queue, and who sleeps goes on.
WriteWake(w) ==
    /\ pc[w] = "wake"
    /\ my_wq' = {}
    /\ pc' = [t \in Readers \cup Writers |->
                 IF t = w THEN "idle"
                 ELSE IF pc[t] = "asleep" /\ t \in my_wq THEN "prepare" ELSE pc[t]]
    /\ UNCHANGED <<buffer, data_available, signal, arg, copy, histories>>

Waiting == {"wait", "prepare", "recheck", "schedule", "asleep"}

\* Mutant: the sleep is not interruptible.
SignalAsleep(r) ==
    /\ pc[r] \in Waiting
    /\ r \notin signal
    /\ signal' = signal \cup {r}
    /\ UNCHANGED <<buffer, data_available, my_wq, pc, arg, copy, histories>>

\* Ctrl-C, or any other signal, for a process inside my_read.
Signal(r) ==
    /\ pc[r] \in Waiting
    /\ r \notin signal
    /\ signal' = signal \cup {r}
    /\ Goto(r, IF pc[r] = "asleep" THEN "prepare" ELSE pc[r])
    /\ UNCHANGED <<buffer, data_available, my_wq, arg, copy, histories>>

ReadStep(r) ==
    \/ ReadTest(r) \/ WaitPrepare(r) \/ WaitRecheck(r) \/ WaitSchedule(r)
    \/ ReadInterrupted(r)
    \/ ReadCopy(r) \/ ReadFault(r) \/ ReadClear(r)

WriteStep(w) ==
    \/ WriteStore(w) \/ WriteFault(w)
    \/ WriteAnnounce(w) \/ WriteWake(w)

Next ==
    \/ \E r \in Readers : ReadCall(r) \/ ReadStep(r) \/ Signal(r)
    \/ \E w \in Writers : (\E m \in Messages : WriteCall(w, m)) \/ WriteStep(w)

Spec == Init /\ [][Next]_vars

\* A process inside my_read or my_write is scheduled again and again.
Fairness ==
    /\ \A r \in Readers : WF_vars(ReadStep(r))
    /\ \A w \in Writers : WF_vars(WriteStep(w))

-----------------------------------------------------------------------------
ReadSteps == Waiting \cup {"idle", "interrupted", "copy", "clear"}
WriteSteps == {"idle", "store", "announce", "wake"}

\* Type invariant; who sleeps is on the queue and has no signal pending.
TypeOK ==
    /\ buffer \in Messages \cup {Nothing}
    /\ data_available \in BOOLEAN
    /\ pc \in [Readers \cup Writers -> ReadSteps \cup WriteSteps]
    /\ \A r \in Readers : pc[r] \in ReadSteps
    /\ \A w \in Writers : pc[w] \in WriteSteps
    /\ signal \in SUBSET Readers
    /\ my_wq \in SUBSET Readers
    /\ \A r \in Readers : pc[r] = "asleep" => r \in my_wq \ signal
    /\ arg \in [Writers -> Messages \cup {Nothing}]
    /\ copy \in [Readers -> Messages \cup {Nothing}]
    /\ writes \in Nat
    /\ reads \in Nat

\* A reader never sleeps through a message: while one is announced, whoever
\* still sleeps is about to be woken (char_cdev_waiting_queue.c:131, :153
\* against :82-84).
NoLostWakeup ==
    (data_available /\ \E r \in Readers : pc[r] = "asleep")
        => \E w \in Writers : pc[w] = "wake"

\* Every read that returns data used up a write of its own, and what it
\* returns was written: the flag is set after the buffer, a write that failed
\* does not set it, and a read whose wait was interrupted returns nothing
\* (char_cdev_waiting_queue.c:82-101, :126-131, with one reader).
ReadsReturnWrites ==
    /\ reads <= writes
    /\ \A r \in Readers : pc[r] = "clear" => copy[r] # Nothing

\* A reader blocked in the driver stays killable: a signal ends the call
\* (char_cdev_waiting_queue.c:82-87).
SignalEndsWait ==
    \A r \in Readers : (pc[r] \in Waiting /\ r \in signal) ~> (pc[r] = "idle")
=============================================================================
