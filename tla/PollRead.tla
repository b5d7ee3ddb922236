------------------------------ MODULE PollRead ------------------------------
(***************************************************************************)
(* The character devices of lessons 8 and 9 and the program of the lessons *)
(* that polls the device and then reads it.  The two drivers differ only   *)
(* in how my_write wakes: wake_up_interruptible in lesson 8,               *)
(* wake_up_interruptible_nr(&my_wq, 1) in lesson 9.                        *)
(*                                                                         *)
(* The kernel's side of poll(): the first call of my_poll registers the    *)
(* process on the driver's queue; a wake-up marks it triggered; poll goes  *)
(* to sleep unless it was triggered and calls my_poll again when it was.   *)
(***************************************************************************)
EXTENDS Naturals, FiniteSets

CONSTANTS
    Pollers, Writers,  \* processes
    WakeNr,            \* the number given to the wake-up; 0 means all
    MaxWrites          \* bound on the number of calls of my_write

PollAssumption ==
    /\ Pollers \cap Writers = {}
    /\ WakeNr \in Nat
    /\ MaxWrites \in Nat

VARIABLES
    data_available,
    my_wq,          \* the processes registered on the wait queue
    triggered,      \* those a wake-up reached since they last looked
    pc,
    writes          \* how many messages were announced

vars == <<data_available, my_wq, triggered, pc, writes>>

Init ==
    /\ data_available = FALSE
    /\ my_wq = {}
    /\ triggered = {}
    /\ pc = [t \in Pollers \cup Writers |-> "idle"]
    /\ writes = 0

Goto(t, step) == pc' = [pc EXCEPT ![t] = step]

(***************************************************************************)
(* poll() and my_poll                                                      *)
(***************************************************************************)
PollCall(p) ==
    /\ pc[p] = "idle"
    /\ Goto(p, "register")
    /\ UNCHANGED <<data_available, my_wq, triggered, writes>>

\* Mutant: my_poll without poll_wait.
PollRegisterNot(p) ==
    /\ pc[p] = "register"
    /\ Goto(p, "check")
    /\ UNCHANGED <<data_available, my_wq, triggered, writes>>

\* poll_wait
PollRegister(p) ==
    /\ pc[p] = "register"
    /\ my_wq' = my_wq \cup {p}
    /\ Goto(p, "check")
    /\ UNCHANGED <<data_available, triggered, writes>>

\* my_poll returns POLLIN, and poll leaves the queue.
PollReady(p) ==
    /\ pc[p] = "check"
    /\ data_available
    /\ my_wq' = my_wq \ {p}
    /\ triggered' = triggered \ {p}
    /\ Goto(p, "ready")
    /\ UNCHANGED <<data_available, writes>>

PollSleep(p) ==
    /\ pc[p] = "check"
    /\ ~data_available
    /\ Goto(p, "asleep")
    /\ UNCHANGED <<data_available, my_wq, triggered, writes>>

PollWoken(p) ==
    /\ pc[p] = "asleep"
    /\ p \in triggered
    /\ triggered' = triggered \ {p}
    /\ Goto(p, "check")
    /\ UNCHANGED <<data_available, my_wq, writes>>

(***************************************************************************)
(* read() after poll() returned: my_read                                   *)
(***************************************************************************)
\* Another reader was faster: return 0.
ReadNothing(p) ==
    /\ pc[p] = "ready"
    /\ ~data_available
    /\ Goto(p, "idle")
    /\ UNCHANGED <<data_available, my_wq, triggered, writes>>

ReadCheck(p) ==
    /\ pc[p] = "ready"
    /\ data_available
    /\ Goto(p, "copy")
    /\ UNCHANGED <<data_available, my_wq, triggered, writes>>

ReadCopy(p) ==
    /\ pc[p] = "copy"
    /\ Goto(p, "clear")
    /\ UNCHANGED <<data_available, my_wq, triggered, writes>>

ReadFault(p) ==
    /\ pc[p] = "copy"
    /\ Goto(p, "idle")
    /\ UNCHANGED <<data_available, my_wq, triggered, writes>>

ReadClear(p) ==
    /\ pc[p] = "clear"
    /\ data_available' = FALSE
    /\ Goto(p, "idle")
    /\ UNCHANGED <<my_wq, triggered, writes>>

(***************************************************************************)
(* my_write                                                                *)
(***************************************************************************)
WriteCall(w) ==
    /\ pc[w] = "idle"
    /\ writes + Cardinality({v \in Writers : pc[v] # "idle"}) < MaxWrites
    /\ Goto(w, "store")
    /\ UNCHANGED <<data_available, my_wq, triggered, writes>>

WriteFault(w) ==
    /\ pc[w] = "store"
    /\ Goto(w, "idle")
    /\ UNCHANGED <<data_available, my_wq, triggered, writes>>

WriteStore(w) ==
    /\ pc[w] = "store"
    /\ data_available' = TRUE
    /\ writes' = writes + 1
    /\ Goto(w, "wake")
    /\ UNCHANGED <<my_wq, triggered>>

\* The kernel's wake-up stops after nr exclusive waiters; it wakes every
\* waiter that is not exclusive, and poll_wait adds none that is.
Woken(queue, exclusive, nr) ==
    {S \in SUBSET queue :
        /\ queue \ exclusive \subseteq S
        /\ nr = 0 \/ Cardinality(S \cap exclusive) <= nr}

\* Mutant: pollers are exclusive waiters, and WakeNr of them are woken.
WriteWakeSome(w) ==
    /\ pc[w] = "wake"
    /\ \E S \in Woken(my_wq, my_wq, WakeNr) : triggered' = triggered \cup S
    /\ Goto(w, "idle")
    /\ UNCHANGED <<data_available, my_wq, writes>>

WriteWake(w) ==
    /\ pc[w] = "wake"
    /\ \E S \in Woken(my_wq, {}, WakeNr) : triggered' = triggered \cup S
    /\ Goto(w, "idle")
    /\ UNCHANGED <<data_available, my_wq, writes>>

PollStep(p) ==
    \/ PollRegister(p) \/ PollReady(p) \/ PollSleep(p) \/ PollWoken(p)
    \/ ReadNothing(p) \/ ReadCheck(p) \/ ReadCopy(p) \/ ReadFault(p)
    \/ ReadClear(p)

WriteStep(w) == WriteFault(w) \/ WriteStore(w) \/ WriteWake(w)

Next ==
    \/ \E p \in Pollers : PollCall(p) \/ PollStep(p)
    \/ \E w \in Writers : WriteCall(w) \/ WriteStep(w)

Spec == Init /\ [][Next]_vars

\* A process inside poll(), my_read or my_write is scheduled again and again.
\* Nothing makes a program poll, or poll once more: that of the lesson polls
\* once (char_cdev_poll_select_epoll_user.c:67-77).
Fairness ==
    /\ \A p \in Pollers : WF_vars(PollStep(p))
    /\ \A w \in Writers : WF_vars(WriteStep(w))

-----------------------------------------------------------------------------
PollSteps == {"idle", "register", "check", "asleep", "ready", "copy", "clear"}
WriteSteps == {"idle", "store", "wake"}

\* Type invariant; only processes inside poll() are on the queue.
TypeOK ==
    /\ data_available \in BOOLEAN
    /\ my_wq \in SUBSET Pollers
    /\ triggered \in SUBSET my_wq
    /\ pc \in [Pollers \cup Writers -> PollSteps \cup WriteSteps]
    /\ \A p \in Pollers : pc[p] \in PollSteps
    /\ \A w \in Writers : pc[w] \in WriteSteps
    /\ \A p \in Pollers : p \in my_wq <=> pc[p] \in {"check", "asleep"}
    /\ writes \in Nat

\* No process sleeps in poll() beside a message that nobody has told it of,
\* because my_poll registers before it looks, and my_write sets the flag before
\* it wakes.  The number of wake_up_interruptible_nr does not limit it: only
\* exclusive waiters are counted, and poll has none
\* (char_cdev_poll_select_epoll_kernel.c:119-127 against :101-104,
\* char_cdev_wakeip_isr_nr_kernel.c:101-108).
NoPollerForgotten ==
    \A p \in Pollers : data_available /\ pc[p] = "asleep" =>
        p \in triggered \/ \E w \in Writers : pc[w] = "wake"

\* poll() returns while there is a message: a process inside it leaves it, or
\* another one has read the message
\* (char_cdev_poll_select_epoll_kernel.c:119-127 against :101-104).
PollReturns ==
    \A p \in Pollers :
        (data_available /\ pc[p] \in {"register", "check", "asleep"})
            ~> (pc[p] \in {"ready", "idle"} \/ ~data_available)
=============================================================================
