------------------------------ MODULE StopFlag ------------------------------
(***************************************************************************)
(* The handlers that run until they are told to stop (kind):               *)
(*   "thread"  lesson 11: two threads that loop while                      *)
(*             !kthread_should_stop()                                      *)
(*   "work"    lesson 12: a work item that loops until stop_work_flag      *)
(*   "timer"   lesson 13: a timer that arms itself again unless stop_flag  *)
(* A handler tests its flag in one step and acts on it in the next, so     *)
(* that the flag may be raised in between.                                 *)
(***************************************************************************)
EXTENDS Integers

CONSTANT Kinds   \* the kinds considered

StopAssumption == Kinds \subseteq {"thread", "work", "timer"}

VARIABLES
    kind,
    phase,   \* of the module: "out", "starting", "in", "failing", "exiting", "gone"
    turn,    \* the handler that init or exit has come to
    at,      \* at[h]: "off", "armed" (or runnable, or queued), "test", "body"
    told     \* the handlers that have been told to stop

stopVars == <<kind, phase, turn, at, told>>

Handlers == IF kind = "thread" THEN 1 .. 2 ELSE 1 .. 1
LastHandler == IF kind = "thread" THEN 2 ELSE 1

Init ==
    /\ kind \in Kinds
    /\ phase = "out"
    /\ turn = 1
    /\ at = [h \in 1 .. 2 |-> "off"]
    /\ told = {}

(***************************************************************************)
(* init: kthread_run may fail, and so may create_workqueue, with nothing   *)
(* to undo.                                                                *)
(***************************************************************************)
StartInit ==
    /\ phase = "out"
    /\ phase' = "starting"
    /\ UNCHANGED <<kind, turn, at, told>>

StartHandler ==
    /\ phase = "starting"
    /\ at' = [at EXCEPT ![turn] = "armed"]
    /\ IF turn = LastHandler
       THEN phase' = "in" /\ turn' = 1
       ELSE turn' = turn + 1 /\ UNCHANGED phase
    /\ UNCHANGED <<kind, told>>

StartFails ==
    /\ phase = "starting"
    /\ kind # "timer"
    /\ phase' = IF turn = 1 THEN "gone" ELSE "failing"
    /\ turn' = 1
    /\ UNCHANGED <<kind, at, told>>

(***************************************************************************)
(* The handlers                                                            *)
(***************************************************************************)
HandlerRuns(h) ==
    /\ at[h] = "armed"
    /\ at' = [at EXCEPT ![h] = "test"]
    /\ UNCHANGED <<kind, phase, turn, told>>

HandlerStops(h) ==
    /\ at[h] = "test"
    /\ h \in told
    /\ at' = [at EXCEPT ![h] = "off"]
    /\ UNCHANGED <<kind, phase, turn, told>>

HandlerGoesOn(h) ==
    /\ at[h] = "test"
    /\ h \notin told
    /\ at' = [at EXCEPT ![h] = "body"]
    /\ UNCHANGED <<kind, phase, turn, told>>

\* msleep and back to the test, or mod_timer.
HandlerBody(h) ==
    /\ at[h] = "body"
    /\ at' = [at EXCEPT ![h] = IF kind = "timer" THEN "armed" ELSE "test"]
    /\ UNCHANGED <<kind, phase, turn, told>>

(***************************************************************************)
(* exit, and the failing init of lesson 11, which stops the first thread   *)
(***************************************************************************)
StopExit ==
    /\ phase = "in"
    /\ phase' = "exiting"
    /\ UNCHANGED <<kind, turn, at, told>>

\* Mutant: flush_work comes before the flag is raised.
StopTellLate ==
    /\ phase \in {"failing", "exiting"}
    /\ kind = "work" => at[turn] = "off"
    /\ turn \notin told
    /\ told' = told \cup {turn}
    /\ UNCHANGED <<kind, phase, turn, at>>

\* kthread_stop raises the flag of one thread; the others have one flag.
StopTell ==
    /\ phase \in {"failing", "exiting"}
    /\ turn \notin told
    /\ told' = told \cup {turn}
    /\ UNCHANGED <<kind, phase, turn, at>>

\* A thread that was never scheduled does not begin, and del_timer_sync takes
\* a timer off that is armed; flush_work lets the item run.
StopUnstarted ==
    /\ phase \in {"failing", "exiting"}
    /\ turn \in told
    /\ kind # "work"
    /\ at[turn] = "armed"
    /\ at' = [at EXCEPT ![turn] = "off"]
    /\ UNCHANGED <<kind, phase, turn, told>>

\* kthread_stop, flush_work and del_timer_sync wait for a handler that runs.
StopWaited ==
    /\ phase \in {"failing", "exiting"}
    /\ turn \in told
    /\ at[turn] = "off"
    /\ IF phase = "exiting" /\ turn < LastHandler
       THEN turn' = turn + 1 /\ UNCHANGED phase
       ELSE phase' = "gone" /\ UNCHANGED turn
    /\ UNCHANGED <<kind, at, told>>

Handler(h) == HandlerRuns(h) \/ HandlerStops(h) \/ HandlerGoesOn(h) \/ HandlerBody(h)
Stopping == StopTell \/ StopUnstarted \/ StopWaited

Next ==
    \/ StartInit \/ StartHandler \/ StartFails \/ StopExit \/ Stopping
    \/ \E h \in Handlers : Handler(h)

Spec == Init /\ [][Next]_stopVars

\* Threads, workers and timers get their turn, and so does exit.
Fairness == WF_stopVars(Stopping) /\ \A h \in 1 .. 2 : WF_stopVars(Handler(h))
-----------------------------------------------------------------------------
\* Type invariant.
TypeOK ==
    /\ kind \in Kinds
    /\ phase \in {"out", "starting", "in", "failing", "exiting", "gone"}
    /\ turn \in 1 .. 2
    /\ at \in [1 .. 2 -> {"off", "armed", "test", "body"}]
    /\ told \in SUBSET (1 .. 2)

\* Once init has failed or exit has returned, no handler runs, waits to run or
\* will arm itself again, whatever it had tested before it was told to stop
\* (Kernel_Thread.c:64-68, :75-78, Binding_custom_workqueue.c:72-83,
\* kernel_timer_periodic.c:23-26, :44-47).
NothingRunsOn == phase = "gone" => \A h \in 1 .. 2 : at[h] = "off"

\* exit and the failing init return (Binding_custom_workqueue.c:19-28, :72-78).
StopReturns == phase \in {"failing", "exiting"} ~> phase = "gone"
=============================================================================
