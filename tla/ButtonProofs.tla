---------------------------- MODULE ButtonProofs ----------------------------
(***************************************************************************)
(* Theorems about the drivers with a handler that runs by itself (lessons  *)
(* 11 to 14 and 16 to 18), stated of their composition MCButtons.  Each    *)
(* driver has an inductive invariant; the composition satisfies all of     *)
(* them because a step of one driver leaves the others alone.              *)
(***************************************************************************)
EXTENDS MCButtons, TLAPS

(***************************************************************************)
(* Lesson 17, with interrupts that come at any moment: the life of the     *)
(* interrupt and of struct my_device follows the phase of the driver.      *)
(***************************************************************************)
WorkLife ==
    /\ allocated <=> phase \in {"bound", "canceling", "devres"}
    /\ irq_on => allocated
    /\ phase \in {"bound", "canceling"} => irq_on
    /\ isr => irq_on
    /\ phase = "canceling" => pending /\ ~queued

WorkTypes == TypeOK /\ WorkLife

\* Before my_probe there is no interrupt, no work item and no my_device.
LEMMA WorkTypesInit == Init => WorkTypes
<1>1. Init => presses \in Nat
  BY DEF Init
<1> QED
  BY <1>1 DEF Init, WorkTypes, WorkLife, TypeOK

\* No step of the handler, the worker or the driver core takes my_device away
\* from under the interrupt.
LEMMA WorkTypesStep == WorkTypes /\ [Next]_vars => WorkTypes'
<1> SUFFICES ASSUME WorkTypes, [Next]_vars PROVE WorkTypes'
  OBVIOUS
<1> USE DEF WorkTypes, WorkLife, TypeOK
<1>1. CASE IsrEnter
  BY <1>1 DEF IsrEnter
<1>2. CASE IsrSchedule
  BY <1>2 DEF IsrSchedule
<1>3. CASE Work
  <2>1. CASE WorkStart
    BY <2>1 DEF WorkStart
  <2>2. CASE WorkEnd
    BY <2>2 DEF WorkEnd
  <2> QED
    BY <1>3, <2>1, <2>2 DEF Work
<1>4. CASE Probe
  BY <1>4 DEF Probe
<1>5. CASE CancelDone
  <2>1. WorkLife'
    BY <1>5 DEF CancelDone
  <2>2. TypeOK'
    BY <1>5 DEF CancelDone
  <2> QED
    BY <2>1, <2>2
<1>6. CASE FreeIrq
  BY <1>6 DEF FreeIrq
<1>7. CASE FreeDevice
  <2>1. WorkLife'
    BY <1>7 DEF FreeDevice
  <2>2. TypeOK'
    BY <1>7 DEF FreeDevice
  <2> QED
    BY <2>1, <2>2
<1>8. CASE CancelGrab
  BY <1>8 DEF CancelGrab
<1>9. CASE UNCHANGED vars
  BY <1>9 DEF vars
<1> QED
  BY <1>1, <1>2, <1>3, <1>4, <1>5, <1>6, <1>7, <1>8, <1>9 DEF Next, Driver

(***************************************************************************)
(* Lesson 17, when no interrupt is handled once my_remove has begun: then  *)
(* cancel_work_sync leaves nothing behind.                                 *)
(***************************************************************************)
WorkCancelled ==
    /\ isr => phase = "bound"
    /\ phase \notin {"bound", "canceling"} => ~queued /\ ~running

WorkInv == WorkTypes /\ WorkCancelled

\* Nothing is queued before my_probe.
LEMMA WorkInit == Init => WorkInv
  BY WorkTypesInit DEF Init, WorkInv, WorkCancelled

\* With the button quiet during my_remove, nothing is queued or run after
\* cancel_work_sync.
LEMMA WorkStep ==
    ASSUME LateIrq = FALSE
    PROVE  WorkInv /\ [Next]_vars => WorkInv'
<1> SUFFICES ASSUME WorkInv, [Next]_vars PROVE WorkCancelled'
  BY WorkTypesStep DEF WorkInv
<1> USE DEF WorkInv, WorkTypes, WorkLife, TypeOK, WorkCancelled
<1>1. CASE IsrEnter
  BY <1>1 DEF IsrEnter
<1>2. CASE IsrSchedule
  BY <1>2 DEF IsrSchedule
<1>3. CASE Work
  BY <1>3 DEF Work, WorkStart, WorkEnd
<1>4. CASE Driver
  BY <1>4 DEF Driver, Probe, CancelDone, FreeIrq, FreeDevice
<1>5. CASE CancelGrab
  BY <1>5 DEF CancelGrab
<1>6. CASE UNCHANGED vars
  BY <1>6 DEF vars
<1> QED
  BY <1>1, <1>2, <1>3, <1>4, <1>5, <1>6 DEF Next

\* my_work_func starts with a press, never twice at a time, and cancel_work_sync
\* drops the press it finds: each step is one of a bottom half, or none.
LEMMA WorkHalfStep ==
    ASSUME LateIrq = FALSE
    PROVE  WorkInv /\ [Next]_vars => [Half!Next]_(Half!halfVars)
<1> SUFFICES ASSUME WorkInv, [Next]_vars
             PROVE  [Half!Next]_(Half!halfVars)
  OBVIOUS
<1> USE DEF WorkInv, WorkTypes, WorkLife, TypeOK, WorkCancelled,
            Half!halfVars, Half!Next
<1>1. CASE IsrEnter
  BY <1>1 DEF IsrEnter
<1>2. CASE IsrSchedule
  BY <1>2 DEF IsrSchedule, Half!Press
<1>3. CASE WorkStart
  BY <1>3 DEF WorkStart, Half!Serve
<1>4. CASE WorkEnd
  BY <1>4 DEF WorkEnd, Half!Finish
<1>5. CASE CancelGrab
  BY <1>5 DEF CancelGrab, Half!BeginShutdown
<1>6. CASE CancelDone
  BY <1>6 DEF CancelDone, Half!EndShutdown
<1>7. CASE Probe \/ FreeIrq \/ FreeDevice
  BY <1>7 DEF Probe, FreeIrq, FreeDevice
<1>8. CASE UNCHANGED vars
  BY <1>8 DEF vars
<1> QED
  BY <1>1, <1>2, <1>3, <1>4, <1>5, <1>6, <1>7, <1>8 DEF Next, Work, Driver

(***************************************************************************)
(* Lesson 18: the thread is between kthread_run and kthread_stop exactly   *)
(* while the driver is bound or stopping, and it takes data_ready for a    *)
(* press only while that is one.                                           *)
(***************************************************************************)
ThreadLife ==
    /\ allocated18 <=> phase18 \in {"probing", "bound", "stopping", "devres"}
    /\ irq_on18 => allocated18
    /\ phase18 \in {"probing", "bound", "stopping"} => irq_on18
    /\ isr18 # "idle" => irq_on18
    /\ phase18 \in {"unbound", "probing"} => thread = "none"
    /\ phase18 \in {"devres", "gone"} => thread \in {"none", "exited"}
    /\ phase18 \in {"unbound", "probing", "bound"} => ~should_stop

ThreadCounts ==
    /\ phase18 = "unbound" => ~data_ready
    /\ phase18 = "stopping" => should_stop
    /\ thread = "exited" => should_stop
    /\ thread = "check" => data_ready \/ should_stop
    /\ thread = "clear" => data_ready

ThreadInv == K!TypeOK /\ ThreadLife /\ ThreadCounts

\* Before my_probe there is neither a thread nor an interrupt.
LEMMA ThreadInit == K!Init => ThreadInv
  BY DEF K!Init, ThreadInv, ThreadLife, ThreadCounts, K!TypeOK

\* thread_fn joins and leaves its wait queue, button_irq wakes it, and
\* kthread_stop is waited for before the interrupt and my_device go.
LEMMA ThreadInvStep == ThreadInv /\ [K!Next]_vars18 => ThreadInv'
<1> SUFFICES ASSUME ThreadInv, [K!Next]_vars18 PROVE ThreadInv'
  OBVIOUS
<1> USE DEF ThreadInv, ThreadLife, ThreadCounts, K!TypeOK
<1>1. CASE K!IsrEnter
  BY <1>1 DEF K!IsrEnter
<1>2. CASE K!IsrSet \/ K!IsrWake
  <2>1. CASE K!IsrSet
    BY <2>1 DEF K!IsrSet
  <2>2. CASE K!IsrWake
    BY <2>2 DEF K!IsrWake
  <2> QED
    BY <1>2, <2>1, <2>2
<1>3. CASE K!Thread
  <2> USE DEF K!ThreadStep, K!Condition
  <2>1. CASE K!ThreadLoop \/ K!ThreadWait
    BY <2>1 DEF K!ThreadLoop, K!ThreadWait
  <2>2. CASE K!ThreadPrepare \/ K!ThreadSleep \/ K!ThreadResume
    <3>1. CASE K!ThreadPrepare
      BY <3>1 DEF K!ThreadPrepare
    <3>2. CASE K!ThreadSleep
      BY <3>2 DEF K!ThreadSleep
    <3>3. CASE K!ThreadResume
      BY <3>3 DEF K!ThreadResume
    <3> QED
      BY <2>2, <3>1, <3>2, <3>3
  <2>3. CASE K!ThreadAwake
    BY <2>3 DEF K!ThreadAwake
  <2>4. CASE K!ThreadCheck \/ K!ThreadClear \/ K!ThreadProcess
    <3>1. CASE K!ThreadCheck
      BY <3>1 DEF K!ThreadCheck
    <3>2. CASE K!ThreadClear
      BY <3>2 DEF K!ThreadClear
    <3>3. CASE K!ThreadProcess
      BY <3>3 DEF K!ThreadProcess
    <3> QED
      BY <2>4, <3>1, <3>2, <3>3
  <2> QED
    BY <1>3, <2>1, <2>2, <2>3, <2>4 DEF K!Thread
<1>4. CASE K!ProbeIrq \/ K!ProbeThread \/ K!ProbeFail
  <2>1. CASE K!ProbeIrq
    BY <2>1 DEF K!ProbeIrq
  <2>2. CASE K!ProbeThread
    BY <2>2 DEF K!ProbeThread
  <2>3. CASE K!ProbeFail
    BY <2>3 DEF K!ProbeFail
  <2> QED
    BY <1>4, <2>1, <2>2, <2>3
<1>5. CASE K!RemoveReturn \/ K!FreeIrq \/ K!FreeDevice
  <2>1. CASE K!RemoveReturn
    BY <2>1 DEF K!RemoveReturn
  <2>2. CASE K!FreeIrq
    BY <2>2 DEF K!FreeIrq
  <2>3. CASE K!FreeDevice
    BY <2>3 DEF K!FreeDevice
  <2> QED
    BY <1>5, <2>1, <2>2, <2>3
<1>6. CASE K!Remove
  BY <1>6 DEF K!Remove
<1>7. CASE UNCHANGED vars18
  BY <1>7 DEF vars18
<1> QED
  BY <1>1, <1>2, <1>3, <1>4, <1>5, <1>6, <1>7
     DEF K!Next, K!Isr, K!Driver

\* thread_fn processes a press that was not answered yet, and kthread_stop
\* ends it between two presses: each step is one of a bottom half, or none.
LEMMA ThreadHalfStep ==
    ThreadInv /\ [K!Next]_vars18 => [K!Half!Next]_(K!Half!halfVars)
<1> SUFFICES ASSUME ThreadInv, [K!Next]_vars18
             PROVE  [K!Half!Next]_(K!Half!halfVars)
  OBVIOUS
<1> USE DEF ThreadInv, ThreadLife, ThreadCounts, K!TypeOK, K!ThreadStep,
            K!Half!halfVars, K!Half!Next
<1>1. CASE K!IsrSet
  BY <1>1 DEF K!IsrSet, K!Half!Press
<1>2. CASE K!IsrEnter \/ K!IsrWake
  BY <1>2 DEF K!IsrEnter, K!IsrWake
<1>3. CASE K!ThreadClear
  BY <1>3 DEF K!ThreadClear, K!Half!Serve
<1>4. CASE K!ThreadProcess
  BY <1>4 DEF K!ThreadProcess, K!Half!Finish
<1>5. CASE K!ThreadLoop \/ K!ThreadCheck
  <2>1. CASE K!ThreadLoop
    BY <2>1 DEF K!ThreadLoop, K!Half!EndShutdown
  <2>2. CASE K!ThreadCheck
    BY <2>2 DEF K!ThreadCheck, K!Half!EndShutdown
  <2> QED
    BY <1>5, <2>1, <2>2
<1>6. CASE \/ K!ThreadWait \/ K!ThreadPrepare \/ K!ThreadAwake
           \/ K!ThreadSleep \/ K!ThreadResume
  <2>1. CASE K!ThreadWait
    BY <2>1 DEF K!ThreadWait
  <2>2. CASE K!ThreadPrepare
    BY <2>2 DEF K!ThreadPrepare
  <2>3. CASE K!ThreadAwake
    BY <2>3 DEF K!ThreadAwake
  <2>4. CASE K!ThreadSleep
    BY <2>4 DEF K!ThreadSleep
  <2>5. CASE K!ThreadResume
    BY <2>5 DEF K!ThreadResume
  <2> QED
    BY <1>6, <2>1, <2>2, <2>3, <2>4, <2>5
<1>7. CASE K!Remove
  BY <1>7 DEF K!Remove, K!Half!BeginShutdown
<1>8. CASE \/ K!ProbeIrq \/ K!ProbeThread \/ K!ProbeFail
           \/ K!RemoveReturn \/ K!FreeIrq \/ K!FreeDevice
  <2>1. CASE K!ProbeIrq
    BY <2>1 DEF K!ProbeIrq
  <2>2. CASE K!ProbeThread
    BY <2>2 DEF K!ProbeThread
  <2>3. CASE K!ProbeFail
    BY <2>3 DEF K!ProbeFail
  <2>4. CASE K!RemoveReturn
    BY <2>4 DEF K!RemoveReturn
  <2>5. CASE K!FreeIrq
    BY <2>5 DEF K!FreeIrq
  <2>6. CASE K!FreeDevice
    BY <2>6 DEF K!FreeDevice
  <2> QED
    BY <1>8, <2>1, <2>2, <2>3, <2>4, <2>5, <2>6
<1>9. CASE UNCHANGED vars18
  BY <1>9 DEF vars18
<1> QED
  BY <1>1, <1>2, <1>3, <1>4, <1>5, <1>6, <1>7, <1>8, <1>9
     DEF K!Next, K!Isr, K!Thread, K!Driver

(***************************************************************************)
(* Lesson 14: dev_read keeps the device open, so that gpio_exit finds no   *)
(* reader, and with one reader a press that it was woken for is still      *)
(* there when it clears the flag.                                          *)
(***************************************************************************)
EventInv ==
    /\ E!TypeOK
    /\ phase14 # "in" => reader = "idle" /\ isr14 = "idle"
    /\ reader = "clear" /\ ~interrupted => pressed
    /\ reader = "copy" /\ false_report => interrupted

\* Nobody reads before the module is loaded.
LEMMA EventInit == E!Init => EventInv
  BY DEF E!Init, EventInv, E!TypeOK

\* Only the reader clears pressed, and only after its wait.
LEMMA EventStep == EventInv /\ [E!Next]_vars14 => EventInv'
<1> SUFFICES ASSUME EventInv, [E!Next]_vars14 PROVE EventInv'
  OBVIOUS
<1> USE DEF EventInv, E!TypeOK, E!eventHistories
<1>1. CASE E!EventLoad \/ E!EventEnter \/ E!EventSet \/ E!EventWake
  <2>1. CASE E!EventLoad
    BY <2>1 DEF E!EventLoad
  <2>2. CASE E!EventEnter
    BY <2>2 DEF E!EventEnter
  <2>3. CASE E!EventSet
    BY <2>3 DEF E!EventSet
  <2>4. CASE E!EventWake
    BY <2>4 DEF E!EventWake
  <2> QED
    BY <1>1, <2>1, <2>2, <2>3, <2>4
<1>2. CASE E!EventRead \/ E!EventSleep \/ E!EventSignal \/ E!EventCopy
  BY <1>2 DEF E!EventRead, E!EventSleep, E!EventSignal, E!EventCopy
<1>3. CASE E!EventReady
  BY <1>3 DEF E!EventReady
<1>4. CASE E!EventClear
  BY <1>4 DEF E!EventClear
<1>5. CASE E!EventFreeIrq \/ E!EventGone
  BY <1>5 DEF E!EventFreeIrq, E!EventGone
<1>6. CASE UNCHANGED vars14
  BY <1>6 DEF vars14
<1> QED
  BY <1>1, <1>2, <1>3, <1>4, <1>5, <1>6 DEF E!Next, E!Reading

\* A read takes a press when it clears the flag and is done with it when it
\* has copied; one that a signal ended takes none.
LEMMA EventHalfStep ==
    EventInv /\ [E!Next]_vars14 => [E!Half!Next]_(E!Half!halfVars)
<1> SUFFICES ASSUME EventInv, [E!Next]_vars14
             PROVE  [E!Half!Next]_(E!Half!halfVars)
  OBVIOUS
<1> USE DEF EventInv, E!TypeOK, E!eventHistories, E!Half!halfVars, E!Half!Next
<1>1. CASE E!EventSet
  BY <1>1 DEF E!EventSet, E!Half!Press
<1>2. CASE E!EventLoad \/ E!EventEnter \/ E!EventWake
  <2>1. CASE E!EventLoad
    BY <2>1 DEF E!EventLoad
  <2>2. CASE E!EventEnter
    BY <2>2 DEF E!EventEnter
  <2>3. CASE E!EventWake
    BY <2>3 DEF E!EventWake
  <2> QED
    BY <1>2, <2>1, <2>2, <2>3
<1>3. CASE E!EventRead \/ E!EventSleep \/ E!EventReady \/ E!EventSignal
  BY <1>3 DEF E!EventRead, E!EventSleep, E!EventReady, E!EventSignal
<1>4. CASE E!EventClear
  BY <1>4 DEF E!EventClear, E!Half!Serve
<1>5. CASE E!EventCopy
  BY <1>5 DEF E!EventCopy, E!Half!Finish
<1>6. CASE E!EventFreeIrq
  BY <1>6 DEF E!EventFreeIrq, E!Half!BeginShutdown
<1>7. CASE E!EventGone
  BY <1>7 DEF E!EventGone, E!Half!EndShutdown
<1>8. CASE UNCHANGED vars14
  BY <1>8 DEF vars14
<1> QED
  BY <1>1, <1>2, <1>3, <1>4, <1>5, <1>6, <1>7, <1>8 DEF E!Next, E!Reading

(***************************************************************************)
(* Lesson 16: the kernel's thread lives from request_threaded_irq to       *)
(* free_irq, and free_irq ends before my_device goes.                      *)
(***************************************************************************)
HandlerInv ==
    /\ T!TypeOK
    /\ allocated16 <=> phase16 \in {"bound", "freeing", "stopping"}
    /\ top => phase16 \in {"bound", "freeing"}
    /\ phase16 = "unbound" => irq_thread = "none"
    /\ phase16 \in {"bound", "freeing"} => irq_thread \in {"wait", "asleep", "run"}
    /\ phase16 = "gone" => irq_thread = "exited"

\* The thread does not exist before the interrupt is requested.
LEMMA HandlerInit == T!Init => HandlerInv
  BY DEF T!Init, HandlerInv, T!TypeOK

\* free_irq waits for top_irq and for the thread.
LEMMA HandlerStep == HandlerInv /\ [T!Next]_vars16 => HandlerInv'
<1> SUFFICES ASSUME HandlerInv, [T!Next]_vars16 PROVE HandlerInv'
  OBVIOUS
<1> USE DEF HandlerInv, T!TypeOK
<1>1. CASE T!ThreadedProbe
  BY <1>1 DEF T!ThreadedProbe
<1>2. CASE T!TopEnter \/ T!TopReturn
  BY <1>2 DEF T!TopEnter, T!TopReturn
<1>3. CASE T!ThreadTake \/ T!ThreadIdle \/ T!ThreadExits \/ T!ThreadIrq
  <2>1. CASE T!ThreadTake
    BY <2>1 DEF T!ThreadTake
  <2>2. CASE T!ThreadIdle
    BY <2>2 DEF T!ThreadIdle
  <2>3. CASE T!ThreadExits
    BY <2>3 DEF T!ThreadExits
  <2>4. CASE T!ThreadIrq
    BY <2>4 DEF T!ThreadIrq
  <2> QED
    BY <1>3, <2>1, <2>2, <2>3, <2>4
<1>4. CASE T!DisconnectIrq \/ T!StopThread \/ T!ReleaseDevice
  <2>1. CASE T!DisconnectIrq
    BY <2>1 DEF T!DisconnectIrq
  <2>2. CASE T!StopThread
    BY <2>2 DEF T!StopThread
  <2>3. CASE T!ReleaseDevice
    BY <2>3 DEF T!ReleaseDevice
  <2> QED
    BY <1>4, <2>1, <2>2, <2>3
<1>5. CASE UNCHANGED vars16
  BY <1>5 DEF vars16
<1> QED
  BY <1>1, <1>2, <1>3, <1>4, <1>5
     DEF T!Next, T!Thread, T!Freeing

\* The thread takes IRQTF_RUNTHREAD when it runs thread_irq, and free_irq lets
\* it answer what is left before it ends.
LEMMA HandlerHalfStep ==
    HandlerInv /\ [T!Next]_vars16 => [T!Half!Next]_(T!Half!halfVars)
<1> SUFFICES ASSUME HandlerInv, [T!Next]_vars16
             PROVE  [T!Half!Next]_(T!Half!halfVars)
  OBVIOUS
<1> USE DEF HandlerInv, T!TypeOK, T!Half!halfVars, T!Half!Next
<1>1. CASE T!TopReturn
  BY <1>1 DEF T!TopReturn, T!Half!Press
<1>2. CASE T!ThreadTake
  BY <1>2 DEF T!ThreadTake, T!Half!Serve
<1>3. CASE T!ThreadIrq
  BY <1>3 DEF T!ThreadIrq, T!Half!Finish
<1>4. CASE T!ThreadExits
  BY <1>4 DEF T!ThreadExits, T!Half!EndShutdown
<1>5. CASE T!StopThread
  BY <1>5 DEF T!StopThread, T!Half!BeginShutdown
<1>6. CASE T!ThreadedProbe \/ T!TopEnter \/ T!ThreadIdle
  BY <1>6 DEF T!ThreadedProbe, T!TopEnter, T!ThreadIdle
<1>7. CASE T!DisconnectIrq \/ T!ReleaseDevice
  BY <1>7 DEF T!DisconnectIrq, T!ReleaseDevice
<1>8. CASE UNCHANGED vars16
  BY <1>8 DEF vars16
<1> QED
  BY <1>1, <1>2, <1>3, <1>4, <1>5, <1>6, <1>7, <1>8
     DEF T!Next, T!Thread, T!Freeing

(***************************************************************************)
(* Lessons 11 to 13: the handlers that exit has stopped are off, and the   *)
(* ones that init has not started are off too.                             *)
(***************************************************************************)
StopInv ==
    /\ S!TypeOK
    /\ turn <= S!LastHandler
    /\ kind # "thread" => at[2] = "off"
    /\ phaseS = "out" => \A h \in 1 .. 2 : at[h] = "off"
    /\ phaseS \in {"out", "in", "failing"} => turn = 1
    /\ phaseS = "starting" => \A h \in 1 .. 2 : h >= turn => at[h] = "off"
    /\ phaseS = "failing" => at[2] = "off"
    /\ phaseS = "exiting" => \A h \in 1 .. 2 : h < turn => at[h] = "off"
    /\ S!NothingRunsOn

\* Nothing runs before init.
LEMMA StopInit == S!Init => StopInv
  BY DEF S!Init, StopInv, S!TypeOK, S!LastHandler, S!NothingRunsOn

\* A handler that tested its flag before it was raised still acts on it, and
\* kthread_stop, flush_work and del_timer_sync wait for that too.
LEMMA StopStep == StopInv /\ [S!Next]_varsS => StopInv'
<1> SUFFICES ASSUME StopInv, [S!Next]_varsS PROVE StopInv'
  OBVIOUS
<1> USE DEF StopInv, S!TypeOK, S!LastHandler, S!NothingRunsOn
<1>1. CASE S!StartInit
  BY <1>1 DEF S!StartInit
<1>2. CASE S!StartHandler
  BY <1>2 DEF S!StartHandler
<1>3. CASE S!StartFails
  BY <1>3 DEF S!StartFails
<1>4. CASE S!StopExit
  BY <1>4 DEF S!StopExit
<1>5. CASE S!StopTell
  BY <1>5 DEF S!StopTell
<1>6. CASE S!StopUnstarted
  BY <1>6 DEF S!StopUnstarted
<1>7. CASE S!StopWaited
  BY <1>7 DEF S!StopWaited
<1>8. ASSUME NEW h \in S!Handlers, S!Handler(h) PROVE StopInv'
  <2>1. h \in 1 .. 2 /\ at[h] # "off"
    BY <1>8 DEF S!Handlers, S!Handler, S!HandlerRuns, S!HandlerStops,
                S!HandlerGoesOn, S!HandlerBody
  <2>2. CASE S!HandlerRuns(h)
    BY <2>1, <2>2 DEF S!HandlerRuns
  <2>3. CASE S!HandlerStops(h)
    BY <2>1, <2>3 DEF S!HandlerStops
  <2>4. CASE S!HandlerGoesOn(h)
    BY <2>1, <2>4 DEF S!HandlerGoesOn
  <2>5. CASE S!HandlerBody(h)
    BY <2>1, <2>5 DEF S!HandlerBody
  <2> QED
    BY <1>8, <2>2, <2>3, <2>4, <2>5 DEF S!Handler
<1>9. CASE UNCHANGED varsS
  BY <1>9 DEF varsS
<1> QED
  BY <1>1, <1>2, <1>3, <1>4, <1>5, <1>6, <1>7, <1>8, <1>9
     DEF S!Next, S!Stopping

(***************************************************************************)
(* The composition.  allVars are the variables of all the drivers.         *)
(***************************************************************************)
allVars == <<lesson, vars, vars18, vars14, vars16, varsS>>

\* Whichever driver is loaded, each driver takes a step of its own or none.
LEMMA EachItsOwn ==
    [ButtonNext]_allVars =>
        /\ [Next]_vars /\ [K!Next]_vars18 /\ [E!Next]_vars14
        /\ [T!Next]_vars16 /\ [S!Next]_varsS
  BY DEF ButtonNext, allVars

\* The handler, the thread, the reader and the kernel's thread of lessons 16 to
\* 18 keep their invariants, whenever the interrupt comes.
LEMMA ButtonInvariants ==
    ButtonSpec =>
        /\ [](WorkTypes /\ ThreadInv /\ EventInv /\ HandlerInv /\ StopInv)
        /\ [][Next]_vars /\ [][K!Next]_vars18 /\ [][E!Next]_vars14
        /\ [][T!Next]_vars16
<1>1. ButtonInit => WorkTypes /\ ThreadInv /\ EventInv /\ HandlerInv /\ StopInv
  BY WorkTypesInit, ThreadInit, EventInit, HandlerInit, StopInit DEF ButtonInit
<1>2. ButtonSpec => ButtonInit /\ [][ButtonNext]_allVars
  BY DEF ButtonSpec, allVars
<1> QED
  BY <1>1, <1>2, EachItsOwn, WorkTypesStep, ThreadInvStep, EventStep,
     HandlerStep, StopStep, PTL

\* The variables of every driver have their types, and a work item on the queue
\* is pending, a thread on its wait queue waits (ButtonTypeOK).
THEOREM ButtonTypes == ButtonSpec => []ButtonTypeOK
<1>1. WorkTypes /\ ThreadInv /\ EventInv /\ HandlerInv /\ StopInv => ButtonTypeOK
  BY DEF WorkTypes, ThreadInv, EventInv, HandlerInv, StopInv, ButtonTypeOK
<1> QED
  BY <1>1, ButtonInvariants, PTL

\* The thread of lesson 18, the kernel's thread of lesson 16 and the handlers of
\* lessons 11 to 13 never outlive what they use, whenever the button is pressed
\* and whenever the driver is removed (kthread_IRQ.c:155-167,
\* request_threaded_irq.c:123-148, Kernel_Thread.c:64-78).
THEOREM NothingOutlivesTheDriver ==
    ButtonSpec => [](K!NoUseAfterFree /\ T!NoUseAfterFree /\ S!NothingRunsOn)
<1>1. ThreadInv => K!NoUseAfterFree
  BY DEF ThreadInv, ThreadLife, K!TypeOK, K!NoUseAfterFree
<1>2. HandlerInv => T!NoUseAfterFree
  BY DEF HandlerInv, T!TypeOK, T!NoUseAfterFree
<1>3. StopInv => S!NothingRunsOn
  BY DEF StopInv
<1> QED
  BY <1>1, <1>2, <1>3, ButtonInvariants, PTL

\* With the button quiet once my_remove has begun, the work item of lesson 17
\* does not outlive my_device either (Workqueue_IRQ.c:119-130).
LEMMA WorkInvariant ==
    ASSUME LateIrq = FALSE
    PROVE  ButtonSpec => []WorkInv
<1>1. ButtonInit => WorkInv
  BY WorkInit DEF ButtonInit
<1>2. ButtonSpec => ButtonInit /\ [][ButtonNext]_allVars
  BY DEF ButtonSpec, allVars
<1>3. WorkInv /\ [Next]_vars => WorkInv'
  BY WorkStep
<1> QED
  BY <1>1, <1>2, <1>3, EachItsOwn, PTL

\* No work item, handler, thread or timer of lessons 11 to 18 runs on, or waits
\* to run, with memory that the driver has given back; lesson 17 only when no
\* press comes during its my_remove.
THEOREM NothingAfterFree ==
    ASSUME LateIrq = FALSE
    PROVE  ButtonSpec => []NoUseAfterFree
<1>1. WorkInv => NoWorkAfterFree
  BY DEF WorkInv, WorkTypes, WorkLife, WorkCancelled, NoWorkAfterFree, TypeOK
<1> QED
  BY <1>1, WorkInvariant, NothingOutlivesTheDriver, PTL DEF NoUseAfterFree

\* Four ways to defer the work of an interrupt handler keep one promise: a run
\* begins after a press that no run has answered, runs do not overlap, and none
\* begins once the driver has shut it down (Workqueue_IRQ.c:40-65,
\* kthread_IRQ.c:57-92, request_threaded_irq.c:49-71, gpio_irq_drv.c:70-89).
THEOREM BottomHalves ==
    ASSUME LateIrq = FALSE
    PROVE  ButtonSpec => AllImplementHalf
<1>1. ButtonInit => Half!Init /\ K!Half!Init /\ T!Half!Init /\ E!Half!Init
  BY DEF ButtonInit, Init, K!Init, T!Init, E!Init,
         Half!Init, K!Half!Init, T!Half!Init, E!Half!Init
<1>2. WorkInv /\ [Next]_vars => [Half!Next]_(Half!halfVars)
  BY WorkHalfStep
<1>3. EventInv => (reader = "copy" /\ false_report => interrupted)
  BY DEF EventInv
<1>4. ButtonSpec => ButtonInit
  BY DEF ButtonSpec
<1>5. ButtonSpec => ImplementsHalf
  BY <1>1, <1>2, <1>4, WorkInvariant, ButtonInvariants, PTL
     DEF ImplementsHalf, Half!Spec
<1>6. ButtonSpec => K!ImplementsHalf
  BY <1>1, <1>4, ThreadHalfStep, ButtonInvariants, PTL
     DEF K!ImplementsHalf, K!Half!Spec
<1>7. ButtonSpec => T!ImplementsHalf
  BY <1>1, <1>4, HandlerHalfStep, ButtonInvariants, PTL
     DEF T!ImplementsHalf, T!Half!Spec
<1>8. ButtonSpec => E!ImplementsHalf
  BY <1>1, <1>3, <1>4, EventHalfStep, ButtonInvariants, PTL
     DEF E!ImplementsHalf, E!Half!Spec
<1> QED
  BY <1>5, <1>6, <1>7, <1>8 DEF AllImplementHalf
=============================================================================
