# Verification of the STM32MP257F-DK kernel lessons

The repository is a course of small Linux kernel modules, one directory per
lesson under `src/KERNELSPACE`, most of them a driver of a few hundred lines
with a document beside it. They are written for kernel 6.6 and an SMP,
preemptible machine. This directory holds TLA+ models of them, the TLC
configurations that check the models, and theorems checked by TLAPS.

Paths below are relative to `src/KERNELSPACE`; "27d A:65" is line 65 of module
A of lesson 27d.

    tlc -workers 2 -config RingOneConsumer.cfg MCThreadsafeRing.tla
    tlapm ThreadsafeRingProofs.tla

`RingOneConsumer.cfg` and `Callbacks.cfg` take a minute or two, every other run
less. `tlapm` takes about three minutes for `CallbackProofs` and for
`CharDevicesProofs`, and less than one for each of the others; a machine that is
busy may need `tlapm --stretch 3`.

## 1. The system

The lessons do not call each other except within lesson 27, where module A
exports functions that the other modules of the directory use. What a lesson
interacts with is the kernel: system calls on its device, interrupts, timers,
worker threads, the module loader and the driver core.

| Lessons | State | Operations | What is hard, and what makes it correct |
|---|---|---|---|
| 1, 2 hello, parameters | none | load | nothing |
| 3, 4 character devices | a static buffer (one per minor in 4-3) | read, write, attribute | partial failure of init; what readers see of a concurrent write |
| 5, 6 minors, ioctl | an array of devices; a value | open, read, write, ioctl | init that looks at no result |
| 7, 10 blocking read | buffer, `data_available`, wait queue | read, write | missed wake-ups, signals, a write between copy and clearing: a reader sleeps only while nothing was announced, a message is returned once, an interrupted read returns |
| 8, 9 poll | the same | poll, read, write | several pollers: each is told of a message, also by `wake_up_interruptible_nr`, and none sleeps through it |
| 11 kernel threads | two threads | start, stop | the second thread may fail to start; a thread may not have begun when it is stopped |
| 12, 13 work, timer | a stop flag | handler, removal | a handler that loops, or arms itself again, has tested the flag just before it is raised; removal ends and nothing runs on |
| 14 interrupt | `pressed`, wait queue, pin, line | handler, read | a press between the test and the clearing of `pressed`; an interrupted wait that counts as a press; order of releases |
| 15 platform driver | managed memory, pin, line; one `last_jiffies` for all devices | interrupt, probe, remove | what the driver core releases after remove |
| 16 threaded interrupt | managed memory, the interrupt thread | both halves, remove | remove does nothing, and the thread sleeps for a second; a press is answered, nothing outlives the device |
| 17 work item | the same and a work item | interrupt, work, remove | the work item and its memory against late interrupts |
| 18 interrupt thread | the same and a thread | interrupt, thread, remove | a press is answered, `kthread_stop` returns, nothing is used after it is freed |
| 19-21, 21b DMA | buffers, mappings, channel | probe, remove, one transfer | unwinding with mappings and a running transfer |
| 21a DMA device | `src_buf`, `dst_buf`, completion, `data_len` | read, write | one set of buffers for all writers; a timeout against a late completion |
| 22 mmap | a page | mmap | the page against its mappings |
| 23 list | a list under a mutex, an offset per file | write, read, delete | a delete in the middle of a read; every node is listed, in one hand, or freed |
| 24 kobject | two attributes | show, store | order of releases |
| 25, 25a, 25b netlink | a socket, a table of clients | receive, register, reply, broadcast | no lock: first messages that are handled at once; a table that fills or goes stale; clients that come, go and do not receive during a broadcast |
| 25c generic netlink | a family with a group | multicast; resolve, join and wait of the user program | the group is resolved and joined in two steps, and the module may be unloaded between them |
| 26a-d regmap | registers | probe | failing accesses |
| 26e, 26f, 26g regmap | registers, a cache, an interrupt | poll with timeout; interrupt; suspend, resume | a chip that answers late or never; a status bit that is cleared by the reading; what cache and chip hold after a sync that fails |
| 27a, 27b exports | counter, buffer | calls from other modules | no lock |
| 27c ring | ring | `ring_push`, `ring_pop` | no lock: a FIFO queue for one producer and one consumer |
| 27d ring | ring, spinlock, wait queue | `ring_push`, `ring_pop` | a FIFO queue: nothing lost, repeated or reordered, nobody sleeps beside a packet |
| 27e callback slot | one function pointer | register, unregister, notify | a call into an unloaded module; a stolen slot |
| 27f callback list | a list under a mutex | register, unregister, notify | the list changes under a notification |
| 27g notifier chain | the kernel's chain | register, unregister, call | order by priority, modules that come and go |

`PROJECT.json` lists every component with its status, and under "hazards"
every place in this code where something can go wrong that a test would hardly
reach, with the properties that would notice.

## 2. The modules

**The ring of lesson 27d** is the core. `RingIndex` has the arithmetic of head
and tail; `Contents` is the sequence of packets from tail to head.
`ThreadsafeRing` has one action for each step on shared memory. A producer goes
through `PushCall, PushLock, PushFull | PushStore, PushAdvance, PushUnlock,
PushWake`; a consumer through `PopCall, PopTest`, the expansion of
`wait_event_interruptible` (`WaitPrepare, WaitDone | WaitSleep, WaitResume`) and
`PopLock, PopCopy, PopAdvance, PopUnlock`. Messages are values and `Clip` is
what `strscpy` keeps of one. `BoundedFifo` is what the ring promises, a queue
with RING_SIZE - 1 places, and `Fifo == INSTANCE BoundedFifo WITH queue <-
Contents(...)` is the refinement mapping. `RingClient` composes the ring with
module B: loading with three pushes, the consumer thread, which `kthread_run`
may fail to create, and removal by `kthread_stop`. A `kthread_run` that failed
has left an error pointer, which passes the test of 27d B:48; `kthread_stop` then
does not return (`KthreadStopErrPtr`).

`SharedRing` is the same ring in lesson 27c, without lock and wait queue; a second
implementation of `BoundedFifo`, for one producer and one consumer.

**Devices that are read.** `BlockingRead` covers lessons 7 and 10; the constant
`ReturnsOnSignal` is their one difference in control. `PollRead` covers lessons
8 and 9 with the polling program of lesson 8; `WakeNr` is 0 for
`wake_up_interruptible` and N for the `_nr` form, and the operator `Woken` follows
the kernel's rule that only exclusive waiters are counted; `poll_wait` adds none.
`CharBuffers` covers
the devices that keep the last text (3, 4, 5 and 20): they differ in how they know where it
ends (`style`), by a NUL, by a stored length, or not at all. A write is its copy
and its end mark. A read of a text with a NUL is `strlen` (`ReadLength`) and the copy; a
read of one with a stored length looks at it in three steps (`ReadCheck`,
`ReadLimit`, `ReadTrim`) before it copies, and `Left` wraps around as a `size_t` does.
Another process may come in between. `KernelList` (23) has the list as a sequence of addresses that are
allocated again after they are freed; a read holds the mutex over a step per
node.

**Interrupts and handlers.** `BottomHalf` says what deferred work promises: what
is pending is served, once per round, and nothing is served after shutdown.
`KthreadIrq` (18), `WorkqueueIrq` (17), `ThreadedIrq` (16) and `ButtonEvent` (14,
where the reader is the bottom half) implement it. The first three contain probe,
remove, and the releases that the driver core makes after remove, between which
interrupts still come. `StopFlag` has the handlers of lessons 11 to 13, which test a
flag in one step and act on it in the next, against the exits that raise it.

**Registered clients.** `CallbackList` (27f) treats registration and unregistration, which
hold the mutex for one change, as one step, and a notification as one step per
node. `CallbackSlot` (27e) has no lock, and a step for each test and each use of
the pointer. `NotifierChain` (27g) has the kernel's chain with its semaphore.
`NetlinkClients` (25, 25a, 25b) has the table of clients. The input function runs in the
system call of the client that sends, so that several are in it at once; there is
no lock, and the search, the test of the limit, and the load, the store and the
count of `clients[total_clients++] = pid` are steps of their own (`RegisterRoom,
RegisterLoad | RegisterBehind, RegisterStore, RegisterCount`). The history `raced`
names the clients that were past the limit together. `MulticastGroup` (25c) has
the module, the number of its group, and the user program.

**Hardware.** `DmaMem2Mem` (21a) has a write with its transfer: map each buffer, submit,
wait, terminate on timeout, unmap each buffer; the mapping of either may fail, and
`mapped` counts per buffer. The controller finishes a transfer at any time, and
its callback runs at any time after that. `RegisterCache` (26g) has WHO_AM_I and
PWR_MGMT_1 in the chip and in the cache, `WakePoll` (26e) the sleep bit and the
expansion of `regmap_read_poll_timeout`, `SensorIrq` (26f) the status bit, the
pin, and the thread that the edge wakes.

**Loading and unloading.** `DriverTable` translates init and exit (or probe and
remove) of 39 drivers into rows: what is acquired, in which order, what the goto
label of a failing call releases, what exit releases, what is left to devm, and
what the handlers use. `DriverLifecycle` runs one row at a time; any call may
fail where the code looks at its result or ignores it, and handlers run through
the gates that are open (a device node, an interrupt line, a timer, ...). An
open file pins the module; the release of any other gate waits for its handler.
The history `freed` tells a pointer that was never acquired, which `kfree` ignores,
from one that was released before.

`LadderRules` states what can be seen of a row without running it: what may and
what must be held at each call, that every list of releases has what may be held,
that it has only what must be held, or what a call that is not looked at may not have
got, and that once, that nothing is acquired before what it is made
on top of or released after it. The type invariant of the run checks these rules for
every row; the theorems show that they are enough.

**MC modules.** `MCThreadsafeRing` and `MCDriverLifecycle` give constants that a
`.cfg` cannot write. The other MC modules put lessons of one kind side by side:

| Module | Lessons |
|---|---|
| `MCRingClient` | `RingClient` (27d), `SharedRing` (27c) |
| `MCCharDevices` | `BlockingRead` (7), `PollRead` (8), `KernelList` (23), `CharBuffers` (3, 4-3, 5, 20) |
| `MCButtons` | `WorkqueueIrq` (17), `KthreadIrq` (18), `ThreadedIrq` (16), `ButtonEvent` (14), `StopFlag` (11, 12, 13) |
| `MCCallbacks` | `CallbackList` (27f), `CallbackSlot` (27e), `NotifierChain` (27g), `NetlinkClients` (25b), `MulticastGroup` (25c) |
| `MCHardware` | `DmaMem2Mem` (21a), `RegisterCache` (26g), `WakePoll` (26e), `SensorIrq` (26f) |

One lesson is chosen in the initial state, its module's `Next` moves it under its
module's `Fairness`, and the others stay as they are initially. The lessons do
not interact, so nothing is lost by looking at one at a time, and the state graph
is their graphs one beside the other. The first module is extended; the others
come in by INSTANCE, and what they assume of their constants is a definition
that the MC module assumes. A property that several lessons share, such as
"removal ends", is one conjunction with a conjunct per lesson.

A definition under a comment `Mutant:` is a variant of the one after it with a
plausible bug; no specification uses it. It is there to show that a property
notices the bug.

## 3. What is checked

| Run | Instance | Shows |
|---|---|---|
| `ring_one_consumer` | RING_SIZE 3, two producers, one consumer, messages "", short, too long | `PopFindsPacket`, `NoLostWakeup`, `ImplementsFifo`, `TailMoves` |
| `ring_two_consumers` | RING_SIZE 2, one producer, two consumers | `PopFindsPacket` is violated |
| `client` | 27d: RING_SIZE 4, three packets, `kthread_run` may fail; 27c: size 3, three messages | `PrintsScript`, `AllPrinted`, `ExitReturns`; `SharedImplementsFifo` |
| `char_devices` | 7: one reader, two writers, two messages, two writes; 8, 9: two pollers, three writes, `WakeNr` 1; 23: two users, two ids, three nodes, two lines; 3, 4-3, 5, 20: BUF_SIZE 3, two writers, one reader in pieces of 2 or 4 | `NoLostWakeup`, `ReadsReturnWrites`, `NoPollerForgotten`, `WaitsEnd`; `NodesAccounted`, `StaysInBuffer`, `ReadsAreExact` |
| `buttons` | 17: ten presses, none after remove has begun; 14, 16, 18: any number; 11 to 13 | `NoUseAfterFree`, `AllImplementHalf`, `EveryPressAnswered`, `EveryRemoveReturns` |
| `workqueue_late_irq` | two presses, also during remove | `NoWorkAfterFree` is violated |
| `callbacks` | 27f: three clients, two notifiers; 27e: two clients, two events; 27g: three modules, two events; 25b: three clients, one of which broadcasts, two entries; 25c: two programs, two group numbers | `CursorIsAlive`, `NotifyReachesAll`, `UnloadEnds`; `RegistersAreSound`, `EventsReachAll` |
| `netlink_overlap` | 25b: two clients, two entries, one broadcasts | `BroadcastIsComplete` is violated |
| `slot_bad_call` | two clients, three events | `NoBadCall` is violated |
| `dma_one_writer` | 21a: one writer, two messages; 26e; 26f; 26g: chips 0x70, 0x71 and one that is refused | `DeviceOwnsMapped`, `WriteIsCopied`, `ReadsReturnWrites`; `ChipIsAsReported`, `CallsReturn` |
| `dma_two_writers` | two writers | `WriteIsCopied` is violated |
| `drivers` | 39 drivers, any call of init fails in 35 of them | `NothingLeaks`, `NoOtherBadRelease`, `OrderedRelease`, `OtherHandlersAreBacked` |

Every passing run also checks the type invariants of its modules.
Each violated property states a line of the documents or comments; section 6
quotes them. `PROJECT.json` names a mutant for every property of a passing run.

**Bounds.** Ring size 3 is the smallest with a full ring of two packets, an
index that wraps and an order to get wrong; 4 is the smallest that holds the
three packets of module B. Two producers are needed for contention at the head,
and a third adds nothing that two do not do one after the other. `MaxWrites`
and `MaxPollWrites` bound the calls of write: with two, one can fall between the
copy of a read and its clearing of the flag; with three, one is left after both
pollers have read. Three nodes let a list have one in the middle that is deleted
and allocated again; `Room` 2 makes a read drop the third. A buffer of three
cells takes texts that are shorter, exactly as long with their NUL, as long as
the buffer, and longer; pieces of 2 need several reads and pieces of 4 are longer
than the buffer. `SizeMod` 32 and `INT_MAX` 15 keep the order of the real ones: an
offset and a length of the run stay below `INT_MAX`, and a difference that wraps
around lies above it. `WakeNr` 1 is the number of lesson 9; lesson 8 wakes all, which
is what 1 does where no waiter is exclusive. `MaxPresses` is larger than the presses that can be pending, queued
and running at a time. Three clients put one between two others in the callback
list. `Events` is the number of notifications of module B's init, `EventCount`
that of module C's: the code has three of each, and the runs two where three add only
a repetition. `MAX_CLIENTS` 2 with three clients fills the table; sockets have no bound, since a
message may be dropped at any time. One client that broadcasts meets all that the
other two do, and a second broadcast only reads what the first one reads. Two group numbers let a number change, and come back,
between two loads. In the notifier chain a third module with B's priority, which
the lesson does not have, gives two blocks of one priority. `KthreadIrq`,
`ThreadedIrq`, `ButtonEvent`, `StopFlag`, `DmaMem2Mem`, `RegisterCache`,
`WakePoll`, `SensorIrq` and `DriverLifecycle` need no bound.

**Fairness.** A thread that is inside a function keeps running (weak fairness on
its steps). The ring's spinlock is a ticket-like queued lock, and the mutex hands
itself over to a long waiter, so acquiring one is strongly fair. An interrupt
handler and a callback return. `free_irq` disables the line first, so it gets
its turn between interrupts. Time passes: the deadline of a poll is reached.
Nothing makes a user write, poll (or poll again: the program of lesson 8 polls once),
press a button, unload a module or close a socket, and nothing makes the chip of
lesson 26e wake up. Two assumptions are about more than scheduling: the chip of
lesson 26f takes samples all the time, although its driver never writes
PWR_MGMT_1, and a callback of a notification returns. `ExitReturns` begins when
`module_b_exit` is called, and speaks of the exit whose `kthread_run` has
succeeded. `DriverLifecycle` has no fairness: that removal ends is checked
where handlers are more than an entry and a return (`EveryRemoveReturns`,
`UnloadEnds`, `ExitReturns`). Of the notifier chain no liveness
is claimed: whether a writer gets the kernel's semaphore is up to the kernel.

## 4. What is proved

Every invariant of the runs, and both refinements, for every value of the
constants. Seven of the eight proof modules extend an MC module, or the
module it checks, so that the theorems name the very formulas of the `.cfg`
files; they add no assumption to the named ones that TLC evaluates. What a
theorem needs beyond these is a hypothesis in its statement:

| Theorem | States | Hypothesis |
|---|---|---|
| `TypeCorrect`, `MutualExclusion` | types of the ring; one thread in the locked code | |
| `PopNeverFindsRingEmpty`, `WakeupNeverLost`, `RingImplementsFifo` | `PopFindsPacket`, `NoLostWakeup`, `ImplementsFifo` | one consumer |
| `RingTypes`, `ConsumerPrintsScript` | `RingTypeOK`, `PrintsScript` | |
| `SharedRingIsFifo` | `SharedImplementsFifo` | |
| `DeviceTypes`, `NobodyOversleeps`, `PollersAreTold`, `NoStudentLost` | `DeviceTypeOK`, `NoLostWakeup`, `NoPollerForgotten`, `NodesAccounted` | |
| `NoMessageTwice` | `ReadsReturnWrites` of lesson 7 | one reader, which returns on a signal |
| `CopiesStayInside`, `ReadsSpellAndWalk` | `StaysInBuffer`, `ReadsAreExact` | no device of style "bare" |
| `ButtonTypes`, `NothingOutlivesTheDriver` | `ButtonTypeOK`; 11 to 13, 16 and 18 use nothing that is freed | |
| `NothingAfterFree`, `BottomHalves` | `NoUseAfterFree`, `AllImplementHalf` | no press during remove (`LateIrq = FALSE`) |
| `CallbackTypes`, `CallbacksAreLoaded`, `NotificationsReachAll` | `CallbackTypeOK`, `CursorIsAlive`, `NotifyReachesAll` | |
| `WhatIsRegisteredMayBeCalled`, `EventsAndBroadcastsReachAll` | `RegistersAreSound`, `EventsReachAll` | |
| `HardwareTypes`, `ChipState` | `HardwareTypeOK`, `ChipIsAsReported` | |
| `DmaOnMappedMemory`, `SuccessfulWrites`, `ReadsAfterWrites` | `DeviceOwnsMapped`, `WriteIsCopied`, `ReadsReturnWrites` | one writer |
| `DriverTypes`, `EverythingIsReleased`, `NothingIsReleasedTwice`, `ReleasedInOrder`, `HandlersHaveWhatTheyUse` | the invariants of `drivers` | the rows keep `KeepsRules` |

The hypotheses are those of the passing runs, and none is there for convenience:
without it the property is false, as a run with the expected violation
(`ring_two_consumers`, `workqueue_late_irq`, `dma_two_writers`) or section 6
shows. Where a run has two consumers, two writers of the DMA device or a late
interrupt, it is the code that breaks. Four properties name in their own words what
the code does not keep: `ExitReturns` leaves out the exit after a failed
`kthread_run`; `StaysInBuffer` a read during which the content was made to end before
its offset (`cut`); `TableIsSound` and `BroadcastReachesAll` the clients that added an
entry at the same time (`raced`), which `netlink_overlap` shows to be lost;
`NoOtherBadRelease` what lessons 4-3 and 14 release wrongly (`Wrong`).

**Why the properties are not inductive, and what is added.**

*The ring (27d).* `SafeInv` adds to `TypeOK` that the lock is held by exactly the
thread in the locked code (`LockHolder`), that between the two halves of a locked
part the packet is where the next half expects it (`Halfway`), and that what a
slot holds has been truncated (`Clipped`). `PopFindsPacket` is about a condition
that was read without the lock: it is kept because producers only add packets and
no other consumer removes one (`PopInv`). `RefineStep` maps a step of the code to a
step of the queue: a push takes effect when it advances head or finds the ring full, a
pop when it advances tail, everything else stutters. `RingIndexProofs` has the
arithmetic: `Succ` stays in range, advancing head adds one packet to
`Contents` at the end, advancing tail removes the one at the front.

*Module B and lesson 27c.* The script fits into the ring, so head is the number of
packets pushed and tail the number taken out (`InitProgress`, `Delivered`);
after the stop nothing of that is left but that one more message is printed at most
(`LastCall`). The unlocked ring needs no more than the lemmas of `RingIndexProofs`,
and that between test and use of an index only its owner moves it.

*Devices that are read.* A sleeping reader of lesson 7 is woken because `ReadInv`
keeps every writer that has announced a message on its way to the wake-up.
`CountInv` counts: the reads that returned and the message announced are never
more than the writes. The list of lesson 23 (`StudentInv`) has distinct nodes,
each allocated node is in it or in one hand (`Accounted`), and what a walk has
formatted is what stands before its cursor (`Snapshot`), which the mutex keeps. For
the kept buffers, `ContentInv` says how far the cells spell the text that was stored
last, and `ViewInv` that a reader whom no writer disturbed has a prefix of it. In
`StaysInBuffer` the writer between the steps of a read is the difficulty: it
may change where the data ends, not beyond the buffer but before the offset, where
the difference wraps; once a read has found the offset inside and nobody has moved the
end before it, what is left is between the two (`cut`). `NoPollerForgotten` is
inductive with the types: a process goes to sleep only when it has found the flag
clear, and is on the queue before it looks.

*Interrupts and handlers.* One invariant per lesson follows the driver through its
phases, e.g. `WorkLife`: memory is allocated from probe until the driver core frees it,
the interrupt is on no longer than that, and while `cancel_work_sync` waits the
work is pending but not queued. With `LateIrq = FALSE`, `WorkCancelled` adds
that nothing is queued or runs after the cancelling. Each refinement of
`BottomHalf` is a lemma per driver that maps its steps one by one.

*Registered clients.* A notification has called a prefix of the list and its cursor
stands behind it (`Progress`), and who is in the list is loaded (`InList`); the same
for the chain (`Reached`), whose order `Descending` is kept by insertion before the
first block of lower priority. In the table of lesson 25b, what a client that is not in `raced` has
written stays, because every index that somebody else still carries to a store of an
entry or of the length lies behind it (`Settled`, `Home`). A broadcast has reached or excused everybody up to
its loop variable (`Reaching`), and whom it owes a message is in the table at an entry
that it has yet to come to. In lesson 25c a program that listens has the number under which the
family is registered, as long as it was not unregistered since (`GroupInv`).

*Hardware.* With one writer, a transfer or a callback that is under way belongs to
the write that waits for it, and `dma_done` is 0 until it ends (`Transfer`): that is
why `reinit_completion` after a timeout is enough; and what is mapped follows from
where its write is, so that both buffers are unmapped once on every path. `CacheInv` says in which phases the
cache is known to agree with the chip. `SensorInv` counts the edges that are
outstanding against the runs that found nothing.

*Loading and unloading.* In init what is held lies between `Must` and `May` of the
call it has come to, and nothing in `May` has been released; along a label or exit
it is what the list has left, and of what the list may release only that was released
before which the list has released itself (`Along`); in the driver core it is managed. `Rests` says that what something is made on top of, or
what its handler uses, is held and was acquired before it: this is what makes the
driver core, which knows only the order of acquisition, release in the right order.
`GateInv` says that a handler runs only behind a gate that is held, and behind a
file only while the module is loaded. The theorems hold for every table whose rows
keep the rules. `KeepsRules` names the rows that break a rule; these are
the rows for which TLC finds the property violated, so that the rules do not ask more
of these lessons than the properties do.

**What stays with TLC.** Liveness under fairness (`TailMoves`, `AllPrinted`,
`ExitReturns`, `WaitsEnd`, `EveryPressAnswered`, `EveryRemoveReturns`, `UnloadEnds`,
`CallsReturn`) is out of reach of the provers, which do not handle ENABLED. That the
rows of `DriverTable` keep the rules is a computation with strings, which TLC does in
every run of `drivers`.

## 5. What is left out

- The contents of messages beyond what a property compares; printing; sizes.
- Weak memory: steps are sequentially consistent, and stores are seen in the order of
  the source. The wait queue and the locks
  have the barriers that the code relies on; the unlocked flags of lessons 7 to
  10 and 14 have races that show without reordering. The ring of lesson 27c
  has no barrier: that it is a FIFO queue holds in the order in which the source
  makes its accesses, which neither the compiler nor the processor is bound to.
- `CharBuffers` copies in one step. A copy that is split would show mixtures of two
  messages, which no property speaks of. Its style "bare", lessons 4-1 and 4-2,
  is not in the run because these lessons break both properties.
- What happens after a write behind the array of lesson 25b, or after the copy behind
  the buffer that `StaysInBuffer` leaves out: the first ends the behaviour
  (`Undefined`), of the second the model keeps its length and offset.
- How the first message of a client races with that of another one is part of
  `NetlinkClients`; lesson 25a has the same table and no broadcast.
- `DriverLifecycle` takes a device that has a node to be opened through the
  node, not through a node somebody made by hand for the same number. Unbinding
  a driver through sysfs is not an action; lesson 20 frees its buffer under an
  open file when it is unbound.
- Handlers are one action to enter and one to leave in `DriverLifecycle`; what
  they do is in the lesson's own module, if it has one.
- Lessons 6, 24, 27a and 27b keep single values that anybody may change without
  a lock, and nothing in their code relies on what they hold: a property of them
  could only repeat an assignment. The same goes for the page that lesson 22
  shares, and for the debounce of lesson 15, one comparison of jiffies. Their
  loading and unloading is modelled (that of 27a has nothing to acquire).
- Lessons 1 and 2, the examples of lessons 12 and 13 whose `module_init` is
  commented out, the user-space programs (except those of lessons 8 and 25c) and
  the build files.

## 6. What the models found

- 27d A:65, with two consumers: `ring_pop` takes from an empty ring. The module is
  called "Threadsafe ring buffer".
- 17:125 cancels the work before the interrupt is freed; "To guarantee no queued
  or running work continues".
- 25b:34 has no lock: of two first messages that are handled at once one takes the entry
  of the other, and a broadcast is not sent to a client that was registered;
  "Iterating an unlocked list risks touching freed entries. Take the list lock"
  (`netlink_kernel_broadcast.md`:95).
- 27e A:59 calls a client that is unloaded; callbacks are unregistered "To prevent
  stale function pointers".
- 21a:157 mixes up the data of two writers.

Each of these has a run. Others show in the models without a run of their own:

- 9:108 wakes every process that polls, since none is an exclusive waiter
  (`Woken`); the document says that it wakes "AT MOST 1 waiter". Nobody is the worse
  for it: `NoPollerForgotten` would break otherwise.
- 27d B:48: after a failed `kthread_run` `consumer` is an error pointer and not
  NULL; `module_b_exit` passes it to `kthread_stop` and does not return
  (`ExitCall`, `KthreadStopErrPtr`).
- 5:90-94 and 20:122-126 look at the size up to three times without a lock. A shorter
  write in between makes `size - off` wrap, `len` is not cut, and the copy begins behind
  the new end and may run behind the buffer (`StaysInBuffer` without `cut` fails).
  If the size grows between the second and the third look, read returns more than
  it was asked for. 21a:175-179 is written the same way; `DmaMem2Mem` takes that
  read as one step.
- `PopFindsPacket` as an invariant of `client` fails: `kthread_stop` interrupts the
  wait in `ring_pop`, which does not look at the result (27d A:65).
- `ReadsReturnWrites` of `BlockingRead` fails with `ReturnsOnSignal = FALSE`: 10:40
  goes on after a signal, and the document says read should return.
- 7:97 forgets a write that falls between the copy and the clearing of the flag:
  `ReadCopy`, `WriteAnnounce`, `ReadClear`.
- 8:72 returns a message twice, though "the others wake, find nothing available":
  two processes take `ReadCheck` before one takes `ReadClear`.
- 14:81 does not look at the result of the wait either: a signal is reported as a
  press. `ButtonEvent` allows this (`false_report`) and checks that nothing else is.
- 4-1:43 and 4-2 leave no room for a NUL, measure with `strlen` and ignore the
  offset: with style "bare", `StaysInBuffer` and `ReadsSpellContent` fail.
- 23:74 prints a node after the lock is released; `WritePrint` may find it freed.
- 25b:34 can also write behind the array: two clients pass the limit of the last entry
  (`RegisterBehind`). 25b:28: nobody leaves the table, so processes that have ended
  fill it for ever.
- 25c:189 multicasts its one message inside init, just after the group exists; a
  program can join in between only by resolving the family in that moment, although
  the document (`netlink_kernel_multicast.md`:94-106) shows clients that receive it. The
  user program also leaves libnl's sequence check on, which refuses a multicast.
  A program whose group is unregistered waits on, for nothing or for whoever gets
  the number.
- 26f:44 does not look at the result of `regmap_read`; if it fails, `status` is
  what was on the stack. Two runs in a row may find nothing. Neither remove nor a
  failing probe disables the interrupt in the chip.
- 26g verifies its write of PWR_MGMT_1 by a read that the cache serves: the
  chip is not asked (`VerifyPwr`).
- 27e A:31 lets the slot be taken twice (`RegisterTest`, `RegisterTest`,
  `RegisterStore`, `RegisterStore`), though "try to register 2nd time it will fail".
- 21a:181 returns zeros during a later write, or after one that failed.
- 15 debounces with one static `last_jiffies`: a press of one device hides that of
  another, although the document shows two buttons (15 md:239-240).

Drivers that break a property of the table no document speaks of are named in
that property or in the constant `Failing`:

- 4-3:171 returns `PTR_ERR(my_device[-1])` after a failed device, since the loop
  above it has left i at -1. If that reads as success the module stays, and its
  exit releases everything again (`NoOtherBadRelease`). Its first device can also be
  open when a later one fails (`HandlersAreBacked`).
- 10:107 sets up the wait queue after the node exists (`HandlersAreBacked`).
- 14:188 unregisters major 240 also when registering it failed, whoever owns it
  (`NoOtherBadRelease`).
- 25, 25a, 25b can reply before `nl_sock` is assigned (`HandlersAreBacked`).
- 5, 7, 8, 9 look at no result of init and are right only if no call fails.

## 7. Plan

Written: the modules above, in the order ring, client, blocking devices,
interrupts, callbacks, DMA, loading; then the unlocked ring, the kept buffers, the
list, the netlink table, the notifier chain, the stop flags, the other interrupts,
the registers and the multicast group. What section 5 leaves out has no state whose
properties would say more than its code.

Proved: everything that section 4 lists, in the order ring, client and unlocked
ring, interrupts, hardware, registered clients, devices that are read, loading and
unloading.

What is left would strengthen single theorems:

1. The read of lessons 5 and 20 that is cut off: how far behind the buffer its copy
   can run.
2. `CursorIsAlive` for a list under a finer mutex: registration and
   unregistration are one step each, because they change the list while they hold it.
3. The exceptions among the rows one by one: what lesson 4-3 does keep if its wrong
   error is read as an error, and what lesson 10 keeps before the first open.
