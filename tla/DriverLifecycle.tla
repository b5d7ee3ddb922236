-------------------------- MODULE DriverLifecycle --------------------------
(***************************************************************************)
(* Loading and unloading a driver of a table.  init acquires its resources *)
(* one by one; a call that fails goes to a label that releases what was    *)
(* acquired; exit releases the rest, and the driver core what is managed.  *)
(* Meanwhile handlers run: file operations, interrupts, timers, work.      *)
(*                                                                         *)
(* A handler is reached through a gate, a resource that is held.  An open  *)
(* file pins the module, so exit does not begin before it is closed; the   *)
(* release of any other gate lets nobody in and waits for its handler      *)
(* (free_irq, flush_work, kthread_stop, del_timer_sync, ...).              *)
(***************************************************************************)
EXTENDS Naturals, Sequences, SequencesExt, FiniteSets

CONSTANTS
    Table,     \* Table[d]: the row of driver d, see DriverTable
    Pinning,   \* the gates whose users pin the module
    Basis,     \* Basis[r]: what r is made on top of, if the driver has it
    Optional,  \* what may be released as long as it was never acquired
    Marks,     \* variables that init assigns, nothing to release
    Failing    \* the drivers with calls of init that may fail

Acquired(d) == {Table[d].init[i].what : i \in 1 .. Len(Table[d].init)}

\* A gate is something that init acquires.
ASSUME LifecycleAssumption ==
    /\ Failing \subseteq DOMAIN Table
    /\ \A d \in DOMAIN Table : DOMAIN Table[d].calls \subseteq Acquired(d)

VARIABLES
    driver,    \* the driver that is loaded, or was last
    phase,     \* "out", "init", "unwind", "astray", "live", "exit", "core"
    at,        \* the step of init
    held,      \* what is acquired, in this order
    todo,      \* what the label or exit has left to release
    running,   \* the gates through which a handler was entered
    freed,     \* history: what was held and is released
    bad        \* history: what was released without being held

vars == <<driver, phase, at, held, todo, running, freed, bad>>

Calls == Table[driver].calls
Managed == Table[driver].managed
Steps == Table[driver].init
Holds(r) == Contains(held, r)

\* A release of what is not held takes nothing out.
Free(r) ==
    /\ held' = RemoveFirst(held, r)
    /\ freed' = freed \cup ({r} \cap ToSet(held))

Init ==
    /\ driver \in DOMAIN Table
    /\ phase = "out"
    /\ at = 1
    /\ held = <<>>
    /\ todo = <<>>
    /\ running = {}
    /\ freed = {}
    /\ bad = {}

(***************************************************************************)
(* init, or probe                                                          *)
(***************************************************************************)
\* One driver at a time, with the handlers of the one before it gone.
Load(d) ==
    /\ phase = "out"
    /\ running = {}
    /\ driver' = d
    /\ phase' = "init"
    /\ at' = 1
    /\ held' = <<>>
    /\ freed' = {}
    /\ bad' = {}
    /\ UNCHANGED <<todo, running>>

InStep(ops) ==
    /\ phase = "init"
    /\ at <= Len(Steps)
    /\ Steps[at].op \in ops

\* A call that acquires.
Acquire ==
    /\ InStep({"get", "oops", "try", "sure"})
    /\ held' = Append(held, Steps[at].what)
    /\ freed' = freed \ {Steps[at].what}
    /\ at' = at + 1
    /\ UNCHANGED <<driver, phase, todo, running, bad>>

\* A call that fails and is not looked at; its pointer is NULL.
Ignore ==
    /\ InStep({"try"})
    /\ driver \in Failing
    /\ freed' = freed \ {Steps[at].what}
    /\ at' = at + 1
    /\ UNCHANGED <<driver, phase, held, todo, running, bad>>

\* A call or a check that succeeds and acquires nothing.
Check ==
    /\ InStep({"need", "probe"})
    /\ Steps[at].op = "need" => Holds(Steps[at].what)
    /\ at' = at + 1
    /\ UNCHANGED <<driver, phase, held, todo, running, freed, bad>>

\* A call or a check that fails: goto the label.
Fail ==
    /\ \/ InStep({"get", "oops", "probe"}) /\ driver \in Failing
       \/ InStep({"need"}) /\ ~ Holds(Steps[at].what)
    /\ phase' = IF Steps[at].op = "oops" THEN "astray" ELSE "unwind"
    /\ todo' = Steps[at].back
    /\ UNCHANGED <<driver, at, held, running, freed, bad>>

\* init releases what only it needed.
Drop ==
    /\ InStep({"put"})
    /\ Free(Steps[at].what)
    /\ at' = at + 1
    /\ UNCHANGED <<driver, phase, todo, running, bad>>

InitReturn ==
    /\ phase = "init"
    /\ at > Len(Steps)
    /\ phase' = "live"
    /\ UNCHANGED <<driver, at, held, todo, running, freed, bad>>

(***************************************************************************)
(* The labels of init, and exit                                            *)
(***************************************************************************)
Exit ==
    /\ phase = "live"
    /\ running \cap Pinning = {}
    /\ phase' = "exit"
    /\ todo' = Table[driver].exit
    /\ UNCHANGED <<driver, at, held, running, freed, bad>>

\* kfree(NULL) and device_destroy of a device that was never created do
\* nothing; what was released before is not released again, and a pointer that
\* is set to NULL in between makes no difference here.
Harmless(r) == r \in Optional \ freed

\* Releasing a gate waits for its handler, unless it is a file.
Release ==
    /\ phase \in {"unwind", "astray", "exit"}
    /\ todo # <<>>
    /\ Head(todo) \in running => Head(todo) \in Pinning
    /\ Free(Head(todo))
    /\ bad' = IF Holds(Head(todo)) \/ Harmless(Head(todo)) THEN bad ELSE bad \cup {Head(todo)}
    /\ todo' = Tail(todo)
    /\ UNCHANGED <<driver, phase, at, running>>

\* What init returns after a wrong read may be an error or not.
Return ==
    /\ phase \in {"unwind", "astray", "exit"}
    /\ todo = <<>>
    /\ \/ phase' = "core"
       \/ phase = "astray" /\ phase' = "live"
    /\ UNCHANGED <<driver, at, held, todo, running, freed, bad>>

(***************************************************************************)
(* The driver core: devres_release_all, what was managed last first        *)
(***************************************************************************)
LastManaged ==
    {held[k] : k \in {k \in 1 .. Len(held) :
                         /\ held[k] \in Managed
                         /\ \A j \in k + 1 .. Len(held) : held[j] \notin Managed}}

CoreRelease ==
    /\ phase = "core"
    /\ \E r \in LastManaged \ running : Free(r)
    /\ UNCHANGED <<driver, phase, at, todo, running, bad>>

Unloaded ==
    /\ phase = "core"
    /\ \A r \in Managed : ~ Holds(r)
    /\ phase' = "out"
    /\ UNCHANGED <<driver, at, held, todo, running, freed, bad>>

(***************************************************************************)
(* Handlers                                                                *)
(***************************************************************************)
\* The gate that is being closed: a release in progress.
Closing ==
    CASE phase \in {"unwind", "astray", "exit"} /\ todo # <<>> -> {Head(todo)}
      [] phase = "core" -> LastManaged
      [] OTHER -> {}

\* Once exit has begun the module cannot be pinned.
Enter(g) ==
    /\ Holds(g)
    /\ g \notin running \cup Closing
    /\ g \in Pinning => phase \in {"init", "unwind", "astray", "live"}
    /\ running' = running \cup {g}
    /\ UNCHANGED <<driver, phase, at, held, todo, freed, bad>>

Leave(g) ==
    /\ running' = running \ {g}
    /\ UNCHANGED <<driver, phase, at, held, todo, freed, bad>>

InitStep == Acquire \/ Ignore \/ Check \/ Fail \/ Drop \/ InitReturn

ExitStep == Release \/ Return \/ CoreRelease \/ Unloaded

Next ==
    \/ \E d \in DOMAIN Table : Load(d)
    \/ InitStep
    \/ Exit
    \/ ExitStep
    \/ \E g \in DOMAIN Calls : Enter(g)
    \/ \E g \in running : Leave(g)

Spec == Init /\ [][Next]_vars
-----------------------------------------------------------------------------
\* Type invariant; nothing is held twice, and exit has begun or not.
TypeOK ==
    /\ driver \in DOMAIN Table
    /\ phase \in {"out", "init", "unwind", "astray", "live", "exit", "core"}
    /\ at \in 1 .. Len(Steps) + 1
    /\ ToSet(held) \subseteq Acquired(driver)
    /\ Len(held) = Cardinality(ToSet(held))
    /\ todo # <<>> => phase \in {"unwind", "astray", "exit"}
    /\ running \subseteq DOMAIN Calls
    /\ freed \subseteq Acquired(driver) \ ToSet(held)
    /\ bad \subseteq ToSet(Table[driver].exit) \cup Acquired(driver)

\* A driver that failed to load, or was unloaded, has released everything
\* (the goto ladders and exit functions, e.g. mmap_kernelspace.c:159-184,
\* 21b dma_mem2mem.c:184-207, coherent_DMA.c:225-268).
NothingLeaks == phase = "out" => ToSet(held) \subseteq Marks

\* What something is made on top of outlives it: a device its class, a cdev
\* its numbers, a mapping its buffer, an interrupt its pin
\* (char_cdev-2.c:178-185: "Destroying lower layer first leaves dangling
\* references").
OrderedRelease ==
    \A r \in ToSet(held) \cap DOMAIN Basis :
        \A b \in Basis[r] \cap Acquired(driver) : Holds(b)

\* A handler runs only while the module is loaded and what it uses is held,
\* whatever init or exit does at the same time.
HandlersAreBacked ==
    \A g \in running :
        /\ phase # "out"
        /\ \A r \in Calls[g] : Holds(r)
=============================================================================
