---------------------------- MODULE CallbackSlot ----------------------------
(***************************************************************************)
(* Module A of lesson 27e: one callback pointer and no lock.  A client is  *)
(* a module like module B: its init registers its callback and sends three *)
(* events, its exit unregisters, and then its code is freed.               *)
(*                                                                         *)
(* notify_event tests the pointer and calls through it.  The two reads may *)
(* be one or two loads in the compiled code, so the call goes to the value *)
(* that was tested or to the value of the moment.                          *)
(***************************************************************************)
EXTENDS Naturals

CONSTANTS Clients, Null, Events

SlotAssumption == Null \notin Clients /\ Events \in Nat

VARIABLES
    callback,   \* the registered client, or Null
    loaded,     \* the clients whose code is in memory
    pc,
    tested,     \* tested[c]: what c's notify_event saw when it tested
    left,       \* left[c]: how many events c's init has still to send
    bad_call    \* a call went to Null or into a module that is not loaded

vars == <<callback, loaded, pc, tested, left, bad_call>>

Init ==
    /\ callback = Null
    /\ loaded = {}
    /\ pc = [c \in Clients |-> "out"]
    /\ tested = [c \in Clients |-> Null]
    /\ left = [c \in Clients |-> 0]
    /\ bad_call = FALSE

Goto(c, step) == pc' = [pc EXCEPT ![c] = step]

Load(c) ==
    /\ pc[c] = "out"
    /\ loaded' = loaded \cup {c}
    /\ left' = [left EXCEPT ![c] = Events]
    /\ Goto(c, "register")
    /\ UNCHANGED <<callback, tested, bad_call>>

\* register_event_callback tests the slot and then stores to it; module B
\* ignores its -EBUSY.
RegisterTest(c) ==
    /\ pc[c] = "register"
    /\ Goto(c, IF callback = Null THEN "store" ELSE "test")
    /\ UNCHANGED <<callback, loaded, tested, left, bad_call>>

RegisterStore(c) ==
    /\ pc[c] = "store"
    /\ callback' = c
    /\ Goto(c, "test")
    /\ UNCHANGED <<loaded, tested, left, bad_call>>

NotifyTest(c) ==
    /\ pc[c] = "test"
    /\ left[c] > 0
    /\ tested' = [tested EXCEPT ![c] = callback]
    /\ IF callback = Null
       THEN left' = [left EXCEPT ![c] = @ - 1] /\ UNCHANGED pc
       ELSE Goto(c, "call") /\ UNCHANGED left
    /\ UNCHANGED <<callback, loaded, bad_call>>

NotifyCall(c) ==
    /\ pc[c] = "call"
    /\ \E target \in {tested[c], callback} :
           bad_call' = (bad_call \/ target \notin loaded)
    /\ left' = [left EXCEPT ![c] = @ - 1]
    /\ Goto(c, "test")
    /\ UNCHANGED <<callback, loaded, tested>>

InitReturn(c) ==
    /\ pc[c] = "test"
    /\ left[c] = 0
    /\ Goto(c, "in")
    /\ UNCHANGED <<callback, loaded, tested, left, bad_call>>

\* Mutant: the exit function does not unregister.
ExitRegistered(c) ==
    /\ pc[c] = "in"
    /\ Goto(c, "unload")
    /\ UNCHANGED <<callback, loaded, tested, left, bad_call>>

\* unregister_event_callback
Exit(c) ==
    /\ pc[c] = "in"
    /\ callback' = Null
    /\ Goto(c, "unload")
    /\ UNCHANGED <<loaded, tested, left, bad_call>>

Unload(c) ==
    /\ pc[c] = "unload"
    /\ loaded' = loaded \ {c}
    /\ Goto(c, "out")
    /\ UNCHANGED <<callback, tested, left, bad_call>>

Next ==
    \E c \in Clients :
        \/ Load(c) \/ RegisterTest(c) \/ RegisterStore(c)
        \/ NotifyTest(c) \/ NotifyCall(c) \/ InitReturn(c)
        \/ Exit(c) \/ Unload(c)

Spec == Init /\ [][Next]_vars
-----------------------------------------------------------------------------
\* Type invariant.
TypeOK ==
    /\ callback \in Clients \cup {Null}
    /\ loaded \in SUBSET Clients
    /\ pc \in [Clients -> {"out", "register", "store", "test", "call", "in", "unload"}]
    /\ tested \in [Clients -> Clients \cup {Null}]
    /\ left \in [Clients -> 0 .. Events]
    /\ bad_call \in BOOLEAN

\* The slot never holds a module whose code is gone: every module unregisters
\* before it is unloaded (Callback_Registration_Module-B.c:30-33).
SlotIsLoaded == callback # Null => callback \in loaded

\* Modules that unregister are never called after they were unloaded.
NoBadCall == ~bad_call
=============================================================================
