---------------------------- MODULE CallbackList ----------------------------
(***************************************************************************)
(* Module A of lesson 27f: a list of callbacks under a mutex.  The clients *)
(* are modules B and C, which register on load and unregister on unload;   *)
(* the notifiers are threads that load module D, which notifies.           *)
(*                                                                         *)
(* Registering and unregistering hold the mutex for one change of the      *)
(* list and are one step; a notification holds it from the first callback  *)
(* to the last, and the callbacks run one by one.                          *)
(***************************************************************************)
EXTENDS Naturals, Sequences, SequencesExt

CONSTANTS
    Clients,     \* modules with a callback
    Notifiers,   \* threads that call notify_event
    Free, End    \* no owner of the mutex; past the last node

ASSUME CallbackAssumption ==
    /\ Clients \cap Notifiers = {}
    /\ Free \notin Notifiers
    /\ End \notin Clients

VARIABLES
    callback_list,   \* the registered clients, in list order
    callback_lock,   \* the notifier that holds the mutex, or Free
    loaded,          \* the clients whose code is in memory
    pc,
    cursor,          \* cursor[n]: the node n's loop stands on
    called           \* history, called[n]: whom n's notification called

vars == <<callback_list, callback_lock, loaded, pc, cursor, called>>

Init ==
    /\ callback_list = <<>>
    /\ callback_lock = Free
    /\ loaded = {}
    /\ pc = [t \in Clients \cup Notifiers |-> "out"]
    /\ cursor = [n \in Notifiers |-> End]
    /\ called = [n \in Notifiers |-> <<>>]

Goto(t, step) == pc' = [pc EXCEPT ![t] = step]

\* The node after c; a node that is not in the list leads nowhere.
After(list, c) ==
    IF \E i \in 1 .. Len(list) - 1 : list[i] = c
    THEN list[1 + CHOOSE i \in 1 .. Len(list) - 1 : list[i] = c]
    ELSE End

(***************************************************************************)
(* A client module: init and exit                                          *)
(***************************************************************************)
\* register_event_callback: the kmalloc before the mutex may fail, and the
\* modules do not look at the result.
Load(c) ==
    /\ pc[c] = "out"
    /\ loaded' = loaded \cup {c}
    /\ Goto(c, "register") \/ Goto(c, "in")
    /\ UNCHANGED <<callback_list, callback_lock, cursor, called>>

\* Mutant: the mutex is not taken.
RegisterUnlocked(c) ==
    /\ pc[c] = "register"
    /\ callback_list' = Append(callback_list, c)
    /\ Goto(c, "in")
    /\ UNCHANGED <<callback_lock, loaded, cursor, called>>

Register(c) ==
    /\ pc[c] = "register"
    /\ callback_lock = Free
    /\ callback_list' = Append(callback_list, c)
    /\ Goto(c, "in")
    /\ UNCHANGED <<callback_lock, loaded, cursor, called>>

Exit(c) ==
    /\ pc[c] = "in"
    /\ Goto(c, "unregister")
    /\ UNCHANGED <<callback_list, callback_lock, loaded, cursor, called>>

\* Mutant: the mutex is not taken.
UnregisterUnlocked(c) ==
    /\ pc[c] = "unregister"
    /\ callback_list' = RemoveFirst(callback_list, c)
    /\ Goto(c, "unload")
    /\ UNCHANGED <<callback_lock, loaded, cursor, called>>

\* Mutant: the loop ends only at a node with this callback.
UnregisterFound(c) ==
    /\ pc[c] = "unregister"
    /\ callback_lock = Free
    /\ Contains(callback_list, c)
    /\ callback_list' = RemoveFirst(callback_list, c)
    /\ Goto(c, "unload")
    /\ UNCHANGED <<callback_lock, loaded, cursor, called>>

\* unregister_event_callback: delete and free the first node with this
\* callback.
Unregister(c) ==
    /\ pc[c] = "unregister"
    /\ callback_lock = Free
    /\ callback_list' = RemoveFirst(callback_list, c)
    /\ Goto(c, "unload")
    /\ UNCHANGED <<callback_lock, loaded, cursor, called>>

Unload(c) ==
    /\ pc[c] = "unload"
    /\ loaded' = loaded \ {c}
    /\ Goto(c, "out")
    /\ UNCHANGED <<callback_list, callback_lock, cursor, called>>

(***************************************************************************)
(* notify_event                                                            *)
(***************************************************************************)
NotifyLock(n) ==
    /\ pc[n] = "out"
    /\ callback_lock = Free
    /\ callback_lock' = n
    /\ cursor' = [cursor EXCEPT
           ![n] = IF callback_list = <<>> THEN End ELSE Head(callback_list)]
    /\ Goto(n, "call")
    /\ UNCHANGED <<callback_list, loaded, called>>

NotifyCall(n) ==
    /\ pc[n] = "call"
    /\ cursor[n] # End
    /\ called' = [called EXCEPT ![n] = Append(@, cursor[n])]
    /\ Goto(n, "next")
    /\ UNCHANGED <<callback_list, callback_lock, loaded, cursor>>

\* The loop reads the next pointer of the node after its callback returned.
NotifyNext(n) ==
    /\ pc[n] = "next"
    /\ cursor' = [cursor EXCEPT ![n] = After(callback_list, @)]
    /\ Goto(n, "call")
    /\ UNCHANGED <<callback_list, callback_lock, loaded, called>>

\* Mutant: a return without mutex_unlock.
NotifyUnlockNot(n) ==
    /\ pc[n] = "call"
    /\ cursor[n] = End
    /\ called' = [called EXCEPT ![n] = <<>>]
    /\ Goto(n, "out")
    /\ UNCHANGED <<callback_list, callback_lock, loaded, cursor>>

NotifyUnlock(n) ==
    /\ pc[n] = "call"
    /\ cursor[n] = End
    /\ callback_lock' = Free
    /\ called' = [called EXCEPT ![n] = <<>>]
    /\ Goto(n, "out")
    /\ UNCHANGED <<callback_list, loaded, cursor>>

ClientStep(c) == Register(c) \/ Unregister(c) \/ Unload(c)

NotifyStep(n) == NotifyCall(n) \/ NotifyNext(n) \/ NotifyUnlock(n)

Next ==
    \/ \E c \in Clients : Load(c) \/ Exit(c) \/ ClientStep(c)
    \/ \E n \in Notifiers : NotifyLock(n) \/ NotifyStep(n)

Spec == Init /\ [][Next]_vars

\* A task that waits for the mutex gets it in its turn, and callbacks return.
Fairness ==
    /\ \A c \in Clients : SF_vars(Register(c)) /\ SF_vars(Unregister(c)) /\ WF_vars(Unload(c))
    /\ \A n \in Notifiers : WF_vars(NotifyStep(n))

FairSpec == Spec /\ Fairness
-----------------------------------------------------------------------------
\* Type invariant; the mutex is held by the notifier that is in the loop.
TypeOK ==
    /\ callback_list \in Seq(Clients)
    /\ callback_lock \in Notifiers \cup {Free}
    /\ \A n \in Notifiers : callback_lock = n <=> pc[n] \in {"call", "next"}
    /\ loaded \in SUBSET Clients
    /\ pc \in [Clients \cup Notifiers ->
                  {"out", "register", "in", "unregister", "unload", "call", "next"}]
    /\ cursor \in [Notifiers -> Clients \cup {End}]
    /\ called \in [Notifiers -> Seq(Clients)]

\* A notification stands on a node that is in the list, and calls a function
\* whose module is still loaded: unregistering waits for it
\* (Multiple_Cb_Registration_Module-A.c:49-66 against :77-86).
CursorIsAlive ==
    \A n \in Notifiers :
        (pc[n] \in {"call", "next"} /\ cursor[n] # End)
            => /\ Contains(callback_list, cursor[n])
               /\ cursor[n] \in loaded

\* A notification calls every registered client, once and in order: what it
\* has called is the list up to where it stands
\* (Multiple_Cb_Registration_Module-A.c:77-86).
NotifyReachesAll ==
    \A n \in Notifiers :
        (pc[n] = "call" /\ cursor[n] = End) => called[n] = callback_list

\* Unloading a client ends: it waits for the mutex at most for the
\* notifications ahead of it.
UnloadEnds ==
    \A c \in Clients : (pc[c] = "unregister") ~> (pc[c] = "out")
=============================================================================
