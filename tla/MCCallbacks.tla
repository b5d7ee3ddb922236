----------------------------- MODULE MCCallbacks -----------------------------
(***************************************************************************)
(* The servers of registered clients for TLC.  One of them is loaded: the  *)
(* list of lesson 27f with three clients, so that a notification can stand *)
(* between two others, the slot of lesson 27e with two, the notifier chain *)
(* of lesson 27g, with a third block of B's priority, the netlink server   *)
(* of lesson 25b, or the multicast group of lesson 25c.  The others stay   *)
(* as they are initially.                                                  *)
(***************************************************************************)
EXTENDS CallbackList

CONSTANTS
    SlotClients, Null, Events,                      \* as in CallbackSlot
    Blocks, ModuleC, EventCount, LastBlock,         \* as in NotifierChain
    Pids, Broadcasters, NoPid,                      \* as in NetlinkClients
    MAX_CLIENTS,
    Listeners, GroupIds, NoGroup, SockBuf           \* as in MulticastGroup

VARIABLES
    framework,   \* the one that is loaded
    callback, loadedE, pcE, tested, left, bad_call,
    my_chain, pcG, event, nb, heard,
    clients, total_clients, bound, pcNet, request, i, known, raced,
    owed, sent, excused,
    family, events, members, at, group_id, queued, current

Slot == INSTANCE CallbackSlot WITH
    Clients <- SlotClients, loaded <- loadedE, pc <- pcE
Chain == INSTANCE NotifierChain WITH
    Priority <- [b \in Blocks |-> IF b = ModuleC THEN 20 ELSE 10],
    Senders <- {ModuleC}, pc <- pcG
Net == INSTANCE NetlinkClients WITH Clients <- Pids, pc <- pcNet
Group == INSTANCE MulticastGroup

ASSUME ServersAssumption ==
    /\ Slot!SlotAssumption /\ Chain!ChainAssumption /\ Net!TableAssumption
    /\ Group!GroupAssumption

varsE == <<callback, loadedE, pcE, tested, left, bad_call>>
varsG == <<my_chain, pcG, event, nb, heard>>
varsNet == <<clients, total_clients, bound, pcNet, request, i, known, raced,
             owed, sent, excused>>
varsM == <<family, events, members, at, group_id, queued, current>>

CallbackInit ==
    /\ framework \in {"27e", "27f", "27g", "25b", "25c"}
    /\ Init /\ Slot!Init /\ Chain!Init /\ Net!Init /\ Group!Init

CallbackNext ==
    \/ framework = "27f" /\ Next /\ UNCHANGED <<framework, varsE, varsG, varsNet, varsM>>
    \/ framework = "27e" /\ Slot!Next /\ UNCHANGED <<framework, vars, varsG, varsNet, varsM>>
    \/ framework = "27g" /\ Chain!Next /\ UNCHANGED <<framework, vars, varsE, varsNet, varsM>>
    \/ framework = "25b" /\ Net!Next /\ UNCHANGED <<framework, vars, varsE, varsG, varsM>>
    \/ framework = "25c" /\ Group!Next /\ UNCHANGED <<framework, vars, varsE, varsG, varsNet>>

CallbackSpec ==
    /\ CallbackInit
    /\ [][CallbackNext]_<<framework, vars, varsE, varsG, varsNet, varsM>>
    /\ framework = "27f" => Fairness
-----------------------------------------------------------------------------
\* Type invariants of the frameworks.
CallbackTypeOK ==
    TypeOK /\ Slot!TypeOK /\ Chain!TypeOK /\ Net!TypeOK /\ Group!TypeOK

\* What is registered may be called: the slot never holds a module whose code
\* is gone (Callback_Registration_Module-B.c:30-33), a client that registered
\* while no other one did is in the netlink table once and for good
\* (netlink_kernel_broadcast.c:18-37), and who waits for multicasts is in the
\* group (netlink_user_multicast_libnl.c:96-170).
RegistersAreSound ==
    Slot!SlotIsLoaded /\ Net!TableIsSound /\ Group!ListenersAreMembers

\* An event of the chain is called in the order of priorities, and a broadcast
\* reaches every client that it can reach and that registered while no other
\* one did.
EventsReachAll == Chain!CallsByPriority /\ Net!BroadcastReachesAll
=============================================================================
