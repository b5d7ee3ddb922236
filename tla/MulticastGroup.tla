--------------------------- MODULE MulticastGroup ---------------------------
(***************************************************************************)
(* The multicast group of lesson 25c and the processes that run its user   *)
(* program.  The module registers its family and multicasts one message,   *)
(* both in its init; the program resolves the group and joins it by its    *)
(* number, without looking at the result.                                  *)
(*                                                                         *)
(* The family and its group are the kernel's: registering gives the group  *)
(* a number that is free, a process may join any number, unregistering     *)
(* takes everybody out of the group, and a multicast is dropped at a       *)
(* socket that is full.  Other families come and go, so that a number may  *)
(* change from one load to the next.                                       *)
(***************************************************************************)
EXTENDS Naturals

CONSTANTS
    Listeners,   \* processes that run netlink_user_multicast_libnl
    GroupIds,    \* numbers of groups
    NoGroup,
    SockBuf      \* messages that fit the receive buffer of a socket

GroupAssumption == NoGroup \notin GroupIds /\ SockBuf \in Nat

VARIABLES
    family,      \* of the module: "out", "send" (registered), "in"
    events,      \* the number of the group, NoGroup when it is not registered
    members,     \* members[g]: the processes that have joined number g
    at,          \* at[p]: where p is in the program
    group_id,    \* group_id[p]: the local variable group_id
    queued,      \* queued[p]: the messages in p's socket
    current      \* history, current[p]: not unregistered since p resolved it

groupVars == <<family, events, members, at, group_id, queued, current>>

Init ==
    /\ family = "out"
    /\ events = NoGroup
    /\ members = [g \in GroupIds |-> {}]
    /\ at = [p \in Listeners |-> "out"]
    /\ group_id = [p \in Listeners |-> NoGroup]
    /\ queued = [p \in Listeners |-> 0]
    /\ current = [p \in Listeners |-> FALSE]

(***************************************************************************)
(* The module                                                              *)
(***************************************************************************)
RegisterFamily ==
    /\ family = "out"
    /\ family' = "send"
    /\ events' \in GroupIds
    /\ UNCHANGED <<members, at, group_id, queued, current>>

\* send_multicast_message; genlmsg_new and genlmsg_put may fail.
SendMulticast ==
    /\ family = "send"
    /\ family' = "in"
    /\ queued' \in {queued,
           [p \in Listeners |-> IF p \in members[events] /\ queued[p] < SockBuf
                                THEN queued[p] + 1 ELSE queued[p]]}
    /\ UNCHANGED <<events, members, at, group_id, current>>

UnregisterFamily ==
    /\ family = "in"
    /\ family' = "out"
    /\ events' = NoGroup
    /\ members' = [members EXCEPT ![events] = {}]
    /\ current' = [p \in Listeners |-> FALSE]
    /\ UNCHANGED <<at, group_id, queued>>

(***************************************************************************)
(* The program                                                             *)
(***************************************************************************)
Step(p, from, to) == at[p] = from /\ at' = [at EXCEPT ![p] = to]

\* nl_socket_alloc and genl_connect; if they fail the program ends.
ConnectSocket(p) ==
    /\ Step(p, "out", "connected")
    /\ UNCHANGED <<family, events, members, group_id, queued, current>>

ResolveFamily(p) ==
    /\ events # NoGroup
    /\ Step(p, "connected", "resolved")
    /\ UNCHANGED <<family, events, members, group_id, queued, current>>

ResolveGroup(p) ==
    /\ events # NoGroup
    /\ Step(p, "resolved", "join")
    /\ group_id' = [group_id EXCEPT ![p] = events]
    /\ current' = [current EXCEPT ![p] = TRUE]
    /\ UNCHANGED <<family, events, members, queued>>

\* The family is not found; the program ends.
NotFound(p) ==
    /\ events = NoGroup
    /\ Step(p, "connected", "out") \/ Step(p, "resolved", "out")
    /\ UNCHANGED <<family, events, members, group_id, queued, current>>

AddMembership(p) ==
    /\ Step(p, "join", "joined")
    /\ members' = [members EXCEPT ![group_id[p]] = @ \cup {p}]
    /\ UNCHANGED <<family, events, group_id, queued, current>>

\* nl_socket_modify_cb, and the loop.
SetCallback(p) ==
    /\ Step(p, "joined", "listen")
    /\ UNCHANGED <<family, events, members, group_id, queued, current>>

\* nl_recvmsgs_default takes one message; libnl gives it to rx_callback, or
\* refuses it, as the sequence number of a multicast is not what it expects.
ReceiveMessage(p) ==
    /\ at[p] = "listen"
    /\ queued[p] > 0
    /\ queued' = [queued EXCEPT ![p] = @ - 1]
    /\ UNCHANGED <<family, events, members, at, group_id, current>>

\* The program is killed; its socket is closed.
KillProgram(p) ==
    /\ at[p] # "out"
    /\ at' = [at EXCEPT ![p] = "out"]
    /\ members' = [g \in GroupIds |-> members[g] \ {p}]
    /\ group_id' = [group_id EXCEPT ![p] = NoGroup]
    /\ queued' = [queued EXCEPT ![p] = 0]
    /\ current' = [current EXCEPT ![p] = FALSE]
    /\ UNCHANGED <<family, events>>

Next ==
    \/ RegisterFamily \/ SendMulticast \/ UnregisterFamily
    \/ \E p \in Listeners :
        \/ ConnectSocket(p) \/ ResolveFamily(p) \/ ResolveGroup(p) \/ NotFound(p)
        \/ AddMembership(p) \/ SetCallback(p) \/ ReceiveMessage(p) \/ KillProgram(p)

Spec == Init /\ [][Next]_groupVars
-----------------------------------------------------------------------------
\* Type invariant.
TypeOK ==
    /\ family \in {"out", "send", "in"}
    /\ events \in GroupIds \cup {NoGroup}
    /\ members \in [GroupIds -> SUBSET Listeners]
    /\ at \in [Listeners -> {"out", "connected", "resolved", "join", "joined",
                              "listen"}]
    /\ group_id \in [Listeners -> GroupIds \cup {NoGroup}]
    /\ queued \in [Listeners -> 0 .. SockBuf]
    /\ current \in [Listeners -> BOOLEAN]

\* A program that waits for messages has joined the group of the family that
\* is registered, unless the module was unloaded after it resolved the group:
\* then it waits for nothing, or for whoever gets the number.  Nobody else is
\* in a group, and only who has joined has a message
\* (netlink_user_multicast_libnl.c:96-170).
ListenersAreMembers ==
    \A p \in Listeners :
        /\ at[p] \in {"joined", "listen"} /\ current[p] =>
               events # NoGroup /\ p \in members[events]
        /\ \A g \in GroupIds : p \in members[g] =>
               at[p] \in {"joined", "listen"} /\ group_id[p] = g
        /\ queued[p] > 0 => at[p] \in {"joined", "listen"}
=============================================================================
