--------------------------- MODULE NetlinkClients ---------------------------
(***************************************************************************)
(* The netlink servers of lessons 25, 25a and 25b.  netlink_recv_msg runs  *)
(* in the system call of the client that sends, so that several clients    *)
(* are in it at once; there is no lock.  It registers the client (25a and  *)
(* 25b) and replies, or sends to every registered client (25b).  The test  *)
(* of a loop and the read of the entry that it allows are one step; every  *)
(* other access to the table and to its length is a step of its own, and   *)
(* stores are seen in the order of the source.  A process sends its next   *)
(* message when the last one has been handled.                             *)
(*                                                                         *)
(* Two first messages that are past the test of the limit together may     *)
(* write one entry, or behind the array; raced names who was in that.      *)
(*                                                                         *)
(* A message is dropped when its receiver has closed its socket, and when  *)
(* the receive buffer is full or memory is short, which may be so at any   *)
(* time: the messages that wait in the sockets are not kept.  Nobody       *)
(* leaves the table: a process that has closed its socket stays in it, and *)
(* one with the same pid finds itself registered.                          *)
(***************************************************************************)
EXTENDS Integers, Sequences, SequencesExt

CONSTANTS
    Clients,       \* pids of processes with a netlink socket
    Broadcasters,  \* those that also send "broadcast"
    NoPid,         \* the content of an unused entry
    MAX_CLIENTS

TableAssumption ==
    /\ NoPid \notin Clients
    /\ Broadcasters \subseteq Clients
    /\ MAX_CLIENTS \in Nat

VARIABLES
    clients, total_clients,
    bound,         \* the clients whose socket is open
    pc,            \* pc[c]: where netlink_recv_msg is with a message of c
    request,       \* request[c]: "hello" or "broadcast"
    i,             \* i[c]: the local variable i of a loop, and total_clients as
                   \* register_client read it for the new entry
    known,         \* history: clients that register_client found or added
    raced,         \* history: clients that were adding an entry while another
                   \* one was
    owed,          \* history, owed[c]: known when c's broadcast began
    sent,          \* history, sent[c]: to whom it has sent, in order
    excused        \* history, excused[c]: whom it could not reach

netVars == <<clients, total_clients, bound, pc, request, i, known, raced,
             owed, sent, excused>>
netHistories == <<known, raced, owed, sent, excused>>

Entries == 0 .. MAX_CLIENTS - 1
At(c) == {k \in 0 .. total_clients - 1 : clients[k] = c}

Init ==
    /\ clients = [k \in Entries |-> NoPid]
    /\ total_clients = 0
    /\ bound = {}
    /\ pc = [c \in Clients |-> "idle"]
    /\ request = [c \in Clients |-> "hello"]
    /\ i = [c \in Clients |-> 0]
    /\ known = {} /\ raced = {}
    /\ owed = [c \in Clients |-> {}]
    /\ sent = [c \in Clients |-> <<>>]
    /\ excused = [c \in Clients |-> {}]

Goto(c, from, to) == pc[c] = from /\ pc' = [pc EXCEPT ![c] = to]

(***************************************************************************)
(* The processes                                                           *)
(***************************************************************************)
Bind(c) ==
    /\ c \notin bound
    /\ bound' = bound \cup {c}
    /\ UNCHANGED <<clients, total_clients, pc, request, i, netHistories>>

Close(c) ==
    /\ pc[c] = "idle"
    /\ c \in bound
    /\ bound' = bound \ {c}
    /\ UNCHANGED <<clients, total_clients, pc, request, i, netHistories>>

Send(c, what) ==
    /\ c \in bound
    /\ what = "broadcast" => c \in Broadcasters
    /\ Goto(c, "idle", "search")
    /\ request' = [request EXCEPT ![c] = what]
    /\ UNCHANGED <<clients, total_clients, bound, i, netHistories>>

(***************************************************************************)
(* register_client                                                         *)
(***************************************************************************)
RegisterNext(c) ==
    /\ Goto(c, "search", "search")
    /\ i[c] < total_clients
    /\ clients[i[c]] # c
    /\ i' = [i EXCEPT ![c] = @ + 1]
    /\ UNCHANGED <<clients, total_clients, bound, request, netHistories>>

RegisterFound(c) ==
    /\ Goto(c, "search", "serve")
    /\ i[c] < total_clients
    /\ clients[i[c]] = c
    /\ i' = [i EXCEPT ![c] = 0]
    /\ known' = known \cup {c}
    /\ UNCHANGED <<clients, total_clients, bound, request, raced,
                   owed, sent, excused>>

RegisterNew(c) ==
    /\ Goto(c, "search", "limit")
    /\ i[c] >= total_clients
    /\ i' = [i EXCEPT ![c] = 0]
    /\ UNCHANGED <<clients, total_clients, bound, request, netHistories>>

RegisterFull(c) ==
    /\ Goto(c, "limit", "serve")
    /\ total_clients >= MAX_CLIENTS
    /\ UNCHANGED <<clients, total_clients, bound, request, i, netHistories>>

\* Where the entry and the length are written.
Appending == {"append", "store", "count"}

RegisterRoom(c) ==
    /\ Goto(c, "limit", "append")
    /\ total_clients < MAX_CLIENTS
    /\ raced' = LET others == {d \in Clients : pc[d] \in Appending} IN
                raced \cup IF others = {} THEN {} ELSE others \cup {c}
    /\ UNCHANGED <<clients, total_clients, bound, request, i, known,
                   owed, sent, excused>>

\* clients[total_clients++] = pid reads total_clients once more.
RegisterLoad(c) ==
    /\ Goto(c, "append", "store")
    /\ total_clients < MAX_CLIENTS
    /\ i' = [i EXCEPT ![c] = total_clients]
    /\ UNCHANGED <<clients, total_clients, bound, request, netHistories>>

\* The last entry was taken since the test: the pid is written behind the array.
RegisterBehind(c) ==
    /\ Goto(c, "append", "overrun")
    /\ total_clients >= MAX_CLIENTS
    /\ UNCHANGED <<clients, total_clients, bound, request, i, netHistories>>

RegisterStore(c) ==
    /\ Goto(c, "store", "count")
    /\ clients' = [clients EXCEPT ![i[c]] = c]
    /\ UNCHANGED <<total_clients, bound, request, i, netHistories>>

RegisterCount(c) ==
    /\ Goto(c, "count", "serve")
    /\ total_clients' = i[c] + 1
    /\ i' = [i EXCEPT ![c] = 0]
    /\ known' = known \cup {c}
    /\ UNCHANGED <<clients, bound, request, raced, owed, sent, excused>>

(***************************************************************************)
(* send_reply and send_broadcast                                           *)
(***************************************************************************)
\* Nobody looks at the result of nlmsg_unicast.
Reply(c) ==
    /\ request[c] = "hello"
    /\ Goto(c, "serve", "idle")
    /\ UNCHANGED <<clients, total_clients, bound, request, i, netHistories>>

Broadcast(c) ==
    /\ request[c] = "broadcast"
    /\ Goto(c, "serve", "loop")
    /\ i' = [i EXCEPT ![c] = 0]
    /\ owed' = [owed EXCEPT ![c] = known]
    /\ sent' = [sent EXCEPT ![c] = <<>>]
    /\ excused' = [excused EXCEPT ![c] = {}]
    /\ UNCHANGED <<clients, total_clients, bound, request, known, raced>>

BroadcastSend(c) ==
    /\ pc[c] = "loop"
    /\ i[c] < total_clients
    /\ clients[i[c]] \in bound
    /\ sent' = [sent EXCEPT ![c] = Append(@, clients[i[c]])]
    /\ i' = [i EXCEPT ![c] = @ + 1]
    /\ UNCHANGED <<clients, total_clients, bound, pc, request, known, raced, owed, excused>>

\* Mutant: the first failure ends the loop.
BroadcastFailEnds(c) ==
    /\ i[c] < total_clients
    /\ Goto(c, "loop", "return")
    /\ UNCHANGED <<clients, total_clients, bound, request, i, netHistories>>

\* No memory, or not reachable: the loop goes on with the next one.
BroadcastFail(c) ==
    /\ pc[c] = "loop"
    /\ i[c] < total_clients
    /\ excused' = [excused EXCEPT ![c] = @ \cup {clients[i[c]]}]
    /\ i' = [i EXCEPT ![c] = @ + 1]
    /\ UNCHANGED <<clients, total_clients, bound, pc, request, known, raced,
                   owed, sent>>

BroadcastEnd(c) ==
    /\ i[c] >= total_clients
    /\ Goto(c, "loop", "return")
    /\ UNCHANGED <<clients, total_clients, bound, request, i, netHistories>>

\* The request and what is remembered of the broadcast are forgotten.
Return(c) ==
    /\ Goto(c, "return", "idle")
    /\ i' = [i EXCEPT ![c] = 0]
    /\ owed' = [owed EXCEPT ![c] = {}]
    /\ sent' = [sent EXCEPT ![c] = <<>>]
    /\ excused' = [excused EXCEPT ![c] = {}]
    /\ request' = [request EXCEPT ![c] = "hello"]
    /\ UNCHANGED <<clients, total_clients, bound, known, raced>>

\* What happens after a write behind the array is not followed.
Undefined == (\E c \in Clients : pc[c] = "overrun") /\ UNCHANGED netVars

Next ==
    \/ /\ \A c \in Clients : pc[c] # "overrun"
       /\ \E c \in Clients :
            \/ Bind(c) \/ Close(c) \/ Send(c, "hello") \/ Send(c, "broadcast")
            \/ RegisterNext(c) \/ RegisterFound(c) \/ RegisterNew(c) \/ RegisterFull(c)
            \/ RegisterRoom(c) \/ RegisterLoad(c) \/ RegisterBehind(c)
            \/ RegisterStore(c) \/ RegisterCount(c)
            \/ Reply(c) \/ Broadcast(c) \/ BroadcastSend(c) \/ BroadcastFail(c)
            \/ BroadcastEnd(c) \/ Return(c)
    \/ Undefined

Spec == Init /\ [][Next]_netVars
-----------------------------------------------------------------------------
NetSteps ==
    {"idle", "search", "limit", "serve", "loop", "return", "overrun"} \cup Appending

\* Type invariant.
TypeOK ==
    /\ clients \in [Entries -> Clients \cup {NoPid}]
    /\ total_clients \in 0 .. MAX_CLIENTS
    /\ bound \in SUBSET Clients
    /\ pc \in [Clients -> NetSteps]
    /\ request \in [Clients -> {"hello", "broadcast"}]
    /\ i \in [Clients -> 0 .. MAX_CLIENTS]
    /\ known \in SUBSET Clients
    /\ raced \in SUBSET Clients

\* A client that was registered while no other one was past the limit is in the
\* table, once, for good, whoever registers after it, and it is not the one that
\* writes behind the array; while there was no such overlap, every client that
\* is served is registered or the table is full
\* (netlink_kernel_broadcast.c:18-37, :134-148).
TableIsSound ==
    /\ \A c \in known \ raced : \E k \in Entries : At(c) = {k}
    /\ \A c \in Clients \ raced : pc[c] # "overrun"
    /\ raced = {} => \A c \in Clients :
        pc[c] \in {"serve", "loop", "return"} => c \in known \/ total_clients = MAX_CLIENTS

\* When a broadcast returns, every client that was registered when it began
\* has been sent the message, unless it could not be reached, and nobody has
\* been sent it twice, although clients come, go and register meanwhile
\* (netlink_kernel_broadcast.c:48-71).  It holds of the clients that did not
\* register while another one did.
BroadcastReachesAll ==
    \A c \in Clients : pc[c] = "return" =>
        /\ owed[c] \ raced \subseteq ToSet(sent[c]) \cup excused[c]
        /\ \A j, k \in DOMAIN sent[c] :
            sent[c][j] = sent[c][k] /\ sent[c][j] \notin raced => j = k

\* A broadcast goes to every registered client that can be reached
\* (netlink_kernel_broadcast.md:22-29).  It does not: of two first messages that
\* overlap one may take the entry of the other (netlink_kernel_broadcast.c:34).
BroadcastIsComplete ==
    \A c \in Clients : pc[c] = "return" =>
        owed[c] \subseteq ToSet(sent[c]) \cup excused[c]
=============================================================================
