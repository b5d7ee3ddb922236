---------------------------- MODULE NotifierChain ----------------------------
(***************************************************************************)
(* The notifier chain of lesson 27g: module A owns a blocking chain, the   *)
(* modules B and C register a block on load and unregister it on unload,   *)
(* and module C sends three events from its init.                          *)
(*                                                                         *)
(* The chain is the kernel's.  Registering takes its semaphore for writing *)
(* and puts the block before the first one with a lower priority; a call   *)
(* takes it for reading and runs the callbacks in the order of the chain,  *)
(* all of them, since each returns NOTIFY_OK.                              *)
(***************************************************************************)
EXTENDS Integers, Sequences, SequencesExt

CONSTANTS
    Blocks,       \* modules with a notifier block
    Priority,
    Senders,      \* those that send events from their init
    EventCount,   \* how many
    LastBlock     \* past the last block of the chain

ChainAssumption ==
    /\ Priority \in [Blocks -> Int]
    /\ Senders \subseteq Blocks
    /\ EventCount \in Nat
    /\ LastBlock \notin Blocks

VARIABLES
    my_chain,     \* the registered blocks in their order
    pc,           \* pc[b]: where module b is
    event,        \* event[b]: the events that b has sent
    nb,           \* nb[b]: the block that b's call comes to next
    heard         \* history, heard[b]: the blocks b's call has called

chainVars == <<my_chain, pc, event, nb, heard>>

Init ==
    /\ my_chain = <<>>
    /\ pc = [b \in Blocks |-> "out"]
    /\ event = [b \in Blocks |-> 0]
    /\ nb = [b \in Blocks |-> LastBlock]
    /\ heard = [b \in Blocks |-> <<>>]

Goto(b, from, to) == pc[b] = from /\ pc' = [pc EXCEPT ![b] = to]

\* Nobody holds the semaphore for reading.
NoReader == \A b \in Blocks : pc[b] # "call"

FirstOf(chain) == IF chain = <<>> THEN LastBlock ELSE Head(chain)
BlockAfter(b) ==
    IF \E k \in 1 .. Len(my_chain) - 1 : my_chain[k] = b
    THEN my_chain[1 + CHOOSE k \in 1 .. Len(my_chain) - 1 : my_chain[k] = b]
    ELSE LastBlock

\* The chain with block b before the first one of lower priority.
Inserted(chain, b) ==
    LET lower == {k \in DOMAIN chain : Priority[chain[k]] < Priority[b]}
    IN  InsertAt(chain, Min(lower \cup {Len(chain) + 1}), b)

ChainLoad(b) ==
    /\ Goto(b, "out", "register")
    /\ UNCHANGED <<my_chain, event, nb, heard>>

ChainRegister(b) ==
    /\ NoReader
    /\ Goto(b, "register", "send")
    /\ my_chain' = Inserted(my_chain, b)
    /\ event' = [event EXCEPT ![b] = IF b \in Senders THEN 0 ELSE EventCount]
    /\ UNCHANGED <<nb, heard>>

\* send_event: the callbacks of the chain are called.
CallStart(b) ==
    /\ event[b] < EventCount
    /\ Goto(b, "send", "call")
    /\ nb' = [nb EXCEPT ![b] = FirstOf(my_chain)]
    /\ UNCHANGED <<my_chain, event, heard>>

CallBlock(b) ==
    /\ pc[b] = "call"
    /\ nb[b] # LastBlock
    /\ heard' = [heard EXCEPT ![b] = Append(@, nb[b])]
    /\ nb' = [nb EXCEPT ![b] = BlockAfter(@)]
    /\ UNCHANGED <<my_chain, pc, event>>

CallEnd(b) ==
    /\ nb[b] = LastBlock
    /\ Goto(b, "call", "send")
    /\ event' = [event EXCEPT ![b] = @ + 1]
    /\ heard' = [heard EXCEPT ![b] = <<>>]
    /\ UNCHANGED <<my_chain, nb>>

ChainInitReturn(b) ==
    /\ event[b] = EventCount
    /\ Goto(b, "send", "in")
    /\ event' = [event EXCEPT ![b] = 0]
    /\ UNCHANGED <<my_chain, nb, heard>>

ChainExit(b) ==
    /\ Goto(b, "in", "unregister")
    /\ UNCHANGED <<my_chain, event, nb, heard>>

ChainUnregister(b) ==
    /\ NoReader
    /\ Goto(b, "unregister", "unload")
    /\ my_chain' = RemoveFirst(my_chain, b)
    /\ UNCHANGED <<event, nb, heard>>

ChainUnload(b) ==
    /\ Goto(b, "unload", "out")
    /\ UNCHANGED <<my_chain, event, nb, heard>>

Next == \E b \in Blocks :
    \/ ChainLoad(b) \/ ChainRegister(b)
    \/ CallStart(b) \/ CallBlock(b) \/ CallEnd(b) \/ ChainInitReturn(b)
    \/ ChainExit(b) \/ ChainUnregister(b) \/ ChainUnload(b)

Spec == Init /\ [][Next]_chainVars
-----------------------------------------------------------------------------
\* Type invariant.
TypeOK ==
    /\ my_chain \in Seq(Blocks)
    /\ pc \in [Blocks -> {"out", "register", "send", "call", "in",
                           "unregister", "unload"}]
    /\ event \in [Blocks -> 0 .. EventCount]
    /\ nb \in [Blocks -> Blocks \cup {LastBlock}]
    /\ heard \in [Blocks -> Seq(Blocks)]

\* An event is called in the order of the priorities, once at each block that
\* is registered, its sender included, and at none whose module is gone
\* (linux_notifier_Module-B.c:27-51, linux_notifier_Module-C.c:27-51).
CallsByPriority ==
    \A b \in Blocks : pc[b] = "call" =>
        /\ \A c \in ToSet(heard[b]) \cup ({nb[b]} \ {LastBlock}) :
            pc[c] \notin {"out", "register", "unload"}
        /\ \A j, k \in DOMAIN heard[b] :
            j < k => Priority[heard[b][j]] >= Priority[heard[b][k]]
        /\ nb[b] = LastBlock =>
            /\ Len(heard[b]) = Len(my_chain)
            /\ \A c \in Blocks :
                pc[c] \in {"send", "call", "in"} => Contains(heard[b], c)
=============================================================================
