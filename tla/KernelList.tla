----------------------------- MODULE KernelList -----------------------------
(***************************************************************************)
(* The list of students of lesson 23.  Users write, read and delete        *)
(* through one device; list_lock is a mutex.  What needs the mutex for one *)
(* change is one step, a read takes a step per node.  Nodes are addresses: *)
(* kzalloc takes any that is free, and fails when none is.  The local      *)
(* variables are cleared where a call ends.                                *)
(***************************************************************************)
EXTENDS Integers, FiniteSets, SequencesExt

CONSTANTS
    Users,    \* processes that have the device open
    Ids,      \* student ids
    Nodes,    \* addresses of struct student
    Room,     \* how many lines fit kbuf; scnprintf drops the rest
    Free, End, Nobody

ListAssumption ==
    /\ Free \notin Ids
    /\ End \notin Nodes
    /\ Nobody \notin Users
    /\ Room \in Nat

VARIABLES
    student_list,   \* the nodes in their order
    id,             \* id[n]: the id in node n, Free when it is not allocated
    list_lock,      \* the user in a read, or Nobody
    pc,             \* pc[u]: where user u is
    node,           \* node[u]: the local variable node
    kbuf,           \* kbuf[u]: the ids that my_read has formatted
    at_start,       \* at_start[u]: the offset of u's file is 0
    loaded

listVars == <<student_list, id, list_lock, pc, node, kbuf, at_start, loaded>>

Init ==
    /\ student_list = <<>>
    /\ id = [n \in Nodes |-> Free]
    /\ list_lock = Nobody
    /\ pc = [u \in Users |-> "idle"]
    /\ node = [u \in Users |-> End]
    /\ kbuf = [u \in Users |-> <<>>]
    /\ at_start = [u \in Users |-> TRUE]
    /\ loaded = TRUE

Listed == {student_list[i] : i \in DOMAIN student_list}
Position(n) == CHOOSE i \in DOMAIN student_list : student_list[i] = n
NodeAt(i) == IF i <= Len(student_list) THEN student_list[i] ELSE End
Goto(u, from, to) == pc[u] = from /\ pc' = [pc EXCEPT ![u] = to]

\* kzalloc and sscanf; a line that has no id and name goes to WriteDrop.
WriteAlloc(u, i, n) ==
    /\ loaded
    /\ id[n] = Free
    /\ \/ Goto(u, "idle", "add") \/ Goto(u, "idle", "drop")
    /\ id' = [id EXCEPT ![n] = i]
    /\ node' = [node EXCEPT ![u] = n]
    /\ UNCHANGED <<student_list, list_lock, kbuf, at_start, loaded>>

\* Mutant: the node of a line that cannot be parsed is kept.
WriteDropNot(u) ==
    /\ Goto(u, "drop", "idle")
    /\ UNCHANGED <<student_list, id, list_lock, node, kbuf, at_start, loaded>>

WriteDrop(u) ==
    /\ Goto(u, "drop", "idle")
    /\ id' = [id EXCEPT ![node[u]] = Free]
    /\ node' = [node EXCEPT ![u] = End]
    /\ UNCHANGED <<student_list, list_lock, kbuf, at_start, loaded>>

WriteAdd(u) ==
    /\ Goto(u, "add", "printk")
    /\ list_lock = Nobody
    /\ student_list' = Append(student_list, node[u])
    /\ UNCHANGED <<id, list_lock, node, kbuf, at_start, loaded>>

\* The node is printed without the lock; it may be freed by now.
WritePrint(u) ==
    /\ Goto(u, "printk", "idle")
    /\ node' = [node EXCEPT ![u] = End]
    /\ UNCHANGED <<student_list, id, list_lock, kbuf, at_start, loaded>>

\* Mutant: DELETE_NODE without mutex_lock.
DeleteUnlocked(u, i) ==
    /\ pc[u] = "idle"
    /\ \E n \in Listed :
        /\ id[n] = i
        /\ student_list' = RemoveAt(student_list, Position(n))
        /\ id' = [id EXCEPT ![n] = Free]
    /\ UNCHANGED <<list_lock, pc, node, kbuf, at_start, loaded>>

\* DELETE_NODE: the first node with that id; none, then it returns 1.
Delete(u, i) ==
    /\ pc[u] = "idle"
    /\ list_lock = Nobody
    /\ \E n \in Listed :
        /\ id[n] = i
        /\ \A j \in 1 .. Position(n) - 1 : id[student_list[j]] # i
        /\ student_list' = RemoveAt(student_list, Position(n))
        /\ id' = [id EXCEPT ![n] = Free]
    /\ UNCHANGED <<list_lock, pc, node, kbuf, at_start, loaded>>

\* With another offset than 0 read returns 0 at once.
ReadLock(u) ==
    /\ loaded
    /\ at_start[u]
    /\ list_lock = Nobody
    /\ Goto(u, "idle", "walk")
    /\ list_lock' = u
    /\ node' = [node EXCEPT ![u] = NodeAt(1)]
    /\ UNCHANGED <<student_list, id, kbuf, at_start, loaded>>

ReadNode(u) ==
    /\ pc[u] = "walk"
    /\ node[u] # End
    /\ kbuf' = [kbuf EXCEPT ![u] =
                   IF Len(@) < Room THEN Append(@, id[node[u]]) ELSE @]
    /\ node' = [node EXCEPT ![u] = IF @ \in Listed THEN NodeAt(Position(@) + 1)
                                                   ELSE End]
    /\ UNCHANGED <<student_list, id, list_lock, pc, at_start, loaded>>

ReadUnlock(u) ==
    /\ node[u] = End
    /\ Goto(u, "walk", "copy")
    /\ list_lock' = Nobody
    /\ UNCHANGED <<student_list, id, node, kbuf, at_start, loaded>>

\* copy_to_user, which may fail; an empty list leaves the offset at 0.
ReadCopy(u) ==
    /\ Goto(u, "copy", "idle")
    /\ at_start' \in {at_start, [at_start EXCEPT ![u] = kbuf[u] = <<>>]}
    /\ kbuf' = [kbuf EXCEPT ![u] = <<>>]
    /\ UNCHANGED <<student_list, id, list_lock, node, loaded>>

\* lseek(fd, 0, SEEK_SET) of the user program.
Seek(u) ==
    /\ pc[u] = "idle"
    /\ at_start' = [at_start EXCEPT ![u] = TRUE]
    /\ UNCHANGED <<student_list, id, list_lock, pc, node, kbuf, loaded>>

\* list_exit, once all files are closed.
ListExit ==
    /\ loaded
    /\ \A u \in Users : pc[u] = "idle"
    /\ loaded' = FALSE
    /\ student_list' = <<>>
    /\ id' = [n \in Nodes |-> IF n \in Listed THEN Free ELSE id[n]]
    /\ UNCHANGED <<list_lock, pc, node, kbuf, at_start>>

Next ==
    \/ \E u \in Users :
        \/ WriteDrop(u) \/ WriteAdd(u) \/ WritePrint(u)
        \/ ReadLock(u) \/ ReadNode(u) \/ ReadUnlock(u) \/ ReadCopy(u) \/ Seek(u)
        \/ \E i \in Ids : Delete(u, i) \/ \E n \in Nodes : WriteAlloc(u, i, n)
    \/ ListExit

Spec == Init /\ [][Next]_listVars
-----------------------------------------------------------------------------
\* Type invariant.
TypeOK ==
    /\ student_list \in Seq(Nodes)
    /\ id \in [Nodes -> Ids \cup {Free}]
    /\ list_lock \in Users \cup {Nobody}
    /\ pc \in [Users -> {"idle", "add", "drop", "printk", "walk", "copy"}]
    /\ node \in [Users -> Nodes \cup {End}]
    /\ kbuf \in [Users -> Seq(Ids \cup {Free})]
    /\ at_start \in [Users -> BOOLEAN]
    /\ loaded \in BOOLEAN

\* The ids in front of node n, as many of them as fit kbuf.
Before(n) ==
    LET k == IF n = End THEN Len(student_list) ELSE Position(n) - 1
    IN  [i \in 1 .. (IF k < Room THEN k ELSE Room) |-> id[student_list[i]]]

\* A read walks over the list as it stands: what it has formatted is what the
\* list holds before its cursor, and its cursor is never a node that was
\* deleted (Kernel_linked_list.c:95-110 against :64, :131-149).
WalkIsSnapshot ==
    \A u \in Users : pc[u] = "walk" =>
        /\ node[u] \in Listed \cup {End}
        /\ kbuf[u] = Before(node[u])

\* Every allocated node is listed once, or in the hands of one my_write that
\* will list or free it; nothing freed is listed, and after list_exit nothing
\* is allocated (Kernel_linked_list.c:57-72, :136-142, :243-250).
NodesAccounted ==
    \A n \in Nodes :
        LET places == {i \in DOMAIN student_list : student_list[i] = n}
            hands == {u \in Users : pc[u] \in {"add", "drop"} /\ node[u] = n}
        IN  Cardinality(places) + Cardinality(hands)
              = (IF id[n] = Free THEN 0 ELSE 1)
=============================================================================
