---------------------------- MODULE MCCharDevices ----------------------------
(***************************************************************************)
(* The character devices for TLC.  The processes use one of them: the      *)
(* device of lesson 7, which is read with a wait, that of lesson 8, which  *)
(* is polled, the list of lesson 23, or one of the devices that keep what  *)
(* was written.  The others stay as they are initially.                    *)
(***************************************************************************)
EXTENDS BlockingRead, Sequences

CONSTANTS
    Pollers,          \* processes that poll, two copies of the program
    WakeNr,           \* as in PollRead
    MaxPollWrites,    \* bound on the number of writes to the polled device
    Users, Ids, Nodes, Room, Free, End, Nobody,    \* as in KernelList
    Styles, BUF_SIZE, Chars, NUL, a, b,            \* as in CharBuffers
    Scribes, Viewers, Chunks, SizeMod, INT_MAX

VARIABLES
    device,           \* the device that is used
    data_available8, my_wq8, triggered, pc8, writes8,
    student_list, id, list_lock, pc23, node, kbuf, at_start, loaded,
    style, kernel_buffer, size, pcB, len, off, got, quiet, cut,
    content

vars8 == <<data_available8, my_wq8, triggered, pc8, writes8>>
vars23 == <<student_list, id, list_lock, pc23, node, kbuf, at_start, loaded>>
varsB == <<style, kernel_buffer, size, pcB, len, off, got, quiet, cut, content>>

\* Texts of up to one character more than the buffer has cells.
Texts == {<<a>>, <<a, b>>, <<b, a, a>>, <<b, b, a, a>>}

P == INSTANCE PollRead WITH
    MaxWrites <- MaxPollWrites, data_available <- data_available8, my_wq <- my_wq8,
    pc <- pc8, writes <- writes8
L == INSTANCE KernelList WITH pc <- pc23
B == INSTANCE CharBuffers WITH pc <- pcB, Messages <- Texts

ASSUME DevicesAssumption ==
    P!PollAssumption /\ L!ListAssumption /\ B!BufferAssumption

DeviceInit ==
    /\ device \in {"wait", "poll", "list", "keep"}
    /\ Init /\ P!Init /\ L!Init /\ B!Init

DeviceNext ==
    \/ device = "wait" /\ Next /\ UNCHANGED <<device, vars8, vars23, varsB>>
    \/ device = "poll" /\ P!Next /\ UNCHANGED <<device, vars, vars23, varsB>>
    \/ device = "list" /\ L!Next /\ UNCHANGED <<device, vars, vars8, varsB>>
    \/ device = "keep" /\ B!Next /\ UNCHANGED <<device, vars, vars8, vars23>>

DeviceSpec ==
    /\ DeviceInit
    /\ [][DeviceNext]_<<device, vars, vars8, vars23, varsB>>
    /\ device = "wait" => Fairness
    /\ device = "poll" => P!Fairness
-----------------------------------------------------------------------------
\* Type invariants of the devices.
DeviceTypeOK == TypeOK /\ P!TypeOK /\ L!TypeOK /\ B!TypeOK

\* A signal ends a read, and poll() returns while there is a message
\* (char_cdev_waiting_queue.c:82-87;
\* char_cdev_poll_select_epoll_kernel.c:119-127 against :101-104).
WaitsEnd == SignalEndsWait /\ P!PollReturns

\* A process asleep in poll() has been told of the message, or is about to be.
NoPollerForgotten == P!NoPollerForgotten

\* What a read copies lies in the buffer, unless the content was made to end
\* before its offset while it was looking at the size.
StaysInBuffer == B!StaysInBuffer

\* A read returns what the device holds: the text that was stored last, or the
\* list as it stands.
ReadsAreExact == B!ReadsSpellContent /\ L!WalkIsSnapshot

\* No student is lost or listed twice.
NodesAccounted == L!NodesAccounted
=============================================================================
