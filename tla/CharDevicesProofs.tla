------------------------- MODULE CharDevicesProofs -------------------------
(***************************************************************************)
(* Theorems about the character devices that are read (lessons 3 to 5, 7,  *)
(* 8, 20 and 23), stated of their composition MCCharDevices.  What is said *)
(* of messages that are counted assumes one reader, what is said of the    *)
(* buffers that they know where their data ends: the code breaks both      *)
(* statements without.                                                     *)
(***************************************************************************)
EXTENDS MCCharDevices, FiniteSetTheorems, SequenceTheorems, WellFoundedInduction, TLAPS

(***************************************************************************)
(* Lesson 7, any number of readers and writers.  Who sets the flag empties *)
(* the queue next, and a reader on the queue goes to sleep only when it    *)
(* found the flag clear after it had joined; what has been announced is a  *)
(* message.                                                                *)
(***************************************************************************)
QueuedAreWoken ==
    data_available /\ (\E r \in Readers : pc[r] \in {"schedule", "asleep"} /\ r \in my_wq)
        => \E w \in Writers : pc[w] = "wake"

ReadInv ==
    /\ TypeOK
    /\ QueuedAreWoken
    /\ \A w \in Writers :
        /\ pc[w] = "store" => arg[w] # Nothing
        /\ pc[w] = "announce" => buffer # Nothing
    /\ data_available => buffer # Nothing

\* Everybody is outside the device and no message is announced.
LEMMA ReadInit == Init => ReadInv
<1> SUFFICES ASSUME Init PROVE ReadInv
  OBVIOUS
<1>1. writes \in Nat /\ reads \in Nat
  BY DEF Init
<1>2. pc \in [Readers \cup Writers -> ReadSteps \cup WriteSteps]
  BY DEF Init, ReadSteps
<1>3. \A t \in Readers \cup Writers : pc[t] = "idle"
  BY DEF Init
<1>4. TypeOK
  BY <1>1, <1>2, <1>3 DEF Init, TypeOK, ReadSteps, WriteSteps
<1> QED
  BY <1>3, <1>4 DEF Init, ReadInv, QueuedAreWoken

\* No step of a reader, a writer or a signal leaves a reader on the queue with
\* the flag set and nobody to wake it.
LEMMA ReadStepInv == ReadInv /\ [Next]_vars => ReadInv'
<1> SUFFICES ASSUME ReadInv, [Next]_vars PROVE ReadInv'
  OBVIOUS
<1>0. \A r \in Readers, w \in Writers : r # w
  BY ReadAssumption
<1> USE DEF ReadInv, TypeOK, QueuedAreWoken, Waiting, ReadSteps, WriteSteps, Goto, histories
<1>1. ASSUME NEW r \in Readers, ReadCall(r) PROVE ReadInv'
  BY <1>0, <1>1 DEF ReadCall
<1>2. ASSUME NEW r \in Readers, ReadTest(r) PROVE ReadInv'
  BY <1>0, <1>2 DEF ReadTest
<1>3. ASSUME NEW r \in Readers, WaitPrepare(r) PROVE ReadInv'
  BY <1>0, <1>3 DEF WaitPrepare
<1>4. ASSUME NEW r \in Readers, WaitRecheck(r) PROVE ReadInv'
  BY <1>0, <1>4 DEF WaitRecheck
<1>5. ASSUME NEW r \in Readers, WaitSchedule(r) PROVE ReadInv'
  BY <1>0, <1>5 DEF WaitSchedule
<1>6. ASSUME NEW r \in Readers, ReadInterrupted(r) PROVE ReadInv'
  BY <1>0, <1>6 DEF ReadInterrupted
<1>7. ASSUME NEW r \in Readers, ReadCopy(r) PROVE ReadInv'
  BY <1>0, <1>7 DEF ReadCopy
<1>8. ASSUME NEW r \in Readers, ReadFault(r) PROVE ReadInv'
  BY <1>0, <1>8 DEF ReadFault
<1>9. ASSUME NEW r \in Readers, ReadClear(r) PROVE ReadInv'
  <2>1. reads' \in Nat
    BY <1>9 DEF ReadClear
  <2>2. /\ data_available' = FALSE /\ pc' = [pc EXCEPT ![r] = "idle"]
        /\ UNCHANGED <<buffer, my_wq, signal, arg, copy, writes>>
    BY <1>9 DEF ReadClear
  <2>3. TypeOK'
    BY <1>0, <2>1, <2>2
  <2> QED
    BY <1>0, <2>2, <2>3
<1>10. ASSUME NEW r \in Readers, Signal(r) PROVE ReadInv'
  BY <1>0, <1>10 DEF Signal
<1>11. ASSUME NEW w \in Writers, NEW m \in Messages, WriteCall(w, m) PROVE ReadInv'
  BY <1>0, <1>11, ReadAssumption DEF WriteCall
<1>12. ASSUME NEW w \in Writers, WriteStore(w) PROVE ReadInv'
  BY <1>0, <1>12 DEF WriteStore
<1>13. ASSUME NEW w \in Writers, WriteFault(w) PROVE ReadInv'
  BY <1>0, <1>13 DEF WriteFault
<1>14. ASSUME NEW w \in Writers, WriteAnnounce(w) PROVE ReadInv'
  BY <1>0, <1>14 DEF WriteAnnounce
<1>15. ASSUME NEW w \in Writers, WriteWake(w) PROVE ReadInv'
  BY <1>0, <1>15 DEF WriteWake
<1>16. CASE UNCHANGED vars
  BY <1>16 DEF vars
<1> QED
  BY <1>1, <1>2, <1>3, <1>4, <1>5, <1>6, <1>7, <1>8, <1>9, <1>10, <1>11,
     <1>12, <1>13, <1>14, <1>15, <1>16 DEF Next, ReadStep, WriteStep

(***************************************************************************)
(* Lesson 7, one reader: the message it copies is the one the flag stands  *)
(* for, so that the flag and the reads together count no write twice.      *)
(***************************************************************************)
SingleReader == \A r, s \in Readers : r = s

Announced == IF data_available THEN 1 ELSE 0

CountInv ==
    /\ ReadInv
    /\ \A r \in Readers :
        /\ pc[r] \in {"copy", "clear"} => data_available
        /\ pc[r] = "clear" => copy[r] # Nothing
    /\ reads + Announced <= writes

\* No read and no write has returned.
LEMMA CountInit == Init => CountInv
<1> SUFFICES ASSUME Init PROVE CountInv
  OBVIOUS
<1>1. ReadInv
  BY ReadInit
<1>2. \A r \in Readers : pc[r] = "idle"
  BY DEF Init
<1>3. reads = 0 /\ writes = 0 /\ Announced = 0
  BY DEF Init, Announced
<1> QED
  BY <1>1, <1>2, <1>3 DEF CountInv

\* The one reader finds the flag set until it clears it, and a wait that a signal
\* ended copies nothing.
LEMMA CountStep ==
    ASSUME SingleReader, ReturnsOnSignal = TRUE
    PROVE  CountInv /\ [Next]_vars => CountInv'
<1> SUFFICES ASSUME CountInv, [Next]_vars PROVE CountInv'
  OBVIOUS
<1>1. ReadInv /\ ReadInv'
  BY ReadStepInv DEF CountInv
<1>2. reads \in Nat /\ writes \in Nat /\ \A r \in Readers, w \in Writers : r # w
  BY <1>1, ReadAssumption DEF ReadInv, TypeOK
<1>3. pc \in [Readers \cup Writers -> ReadSteps \cup WriteSteps]
      /\ copy \in [Readers -> Messages \cup {Nothing}]
  BY <1>1 DEF ReadInv, TypeOK
<1> USE DEF CountInv, Announced, Goto, histories, SingleReader
<1>4. ASSUME NEW r \in Readers,
             \/ ReadCall(r) \/ ReadTest(r) \/ WaitPrepare(r) \/ WaitRecheck(r)
             \/ WaitSchedule(r)
      PROVE  CountInv'
  BY <1>1, <1>2, <1>3, <1>4
     DEF ReadCall, ReadTest, WaitPrepare, WaitRecheck, WaitSchedule
<1>5. ASSUME NEW r \in Readers, ReadInterrupted(r) \/ ReadFault(r) \/ Signal(r)
      PROVE  CountInv'
  BY <1>1, <1>2, <1>3, <1>5 DEF ReadInterrupted, ReadFault, Signal, Waiting
<1>6. ASSUME NEW r \in Readers, ReadCopy(r) PROVE CountInv'
  BY <1>1, <1>2, <1>3, <1>6 DEF ReadCopy, ReadInv
<1>7. ASSUME NEW r \in Readers, ReadClear(r) PROVE CountInv'
  BY <1>1, <1>2, <1>3, <1>7 DEF ReadClear
<1>8. ASSUME NEW w \in Writers, NEW m \in Messages, WriteCall(w, m) PROVE CountInv'
  BY <1>1, <1>2, <1>3, <1>8 DEF WriteCall
<1>9. ASSUME NEW w \in Writers, WriteStore(w) \/ WriteFault(w) PROVE CountInv'
  BY <1>1, <1>2, <1>3, <1>9 DEF WriteStore, WriteFault
<1>10. ASSUME NEW w \in Writers, WriteAnnounce(w) PROVE CountInv'
  BY <1>1, <1>2, <1>3, <1>10 DEF WriteAnnounce
<1>11. ASSUME NEW w \in Writers, WriteWake(w) PROVE CountInv'
  BY <1>1, <1>2, <1>3, <1>11 DEF WriteWake
<1>12. CASE UNCHANGED vars
  BY <1>1, <1>12 DEF vars
<1> QED
  BY <1>4, <1>5, <1>6, <1>7, <1>8, <1>9, <1>10, <1>11, <1>12
     DEF Next, ReadStep, WriteStep

(***************************************************************************)
(* Lessons 8 and 9.  Who has registered and slept since a message came is  *)
(* triggered, or its writer has the wake-up before it.                     *)
(***************************************************************************)
PollInv == P!TypeOK /\ P!NoPollerForgotten

\* Nobody polls.
LEMMA PollInit == P!Init => PollInv
<1> SUFFICES ASSUME P!Init PROVE PollInv
  OBVIOUS
<1>1. writes8 \in Nat /\ data_available8 \in BOOLEAN
  BY DEF P!Init
<1>2. pc8 \in [Pollers \cup Writers -> P!PollSteps \cup P!WriteSteps]
  BY DEF P!Init, P!PollSteps
<1>3. \A t \in Pollers \cup Writers : pc8[t] = "idle"
  BY DEF P!Init
<1> QED
  BY <1>1, <1>2, <1>3
     DEF PollInv, P!NoPollerForgotten, P!Init, P!TypeOK, P!PollSteps, P!WriteSteps

\* poll() registers on the queue before it looks and leaves the queue when it
\* returns; a wake-up reaches everybody who is registered, and nobody else.
LEMMA PollStepInv == PollInv /\ [P!Next]_vars8 => PollInv'
<1> SUFFICES ASSUME PollInv, [P!Next]_vars8 PROVE PollInv'
  OBVIOUS
<1>0. \A p \in Pollers, w \in Writers : p # w
  BY DevicesAssumption DEF P!PollAssumption
<1> USE DEF PollInv, P!NoPollerForgotten, P!TypeOK, P!PollSteps, P!WriteSteps, P!Goto
<1>1. ASSUME NEW p \in Pollers, P!PollCall(p) PROVE PollInv'
  BY <1>0, <1>1 DEF P!PollCall
<1>2. ASSUME NEW p \in Pollers, P!PollRegister(p) PROVE PollInv'
  BY <1>0, <1>2 DEF P!PollRegister
<1>3. ASSUME NEW p \in Pollers, P!PollReady(p) PROVE PollInv'
  BY <1>0, <1>3 DEF P!PollReady
<1>4. ASSUME NEW p \in Pollers, P!PollSleep(p) PROVE PollInv'
  BY <1>0, <1>4 DEF P!PollSleep
<1>5. ASSUME NEW p \in Pollers, P!PollWoken(p) PROVE PollInv'
  BY <1>0, <1>5 DEF P!PollWoken
<1>6. ASSUME NEW p \in Pollers, P!ReadNothing(p) PROVE PollInv'
  BY <1>0, <1>6 DEF P!ReadNothing
<1>7. ASSUME NEW p \in Pollers, P!ReadCheck(p) PROVE PollInv'
  BY <1>0, <1>7 DEF P!ReadCheck
<1>8. ASSUME NEW p \in Pollers, P!ReadCopy(p) PROVE PollInv'
  BY <1>0, <1>8 DEF P!ReadCopy
<1>9. ASSUME NEW p \in Pollers, P!ReadFault(p) PROVE PollInv'
  BY <1>0, <1>9 DEF P!ReadFault
<1>10. ASSUME NEW p \in Pollers, P!ReadClear(p) PROVE PollInv'
  BY <1>0, <1>10 DEF P!ReadClear
<1>11. ASSUME NEW w \in Writers, P!WriteCall(w) PROVE PollInv'
  BY <1>0, <1>11 DEF P!WriteCall
<1>12. ASSUME NEW w \in Writers, P!WriteFault(w) PROVE PollInv'
  BY <1>0, <1>12 DEF P!WriteFault
<1>13. ASSUME NEW w \in Writers, P!WriteStore(w) PROVE PollInv'
  BY <1>0, <1>13 DEF P!WriteStore
<1>14. ASSUME NEW w \in Writers, P!WriteWake(w) PROVE PollInv'
  <2>1. PICK S \in P!Woken(my_wq8, {}, WakeNr) : triggered' = triggered \cup S
    BY <1>14 DEF P!WriteWake
  <2>2. S = my_wq8
    BY <2>1 DEF P!Woken
  <2>3. triggered' = my_wq8
    BY <2>1, <2>2
  <2> QED
    BY <1>0, <1>14, <2>3 DEF P!WriteWake
<1>15. CASE UNCHANGED vars8
  BY <1>15 DEF vars8
<1> QED
  BY <1>1, <1>2, <1>3, <1>4, <1>5, <1>6, <1>7, <1>8, <1>9, <1>10, <1>11,
     <1>12, <1>13, <1>14, <1>15 DEF P!Next, P!PollStep, P!WriteStep

(***************************************************************************)
(* Lesson 23.  A node that is allocated is in the list, once, or in the    *)
(* hands of the one my_write that allocated it; while a read walks, the    *)
(* mutex is its own and neither the list nor the ids in it change.         *)
(***************************************************************************)
Holds(u, n) == pc23[u] \in {"add", "drop"} /\ node[u] = n

Handed(u) ==
    /\ pc23[u] \in {"add", "drop"} => node[u] \in Nodes \ L!Listed
    /\ pc23[u] = "walk" <=> list_lock = u
    /\ pc23[u] \notin {"walk", "copy"} => kbuf[u] = <<>>

Accounted ==
    /\ \A j, k \in 1 .. Len(student_list) : student_list[j] = student_list[k] => j = k
    /\ \A u \in Users : Handed(u)
    /\ \A u, v \in Users, n \in Nodes : Holds(u, n) /\ Holds(v, n) => u = v
    /\ \A n \in Nodes :
           id[n] # Free <=> n \in L!Listed \/ \E u \in Users : Holds(u, n)

Snapshot(u) ==
    pc23[u] = "walk" => /\ node[u] \in L!Listed \cup {End}
                        /\ kbuf[u] = L!Before(node[u])

StudentInv == L!TypeOK /\ Accounted /\ \A u \in Users : Snapshot(u)

\* What is assumed of the list.
LEMMA ListConstants ==
    Free \notin Ids /\ End \notin Nodes /\ Nobody \notin Users /\ Room \in Nat
  BY DevicesAssumption DEF L!ListAssumption

\* list_del shifts the nodes behind the one it takes out.
LEMMA RemovedNode ==
    ASSUME NEW S, NEW s \in Seq(S), NEW k \in 1 .. Len(s)
    PROVE  /\ L!RemoveAt(s, k) \in Seq(S)
           /\ Len(L!RemoveAt(s, k)) = Len(s) - 1
           /\ \A j \in 1 .. k - 1 : L!RemoveAt(s, k)[j] = s[j]
           /\ \A j \in k .. Len(s) - 1 : L!RemoveAt(s, k)[j] = s[j + 1]
<1> DEFINE front == SubSeq(s, 1, k - 1)
           back == SubSeq(s, k + 1, Len(s))
<1>1. Len(s) \in Nat /\ \A m \in 1 .. Len(s) : s[m] \in S
  OBVIOUS
<1>2. /\ front \in Seq(S) /\ Len(front) = k - 1
      /\ \A j \in 1 .. k - 1 : front[j] = s[j]
  BY <1>1, SubSeqProperties
<1>3. /\ back \in Seq(S) /\ Len(back) = Len(s) - k
      /\ \A j \in 1 .. Len(s) - k : back[j] = s[k + j]
  BY <1>1, SubSeqProperties
<1>4. L!RemoveAt(s, k) = front \o back
  BY DEF L!RemoveAt
<1> HIDE DEF front, back
<1>5. /\ front \o back \in Seq(S)
      /\ Len(front \o back) = Len(front) + Len(back)
      /\ \A j \in 1 .. Len(front) + Len(back) :
             (front \o back)[j] = IF j <= Len(front) THEN front[j]
                                  ELSE back[j - Len(front)]
  BY <1>2, <1>3, ConcatProperties
<1>6. \A j \in 1 .. k - 1 : (front \o back)[j] = s[j]
  BY <1>1, <1>2, <1>3, <1>5
<1>7. ASSUME NEW j \in k .. Len(s) - 1 PROVE (front \o back)[j] = s[j + 1]
  <2>1. j - Len(front) \in 1 .. Len(s) - k /\ k + (j - Len(front)) = j + 1
        /\ j \in 1 .. Len(front) + Len(back) /\ ~(j <= Len(front))
    BY <1>1, <1>2, <1>3
  <2> QED
    BY <1>3, <1>5, <2>1
<1> QED
  BY <1>1, <1>2, <1>3, <1>4, <1>5, <1>6, <1>7

\* Before the first write nothing is allocated.
LEMMA StudentInit == L!Init => StudentInv
<1> SUFFICES ASSUME L!Init PROVE StudentInv
  OBVIOUS
<1>1. student_list = <<>> /\ L!Listed = {}
  BY DEF L!Init, L!Listed
<1>2. \A u \in Users : pc23[u] = "idle" /\ kbuf[u] = <<>> /\ list_lock # u
  BY ListConstants DEF L!Init
<1>3. L!TypeOK
  <2>1. student_list \in Seq(Nodes)
    BY <1>1
  <2>2. \A S : <<>> \in Seq(S)
    BY EmptySeq
  <2>3. kbuf \in [Users -> Seq(Ids \cup {Free})]
    <3>1. kbuf = [u \in Users |-> <<>>]
      BY DEF L!Init
    <3> QED
      BY <2>2, <3>1, Zenon
  <2> QED
    BY <2>1, <2>3 DEF L!Init, L!TypeOK
<1>4. Accounted
  <2>1. \A n \in Nodes : id[n] = Free
    BY DEF L!Init
  <2> QED
    BY <1>1, <1>2, <2>1 DEF Accounted, Handed, Holds
<1> QED
  BY <1>2, <1>3, <1>4 DEF StudentInv, Snapshot

\* What my_write, DELETE_NODE, my_read, lseek and list_exit do keeps the types.
LEMMA StudentTypes == StudentInv /\ [L!Next]_vars23 => L!TypeOK'
<1> SUFFICES ASSUME StudentInv, [L!Next]_vars23 PROVE L!TypeOK'
  OBVIOUS
<1> USE ListConstants DEF StudentInv, L!TypeOK, L!Goto
<1>1. ASSUME NEW u \in Users, NEW k \in Ids, NEW n \in Nodes, L!WriteAlloc(u, k, n)
      PROVE  L!TypeOK'
  BY <1>1 DEF L!WriteAlloc
<1>2. ASSUME NEW u \in Users, L!WriteDrop(u) PROVE L!TypeOK'
  BY <1>2 DEF L!WriteDrop
<1>3. ASSUME NEW u \in Users, L!WriteAdd(u) PROVE L!TypeOK'
  <2>1. node[u] \in Nodes
    BY <1>3 DEF L!WriteAdd, Accounted, Handed
  <2>2. student_list' \in Seq(Nodes)
    BY <1>3, <2>1 DEF L!WriteAdd
  <2> QED
    BY <1>3, <2>2 DEF L!WriteAdd
<1>4. ASSUME NEW u \in Users, L!WritePrint(u) PROVE L!TypeOK'
  BY <1>4 DEF L!WritePrint
<1>5. ASSUME NEW u \in Users, NEW k \in Ids, L!Delete(u, k) PROVE L!TypeOK'
  <2>1. PICK n \in L!Listed :
            /\ student_list' = L!RemoveAt(student_list, L!Position(n))
            /\ id' = [id EXCEPT ![n] = Free]
    BY <1>5 DEF L!Delete
  <2>2. L!Position(n) \in 1 .. Len(student_list)
    BY <2>1 DEF L!Listed, L!Position
  <2>3. student_list' \in Seq(Nodes)
    BY <2>1, <2>2, RemovedNode
  <2> QED
    BY <1>5, <2>1, <2>3 DEF L!Delete
<1>6. ASSUME NEW u \in Users, L!ReadLock(u) PROVE L!TypeOK'
  <2>1. L!NodeAt(1) \in Nodes \cup {End}
    BY DEF L!NodeAt
  <2> QED
    BY <1>6, <2>1 DEF L!ReadLock
<1>7. ASSUME NEW u \in Users, L!ReadNode(u) PROVE L!TypeOK'
  <2>1. node[u] \in L!Listed /\ L!Listed \subseteq Nodes
    BY <1>7 DEF L!ReadNode, Snapshot, L!Listed
  <2>2. L!Position(node[u]) \in 1 .. Len(student_list)
    BY <2>1 DEF L!Listed, L!Position
  <2>3. L!NodeAt(L!Position(node[u]) + 1) \in Nodes \cup {End}
    BY <2>2 DEF L!NodeAt
  <2>4. id[node[u]] \in Ids \cup {Free}
    BY <2>1
  <2>5. kbuf'[u] \in Seq(Ids \cup {Free})
    <3>1. kbuf'[u] = kbuf[u] \/ kbuf'[u] = Append(kbuf[u], id[node[u]])
      BY <1>7 DEF L!ReadNode
    <3>2. kbuf[u] \in Seq(Ids \cup {Free})
      BY <1>7 DEF StudentInv
    <3>3. Append(kbuf[u], id[node[u]]) \in Seq(Ids \cup {Free})
      BY <2>4, <3>2, AppendProperties
    <3> QED
      BY <3>1, <3>2, <3>3, Zenon
  <2>6. kbuf' \in [Users -> Seq(Ids \cup {Free})]
    BY <1>7, <2>5 DEF L!ReadNode
  <2>7. node' \in [Users -> Nodes \cup {End}]
    BY <1>7, <2>1, <2>3 DEF L!ReadNode
  <2> QED
    BY <1>7, <2>6, <2>7 DEF L!ReadNode
<1>8. ASSUME NEW u \in Users, L!ReadUnlock(u) PROVE L!TypeOK'
  BY <1>8 DEF L!ReadUnlock
<1>9. ASSUME NEW u \in Users, L!ReadCopy(u) PROVE L!TypeOK'
  <2>1. (kbuf[u] = <<>>) \in BOOLEAN
    OBVIOUS
  <2>2. at_start' \in [Users -> BOOLEAN]
    BY <1>9, <2>1 DEF L!ReadCopy
  <2>3. kbuf' \in [Users -> Seq(Ids \cup {Free})]
    BY <1>9, EmptySeq DEF L!ReadCopy
  <2> QED
    BY <1>9, <2>2, <2>3 DEF L!ReadCopy
<1>10. ASSUME NEW u \in Users, L!Seek(u) PROVE L!TypeOK'
  BY <1>10 DEF L!Seek
<1>11. CASE L!ListExit
  <2>1. student_list' \in Seq(Nodes)
    BY <1>11, EmptySeq DEF L!ListExit
  <2>2. id' \in [Nodes -> Ids \cup {Free}]
    BY <1>11 DEF L!ListExit
  <2>3. loaded' = FALSE /\ UNCHANGED <<list_lock, pc23, node, kbuf, at_start>>
    BY <1>11 DEF L!ListExit
  <2> QED
    BY <2>1, <2>2, <2>3
<1>12. CASE UNCHANGED vars23
  BY <1>12 DEF vars23
<1> QED
  BY <1>1, <1>2, <1>3, <1>4, <1>5, <1>6, <1>7, <1>8, <1>9, <1>10, <1>11, <1>12
     DEF L!Next

\* A node that is listed has one position.
LEMMA AtPosition ==
    ASSUME L!TypeOK, NEW n \in L!Listed
    PROVE  /\ L!Position(n) \in 1 .. Len(student_list)
           /\ student_list[L!Position(n)] = n
BY DEF L!TypeOK, L!Listed, L!Position

\* What is formatted when the cursor stands on n, entry by entry.
Formatted(n) == IF n = End THEN Len(student_list) ELSE L!Position(n) - 1
Entries(n) == IF Formatted(n) < Room THEN Formatted(n) ELSE Room

LEMMA BeforeIs ==
    ASSUME NEW n
    PROVE  L!Before(n) = [k \in 1 .. Entries(n) |-> id[student_list[k]]]
BY DEF L!Before, Entries, Formatted

\* Nobody but a user in my_read walks, and only with the mutex; what leaves the
\* list and the ids in it alone leaves the walk alone.
LEMMA WalkKept ==
    ASSUME StudentInv, L!TypeOK', student_list' = student_list,
           \A n \in L!Listed : id'[n] = id[n],
           NEW u \in Users, pc23'[u] = pc23[u], node'[u] = node[u],
           kbuf'[u] = kbuf[u]
    PROVE  Snapshot(u)'
<1> SUFFICES ASSUME pc23'[u] = "walk"
             PROVE  /\ node'[u] \in L!Listed' \cup {End}
                    /\ kbuf'[u] = L!Before(node[u])'
  BY DEF Snapshot
<1>1. node[u] \in L!Listed \cup {End} /\ kbuf[u] = L!Before(node[u])
  BY DEF StudentInv, Snapshot
<1>2. L!Listed' = L!Listed
  BY DEF L!Listed
<1>3. Entries(node[u])' = Entries(node[u])
  BY DEF Entries, Formatted, L!Position
<1>4. Entries(node[u]) <= Len(student_list) /\ Entries(node[u]) \in Int
  BY <1>1, AtPosition, ListConstants DEF Entries, Formatted, StudentInv, L!TypeOK
<1>5. \A k \in 1 .. Entries(node[u]) : id'[student_list'[k]] = id[student_list[k]]
  BY <1>4 DEF L!Listed, StudentInv, L!TypeOK
<1>6. L!Before(node[u])' = [k \in 1 .. Entries(node[u])' |-> id'[student_list'[k]]]
  BY DEF L!Before, Entries, Formatted
<1>7. L!Before(node[u])' = L!Before(node[u])
  BY <1>3, <1>5, <1>6, BeforeIs
<1> QED
  BY <1>1, <1>2, <1>7

\* my_write takes a node nobody has, and gives it to the list or back.
LEMMA StudentWrites ==
    ASSUME StudentInv, L!TypeOK', NEW u \in Users,
           \/ \E k \in Ids, n \in Nodes : L!WriteAlloc(u, k, n)
           \/ L!WriteDrop(u) \/ L!WriteAdd(u) \/ L!WritePrint(u)
    PROVE  Accounted' /\ \A v \in Users : Snapshot(v)'
<1> USE ListConstants DEF L!Goto
<1>0. L!TypeOK /\ Accounted /\ \A v \in Users : Handed(v)
  BY DEF StudentInv, Accounted
<1>1. ASSUME NEW k \in Ids, NEW n \in Nodes, L!WriteAlloc(u, k, n)
      PROVE  Accounted' /\ \A v \in Users : Snapshot(v)'
  <2>1. n \notin L!Listed /\ (\A v \in Users : ~ Holds(v, n)) /\ k # Free
    BY <1>0, <1>1 DEF L!WriteAlloc, Accounted
  <2>2. student_list' = student_list /\ L!Listed' = L!Listed
    BY <1>1 DEF L!WriteAlloc, L!Listed
  <2>3. \A v \in Users, m \in Nodes :
            Holds(v, m)' <=> IF v = u THEN m = n ELSE Holds(v, m)
    BY <1>0, <1>1 DEF L!WriteAlloc, Holds, L!TypeOK
  <2>4. \A v \in Users : Handed(v)'
    BY <1>0, <1>1, <2>1, <2>2 DEF L!WriteAlloc, Handed, L!TypeOK
  <2>5. \A m \in Nodes : id'[m] = IF m = n THEN k ELSE id[m]
    BY <1>0, <1>1 DEF L!WriteAlloc, L!TypeOK
  <2>6. \A m \in Nodes : id'[m] # Free <=>
            m \in L!Listed' \/ \E v \in Users : Holds(v, m)'
    BY <1>0, <1>1, <2>1, <2>2, <2>3, <2>5 DEF L!WriteAlloc, Accounted, Holds
  <2>7. \A v, w \in Users, m \in Nodes : Holds(v, m)' /\ Holds(w, m)' => v = w
    BY <1>0, <2>1, <2>3 DEF Accounted
  <2>8. Accounted'
    BY <1>0, <2>2, <2>4, <2>6, <2>7 DEF Accounted
  <2>9. \A m \in L!Listed : id'[m] = id[m]
    BY <1>0, <2>1, <2>5 DEF L!Listed, L!TypeOK
  <2>10. Snapshot(u)'
    BY <1>0, <1>1 DEF L!WriteAlloc, Snapshot, L!TypeOK
  <2>11. ASSUME NEW v \in Users, v # u PROVE Snapshot(v)'
    BY <1>0, <1>1, <2>2, <2>9, <2>11, WalkKept DEF L!WriteAlloc, L!TypeOK
  <2> QED
    BY <2>8, <2>10, <2>11
<1>2. CASE L!WriteDrop(u)
  <2>1. node[u] \in Nodes \ L!Listed /\ Holds(u, node[u])
    BY <1>0, <1>2 DEF L!WriteDrop, Handed, Holds
  <2>2. student_list' = student_list /\ L!Listed' = L!Listed
    BY <1>2 DEF L!WriteDrop, L!Listed
  <2>3. \A v \in Users, m \in Nodes : Holds(v, m)' <=> v # u /\ Holds(v, m)
    BY <1>0, <1>2 DEF L!WriteDrop, Holds, L!TypeOK
  <2>4. \A v \in Users : Handed(v)'
    BY <1>0, <1>2, <2>2 DEF L!WriteDrop, Handed, L!TypeOK
  <2>5. \A m \in Nodes : id'[m] = IF m = node[u] THEN Free ELSE id[m]
    BY <1>0, <1>2 DEF L!WriteDrop, L!TypeOK
  <2>6. \A m \in Nodes : Holds(u, m) <=> m = node[u]
    BY <2>1 DEF Holds
  <2>7. \A v \in Users : Holds(v, node[u]) => v = u
    BY <1>0, <2>1 DEF Accounted
  <2>8. \A m \in Nodes : id'[m] # Free <=>
            m \in L!Listed' \/ \E v \in Users : Holds(v, m)'
    BY <1>0, <2>1, <2>2, <2>3, <2>5, <2>6, <2>7 DEF Accounted
  <2>9. Accounted'
    BY <1>0, <2>2, <2>3, <2>4, <2>8 DEF Accounted
  <2>10. \A m \in L!Listed : id'[m] = id[m]
    BY <1>0, <2>1, <2>5 DEF L!Listed, L!TypeOK
  <2>11. Snapshot(u)'
    BY <1>0, <1>2 DEF L!WriteDrop, Snapshot, L!TypeOK
  <2>12. ASSUME NEW v \in Users, v # u PROVE Snapshot(v)'
    BY <1>0, <1>2, <2>2, <2>10, <2>12, WalkKept DEF L!WriteDrop, L!TypeOK
  <2> QED
    BY <2>9, <2>11, <2>12
<1>3. CASE L!WriteAdd(u)
  <2>1. node[u] \in Nodes \ L!Listed /\ Holds(u, node[u])
    BY <1>0, <1>3 DEF L!WriteAdd, Handed, Holds
  <2>2. /\ student_list' = Append(student_list, node[u])
        /\ Len(student_list') = Len(student_list) + 1
        /\ \A k \in 1 .. Len(student_list) + 1 :
               student_list'[k] = IF k <= Len(student_list) THEN student_list[k]
                                  ELSE node[u]
    BY <1>0, <1>3, <2>1 DEF L!WriteAdd, L!TypeOK
  <2>3. L!Listed' = L!Listed \cup {node[u]}
    <3>1. Len(student_list) \in Nat /\ DOMAIN student_list = 1 .. Len(student_list)
          /\ DOMAIN student_list' = 1 .. Len(student_list) + 1
      BY <1>0, <2>2 DEF L!TypeOK
    <3>2. ASSUME NEW m \in L!Listed' PROVE m \in L!Listed \cup {node[u]}
      BY <2>2, <3>1 DEF L!Listed
    <3>3. ASSUME NEW m \in L!Listed PROVE m \in L!Listed'
      <4>1. PICK k \in 1 .. Len(student_list) : student_list[k] = m
        BY <3>1 DEF L!Listed
      <4>2. k \in 1 .. Len(student_list) + 1 /\ student_list'[k] = m
        BY <2>2, <3>1, <4>1
      <4> QED
        BY <3>1, <4>2 DEF L!Listed
    <3>4. node[u] \in L!Listed'
      <4>1. student_list'[Len(student_list) + 1] = node[u]
        BY <2>2, <3>1
      <4> QED
        BY <3>1, <4>1 DEF L!Listed
    <3> QED
      BY <3>2, <3>3, <3>4
  <2>4. \A k \in 1 .. Len(student_list) : student_list[k] \in L!Listed
    BY DEF L!Listed
  <2>5. \A j, k \in 1 .. Len(student_list') :
            student_list'[j] = student_list'[k] => j = k
    BY <1>0, <2>1, <2>2, <2>4 DEF Accounted, L!TypeOK
  <2>6. \A v \in Users, m \in Nodes : Holds(v, m)' <=> v # u /\ Holds(v, m)
    BY <1>0, <1>3 DEF L!WriteAdd, Holds, L!TypeOK
  <2>7. \A m \in Nodes : Holds(u, m) <=> m = node[u]
    BY <2>1 DEF Holds
  <2>8. \A v \in Users : Holds(v, node[u]) => v = u
    BY <1>0, <2>1 DEF Accounted
  <2>9. ASSUME NEW v \in Users PROVE Handed(v)'
    <3>1. /\ pc23' = [pc23 EXCEPT ![u] = "printk"] /\ pc23[u] = "add"
          /\ UNCHANGED <<list_lock, node, kbuf>>
      BY <1>3 DEF L!WriteAdd
    <3>2. v # u /\ pc23[v] \in {"add", "drop"} => node[v] # node[u]
      BY <2>8 DEF Holds
    <3> QED
      BY <1>0, <2>3, <3>1, <3>2 DEF Handed, L!TypeOK
  <2>10. id' = id
    BY <1>3 DEF L!WriteAdd
  <2>11. \A m \in Nodes : id'[m] # Free <=>
            m \in L!Listed' \/ \E v \in Users : Holds(v, m)'
    BY <1>0, <2>3, <2>6, <2>7, <2>8, <2>10 DEF Accounted
  <2>12. Accounted'
    BY <1>0, <2>5, <2>6, <2>9, <2>11 DEF Accounted
  <2>13. \A v \in Users : pc23'[v] # "walk"
    BY <1>0, <1>3 DEF L!WriteAdd, Handed, L!TypeOK
  <2> QED
    BY <2>12, <2>13 DEF Snapshot
<1>4. CASE L!WritePrint(u)
  <2>1. student_list' = student_list /\ L!Listed' = L!Listed /\ id' = id
    BY <1>4 DEF L!WritePrint, L!Listed
  <2>2. \A v \in Users, m \in Nodes : Holds(v, m)' <=> Holds(v, m)
    BY <1>0, <1>4 DEF L!WritePrint, Holds, L!TypeOK
  <2>3. \A v \in Users : Handed(v)'
    BY <1>0, <1>4, <2>1 DEF L!WritePrint, Handed, L!TypeOK
  <2>4. Accounted'
    BY <1>0, <2>1, <2>2, <2>3 DEF Accounted
  <2>5. Snapshot(u)'
    BY <1>0, <1>4 DEF L!WritePrint, Snapshot, L!TypeOK
  <2>6. ASSUME NEW v \in Users, v # u PROVE Snapshot(v)'
    BY <1>0, <1>4, <2>1, <2>6, WalkKept DEF L!WritePrint, L!TypeOK
  <2> QED
    BY <2>4, <2>5, <2>6
<1> QED
  BY <1>1, <1>2, <1>3, <1>4

\* DELETE_NODE waits for the mutex, so that nobody walks; the node it frees is in
\* nobody's hands and, listed once, no longer in the list.
LEMMA StudentDeletes ==
    ASSUME StudentInv, L!TypeOK', NEW u \in Users, NEW k \in Ids, L!Delete(u, k)
    PROVE  Accounted' /\ \A v \in Users : Snapshot(v)'
<1> USE ListConstants
<1>0. L!TypeOK /\ Accounted /\ \A v \in Users : Handed(v)
  BY DEF StudentInv, Accounted
<1>1. PICK n \in L!Listed :
          /\ student_list' = L!RemoveAt(student_list, L!Position(n))
          /\ id' = [id EXCEPT ![n] = Free]
  BY DEF L!Delete
<1>2. UNCHANGED <<list_lock, pc23, node, kbuf>> /\ list_lock = Nobody
  BY DEF L!Delete
<1> DEFINE p == L!Position(n)
<1>3. p \in 1 .. Len(student_list) /\ student_list[p] = n /\ n \in Nodes
  BY <1>0, AtPosition DEF L!TypeOK
<1> HIDE DEF p
<1>4. /\ Len(student_list) \in Nat /\ Len(student_list') = Len(student_list) - 1
      /\ \A j \in 1 .. p - 1 : student_list'[j] = student_list[j]
      /\ \A j \in p .. Len(student_list) - 1 : student_list'[j] = student_list[j + 1]
      /\ student_list' \in Seq(Nodes)
  <2>1. student_list \in Seq(Nodes) /\ Len(student_list) \in Nat
    BY <1>0 DEF L!TypeOK
  <2>2. student_list' = L!RemoveAt(student_list, p)
    BY <1>1 DEF p
  <2> QED
    BY <1>3, <2>1, <2>2, RemovedNode
<1>5. \A j \in 1 .. Len(student_list) - 1 :
          student_list'[j] = student_list[IF j < p THEN j ELSE j + 1]
  BY <1>3, <1>4
<1>6. \A j, m \in 1 .. Len(student_list') :
          student_list'[j] = student_list'[m] => j = m
  BY <1>0, <1>3, <1>4, <1>5 DEF Accounted
<1>7. L!Listed' = L!Listed \ {n}
  <2>1. DOMAIN student_list = 1 .. Len(student_list)
        /\ DOMAIN student_list' = 1 .. Len(student_list) - 1
    BY <1>0, <1>4 DEF L!TypeOK
  <2>2. ASSUME NEW m \in L!Listed' PROVE m \in L!Listed \ {n}
    <3>1. PICK j \in 1 .. Len(student_list) - 1 : student_list'[j] = m
      BY <2>1 DEF L!Listed
    <3>2. PICK q \in 1 .. Len(student_list) : q # p /\ student_list[q] = m
      BY <1>3, <1>4, <1>5, <3>1
    <3>3. m # n
      BY <1>0, <1>3, <3>2 DEF Accounted
    <3> QED
      BY <2>1, <3>2, <3>3 DEF L!Listed
  <2>3. ASSUME NEW m \in L!Listed \ {n} PROVE m \in L!Listed'
    <3>1. PICK q \in 1 .. Len(student_list) : student_list[q] = m
      BY <2>1 DEF L!Listed
    <3>2. q # p
      BY <1>3, <2>3, <3>1
    <3>3. PICK j \in 1 .. Len(student_list) - 1 : j = IF q < p THEN q ELSE q - 1
      BY <1>3, <1>4, <3>1, <3>2
    <3>4. student_list'[j] = m
      <4>1. (IF j < p THEN j ELSE j + 1) = q
        BY <1>3, <1>4, <3>2, <3>3
      <4> QED
        BY <1>5, <3>1, <4>1
    <3> QED
      BY <2>1, <3>4 DEF L!Listed
  <2> QED
    BY <2>2, <2>3
<1>8. \A v \in Users, m \in Nodes : Holds(v, m)' <=> Holds(v, m)
  BY <1>2 DEF Holds
<1>9. \A v \in Users : Handed(v)'
  BY <1>0, <1>2, <1>7 DEF Handed
<1>10. \A v \in Users : ~ Holds(v, n)
  BY <1>0, <1>3 DEF Handed, Holds
<1>11. \A m \in Nodes : id'[m] = IF m = n THEN Free ELSE id[m]
  BY <1>0, <1>1 DEF L!TypeOK
<1>12. \A m \in Nodes : id'[m] # Free <=>
           m \in L!Listed' \/ \E v \in Users : Holds(v, m)'
  BY <1>0, <1>7, <1>8, <1>10, <1>11 DEF Accounted
<1>13. Accounted'
  BY <1>0, <1>6, <1>8, <1>9, <1>12 DEF Accounted
<1>14. \A v \in Users : pc23'[v] # "walk"
  BY <1>0, <1>2 DEF Handed
<1> QED
  BY <1>13, <1>14 DEF Snapshot

\* What leaves the list, the ids and everybody's hands alone.
LEMMA NothingMoved ==
    ASSUME StudentInv, UNCHANGED <<student_list, id>>,
           \A v \in Users : Handed(v)',
           \A v \in Users, n \in Nodes : Holds(v, n)' <=> Holds(v, n)
    PROVE  Accounted'
<1>1. Accounted /\ L!Listed' = L!Listed
  BY DEF StudentInv, L!Listed
<1> QED
  BY <1>1 DEF Accounted

\* One turn of the loop in my_read: the node under the cursor is formatted if
\* there is room, and the cursor moves to the node behind it.
LEMMA NodeFormatted ==
    ASSUME StudentInv, L!TypeOK', NEW u \in Users, L!ReadNode(u)
    PROVE  Snapshot(u)'
<1> DEFINE p == L!Position(node[u])
<1> USE ListConstants
<1>0. L!TypeOK /\ Accounted /\ Snapshot(u)
  BY DEF StudentInv
<1>1. /\ pc23[u] = "walk" /\ node[u] # End
      /\ kbuf'[u] = IF Len(kbuf[u]) < Room
                    THEN Append(kbuf[u], id[node[u]]) ELSE kbuf[u]
      /\ node'[u] = IF node[u] \in L!Listed THEN L!NodeAt(p + 1) ELSE End
      /\ UNCHANGED <<student_list, id>>
  <2>1. pc23[u] = "walk" /\ node[u] # End /\ UNCHANGED <<student_list, id>>
    BY DEF L!ReadNode
  <2>2. node'[u] = IF node[u] \in L!Listed THEN L!NodeAt(p + 1) ELSE End
    BY <1>0 DEF L!ReadNode, L!TypeOK
  <2>3. kbuf'[u] = IF Len(kbuf[u]) < Room
                   THEN Append(kbuf[u], id[node[u]]) ELSE kbuf[u]
    BY <1>0 DEF L!ReadNode, L!TypeOK
  <2> QED
    BY <2>1, <2>2, <2>3
<1>2. node[u] \in L!Listed /\ kbuf[u] = L!Before(node[u])
  BY <1>0, <1>1 DEF Snapshot
<1>3. p \in 1 .. Len(student_list) /\ student_list[p] = node[u]
      /\ Len(student_list) \in Nat
  BY <1>0, <1>2, AtPosition DEF L!TypeOK
<1> HIDE DEF p
<1>4. Formatted(node[u]) = p - 1
  BY <1>1 DEF Formatted, p
<1>5. node'[u] \in L!Listed \cup {End} /\ Formatted(node'[u]) = p
  <2>1. CASE p = Len(student_list)
    BY <1>1, <1>2, <1>3, <2>1 DEF L!NodeAt, Formatted
  <2>2. CASE p < Len(student_list)
    <3>1. node'[u] = student_list[p + 1] /\ p + 1 \in DOMAIN student_list
      BY <1>0, <1>1, <1>2, <1>3, <2>2 DEF L!NodeAt, L!TypeOK
    <3>2. node'[u] \in L!Listed /\ node'[u] # End
      BY <1>0, <3>1 DEF L!Listed, L!TypeOK
    <3>3. L!Position(node'[u]) = p + 1
      <4>1. /\ L!Position(node'[u]) \in 1 .. Len(student_list)
            /\ student_list[L!Position(node'[u])] = node'[u]
        BY <1>0, <3>2, AtPosition
      <4> QED
        BY <1>0, <1>3, <2>2, <3>1, <4>1 DEF Accounted
    <3> QED
      BY <1>3, <3>2, <3>3 DEF Formatted
  <2> QED
    BY <1>3, <2>1, <2>2
<1>6. /\ kbuf[u] = [k \in 1 .. Entries(node[u]) |-> id[student_list[k]]]
      /\ L!Before(node'[u]) = [k \in 1 .. Entries(node'[u]) |-> id[student_list[k]]]
  BY <1>2, BeforeIs
<1>7. kbuf'[u] = L!Before(node'[u])
  <2>1. CASE p - 1 < Room
    <3>1. Entries(node[u]) = p - 1 /\ Entries(node'[u]) = p
      BY <1>3, <1>4, <1>5, <2>1 DEF Entries
    <3>2. kbuf[u] \in Seq(Ids \cup {Free}) /\ Len(kbuf[u]) = p - 1
          /\ id[node[u]] \in Ids \cup {Free}
      BY <1>0, <1>2, <1>3, <1>6, <3>1 DEF L!TypeOK, L!Listed
    <3>3. kbuf'[u] = Append(kbuf[u], id[node[u]])
      BY <1>1, <2>1, <3>2
    <3>4. /\ Len(kbuf'[u]) = p /\ kbuf'[u] \in Seq(Ids \cup {Free})
          /\ \A k \in 1 .. p - 1 : kbuf'[u][k] = kbuf[u][k]
          /\ kbuf'[u][p] = id[node[u]]
      BY <1>3, <3>2, <3>3, AppendProperties
    <3>5. \A k \in 1 .. p : kbuf'[u][k] = id[student_list[k]]
      BY <1>3, <1>6, <3>1, <3>4
    <3>6. kbuf'[u] = [k \in 1 .. p |-> kbuf'[u][k]]
      BY <3>4
    <3> QED
      BY <1>6, <3>1, <3>5, <3>6
  <2>2. CASE ~ (p - 1 < Room)
    <3>1. Entries(node[u]) = Room /\ Entries(node'[u]) = Room
      BY <1>3, <1>4, <1>5, <2>2 DEF Entries
    <3>2. Len(kbuf[u]) = Room
      BY <1>0, <1>6, <3>1 DEF L!TypeOK
    <3> QED
      BY <1>1, <1>6, <3>1, <3>2
  <2> QED
    BY <2>1, <2>2
<1>8. L!Before(node[u])' = L!Before(node'[u]) /\ L!Listed' = L!Listed
  BY <1>1 DEF L!Before, L!Position, L!Listed
<1> QED
  BY <1>5, <1>7, <1>8 DEF Snapshot

\* my_read takes the mutex, formats node after node and gives the mutex back;
\* reading changes nobody's nodes.
LEMMA StudentReads ==
    ASSUME StudentInv, L!TypeOK', NEW u \in Users,
           L!ReadLock(u) \/ L!ReadNode(u) \/ L!ReadUnlock(u) \/ L!ReadCopy(u)
    PROVE  Accounted' /\ \A v \in Users : Snapshot(v)'
<1> USE ListConstants DEF L!Goto
<1>0. L!TypeOK /\ Accounted /\ \A v \in Users : Handed(v)
  BY DEF StudentInv, Accounted
<1>1. student_list' = student_list /\ id' = id /\ L!Listed' = L!Listed
  BY DEF L!ReadLock, L!ReadNode, L!ReadUnlock, L!ReadCopy, L!Listed
<1>2. \A v \in Users, n \in Nodes : Holds(v, n)' <=> Holds(v, n)
  BY <1>0 DEF L!ReadLock, L!ReadNode, L!ReadUnlock, L!ReadCopy, Holds, L!TypeOK
<1>3. CASE L!ReadLock(u)
  <2>1. \A v \in Users : Handed(v)'
    BY <1>0, <1>1, <1>3 DEF L!ReadLock, Handed, L!TypeOK
  <2>2. \A v \in Users \ {u} : pc23'[v] # "walk"
    BY <1>0, <1>3 DEF L!ReadLock, Handed, L!TypeOK
  <2>3. kbuf'[u] = <<>> /\ node'[u] = L!NodeAt(1)
    BY <1>0, <1>3 DEF L!ReadLock, Handed, L!TypeOK
  <2>4. Len(student_list) \in Nat
    BY <1>0 DEF L!TypeOK
  <2>5. CASE Len(student_list) = 0
    <3>1. node'[u] = End
      BY <2>3, <2>5 DEF L!NodeAt
    <3>2. L!Before(node[u])' = [k \in 1 .. 0 |-> id[student_list[k]]]
      BY <1>1, <2>5, <3>1 DEF L!Before
    <3> QED
      BY <1>1, <1>2, <2>1, <2>2, <2>3, <3>1, <3>2, NothingMoved DEF Snapshot
  <2>6. CASE Len(student_list) # 0
    <3>1. node'[u] = student_list[1] /\ node'[u] \in L!Listed
      BY <1>0, <2>3, <2>4, <2>6 DEF L!NodeAt, L!Listed, L!TypeOK
    <3>2. L!Position(student_list[1]) = 1 /\ student_list[1] # End
      <4>1. student_list[1] \in L!Listed /\ student_list[1] \in Nodes
        BY <1>0, <2>4, <2>6, <3>1 DEF L!TypeOK
      <4>2. /\ L!Position(student_list[1]) \in 1 .. Len(student_list)
            /\ student_list[L!Position(student_list[1])] = student_list[1]
        BY <1>0, <4>1, AtPosition
      <4> QED
        BY <1>0, <2>4, <2>6, <4>1, <4>2 DEF Accounted
    <3>3. Entries(node'[u]) = 0
      BY <3>1, <3>2 DEF Entries, Formatted
    <3>4. L!Before(node'[u]) = [k \in 1 .. 0 |-> id[student_list[k]]]
      BY <3>3, BeforeIs
    <3>5. L!Before(node[u])' = L!Before(node'[u])
      BY <1>1 DEF L!Before, L!Position
    <3> QED
      BY <1>1, <1>2, <2>1, <2>2, <2>3, <3>1, <3>4, <3>5, NothingMoved DEF Snapshot
  <2> QED
    BY <2>4, <2>5, <2>6
<1>4. CASE L!ReadNode(u)
  <2>1. \A v \in Users : Handed(v)'
    BY <1>0, <1>1, <1>4 DEF L!ReadNode, Handed, L!TypeOK
  <2>2. Accounted'
    BY <1>1, <1>2, <2>1, NothingMoved
  <2>3. \A v \in Users \ {u} : pc23'[v] # "walk"
    BY <1>0, <1>4 DEF L!ReadNode, Handed, L!TypeOK
  <2> QED
    BY <1>4, <2>2, <2>3, NodeFormatted DEF Snapshot
<1>5. CASE L!ReadUnlock(u)
  <2>1. \A v \in Users : Handed(v)'
    BY <1>0, <1>1, <1>5 DEF L!ReadUnlock, Handed, L!TypeOK
  <2>2. \A v \in Users : pc23'[v] # "walk"
    BY <1>0, <1>5 DEF L!ReadUnlock, Handed, L!TypeOK
  <2> QED
    BY <1>1, <1>2, <2>1, <2>2, NothingMoved DEF Snapshot
<1>6. CASE L!ReadCopy(u)
  <2>1. \A v \in Users : Handed(v)'
    <3>1. /\ pc23' = [pc23 EXCEPT ![u] = "idle"] /\ pc23[u] = "copy"
          /\ kbuf' = [kbuf EXCEPT ![u] = <<>>] /\ UNCHANGED <<list_lock, node>>
      BY <1>6 DEF L!ReadCopy
    <3> QED
      BY <1>0, <1>1, <3>1 DEF Handed, L!TypeOK
  <2>2. ASSUME NEW v \in Users, v # u PROVE Snapshot(v)'
    BY <1>0, <1>1, <1>6, <2>2, WalkKept DEF L!ReadCopy, L!TypeOK
  <2>3. Snapshot(u)'
    BY <1>0, <1>6 DEF L!ReadCopy, Snapshot, L!TypeOK
  <2> QED
    BY <1>1, <1>2, <2>1, <2>2, <2>3, NothingMoved
<1> QED
  BY <1>3, <1>4, <1>5, <1>6

\* lseek changes an offset; list_exit runs when nobody is in the driver, and frees
\* what is listed.
LEMMA StudentRest ==
    ASSUME StudentInv, L!TypeOK',
           (\E u \in Users : L!Seek(u)) \/ L!ListExit \/ UNCHANGED vars23
    PROVE  Accounted' /\ \A v \in Users : Snapshot(v)'
<1>0. L!TypeOK /\ Accounted /\ \A v \in Users : Handed(v)
  BY DEF StudentInv, Accounted
<1>1. CASE (\E u \in Users : L!Seek(u)) \/ UNCHANGED vars23
  <2>1. UNCHANGED <<student_list, id, list_lock, pc23, node, kbuf>>
    BY <1>1 DEF L!Seek, vars23
  <2>2. \A v \in Users : Handed(v)'
    BY <1>0, <2>1 DEF Handed, L!Listed
  <2>3. \A v \in Users, n \in Nodes : Holds(v, n)' <=> Holds(v, n)
    BY <2>1 DEF Holds
  <2>4. \A v \in Users : Snapshot(v)'
    BY <2>1, WalkKept
  <2> QED
    BY <2>1, <2>2, <2>3, <2>4, NothingMoved
<1>2. CASE L!ListExit
  <2>1. /\ student_list' = <<>> /\ UNCHANGED <<list_lock, pc23, node, kbuf>>
        /\ \A u \in Users : pc23[u] = "idle"
        /\ \A n \in Nodes : id'[n] = IF n \in L!Listed THEN Free ELSE id[n]
    BY <1>2 DEF L!ListExit
  <2>2. L!Listed' = {}
    BY <2>1 DEF L!Listed
  <2>3. \A v \in Users : Handed(v)'
    BY <1>0, <2>1, <2>2 DEF Handed
  <2>4. \A v \in Users, n \in Nodes : ~ Holds(v, n) /\ ~ Holds(v, n)'
    BY <2>1 DEF Holds
  <2>5. \A n \in Nodes : id'[n] = Free
    BY <1>0, <2>1, <2>4 DEF Accounted
  <2>6. Accounted'
    BY <2>1, <2>2, <2>3, <2>4, <2>5 DEF Accounted
  <2> QED
    BY <2>1, <2>6 DEF Snapshot
<1> QED
  BY <1>1, <1>2

LEMMA StudentStep == StudentInv /\ [L!Next]_vars23 => StudentInv'
<1> SUFFICES ASSUME StudentInv, [L!Next]_vars23 PROVE StudentInv'
  OBVIOUS
<1>1. L!TypeOK'
  BY StudentTypes
<1>2. CASE L!ListExit \/ UNCHANGED vars23
  BY <1>1, <1>2, StudentRest DEF StudentInv
<1>3. ASSUME NEW u \in Users, NEW k \in Ids, NEW n \in Nodes, L!WriteAlloc(u, k, n)
      PROVE  StudentInv'
  BY <1>1, <1>3, StudentWrites DEF StudentInv
<1>4. ASSUME NEW u \in Users, L!WriteDrop(u) \/ L!WriteAdd(u) \/ L!WritePrint(u)
      PROVE  StudentInv'
  BY <1>1, <1>4, StudentWrites DEF StudentInv
<1>5. ASSUME NEW u \in Users, NEW k \in Ids, L!Delete(u, k)
      PROVE  StudentInv'
  BY <1>1, <1>5, StudentDeletes DEF StudentInv
<1>6. ASSUME NEW u \in Users,
             L!ReadLock(u) \/ L!ReadNode(u) \/ L!ReadUnlock(u) \/ L!ReadCopy(u)
      PROVE  StudentInv'
  BY <1>1, <1>6, StudentReads DEF StudentInv
<1>7. ASSUME NEW u \in Users, L!Seek(u) PROVE StudentInv'
  BY <1>1, <1>7, StudentRest DEF StudentInv
<1> QED
  BY <1>2, <1>3, <1>4, <1>5, <1>6, <1>7 DEF L!Next

\* KernelList counts with the same Cardinality.
LEMMA SameCount == ASSUME NEW S PROVE L!Cardinality(S) = Cardinality(S)
BY DEF L!Cardinality, Cardinality

\* At most one place and at most one pair of hands, and never both.
LEMMA NodesCounted == StudentInv => L!NodesAccounted
<1> SUFFICES ASSUME StudentInv, NEW n \in Nodes
             PROVE  Cardinality({k \in DOMAIN student_list : student_list[k] = n})
                      + Cardinality({u \in Users : pc23[u] \in {"add", "drop"}
                                                   /\ node[u] = n})
                      = IF id[n] = Free THEN 0 ELSE 1
  BY SameCount DEF L!NodesAccounted
<1> DEFINE places == {k \in DOMAIN student_list : student_list[k] = n}
           hands == {u \in Users : pc23[u] \in {"add", "drop"} /\ node[u] = n}
<1>0. Accounted /\ DOMAIN student_list = 1 .. Len(student_list)
      /\ \A u \in Users : Handed(u)
  BY DEF StudentInv, Accounted, L!TypeOK
<1>1. id[n] # Free <=> places # {} \/ hands # {}
  BY <1>0 DEF Accounted, L!Listed, Holds
<1>2. places = {} \/ hands = {}
  BY <1>0 DEF Handed, Holds, L!Listed
<1>3. places # {} => \E k : places = {k}
  <2>1. \A j, k \in places : j = k
    BY <1>0 DEF Accounted
  <2> HIDE DEF places
  <2> QED
    BY <2>1
<1>4. hands # {} => \E u : hands = {u}
  <2>1. \A u, v \in hands : u = v
    BY <1>0 DEF Accounted, Holds
  <2> HIDE DEF hands
  <2> QED
    BY <2>1
<1> HIDE DEF places, hands
<1>5. Cardinality(places) = IF places = {} THEN 0 ELSE 1
  BY <1>3, FS_EmptySet, FS_Singleton
<1>6. Cardinality(hands) = IF hands = {} THEN 0 ELSE 1
  BY <1>4, FS_EmptySet, FS_Singleton
<1>7. Cardinality(places) + Cardinality(hands) = IF id[n] = Free THEN 0 ELSE 1
  BY <1>1, <1>2, <1>5, <1>6
<1> QED
  BY <1>7 DEF places, hands

(***************************************************************************)
(* Lessons 3, 4, 5 and 20, any style.  A writer marks the end of no more   *)
(* than the buffer keeps, and the last cell of a buffer whose data ends    *)
(* with a NUL is never anything else.                                      *)
(***************************************************************************)
BufferTypes ==
    /\ B!TypeOK
    /\ \A w \in Scribes :
        /\ pcB[w] \in {"idle", "mark"}
        /\ pcB[w] = "mark" => len[w] <= B!Limit
    /\ \A v \in Viewers :
        /\ pcB[v] \in {"idle", "limit", "trim", "copy", "end"}
        /\ pcB[v] \in {"limit", "trim"} => style = "sized"
    /\ style = "terminated" => kernel_buffer[BUF_SIZE - 1] = NUL

\* What is assumed of the buffers.
LEMMA BufferConstants ==
    /\ BUF_SIZE \in Nat /\ BUF_SIZE > 0
    /\ NUL \notin Chars
    /\ \A m \in Texts : m \in Seq(Chars)
    /\ \A n \in Chunks : n \in Nat /\ n > 0
    /\ \A w \in Scribes, v \in Viewers : w # v
    /\ SizeMod \in Nat /\ BUF_SIZE < SizeMod
BY DevicesAssumption DEF B!BufferAssumption

\* How much of a message is kept, and how much of it a write stores.
LEMMA KeptLength ==
    /\ B!Limit \in 0 .. BUF_SIZE
    /\ style = "terminated" => B!Limit = BUF_SIZE - 1
    /\ \A m \in Texts : /\ B!Least(Len(m), B!Limit) \in 0 .. BUF_SIZE
                        /\ B!Least(Len(m), B!Limit) <= Len(m)
                        /\ B!Least(Len(m), B!Limit) <= B!Limit
<1>1. B!Limit \in 0 .. BUF_SIZE /\ (style = "terminated" => B!Limit = BUF_SIZE - 1)
  BY BufferConstants DEF B!Limit
<1>2. \A m \in Texts : Len(m) \in Nat
  BY BufferConstants
<1> QED
  BY <1>1, <1>2, BufferConstants DEF B!Least

\* The first characters of a message replace as many cells.
LEMMA StoredIs ==
    ASSUME B!TypeOK, NEW m \in Texts, NEW n \in 0 .. BUF_SIZE, n <= Len(m)
    PROVE  /\ B!Stored(m, n) \in [B!Cells -> Chars \cup {NUL}]
           /\ \A k \in B!Cells :
                  B!Stored(m, n)[k] = IF k < n THEN m[k + 1] ELSE kernel_buffer[k]
<1>1. m \in Seq(Chars) /\ Len(m) \in Nat
  BY BufferConstants
<1>2. ASSUME NEW k \in B!Cells, k < n PROVE m[k + 1] \in Chars
  <2>1. k + 1 \in 1 .. Len(m)
    BY <1>1, <1>2, BufferConstants DEF B!Cells
  <2> QED
    BY <1>1, <2>1
<1>3. \A k \in B!Cells : kernel_buffer[k] \in Chars \cup {NUL}
  BY DEF B!TypeOK
<1>4. \A k \in B!Cells :
          (IF k < n THEN m[k + 1] ELSE kernel_buffer[k]) \in Chars \cup {NUL}
  BY <1>2, <1>3
<1> QED
  BY <1>4 DEF B!Stored

\* strlen stops at the first NUL, and runs past the buffer without one.
LEMMA StrLenIs ==
    /\ B!StrLen \in 0 .. BUF_SIZE + 1
    /\ (\E k \in B!Cells : kernel_buffer[k] = NUL) =>
           /\ B!StrLen \in B!Cells /\ kernel_buffer[B!StrLen] = NUL
           /\ \A j \in 0 .. B!StrLen - 1 : kernel_buffer[j] # NUL
<1>1. CASE \E k \in B!Cells : kernel_buffer[k] = NUL
  <2> DEFINE T == {k \in B!Cells : kernel_buffer[k] = NUL}
  <2>1. T \in SUBSET Nat /\ T # {}
    BY <1>1, BufferConstants DEF B!Cells
  <2>2. PICK x \in T : \A y \in T : <<y, x>> \notin OpToRel(<, Nat)
    BY <2>1, NatLessThanWellFounded, WFMin, Zenon
  <2>3. \A y \in T : ~(y < x)
    BY <2>1, <2>2, Zenon DEF OpToRel
  <2>4. x \in B!Cells /\ kernel_buffer[x] = NUL
    OBVIOUS
  <2>5. \A j \in 0 .. x - 1 : kernel_buffer[j] # NUL
    BY <2>3, <2>4, BufferConstants DEF B!Cells
  <2>6. /\ B!StrLen \in B!Cells /\ kernel_buffer[B!StrLen] = NUL
        /\ \A j \in 0 .. B!StrLen - 1 : kernel_buffer[j] # NUL
    BY <1>1, <2>4, <2>5 DEF B!StrLen
  <2> QED
    BY <2>6, BufferConstants DEF B!Cells
<1>2. CASE ~ \E k \in B!Cells : kernel_buffer[k] = NUL
  BY <1>2, BufferConstants DEF B!StrLen
<1> QED
  BY <1>1, <1>2

\* Where a read stops.
LEMMA DataEnds ==
    ASSUME BufferTypes
    PROVE  /\ B!DataLen \in 0 .. BUF_SIZE + 1
           /\ "bare" \notin Styles => B!DataLen <= BUF_SIZE
<1>1. B!DataLen \in 0 .. BUF_SIZE + 1
  BY StrLenIs, BufferConstants DEF B!DataLen, BufferTypes, B!TypeOK
<1>2. ASSUME "bare" \notin Styles PROVE B!DataLen <= BUF_SIZE
  <2>1. style \in {"terminated", "sized"}
    BY <1>2, DevicesAssumption DEF B!BufferAssumption, BufferTypes, B!TypeOK
  <2>2. CASE style = "sized"
    BY <2>2, BufferConstants DEF B!DataLen, BufferTypes, B!TypeOK
  <2>3. CASE style = "terminated"
    <3>1. BUF_SIZE - 1 \in B!Cells /\ kernel_buffer[BUF_SIZE - 1] = NUL
      BY <2>3, BufferConstants DEF BufferTypes, B!Cells
    <3>2. B!StrLen \in B!Cells
      BY <3>1, StrLenIs
    <3> QED
      BY <2>3, <3>2, BufferConstants DEF B!DataLen, B!Cells
  <2> QED
    BY <2>1, <2>2, <2>3
<1> QED
  BY <1>1, <1>2

\* Every process is idle and the buffer is empty.
LEMMA BufferTypesInit == B!Init => BufferTypes
<1> SUFFICES ASSUME B!Init PROVE BufferTypes
  OBVIOUS
<1> USE BufferConstants
<1>1. /\ kernel_buffer \in [B!Cells -> Chars \cup {NUL}] /\ style \in Styles
      /\ size \in 0 .. BUF_SIZE
  BY DEF B!Init
<1>2. pcB \in [Scribes \cup Viewers -> B!Reading \cup {"idle", "mark", "end", "copy"}]
      /\ \A p \in Scribes \cup Viewers : pcB[p] = "idle"
  BY DEF B!Init
<1>3. len \in [Scribes \cup Viewers -> Nat] /\ off \in [Viewers -> Nat]
  BY DEF B!Init
<1>4. quiet \in [Viewers -> BOOLEAN] /\ cut \in [Viewers -> BOOLEAN]
  BY DEF B!Init
<1>5. <<>> \in Seq(Chars \cup {NUL})
  BY EmptySeq
<1>6. content \in Seq(Chars \cup {NUL}) /\ got \in [Viewers -> Seq(Chars \cup {NUL})]
  BY <1>5 DEF B!Init
<1>7. kernel_buffer[BUF_SIZE - 1] = NUL
  BY DEF B!Init, B!Cells
<1> QED
  BY <1>1, <1>2, <1>3, <1>4, <1>6, <1>7 DEF BufferTypes, B!TypeOK

\* What a process does that opens and reads the device.
ViewerNext(v) ==
    \/ B!Open(v) \/ B!ReadEnd(v)
    \/ \E n \in Chunks : B!ReadLength(v, n) \/ B!ReadCheck(v, n)
    \/ B!ReadLimit(v) \/ B!ReadTrim(v) \/ B!ReadCopy(v) \/ B!ReadFault(v)

\* It changes neither the device nor anybody else.
LEMMA ViewerLeaves ==
    ASSUME B!TypeOK, NEW v \in Viewers, ViewerNext(v)
    PROVE  /\ UNCHANGED <<style, kernel_buffer, size, content>>
           /\ \A x \in Scribes : pcB'[x] = pcB[x] /\ len'[x] = len[x]
           /\ \A x \in Viewers \ {v} :
                  /\ pcB'[x] = pcB[x] /\ len'[x] = len[x] /\ off'[x] = off[x]
                  /\ got'[x] = got[x] /\ quiet'[x] = quiet[x] /\ cut'[x] = cut[x]
<1> USE BufferConstants DEF B!TypeOK
<1>1. CASE B!Open(v) \/ B!ReadEnd(v) \/ B!ReadCopy(v) \/ B!ReadFault(v)
  BY <1>1 DEF B!Open, B!ReadEnd, B!ReadCopy, B!ReadFault
<1>2. CASE B!ReadLimit(v) \/ B!ReadTrim(v)
  BY <1>2 DEF B!ReadLimit, B!ReadTrim
<1>3. ASSUME NEW n \in Chunks, B!ReadLength(v, n) \/ B!ReadCheck(v, n)
      PROVE  /\ UNCHANGED <<style, kernel_buffer, size, content>>
             /\ \A x \in Scribes : pcB'[x] = pcB[x] /\ len'[x] = len[x]
             /\ \A x \in Viewers \ {v} :
                    /\ pcB'[x] = pcB[x] /\ len'[x] = len[x] /\ off'[x] = off[x]
                    /\ got'[x] = got[x] /\ quiet'[x] = quiet[x] /\ cut'[x] = cut[x]
  BY <1>3 DEF B!ReadLength, B!ReadCheck
<1> QED
  BY <1>1, <1>2, <1>3 DEF ViewerNext

\* dev->size - *off is a length.
LEMMA LeftIs ==
    ASSUME BufferTypes, NEW v \in Viewers
    PROVE  /\ B!Left(v) \in Nat
           /\ off[v] <= size => B!Left(v) = size - off[v]
<1>1. size \in 0 .. BUF_SIZE /\ off[v] \in Nat
  BY DEF BufferTypes, B!TypeOK
<1>2. SizeMod \in Nat /\ BUF_SIZE \in Nat /\ BUF_SIZE < SizeMod
  BY BufferConstants
<1> DEFINE d == size - off[v]
<1>3. d \in Int /\ (off[v] <= size => d \in 0 .. SizeMod - 1)
  BY <1>1, <1>2
<1>4. ASSUME NEW x \in Int, NEW m \in Nat, m > 0
      PROVE  x % m \in Nat /\ (x \in 0 .. m - 1 => x % m = x)
  BY <1>4, SMTT(30)
<1> HIDE DEF d
<1>5. d % SizeMod \in Nat /\ (off[v] <= size => d % SizeMod = d)
  BY <1>2, <1>3, <1>4
<1> QED
  BY <1>5 DEF B!Left, d

\* A write copies and marks what Limit keeps; a read copies cells, or zeroes from
\* behind the buffer.
LEMMA BufferTypesStep == BufferTypes /\ [B!Next]_varsB => BufferTypes'
<1> SUFFICES ASSUME BufferTypes, [B!Next]_varsB PROVE BufferTypes'
  OBVIOUS
<1> USE BufferConstants
<1>0. B!TypeOK /\ B!Limit \in 0 .. BUF_SIZE
      /\ (style = "terminated" => B!Limit = BUF_SIZE - 1)
  BY KeptLength DEF BufferTypes
<1>1. (style' = style => B!Limit' = B!Limit) /\ BUF_SIZE - 1 \in B!Cells
      /\ \A k \in B!Cells : k \in Int
  BY DEF B!Limit, B!Cells
<1>2. ASSUME NEW w \in Scribes, NEW m \in Texts, B!WriteCopy(w, m)
      PROVE  BufferTypes'
  <2> DEFINE n == B!Least(Len(m), B!Limit)
  <2>1. n \in 0 .. BUF_SIZE /\ n <= Len(m) /\ n <= B!Limit
    BY KeptLength
  <2> HIDE DEF n
  <2>2. /\ len' = [len EXCEPT ![w] = n] /\ len'[w] = n
        /\ pcB' = [pcB EXCEPT ![w] = "mark"] /\ UNCHANGED <<style, size, off, got, cut>>
        /\ quiet' = [v \in Viewers |-> FALSE]
    BY <1>0, <1>2, <2>1 DEF B!WriteCopy, B!TypeOK, n
  <2>3. kernel_buffer' = B!Stored(m, n)
    BY <1>2, <2>2 DEF B!WriteCopy
  <2>4. /\ kernel_buffer' \in [B!Cells -> Chars \cup {NUL}]
        /\ \A k \in B!Cells :
               kernel_buffer'[k] = IF k < n THEN m[k + 1] ELSE kernel_buffer[k]
    BY <1>0, <2>1, <2>3, StoredIs
  <2>5. content' \in Seq(Chars \cup {NUL})
    <3>1. content' = SubSeq(m, 1, n) \/ content' = B!Torn
      BY <1>2, <2>2 DEF B!WriteCopy
    <3>2. m \in Seq(Chars \cup {NUL}) /\ Len(m) \in Nat
      OBVIOUS
    <3>3. SubSeq(m, 1, n) \in Seq(Chars \cup {NUL})
      BY <2>1, <3>2, SubSeqProperties
    <3>4. B!Torn \in Seq(Chars \cup {NUL})
      BY DEF B!Torn
    <3> QED
      BY <3>1, <3>3, <3>4
  <2>6. style = "terminated" => kernel_buffer'[BUF_SIZE - 1] = NUL
    BY <1>0, <1>1, <2>1, <2>4 DEF BufferTypes
  <2>7. /\ pcB' \in [Scribes \cup Viewers -> B!Reading \cup {"idle", "mark", "end", "copy"}]
        /\ len' \in [Scribes \cup Viewers -> Nat]
    BY <1>0, <2>1, <2>2 DEF B!TypeOK
  <2>8. quiet' \in [Viewers -> BOOLEAN]
    BY <2>2
  <2>9. \A v \in Viewers : pcB'[v] = pcB[v]
    BY <1>0, <2>2 DEF BufferTypes, B!TypeOK
  <2>10. ASSUME NEW x \in Scribes
         PROVE  pcB'[x] \in {"idle", "mark"} /\ (pcB'[x] = "mark" => len'[x] <= B!Limit)
    BY <1>0, <2>1, <2>2 DEF BufferTypes, B!TypeOK
  <2>11. B!TypeOK'
    BY <1>0, <2>2, <2>4, <2>5, <2>7, <2>8 DEF B!TypeOK
  <2> QED
    BY <1>1, <2>2, <2>6, <2>9, <2>10, <2>11 DEF BufferTypes
<1>3. ASSUME NEW w \in Scribes, NEW m \in Texts, B!WriteFault(w, m)
      PROVE  BufferTypes'
  <2>1. PICK n \in 0 .. B!Least(Len(m), B!Limit) - 1 : kernel_buffer' = B!Stored(m, n)
    BY <1>3 DEF B!WriteFault
  <2>2. n \in 0 .. BUF_SIZE /\ n <= Len(m) /\ n < B!Limit
    <3>1. Len(m) \in Nat
      OBVIOUS
    <3> QED
      BY <1>0, <2>1, <3>1, KeptLength
  <2>3. /\ kernel_buffer' \in [B!Cells -> Chars \cup {NUL}]
        /\ \A k \in B!Cells :
               kernel_buffer'[k] = IF k < n THEN m[k + 1] ELSE kernel_buffer[k]
    BY <1>0, <2>1, <2>2, StoredIs
  <2>4. /\ quiet' = [v \in Viewers |-> FALSE] /\ content' = B!Torn
        /\ UNCHANGED <<style, size, pcB, len, off, got, cut>>
    BY <1>3 DEF B!WriteFault
  <2>5. content' \in Seq(Chars \cup {NUL}) /\ quiet' \in [Viewers -> BOOLEAN]
    BY <2>4 DEF B!Torn
  <2>6. style = "terminated" => kernel_buffer'[BUF_SIZE - 1] = NUL
    BY <1>0, <1>1, <2>2, <2>3 DEF BufferTypes
  <2>7. B!TypeOK'
    BY <1>0, <2>3, <2>4, <2>5 DEF B!TypeOK
  <2> QED
    BY <1>1, <2>4, <2>6, <2>7 DEF BufferTypes
<1>4. ASSUME NEW w \in Scribes, B!WriteMark(w) PROVE BufferTypes'
  <2>1. /\ pcB[w] = "mark" /\ pcB' = [pcB EXCEPT ![w] = "idle"]
        /\ UNCHANGED <<style, len, off, got, quiet, content>>
    BY <1>4 DEF B!WriteMark
  <2>2. len[w] \in 0 .. BUF_SIZE
    BY <1>0, <2>1 DEF BufferTypes, B!TypeOK
  <2>3. size' \in 0 .. BUF_SIZE
    BY <1>0, <1>4, <2>2 DEF B!WriteMark, B!TypeOK
  <2>4. /\ kernel_buffer' \in [B!Cells -> Chars \cup {NUL}]
        /\ style = "terminated" => kernel_buffer'[BUF_SIZE - 1] = NUL
    <3>1. kernel_buffer' = kernel_buffer
          \/ kernel_buffer' = [kernel_buffer EXCEPT ![len[w]] = NUL]
      BY <1>4 DEF B!WriteMark
    <3> QED
      BY <1>0, <1>1, <3>1 DEF BufferTypes, B!TypeOK
  <2>5. pcB' \in [Scribes \cup Viewers -> B!Reading \cup {"idle", "mark", "end", "copy"}]
    BY <1>0, <2>1 DEF B!TypeOK
  <2>6. B!TypeOK'
    <3>1. cut' \in [Viewers -> BOOLEAN]
      <4> DEFINE c(v) == cut[v] \/ (pcB[v] \in B!Reading /\ size' < off[v])
      <4>1. cut' = [v \in Viewers |-> c(v)]
        BY <1>4 DEF B!WriteMark
      <4>2. \A v \in Viewers : c(v) \in BOOLEAN
        OBVIOUS
      <4> HIDE DEF c
      <4> QED
        BY <4>1, <4>2
    <3> QED
      BY <1>0, <2>1, <2>3, <2>4, <2>5, <3>1 DEF B!TypeOK
  <2>7. \A v \in Viewers : pcB'[v] = pcB[v]
    BY <1>0, <2>1 DEF BufferTypes, B!TypeOK
  <2>8. \A x \in Scribes : /\ pcB'[x] \in {"idle", "mark"}
                           /\ pcB'[x] = "mark" => len'[x] <= B!Limit
    BY <1>0, <2>1 DEF BufferTypes, B!TypeOK
  <2> QED
    BY <1>1, <2>1, <2>4, <2>6, <2>7, <2>8 DEF BufferTypes
<1>5. ASSUME NEW v \in Viewers, ViewerNext(v) PROVE BufferTypes'
  <2>1. /\ UNCHANGED <<style, kernel_buffer, size, content>>
        /\ \A x \in Scribes : pcB'[x] = pcB[x] /\ len'[x] = len[x]
        /\ \A x \in Viewers \ {v} : pcB'[x] = pcB[x]
    BY <1>0, <1>5, ViewerLeaves
  <2>2. /\ pcB' \in [Scribes \cup Viewers -> B!Reading \cup {"idle", "mark", "end", "copy"}]
        /\ pcB'[v] \in {"idle", "limit", "trim", "copy", "end"}
        /\ pcB'[v] \in {"limit", "trim"} => style = "sized"
    <3>1. \/ pcB' = [pcB EXCEPT ![v] = "idle"] \/ pcB' = [pcB EXCEPT ![v] = "end"]
          \/ pcB' = [pcB EXCEPT ![v] = "copy"]
          \/ pcB' = [pcB EXCEPT ![v] = "limit"] /\ style = "sized"
          \/ pcB' = [pcB EXCEPT ![v] = "trim"] /\ pcB[v] = "limit"
      BY <1>5 DEF ViewerNext, B!Open, B!ReadEnd, B!ReadLimit, B!ReadTrim, B!ReadCopy,
         B!ReadFault, B!ReadLength, B!ReadCheck
    <3> QED
      BY <1>0, <3>1 DEF BufferTypes, B!TypeOK, B!Reading
  <2>3. len' \in [Scribes \cup Viewers -> Nat]
    <3>1. ASSUME NEW n \in Chunks, B!ReadLength(v, n)
          PROVE  len' \in [Scribes \cup Viewers -> Nat]
      <4>1. off[v] \in Nat /\ B!StrLen \in Nat /\ off[v] < B!StrLen
        BY <1>0, <3>1, StrLenIs DEF B!ReadLength, B!TypeOK
      <4>2. B!Least(n, IF style = "bare" THEN B!StrLen ELSE B!StrLen - off[v]) \in Nat
        BY <4>1 DEF B!Least
      <4> QED
        BY <1>0, <3>1, <4>2 DEF B!ReadLength, B!TypeOK
    <3>2. CASE B!ReadTrim(v)
      BY <1>0, <3>2, LeftIs DEF B!ReadTrim, B!TypeOK
    <3>3. ASSUME NEW n \in Chunks, B!ReadCheck(v, n)
          PROVE  len' \in [Scribes \cup Viewers -> Nat]
      BY <1>0, <3>3 DEF B!ReadCheck, B!TypeOK
    <3> QED
      BY <1>0, <1>5, <3>1, <3>2, <3>3 DEF ViewerNext, B!Open, B!ReadEnd, B!ReadLimit,
         B!ReadCopy, B!ReadFault, B!TypeOK
  <2>4. off' \in [Viewers -> Nat]
    <3>1. off' \in {off, [off EXCEPT ![v] = 0], [off EXCEPT ![v] = off[v] + len[v]]}
      BY <1>5 DEF ViewerNext, B!Open, B!ReadEnd, B!ReadLimit, B!ReadTrim, B!ReadCopy,
         B!ReadFault, B!ReadLength, B!ReadCheck
    <3>2. off \in [Viewers -> Nat] /\ off[v] + len[v] \in Nat
      BY <1>0 DEF B!TypeOK
    <3>3. \A k \in Nat : [off EXCEPT ![v] = k] \in [Viewers -> Nat]
      BY <3>2
    <3> QED
      BY <3>1, <3>2, <3>3
  <2>5. quiet' \in [Viewers -> BOOLEAN]
    <3>1. quiet' = quiet \/ quiet' = [quiet EXCEPT ![v] = \A x \in Scribes : pcB[x] = "idle"]
      BY <1>5 DEF ViewerNext, B!Open, B!ReadEnd, B!ReadLimit, B!ReadTrim, B!ReadCopy,
         B!ReadFault, B!ReadLength, B!ReadCheck
    <3> DEFINE q == \A x \in Scribes : pcB[x] = "idle"
    <3>2. q \in BOOLEAN
      OBVIOUS
    <3> HIDE DEF q
    <3>3. [quiet EXCEPT ![v] = q] \in [Viewers -> BOOLEAN]
      BY <1>0, <3>2 DEF B!TypeOK
    <3> QED
      BY <1>0, <3>1, <3>3, Zenon DEF B!TypeOK, q
  <2>6. got' \in [Viewers -> Seq(Chars \cup {NUL})]
    <3>1. CASE B!ReadCopy(v)
      <4> DEFINE cells == [k \in 1 .. len[v] |->
                              IF B!From(v) + k - 1 \in B!Cells
                              THEN kernel_buffer[B!From(v) + k - 1] ELSE NUL]
      <4>1. len[v] \in Nat /\ got[v] \in Seq(Chars \cup {NUL})
        BY <1>0 DEF B!TypeOK
      <4>2. \A k \in B!Cells : kernel_buffer[k] \in Chars \cup {NUL}
        BY <1>0 DEF B!TypeOK
      <4>3. cells \in [1 .. len[v] -> Chars \cup {NUL}]
        BY <4>2
      <4>4. got' = [got EXCEPT ![v] = got[v] \o cells]
        BY <3>1 DEF B!ReadCopy
      <4> HIDE DEF cells
      <4>5. cells \in Seq(Chars \cup {NUL})
        BY <4>1, <4>3, SeqDef
      <4>6. got[v] \o cells \in Seq(Chars \cup {NUL})
        BY <4>1, <4>5, ConcatProperties
      <4> QED
        BY <1>0, <4>4, <4>6 DEF B!TypeOK
    <3>2. CASE ~ B!ReadCopy(v)
      <4>1. got' = got \/ got' = [got EXCEPT ![v] = <<>>]
        BY <1>5, <3>2 DEF ViewerNext, B!Open, B!ReadEnd, B!ReadLimit, B!ReadTrim,
           B!ReadFault, B!ReadLength, B!ReadCheck
      <4>2. got \in [Viewers -> Seq(Chars \cup {NUL})]
        BY <1>0 DEF B!TypeOK
      <4>3. [got EXCEPT ![v] = <<>>] \in [Viewers -> Seq(Chars \cup {NUL})]
        BY <4>2, EmptySeq
      <4> QED
        BY <4>1, <4>2, <4>3
    <3> QED
      BY <3>1, <3>2
  <2>7. cut' \in [Viewers -> BOOLEAN]
    <3>1. cut' = cut \/ cut' = [cut EXCEPT ![v] = FALSE]
      BY <1>5 DEF ViewerNext, B!Open, B!ReadEnd, B!ReadLimit, B!ReadTrim, B!ReadCopy,
         B!ReadFault, B!ReadLength, B!ReadCheck
    <3>2. cut \in [Viewers -> BOOLEAN] /\ [cut EXCEPT ![v] = FALSE] \in [Viewers -> BOOLEAN]
      BY <1>0 DEF B!TypeOK
    <3> QED
      BY <3>1, <3>2, Zenon
  <2>8. B!TypeOK'
    BY <1>0, <2>1, <2>2, <2>3, <2>4, <2>5, <2>6, <2>7 DEF B!TypeOK
  <2> QED
    BY <1>1, <2>1, <2>2, <2>8 DEF BufferTypes
<1>6. CASE UNCHANGED varsB
  BY <1>1, <1>6 DEF varsB, BufferTypes, B!TypeOK
<1> QED
  BY <1>2, <1>3, <1>4, <1>5, <1>6 DEF B!Next, ViewerNext

(***************************************************************************)
(* The same devices when they know where their data ends.  Content that is *)
(* not torn lies in front of the mark, once the one writer has set it; who *)
(* opened the file since then has read a prefix of it.                     *)
(***************************************************************************)
Marked == \A w \in Scribes : pcB[w] = "idle"

ContentInv ==
    content # B!Torn =>
        /\ content \in Seq(Chars)
        /\ Len(content) <= B!Limit
        /\ \A k \in 1 .. Len(content) : kernel_buffer[k - 1] = content[k]
        /\ \A w, x \in Scribes : pcB[w] = "mark" /\ pcB[x] = "mark" => w = x
        /\ \A w \in Scribes : pcB[w] = "mark" => len[w] = Len(content)
        /\ Marked /\ style = "terminated" => kernel_buffer[Len(content)] = NUL
        /\ Marked /\ style = "sized" => size = Len(content)

Prefix(v) ==
    /\ Len(got[v]) = off[v]
    /\ off[v] <= Len(content)
    /\ \A k \in 1 .. off[v] : got[v][k] = content[k]
    /\ pcB[v] = "copy" => off[v] + len[v] <= Len(content)
    /\ pcB[v] = "end" => off[v] = Len(content)

ViewInv ==
    \A v \in Viewers : quiet[v] => Marked /\ (content # B!Torn => Prefix(v))

\* Unless the content was cut, a read that looks at the size again finds its
\* offset in front of it.
SizeInv ==
    \A v \in Viewers : pcB[v] \in {"limit", "trim"} /\ ~cut[v] => off[v] <= size

BufferInv == BufferTypes /\ SizeInv /\ B!StaysInBuffer /\ ContentInv /\ ViewInv

\* The data of a device that nobody writes ends where the content does.
LEMMA EndOfContent ==
    ASSUME "bare" \notin Styles, BufferTypes, ContentInv, Marked, content # B!Torn
    PROVE  B!DataLen = Len(content)
<1> USE BufferConstants
<1>0. style \in {"terminated", "sized"}
  BY DevicesAssumption DEF B!BufferAssumption, BufferTypes, B!TypeOK
<1>1. /\ content \in Seq(Chars) /\ Len(content) \in Nat /\ Len(content) <= B!Limit
      /\ \A k \in 1 .. Len(content) : kernel_buffer[k - 1] = content[k]
  BY DEF ContentInv
<1>2. CASE style = "sized"
  BY <1>2 DEF B!DataLen, ContentInv
<1>3. CASE style = "terminated"
  <2>1. Len(content) \in B!Cells /\ kernel_buffer[Len(content)] = NUL
    BY <1>1, <1>3, KeptLength DEF ContentInv, B!Cells
  <2>2. /\ B!StrLen \in B!Cells /\ kernel_buffer[B!StrLen] = NUL
        /\ \A j \in 0 .. B!StrLen - 1 : kernel_buffer[j] # NUL
    BY <2>1, StrLenIs
  <2>3. \A j \in 0 .. Len(content) - 1 : kernel_buffer[j] # NUL
    <3>1. ASSUME NEW j \in 0 .. Len(content) - 1 PROVE kernel_buffer[j] # NUL
      <4>1. j + 1 \in 1 .. Len(content) /\ (j + 1) - 1 = j
        BY <1>1
      <4>2. content[j + 1] \in Chars
        BY <1>1, <4>1
      <4> QED
        BY <1>1, <4>1, <4>2
    <3> QED
      BY <3>1
  <2>4. B!StrLen = Len(content)
    BY <2>1, <2>2, <2>3 DEF B!Cells
  <2> QED
    BY <1>3, <2>4 DEF B!DataLen
<1> QED
  BY <1>0, <1>2, <1>3

\* The buffer is empty and marked, and nobody has read.
LEMMA BufferInit == B!Init => BufferInv
<1> SUFFICES ASSUME B!Init PROVE BufferInv
  OBVIOUS
<1>1. BufferTypes
  BY BufferTypesInit
<1>2. /\ \A p \in Scribes \cup Viewers : pcB[p] = "idle" /\ len[p] = 0
      /\ \A v \in Viewers : off[v] = 0 /\ got[v] = <<>>
      /\ content = <<>> /\ size = 0 /\ kernel_buffer[0] = NUL
  BY BufferConstants DEF B!Init, B!Cells
<1>3. B!Limit >= 0
  BY KeptLength
<1>4. content \in Seq(Chars) /\ Len(content) = 0
  BY <1>2, EmptySeq
<1>5. ContentInv
  BY <1>2, <1>3, <1>4 DEF ContentInv
<1>6. ViewInv
  BY <1>2, <1>4 DEF ViewInv, Prefix, Marked
<1> QED
  BY <1>1, <1>2, <1>5, <1>6 DEF BufferInv, SizeInv, B!StaysInBuffer

\* A write that makes the content end before the offset of a read that is
\* looking at the size is the one that cuts it.
LEMMA SizeStep ==
    ASSUME BufferTypes, SizeInv, [B!Next]_varsB PROVE SizeInv'
<1> USE BufferConstants
<1>0. B!TypeOK
  BY DEF BufferTypes
<1>1. ASSUME NEW w \in Scribes, NEW m \in Texts, B!WriteCopy(w, m) \/ B!WriteFault(w, m)
      PROVE  SizeInv'
  BY <1>0, <1>1 DEF B!WriteCopy, B!WriteFault, SizeInv, B!TypeOK
<1>2. ASSUME NEW w \in Scribes, B!WriteMark(w) PROVE SizeInv'
  <2>1. size' \in Int /\ off' = off /\ \A v \in Viewers : pcB'[v] = pcB[v]
    BY <1>0, <1>2 DEF B!WriteMark, B!TypeOK
  <2>2. \A v \in Viewers : cut'[v] <=> cut[v] \/ (pcB[v] \in B!Reading /\ size' < off[v])
    BY <1>2 DEF B!WriteMark
  <2> QED
    BY <1>0, <2>1, <2>2 DEF SizeInv, B!Reading, B!TypeOK
<1>3. ASSUME NEW v \in Viewers, ViewerNext(v) PROVE SizeInv'
  <2>1. size' = size /\ \A x \in Viewers \ {v} : /\ pcB'[x] = pcB[x] /\ off'[x] = off[x]
                                                 /\ cut'[x] = cut[x]
    BY <1>0, <1>3, ViewerLeaves
  <2>2. SUFFICES ASSUME pcB'[v] \in {"limit", "trim"}, ~cut'[v] PROVE off'[v] <= size
    BY <2>1 DEF SizeInv
  <2>3. CASE B!ReadLimit(v)
    BY <1>0, <2>2, <2>3 DEF B!ReadLimit, SizeInv, B!TypeOK
  <2>4. ASSUME NEW n \in Chunks, B!ReadCheck(v, n) PROVE off'[v] <= size
    BY <1>0, <2>4 DEF B!ReadCheck, B!TypeOK
  <2> QED
    BY <1>0, <1>3, <2>2, <2>3, <2>4
       DEF ViewerNext, B!Open, B!ReadEnd, B!ReadTrim, B!ReadCopy, B!ReadFault,
           B!ReadLength, B!TypeOK
<1>4. CASE UNCHANGED varsB
  BY <1>4 DEF varsB, SizeInv
<1> QED
  BY <1>1, <1>2, <1>3, <1>4 DEF B!Next, ViewerNext

\* A read that has its length keeps it, whatever writers do meanwhile.
LEMMA StaysStep ==
    ASSUME "bare" \notin Styles, BufferTypes, SizeInv, B!StaysInBuffer, [B!Next]_varsB
    PROVE  B!StaysInBuffer'
<1> SUFFICES ASSUME NEW v \in Viewers, pcB'[v] = "copy", ~cut'[v]
             PROVE  off'[v] + len'[v] <= BUF_SIZE
  <2>1. style' # "bare"
    BY BufferTypesStep DEF BufferTypes, B!TypeOK
  <2> QED
    BY <2>1 DEF B!StaysInBuffer, B!From
<1> USE BufferConstants
<1>0. B!TypeOK /\ style \in Styles /\ style # "bare" /\ size \in 0 .. BUF_SIZE
      /\ off[v] \in Nat /\ len[v] \in Nat
  BY DEF BufferTypes, B!TypeOK
<1>1. CASE pcB[v] = "copy"
  <2>1. off'[v] = off[v] /\ len'[v] = len[v] /\ ~cut[v]
    <3>1. ASSUME NEW w \in Scribes, NEW m \in Texts, B!WriteCopy(w, m) \/ B!WriteFault(w, m)
          PROVE  off'[v] = off[v] /\ len'[v] = len[v] /\ cut'[v] = cut[v]
      BY <1>0, <3>1 DEF B!WriteCopy, B!WriteFault, B!TypeOK
    <3>2. ASSUME NEW w \in Scribes, B!WriteMark(w)
          PROVE  off'[v] = off[v] /\ len'[v] = len[v] /\ (cut[v] => cut'[v])
      BY <1>0, <3>2 DEF B!WriteMark, B!TypeOK
    <3>3. ASSUME NEW x \in Viewers, ViewerNext(x)
          PROVE  off'[v] = off[v] /\ len'[v] = len[v] /\ cut'[v] = cut[v]
      <4>1. x # v
        BY <1>0, <1>1, <3>3
           DEF ViewerNext, B!Open, B!ReadEnd, B!ReadLimit, B!ReadTrim, B!ReadCopy,
               B!ReadFault, B!ReadLength, B!ReadCheck, B!TypeOK
      <4> QED
        BY <1>0, <3>3, <4>1, ViewerLeaves
    <3>4. CASE UNCHANGED varsB
      BY <3>4 DEF varsB
    <3> QED
      BY <3>1, <3>2, <3>3, <3>4 DEF B!Next, ViewerNext
  <2> QED
    BY <1>0, <1>1, <2>1 DEF B!StaysInBuffer, B!From
<1>2. CASE pcB[v] # "copy"
  <2>1. ViewerNext(v)
    <3>1. ASSUME NEW w \in Scribes PROVE ~B!WriteMark(w) /\ \A m \in Texts :
                                            ~B!WriteCopy(w, m) /\ ~B!WriteFault(w, m)
      BY <1>0, <1>2 DEF B!WriteMark, B!WriteCopy, B!WriteFault, B!TypeOK
    <3>2. ASSUME NEW x \in Viewers, x # v PROVE ~ViewerNext(x)
      BY <1>0, <1>2, <3>2, ViewerLeaves
    <3> QED
      BY <1>2, <3>1, <3>2 DEF B!Next, ViewerNext, varsB
  <2>2. ASSUME NEW n \in Chunks, B!ReadLength(v, n)
        PROVE  off'[v] + len'[v] <= BUF_SIZE
    <3>1. style = "terminated"
      BY <1>0, <2>2, DevicesAssumption DEF B!ReadLength, B!BufferAssumption
    <3>2. B!StrLen \in 0 .. BUF_SIZE /\ off[v] < B!StrLen
      BY <2>2, <3>1, DataEnds DEF B!ReadLength, B!DataLen
    <3>3. off'[v] = off[v] /\ len'[v] = B!Least(n, B!StrLen - off[v])
      BY <1>0, <2>2 DEF B!ReadLength, B!TypeOK
    <3> QED
      BY <1>0, <3>2, <3>3 DEF B!Least
  <2>3. CASE B!ReadLimit(v)
    <3>1. ~cut[v] /\ off'[v] = off[v] /\ len'[v] = len[v] /\ off[v] <= size
      BY <1>0, <2>3 DEF B!ReadLimit, SizeInv
    <3>2. len[v] <= size - off[v]
      BY <1>0, <2>3, <3>1, LeftIs DEF B!ReadLimit, B!TypeOK
    <3> QED
      BY <1>0, <3>1, <3>2
  <2>4. CASE B!ReadTrim(v)
    <3>1. ~cut[v] /\ off'[v] = off[v] /\ len'[v] = B!Left(v) /\ off[v] <= size
      BY <1>0, <2>4 DEF B!ReadTrim, SizeInv, B!TypeOK
    <3> QED
      BY <1>0, <3>1, LeftIs
  <2> QED
    BY <1>0, <2>1, <2>2, <2>3, <2>4
       DEF ViewerNext, B!Open, B!ReadEnd, B!ReadCheck, B!ReadCopy, B!ReadFault, B!TypeOK
<1> QED
  BY <1>1, <1>2

\* A write that meets no other one stores a text and marks its end.
LEMMA ContentStep ==
    ASSUME BufferTypes, ContentInv, [B!Next]_varsB PROVE ContentInv'
<1> USE BufferConstants
<1>0. B!TypeOK /\ B!Limit \in 0 .. BUF_SIZE
      /\ (style = "terminated" => B!Limit = BUF_SIZE - 1)
      /\ \A w \in Scribes : pcB[w] \in {"idle", "mark"}
  BY KeptLength DEF BufferTypes
<1>1. style' = style => B!Limit' = B!Limit
  BY DEF B!Limit
<1>2. ASSUME NEW w \in Scribes, NEW m \in Texts, B!WriteCopy(w, m)
      PROVE  ContentInv'
  <2> DEFINE n == B!Least(Len(m), B!Limit)
  <2>1. n \in 0 .. BUF_SIZE /\ n <= Len(m) /\ n <= B!Limit
    BY KeptLength
  <2> HIDE DEF n
  <2>2. /\ len' = [len EXCEPT ![w] = n] /\ len'[w] = n
        /\ pcB' = [pcB EXCEPT ![w] = "mark"] /\ style' = style
    BY <1>0, <1>2 DEF B!WriteCopy, B!TypeOK, n
  <2>3. \A k \in B!Cells :
            kernel_buffer'[k] = IF k < n THEN m[k + 1] ELSE kernel_buffer[k]
    BY <1>0, <1>2, <2>1, <2>2, StoredIs DEF B!WriteCopy
  <2>4. CASE ~ Marked
    BY <1>2, <2>4 DEF B!WriteCopy, ContentInv, Marked, B!Torn
  <2>5. CASE Marked
    <3>1. content' = SubSeq(m, 1, n)
      BY <1>2, <2>2, <2>5 DEF B!WriteCopy, Marked
    <3>2. m \in Seq(Chars) /\ Len(m) \in Nat
      OBVIOUS
    <3>3. /\ content' \in Seq(Chars) /\ Len(content') = n
          /\ \A k \in 1 .. n : content'[k] = m[k]
      BY <2>1, <3>1, <3>2, SubSeqProperties
    <3>4. \A k \in 1 .. n : kernel_buffer'[k - 1] = content'[k]
      <4>1. ASSUME NEW k \in 1 .. n PROVE kernel_buffer'[k - 1] = content'[k]
        <5>1. k - 1 \in B!Cells /\ k - 1 < n /\ (k - 1) + 1 = k
          BY <2>1 DEF B!Cells
        <5> QED
          BY <2>3, <3>3, <5>1
      <4> QED
        BY <4>1
    <3>5. \A x \in Scribes : pcB'[x] = "mark" => x = w
      BY <1>0, <2>2, <2>5 DEF Marked, B!TypeOK
    <3>6. ~ Marked'
      BY <1>0, <2>2 DEF Marked, B!TypeOK
    <3> QED
      BY <1>1, <2>1, <2>2, <3>3, <3>4, <3>5, <3>6 DEF ContentInv
  <2> QED
    BY <2>4, <2>5
<1>3. ASSUME NEW w \in Scribes, NEW m \in Texts, B!WriteFault(w, m)
      PROVE  ContentInv'
  BY <1>3 DEF B!WriteFault, ContentInv, B!Torn
<1>4. ASSUME NEW w \in Scribes, B!WriteMark(w) PROVE ContentInv'
  <2>1. /\ pcB[w] = "mark" /\ pcB' = [pcB EXCEPT ![w] = "idle"]
        /\ UNCHANGED <<style, len, content>>
    BY <1>4 DEF B!WriteMark
  <2>2. SUFFICES ASSUME content # B!Torn PROVE ContentInv'
    BY <2>1 DEF ContentInv, B!Torn
  <2>3. /\ content \in Seq(Chars) /\ Len(content) \in Nat /\ Len(content) <= B!Limit
        /\ len[w] = Len(content)
        /\ \A k \in 1 .. Len(content) : kernel_buffer[k - 1] = content[k]
        /\ \A x \in Scribes : pcB[x] = "mark" => x = w
    BY <2>1, <2>2 DEF ContentInv
  <2>4. \A k \in B!Cells : k # len[w] => kernel_buffer'[k] = kernel_buffer[k]
    BY <1>0, <1>4 DEF B!WriteMark, B!TypeOK
  <2>5. ASSUME NEW k \in 1 .. Len(content) PROVE kernel_buffer'[k - 1] = content[k]
    <3>1. k - 1 \in B!Cells /\ k - 1 # len[w]
      BY <1>0, <2>3 DEF B!Cells
    <3> QED
      BY <2>3, <2>4, <3>1
  <2>6. ASSUME style = "terminated" PROVE kernel_buffer'[Len(content)] = NUL
    <3>1. len[w] \in B!Cells
      BY <1>0, <2>3, <2>6 DEF B!Cells
    <3> QED
      BY <1>0, <1>4, <2>3, <2>6, <3>1 DEF B!WriteMark, B!TypeOK
  <2>7. style = "sized" => size' = Len(content)
    BY <1>4, <2>3 DEF B!WriteMark
  <2>8. \A x \in Scribes : pcB'[x] # "mark"
    BY <1>0, <2>1, <2>3 DEF B!TypeOK
  <2> QED
    BY <1>1, <2>1, <2>3, <2>5, <2>6, <2>7, <2>8 DEF ContentInv
<1>5. ASSUME NEW v \in Viewers, ViewerNext(v) PROVE ContentInv'
  <2>1. /\ UNCHANGED <<style, kernel_buffer, size, content>>
        /\ \A x \in Scribes : pcB'[x] = pcB[x] /\ len'[x] = len[x]
    BY <1>0, <1>5, ViewerLeaves
  <2>2. Marked' <=> Marked
    BY <2>1 DEF Marked
  <2> QED
    BY <1>1, <2>1, <2>2 DEF ContentInv, B!Torn
<1>6. CASE UNCHANGED varsB
  <2>1. (Marked' <=> Marked) /\ UNCHANGED <<style, kernel_buffer, size, content, pcB, len>>
    BY <1>6 DEF varsB, Marked
  <2> QED
    BY <1>1, <2>1 DEF ContentInv, B!Torn
<1> QED
  BY <1>2, <1>3, <1>4, <1>5, <1>6 DEF B!Next, ViewerNext

\* copy_to_user hands out the cells behind what has been read.
LEMMA PrefixGrows ==
    ASSUME BufferTypes, style # "bare", ContentInv, content # B!Torn,
           NEW v \in Viewers, Prefix(v), B!ReadCopy(v)
    PROVE  Prefix(v)'
<1> DEFINE cells == [k \in 1 .. len[v] |-> IF B!From(v) + k - 1 \in B!Cells
                                           THEN kernel_buffer[B!From(v) + k - 1] ELSE NUL]
<1>0. B!TypeOK
  BY DEF BufferTypes
<1>1. /\ got' = [got EXCEPT ![v] = got[v] \o cells]
      /\ off' = [off EXCEPT ![v] = off[v] + len[v]]
      /\ pcB[v] = "copy" /\ pcB' = [pcB EXCEPT ![v] = "idle"] /\ content' = content
  BY DEF B!ReadCopy
<1>2. /\ len[v] \in Nat /\ off[v] \in Nat /\ got[v] \in Seq(Chars \cup {NUL})
      /\ Len(content) \in Nat /\ Len(content) <= BUF_SIZE
      /\ off[v] + len[v] <= Len(content) /\ BUF_SIZE \in Nat
  BY <1>0, <1>1, BufferConstants, KeptLength DEF B!TypeOK, ContentInv, Prefix
<1>3. ASSUME NEW k \in 1 .. len[v]
      PROVE  cells[k] = content[off[v] + k] /\ cells[k] \in Chars \cup {NUL}
  <2>1. B!From(v) + k - 1 \in B!Cells /\ B!From(v) + k - 1 = (off[v] + k) - 1
        /\ off[v] + k \in 1 .. Len(content)
    BY <1>2 DEF B!From, B!Cells
  <2>2. cells[k] = kernel_buffer[(off[v] + k) - 1]
    BY <2>1
  <2>3. kernel_buffer[(off[v] + k) - 1] = content[off[v] + k]
    BY <2>1 DEF ContentInv
  <2> QED
    BY <1>0, <2>1, <2>2, <2>3 DEF B!TypeOK
<1>4. cells = [k \in 1 .. len[v] |-> cells[k]]
  OBVIOUS
<1> HIDE DEF cells
<1>5. cells \in Seq(Chars \cup {NUL}) /\ Len(cells) = len[v]
  <2>1. cells \in [1 .. len[v] -> Chars \cup {NUL}]
    BY <1>3, <1>4
  <2>2. cells \in Seq(Chars \cup {NUL})
    BY <1>2, <2>1, SeqDef
  <2> QED
    BY <1>2, <2>1, <2>2
<1>6. /\ Len(got[v] \o cells) = off[v] + len[v]
      /\ \A k \in 1 .. off[v] + len[v] :
             (got[v] \o cells)[k] = IF k <= off[v] THEN got[v][k] ELSE cells[k - off[v]]
  BY <1>2, <1>5, ConcatProperties, SMTT(30) DEF Prefix
<1>7. ASSUME NEW k \in 1 .. off[v] + len[v] PROVE (got[v] \o cells)[k] = content[k]
  <2>1. CASE k <= off[v]
    BY <1>2, <1>6, <2>1 DEF Prefix
  <2>2. CASE k > off[v]
    <3>1. k - off[v] \in 1 .. len[v] /\ off[v] + (k - off[v]) = k
      BY <1>2, <2>2
    <3>2. cells[k - off[v]] = content[k]
      BY <1>3, <3>1
    <3> QED
      BY <1>2, <1>6, <2>2, <3>2
  <2>3. k <= off[v] \/ k > off[v]
    BY <1>2
  <2> QED
    BY <2>1, <2>2, <2>3
<1>8. got'[v] = got[v] \o cells /\ off'[v] = off[v] + len[v] /\ pcB'[v] = "idle"
  BY <1>0, <1>1 DEF B!TypeOK
<1> QED
  BY <1>1, <1>2, <1>6, <1>7, <1>8 DEF Prefix

\* A viewer in whose time nobody wrote reads on where it stopped, up to the end
\* of the content.
LEMMA ViewStep ==
    ASSUME "bare" \notin Styles, BufferTypes, BufferTypes', ContentInv, ViewInv,
           [B!Next]_varsB
    PROVE  ViewInv'
<1> USE BufferConstants
<1>0. B!TypeOK /\ B!TypeOK' /\ style # "bare"
  BY DEF BufferTypes, B!TypeOK
<1>1. ASSUME NEW w \in Scribes, NEW m \in Texts, B!WriteCopy(w, m) \/ B!WriteFault(w, m)
      PROVE  ViewInv'
  BY <1>1 DEF B!WriteCopy, B!WriteFault, ViewInv
<1>2. ASSUME NEW w \in Scribes, B!WriteMark(w) PROVE ViewInv'
  <2>1. pcB[w] = "mark" /\ quiet' = quiet
    BY <1>2 DEF B!WriteMark
  <2>2. \A v \in Viewers : ~ quiet[v]
    BY <2>1 DEF ViewInv, Marked
  <2> QED
    BY <2>1, <2>2 DEF ViewInv
<1>3. ASSUME NEW v \in Viewers, ViewerNext(v) PROVE ViewInv'
  <2>1. /\ UNCHANGED <<style, kernel_buffer, content>>
        /\ \A x \in Scribes : pcB'[x] = pcB[x]
        /\ \A x \in Viewers \ {v} : /\ pcB'[x] = pcB[x] /\ len'[x] = len[x]
                                    /\ off'[x] = off[x] /\ got'[x] = got[x]
                                    /\ quiet'[x] = quiet[x]
    BY <1>0, <1>3, ViewerLeaves
  <2>2. Marked' <=> Marked
    BY <2>1 DEF Marked
  <2>3. ASSUME NEW x \in Viewers \ {v}, quiet'[x]
        PROVE  Marked' /\ (content' # B!Torn' => Prefix(x)')
    BY <2>1, <2>2, <2>3 DEF ViewInv, Prefix, B!Torn
  <2>4. SUFFICES ASSUME quiet'[v]
                 PROVE  Marked' /\ (content # B!Torn => Prefix(v)')
    BY <2>1, <2>3 DEF ViewInv, B!Torn
  <2>5. CASE B!Open(v)
    <3>1. /\ quiet' = [quiet EXCEPT ![v] = Marked]
          /\ off'[v] = 0 /\ got'[v] = <<>> /\ pcB'[v] = "idle"
      BY <1>0, <2>5 DEF B!Open, B!TypeOK, Marked
    <3>2. Marked
      BY <1>0, <2>4, <3>1 DEF B!TypeOK
    <3>3. Len(content) \in Nat
      BY <1>0 DEF B!TypeOK
    <3>4. Prefix(v)'
      BY <2>1, <3>1, <3>3, EmptySeq DEF Prefix
    <3> QED
      BY <2>2, <3>2, <3>4
  <2>6. CASE ~ B!Open(v)
    <3>1. quiet[v] /\ Marked
      BY <1>3, <2>4, <2>6
         DEF ViewerNext, B!ReadEnd, B!ReadLimit, B!ReadTrim, B!ReadCopy, B!ReadFault,
             B!ReadLength, B!ReadCheck, ViewInv
    <3>2. SUFFICES ASSUME content # B!Torn PROVE Prefix(v)'
      BY <2>2, <3>1
    <3>3. B!DataLen = Len(content) /\ Prefix(v)
      BY <3>1, <3>2, EndOfContent DEF ViewInv
    <3>4. Len(content) \in Nat /\ off[v] \in Nat /\ len[v] \in Nat
      BY <1>0 DEF B!TypeOK
    <3>5. CASE B!ReadEnd(v)
      BY <1>0, <3>3, <3>4, <3>5 DEF B!ReadEnd, Prefix, B!TypeOK
    <3>6. CASE B!ReadFault(v)
      BY <1>0, <3>3, <3>6 DEF B!ReadFault, Prefix, B!TypeOK
    <3>7. ASSUME NEW n \in Chunks, B!ReadLength(v, n) PROVE Prefix(v)'
      <4>1. B!StrLen = Len(content)
        BY <3>3, <3>7 DEF B!ReadLength, B!DataLen
      <4>2. /\ off' = off /\ got' = got /\ content' = content /\ pcB'[v] = "copy"
            /\ len'[v] = B!Least(n, Len(content) - off[v])
        BY <1>0, <3>7, <4>1 DEF B!ReadLength, B!TypeOK
      <4>3. off[v] + len'[v] <= Len(content)
        BY <3>4, <4>2 DEF B!Least
      <4> QED
        BY <3>3, <4>2, <4>3 DEF Prefix
    <3>8. ASSUME NEW n \in Chunks, B!ReadCheck(v, n) PROVE Prefix(v)'
      BY <1>0, <3>3, <3>8 DEF B!ReadCheck, Prefix, B!TypeOK
    <3>9. CASE B!ReadLimit(v) \/ B!ReadTrim(v)
      <4>1. style = "sized" /\ off[v] <= Len(content)
        BY <3>3, <3>9 DEF B!ReadLimit, B!ReadTrim, Prefix, BufferTypes
      <4>2. B!Left(v) = Len(content) - off[v]
        BY <3>3, <4>1, LeftIs DEF B!DataLen
      <4>3. off' = off /\ got' = got /\ content' = content
            /\ pcB'[v] \in {"trim", "copy"}
        BY <1>0, <3>9 DEF B!ReadLimit, B!ReadTrim, B!TypeOK
      <4>4. pcB'[v] = "copy" => len'[v] <= B!Left(v) /\ len'[v] \in Nat
        BY <1>0, <3>4, <3>9, LeftIs DEF B!ReadLimit, B!ReadTrim, B!TypeOK
      <4> QED
        BY <3>3, <3>4, <4>2, <4>3, <4>4 DEF Prefix
    <3>10. CASE B!ReadCopy(v)
      BY <1>0, <3>1, <3>2, <3>3, <3>10, PrefixGrows
    <3> QED
      BY <1>3, <2>6, <3>5, <3>6, <3>7, <3>8, <3>9, <3>10 DEF ViewerNext
  <2> QED
    BY <2>5, <2>6
<1>4. CASE UNCHANGED varsB
  <2>1. \A v \in Viewers : Prefix(v)' <=> Prefix(v)
    BY <1>4 DEF varsB, Prefix
  <2>2. (Marked' <=> Marked) /\ UNCHANGED <<quiet, content>>
    BY <1>4 DEF varsB, Marked
  <2> QED
    BY <2>1, <2>2 DEF ViewInv, B!Torn
<1> QED
  BY <1>1, <1>2, <1>3, <1>4 DEF B!Next, ViewerNext

LEMMA BufferStep ==
    ASSUME "bare" \notin Styles, BufferInv, [B!Next]_varsB PROVE BufferInv'
<1>1. BufferTypes'
  BY BufferTypesStep DEF BufferInv
<1>2. B!StaysInBuffer'
  BY StaysStep DEF BufferInv
<1>3. ContentInv'
  BY ContentStep DEF BufferInv
<1>4. ViewInv'
  BY <1>1, ViewStep DEF BufferInv
<1>5. SizeInv'
  BY SizeStep DEF BufferInv
<1> QED
  BY <1>1, <1>2, <1>3, <1>4, <1>5 DEF BufferInv

\* Two texts of one length with the same characters are one text.
LEMMA ReadsSpell == BufferInv => B!ReadsSpellContent
<1> SUFFICES ASSUME BufferInv, NEW v \in Viewers,
                    pcB[v] = "end", quiet[v], content # B!Torn
             PROVE  got[v] = content
  BY DEF B!ReadsSpellContent
<1>1. Prefix(v) /\ off[v] = Len(content)
  BY DEF BufferInv, ViewInv, Prefix
<1>2. got[v] \in Seq(Chars \cup {NUL}) /\ content \in Seq(Chars \cup {NUL})
  BY DEF BufferInv, BufferTypes, B!TypeOK
<1>3. Len(got[v]) = Len(content) /\ \A k \in 1 .. Len(content) : got[v][k] = content[k]
  BY <1>1 DEF Prefix
<1> QED
  BY <1>2, <1>3, SeqEqual

(***************************************************************************)
(* The composition: one device is used, the others stay as they are.       *)
(***************************************************************************)
allVars == <<device, vars, vars8, vars23, varsB>>

Unbared == "bare" \notin Styles

LEMMA EachItsOwn ==
    [DeviceNext]_allVars =>
        [Next]_vars /\ [P!Next]_vars8 /\ [L!Next]_vars23 /\ [B!Next]_varsB
BY DEF DeviceNext, allVars

LEMMA AllTypes == DeviceSpec => [](ReadInv /\ PollInv /\ StudentInv /\ BufferTypes)
<1>1. DeviceInit => ReadInv /\ PollInv /\ StudentInv /\ BufferTypes
  BY ReadInit, PollInit, StudentInit, BufferTypesInit DEF DeviceInit
<1>2. ReadInv /\ PollInv /\ StudentInv /\ BufferTypes /\ [DeviceNext]_allVars
        => (ReadInv /\ PollInv /\ StudentInv /\ BufferTypes)'
  BY EachItsOwn, ReadStepInv, PollStepInv, StudentStep, BufferTypesStep
<1> QED
  BY <1>1, <1>2, PTL DEF DeviceSpec, allVars

\* Type correctness of the devices, with any number of processes, buffers of any
\* size and any style.
THEOREM DeviceTypes == DeviceSpec => []DeviceTypeOK
<1>1. ReadInv /\ PollInv /\ StudentInv /\ BufferTypes => DeviceTypeOK
  BY DEF ReadInv, PollInv, StudentInv, BufferTypes, DeviceTypeOK
<1> QED
  BY <1>1, AllTypes, PTL

\* No reader of lesson 7 sleeps while a message is announced and nobody is about
\* to wake it, with any number of readers and writers
\* (char_cdev_waiting_queue.c:82-87 against :116-122).
THEOREM NobodyOversleeps == DeviceSpec => []NoLostWakeup
<1>1. ReadInv => NoLostWakeup
  BY DEF ReadInv, TypeOK, QueuedAreWoken, NoLostWakeup
<1> QED
  BY <1>1, AllTypes, PTL

\* No process of lessons 8 and 9 sleeps in poll() beside a message that nobody has
\* told it of or is about to, with any number of processes and any number given to
\* wake_up_interruptible_nr (char_cdev_poll_select_epoll_kernel.c:119-127 against
\* :101-104, char_cdev_wakeip_isr_nr_kernel.c:101-108).
THEOREM PollersAreTold == DeviceSpec => []NoPollerForgotten
<1>1. PollInv => NoPollerForgotten
  BY DEF PollInv, NoPollerForgotten
<1> QED
  BY <1>1, AllTypes, PTL

\* One reader that looks at the result of the wait: no more reads of lesson 7
\* return a message than writes announced one, and no read returns nothing.
THEOREM NoMessageTwice ==
    ASSUME SingleReader, ReturnsOnSignal = TRUE
    PROVE  DeviceSpec => []ReadsReturnWrites
<1>1. DeviceInit => CountInv
  BY CountInit DEF DeviceInit
<1>2. CountInv /\ [DeviceNext]_allVars => CountInv'
  BY EachItsOwn, CountStep
<1>3. CountInv => ReadsReturnWrites
  BY DEF CountInv, ReadInv, TypeOK, Announced, ReadsReturnWrites
<1> QED
  BY <1>1, <1>2, <1>3, PTL DEF DeviceSpec, allVars

LEMMA BuffersKeep == ASSUME Unbared PROVE DeviceSpec => []BufferInv
<1>1. DeviceInit => BufferInv
  BY BufferInit DEF DeviceInit
<1>2. BufferInv /\ [DeviceNext]_allVars => BufferInv'
  BY EachItsOwn, BufferStep DEF Unbared
<1> QED
  BY <1>1, <1>2, PTL DEF DeviceSpec, allVars

\* A read of lessons 3-2, 4-3, 5 and 20 copies no cell from behind the buffer,
\* with any number of writers and readers and whatever the writers do between its
\* steps, unless one of them made the content end before the offset of the read
\* while it looked at the size (chardev_register-2.c:36-43, :66-76,
\* char_cdev_container+file.c:90-98).
THEOREM CopiesStayInside ==
    ASSUME Unbared PROVE DeviceSpec => []StaysInBuffer
<1>1. BufferInv => StaysInBuffer
  BY DEF BufferInv, StaysInBuffer
<1> QED
  BY <1>1, BuffersKeep, PTL

\* What is read to the end while nobody writes is the text that was stored last,
\* and a read of the list formats the list as it stands
\* (char_cdev_container+file.c:69-105, Kernel_linked_list.c:95-110).
THEOREM ReadsSpellAndWalk ==
    ASSUME Unbared PROVE DeviceSpec => []ReadsAreExact
<1>1. BufferInv => B!ReadsSpellContent
  BY ReadsSpell
<1>2. StudentInv => L!WalkIsSnapshot
  BY DEF StudentInv, Snapshot, L!WalkIsSnapshot
<1>3. B!ReadsSpellContent /\ L!WalkIsSnapshot => ReadsAreExact
  BY DEF ReadsAreExact
<1> QED
  BY <1>1, <1>2, <1>3, AllTypes, BuffersKeep, PTL

\* Every student that is allocated is in the list once or in the hands of one
\* my_write, and nothing that was freed is in either
\* (Kernel_linked_list.c:57-72, :136-142, :243-250).
THEOREM NoStudentLost == DeviceSpec => []NodesAccounted
<1>1. StudentInv => NodesAccounted
  BY NodesCounted DEF NodesAccounted
<1> QED
  BY <1>1, AllTypes, PTL

=============================================================================
