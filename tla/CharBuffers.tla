----------------------------- MODULE CharBuffers -----------------------------
(***************************************************************************)
(* The devices that keep what was written and give it to every reader:     *)
(* lessons 3, 4, 5 and 20.  They differ in how they know where the data    *)
(* ends (style):                                                           *)
(*   "terminated"  a NUL is stored behind the data (3-2 and 4-3)           *)
(*   "sized"       the length is stored beside it (5 and 20)               *)
(*   "bare"        neither, and reads ignore the offset (4-1 and 4-2)      *)
(* There is no lock.  A write is two steps, the copy and the end mark.  A  *)
(* read that calls strlen keeps its result and copies in a second step; a  *)
(* read of a device with a size reads it up to three times, to find the    *)
(* end of the file, to compare, and to cut len, and size may change        *)
(* between any two of them.  (A compiler may load it once: that is the     *)
(* case where it does not change.)  Splitting a copy further would show    *)
(* mixtures of two messages, which no property here speaks of.             *)
(* The messages are text: no character is NUL.                             *)
(***************************************************************************)
EXTENDS Integers, Sequences

CONSTANTS
    Styles,      \* the styles considered
    BUF_SIZE,    \* cells of kernel_buffer
    Chars, NUL,
    Messages,    \* what is written, sequences of Chars
    Scribes,     \* processes that write
    Viewers,     \* processes that open the device and read it to its end
    Chunks,      \* the lengths that are passed to read
    SizeMod,     \* size_t has the values 0 .. SizeMod - 1
    INT_MAX      \* copy_to_user refuses to copy more

BufferAssumption ==
    /\ Styles \subseteq {"terminated", "sized", "bare"}
    /\ BUF_SIZE \in Nat \ {0}
    /\ NUL \notin Chars
    /\ \A m \in Messages : m \in Seq(Chars)
    /\ Chunks \subseteq Nat \ {0}
    /\ Scribes \cap Viewers = {}
    /\ SizeMod \in Nat /\ INT_MAX \in Nat /\ BUF_SIZE < SizeMod
    /\ \A n \in Chunks : BUF_SIZE + n <= INT_MAX /\ INT_MAX + BUF_SIZE + n < SizeMod

\* The content after a write that failed half way or met another one.
Torn == <<NUL>>

VARIABLES
    style,
    kernel_buffer,
    size,         \* dev->size
    pc,           \* pc[p]: where process p is
    len,          \* len[p]: the local variable len
    off,          \* off[v]: the offset of the file that v has open
    got,          \* history, got[v]: what v has read since it opened the file
    quiet,        \* history, quiet[v]: nobody has written since
    cut,          \* history, cut[v]: size has been less than off[v] during a
                  \* read that v is in
    content       \* history: what the last write stored

bufVars == <<style, kernel_buffer, size, pc, len, off, got, quiet, cut, content>>

Cells == 0 .. BUF_SIZE - 1
Least(a, b) == IF a < b THEN a ELSE b

Init ==
    /\ style \in Styles
    /\ kernel_buffer = [i \in Cells |-> NUL]
    /\ size = 0
    /\ pc = [p \in Scribes \cup Viewers |-> "idle"]
    /\ len = [p \in Scribes \cup Viewers |-> 0]
    /\ off = [v \in Viewers |-> 0]
    /\ got = [v \in Viewers |-> <<>>]
    /\ quiet = [v \in Viewers |-> TRUE]
    /\ cut = [v \in Viewers |-> FALSE]
    /\ content = <<>>

\* Mutant: a full buffer leaves no cell for the NUL.
LimitFull == BUF_SIZE

\* How much of a message is kept.
Limit == IF style = "terminated" THEN BUF_SIZE - 1 ELSE BUF_SIZE

\* strlen; without a NUL it runs past the end.
StrLen ==
    IF \E i \in Cells : kernel_buffer[i] = NUL
    THEN CHOOSE i \in Cells : /\ kernel_buffer[i] = NUL
                              /\ \A j \in 0 .. i - 1 : kernel_buffer[j] # NUL
    ELSE BUF_SIZE + 1

DataLen == IF style = "sized" THEN size ELSE StrLen

Stored(m, n) == [i \in Cells |-> IF i < n THEN m[i + 1] ELSE kernel_buffer[i]]

WriteCopy(w, m) ==
    /\ pc[w] = "idle"
    /\ len' = [len EXCEPT ![w] = Least(Len(m), Limit)]
    /\ kernel_buffer' = Stored(m, len'[w])
    /\ pc' = [pc EXCEPT ![w] = "mark"]
    /\ quiet' = [v \in Viewers |-> FALSE]
    /\ content' = IF \A u \in Scribes : pc[u] = "idle"
                  THEN SubSeq(m, 1, len'[w]) ELSE Torn
    /\ UNCHANGED <<style, size, off, got, cut>>

\* copy_from_user fails after the first characters: -EFAULT.
WriteFault(w, m) ==
    /\ pc[w] = "idle"
    /\ \E n \in 0 .. Least(Len(m), Limit) - 1 : kernel_buffer' = Stored(m, n)
    /\ quiet' = [v \in Viewers |-> FALSE]
    /\ content' = Torn
    /\ UNCHANGED <<style, size, pc, len, off, got, cut>>

\* Where a read still looks at size.
Reading == {"limit", "trim"}

WriteMark(w) ==
    /\ pc[w] = "mark"
    /\ kernel_buffer' = IF style = "terminated"
                        THEN [kernel_buffer EXCEPT ![len[w]] = NUL]
                        ELSE kernel_buffer
    /\ size' = IF style = "sized" THEN len[w] ELSE size
    /\ cut' = [v \in Viewers |-> cut[v] \/ (pc[v] \in Reading /\ size' < off[v])]
    /\ pc' = [pc EXCEPT ![w] = "idle"]
    /\ UNCHANGED <<style, len, off, got, quiet, content>>

Open(v) ==
    /\ pc[v] \in {"idle", "end"}
    /\ pc' = [pc EXCEPT ![v] = "idle"]
    /\ off' = [off EXCEPT ![v] = 0]
    /\ got' = [got EXCEPT ![v] = <<>>]
    /\ quiet' = [quiet EXCEPT ![v] = \A w \in Scribes : pc[w] = "idle"]
    /\ UNCHANGED <<style, kernel_buffer, size, len, cut, content>>

\* read returns 0.
ReadEnd(v) ==
    /\ pc[v] = "idle"
    /\ off[v] >= DataLen
    /\ pc' = [pc EXCEPT ![v] = "end"]
    /\ UNCHANGED <<style, kernel_buffer, size, len, off, got, quiet, cut, content>>

\* The end is in the local variable data_len.
ReadLength(v, n) ==
    /\ style # "sized"
    /\ pc[v] = "idle"
    /\ off[v] < StrLen
    /\ len' = [len EXCEPT ![v] =
                  Least(n, IF style = "bare" THEN StrLen ELSE StrLen - off[v])]
    /\ pc' = [pc EXCEPT ![v] = "copy"]
    /\ UNCHANGED <<style, kernel_buffer, size, off, got, quiet, cut, content>>

\* The offset is not at the end of the file.
ReadCheck(v, n) ==
    /\ style = "sized"
    /\ pc[v] = "idle"
    /\ off[v] < size
    /\ len' = [len EXCEPT ![v] = n]
    /\ cut' = [cut EXCEPT ![v] = FALSE]
    /\ pc' = [pc EXCEPT ![v] = "limit"]
    /\ UNCHANGED <<style, kernel_buffer, size, off, got, quiet, content>>

\* dev->size - *off wraps around when it is negative.
Left(v) == (size - off[v]) % SizeMod

ReadLimit(v) ==
    /\ pc[v] = "limit"
    /\ pc' = [pc EXCEPT ![v] = IF len[v] > Left(v) THEN "trim" ELSE "copy"]
    /\ UNCHANGED <<style, kernel_buffer, size, len, off, got, quiet, cut, content>>

ReadTrim(v) ==
    /\ pc[v] = "trim"
    /\ len' = [len EXCEPT ![v] = Left(v)]
    /\ pc' = [pc EXCEPT ![v] = "copy"]
    /\ UNCHANGED <<style, kernel_buffer, size, off, got, quiet, cut, content>>

\* The first cell that is copied.
From(v) == IF style = "bare" THEN 0 ELSE off[v]

ReadCopy(v) ==
    /\ pc[v] = "copy"
    /\ len[v] <= INT_MAX
    /\ got' = [got EXCEPT ![v] =
                  @ \o [i \in 1 .. len[v] |->
                          IF From(v) + i - 1 \in Cells
                          THEN kernel_buffer[From(v) + i - 1] ELSE NUL]]
    /\ off' = [off EXCEPT ![v] = @ + len[v]]
    /\ pc' = [pc EXCEPT ![v] = "idle"]
    /\ UNCHANGED <<style, kernel_buffer, size, len, quiet, cut, content>>

\* copy_to_user fails, or the length has wrapped: -EFAULT, and the offset stays.
ReadFault(v) ==
    /\ pc[v] = "copy"
    /\ pc' = [pc EXCEPT ![v] = "idle"]
    /\ UNCHANGED <<style, kernel_buffer, size, len, off, got, quiet, cut, content>>

Next ==
    \/ \E w \in Scribes :
        WriteMark(w) \/ \E m \in Messages : WriteCopy(w, m) \/ WriteFault(w, m)
    \/ \E v \in Viewers :
        \/ Open(v) \/ ReadEnd(v)
        \/ \E n \in Chunks : ReadLength(v, n) \/ ReadCheck(v, n)
        \/ ReadLimit(v) \/ ReadTrim(v) \/ ReadCopy(v) \/ ReadFault(v)

Spec == Init /\ [][Next]_bufVars
-----------------------------------------------------------------------------
\* Type invariant.
TypeOK ==
    /\ style \in Styles
    /\ kernel_buffer \in [Cells -> Chars \cup {NUL}]
    /\ size \in 0 .. BUF_SIZE
    /\ pc \in [Scribes \cup Viewers -> Reading \cup {"idle", "mark", "end", "copy"}]
    /\ len \in [Scribes \cup Viewers -> Nat]
    /\ off \in [Viewers -> Nat]
    /\ got \in [Viewers -> Seq(Chars \cup {NUL})]
    /\ quiet \in [Viewers -> BOOLEAN]
    /\ cut \in [Viewers -> BOOLEAN]
    /\ content \in Seq(Chars \cup {NUL})

\* A read copies no cell behind the buffer, whatever writers do between its
\* steps, but in one case, which the code of lessons 5 and 20 does not exclude:
\* a write makes the content end before the offset of a read that has looked at
\* the size and will look again (chardev_register-2.c:36-43, :66-76,
\* char_cdev_container+file.c:90-98).
StaysInBuffer ==
    \A v \in Viewers : pc[v] = "copy" /\ ~cut[v] => From(v) + len[v] <= BUF_SIZE

\* A process that reads in pieces until the end of the file, while nobody
\* writes, has read what the last write stored, all of it and nothing behind
\* it, also after a longer message (chardev_register-2.c:43, :73-80,
\* char_cdev_container+file.c:69-105).
ReadsSpellContent ==
    \A v \in Viewers :
        pc[v] = "end" /\ quiet[v] /\ content # Torn => got[v] = content
=============================================================================
