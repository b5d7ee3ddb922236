-------------------------- MODULE RingIndexProofs --------------------------
(***************************************************************************)
(* Lemmas about the index arithmetic of the ring buffers, for every size.  *)
(* The last two say what advancing head and advancing tail do to the       *)
(* sequence of packets in the ring.                                        *)
(***************************************************************************)
EXTENDS RingIndex, TLAPS

\* Walking k slots from slot t wraps at most once.
LEMMA ModSlot ==
    ASSUME NEW t \in Slots, NEW k \in 0 .. RING_SIZE
    PROVE  /\ (t + k) % RING_SIZE \in Slots
           /\ (t + k) % RING_SIZE =
                  IF t + k < RING_SIZE THEN t + k ELSE t + k - RING_SIZE
  BY RingSizeAssumption, SMTT(30) DEF Slots

\* Succ stays inside data[RING_SIZE].
LEMMA SuccSlot ==
    ASSUME NEW i \in Slots
    PROVE  /\ Succ(i) \in Slots
           /\ Succ(i) = IF i + 1 = RING_SIZE THEN 0 ELSE i + 1
  BY RingSizeAssumption, SMTT(30) DEF Slots, Succ

\* head = tail means empty, and "next = tail" means RING_SIZE - 1 packets.
LEMMA CountRange ==
    ASSUME NEW h \in Slots, NEW t \in Slots
    PROVE  /\ Count(h, t) \in 0 .. RING_SIZE - 1
           /\ Count(h, t) = 0 <=> h = t
           /\ Count(h, t) = RING_SIZE - 1 <=> Succ(h) = t
  BY RingSizeAssumption, SuccSlot DEF Slots, Count

\* Advancing head in a ring that is not full adds one packet.
LEMMA CountPush ==
    ASSUME NEW h \in Slots, NEW t \in Slots, Succ(h) # t
    PROVE  Count(Succ(h), t) = Count(h, t) + 1
  BY RingSizeAssumption, SuccSlot DEF Slots, Count

\* Advancing tail in a ring that is not empty removes one packet.
LEMMA CountPop ==
    ASSUME NEW h \in Slots, NEW t \in Slots, h # t
    PROVE  Count(h, Succ(t)) = Count(h, t) - 1
  BY RingSizeAssumption, SuccSlot DEF Slots, Count

\* Where the packets are: never in slot head, which follows the last one.
LEMMA FilledSlots ==
    ASSUME NEW h \in Slots, NEW t \in Slots
    PROVE  /\ \A i \in 1 .. Count(h, t) :
                  /\ (t + i - 1) % RING_SIZE \in Slots
                  /\ (t + i - 1) % RING_SIZE # h
           /\ (t + Count(h, t)) % RING_SIZE = h
<1>1. ASSUME NEW i \in 1 .. Count(h, t)
      PROVE  /\ (t + i - 1) % RING_SIZE \in Slots
             /\ (t + i - 1) % RING_SIZE # h
  <2>1. i - 1 \in 0 .. RING_SIZE /\ t + i - 1 = t + (i - 1)
    BY CountRange, RingSizeAssumption DEF Slots
  <2>2. /\ (t + i - 1) % RING_SIZE \in Slots
        /\ (t + i - 1) % RING_SIZE =
               IF t + i - 1 < RING_SIZE THEN t + i - 1
                                        ELSE t + i - 1 - RING_SIZE
    BY <2>1, ModSlot
  <2> QED
    BY <2>1, <2>2, CountRange, RingSizeAssumption DEF Slots, Count
<1>2. (t + Count(h, t)) % RING_SIZE = h
  <2>1. Count(h, t) \in 0 .. RING_SIZE
    BY CountRange, RingSizeAssumption
  <2>2. (t + Count(h, t)) % RING_SIZE =
            IF t + Count(h, t) < RING_SIZE THEN t + Count(h, t)
                                           ELSE t + Count(h, t) - RING_SIZE
    BY <2>1, ModSlot
  <2> QED
    BY <2>1, <2>2, RingSizeAssumption DEF Slots, Count
<1> QED
  BY <1>1, <1>2

\* The ring's contents are a sequence of Count(h, t) packets.
LEMMA ContentsSeq ==
    ASSUME NEW S, NEW d \in [Slots -> S], NEW h \in Slots, NEW t \in Slots
    PROVE  /\ Contents(d, h, t) \in Seq(S)
           /\ Len(Contents(d, h, t)) = Count(h, t)
<1>1. Count(h, t) \in Nat
  BY CountRange, RingSizeAssumption
<1>2. Contents(d, h, t) \in [1 .. Count(h, t) -> S]
  BY FilledSlots DEF Contents
<1> HIDE DEF Contents
<1> QED
  BY <1>1, <1>2

\* Advancing head appends the packet that was written to slot head.
LEMMA ContentsPush ==
    ASSUME NEW S, NEW d \in [Slots -> S], NEW h \in Slots, NEW t \in Slots,
           Succ(h) # t
    PROVE  Contents(d, Succ(h), t) = Append(Contents(d, h, t), d[h])
<1> DEFINE new == Contents(d, Succ(h), t)
           app == Append(Contents(d, h, t), d[h])
           n == Count(h, t)
<1>1. n \in Nat /\ Count(Succ(h), t) = n + 1
  BY CountPush, CountRange, RingSizeAssumption
<1>2. Contents(d, h, t) \in Seq(S) /\ Len(Contents(d, h, t)) = n
  BY ContentsSeq, ZenonT(30)
<1>3. new \in Seq(S) /\ Len(new) = n + 1
  BY ContentsSeq, SuccSlot, <1>1
<1>4. app \in Seq(S) /\ Len(app) = n + 1
  BY <1>2, <1>1
<1>5. ASSUME NEW i \in 1 .. n + 1
      PROVE  new[i] = app[i]
  <2>1. new[i] = d[(t + i - 1) % RING_SIZE]
    BY <1>1 DEF Contents
  <2>2. CASE i = n + 1
    <3>1. t + i - 1 = t + n
      BY <2>2, <1>1, RingSizeAssumption DEF Slots
    <3>2. app[i] = d[h]
      BY <2>2, <1>2, <1>1
    <3> QED
      BY <2>1, <3>1, <3>2, FilledSlots
  <2>3. CASE i # n + 1
    <3>1. i \in 1 .. n
      BY <2>3, <1>1
    <3>2. app[i] = Contents(d, h, t)[i]
      BY <3>1, <1>2, <1>1
    <3> QED
      BY <2>1, <3>1, <3>2 DEF Contents
  <2> QED
    BY <2>2, <2>3
<1> QED
  BY <1>1, <1>3, <1>4, <1>5

\* Advancing tail drops the oldest packet, the one in slot tail.
LEMMA ContentsPop ==
    ASSUME NEW S, NEW d \in [Slots -> S], NEW h \in Slots, NEW t \in Slots,
           h # t
    PROVE  /\ Contents(d, h, t) # <<>>
           /\ Head(Contents(d, h, t)) = d[t]
           /\ Contents(d, h, Succ(t)) = Tail(Contents(d, h, t))
<1> DEFINE old == Contents(d, h, t)
           new == Contents(d, h, Succ(t))
           n == Count(h, t)
<1>1. n \in 1 .. RING_SIZE - 1 /\ Count(h, Succ(t)) = n - 1
  BY CountPop, CountRange, RingSizeAssumption
<1>2. old \in Seq(S) /\ Len(old) = n
  BY ContentsSeq, ZenonT(30)
<1>3. new \in Seq(S) /\ Len(new) = n - 1
  <2>1. Succ(t) \in Slots
    BY SuccSlot
  <2> QED
    BY <2>1, ContentsSeq, <1>1
<1>4. old # <<>> /\ Head(old) = d[t]
  <2>1. old[1] = d[(t + 1 - 1) % RING_SIZE]
    BY <1>1 DEF Contents
  <2>2. (t + 1 - 1) % RING_SIZE = t
    BY RingSizeAssumption, SMTT(30) DEF Slots
  <2> QED
    BY <1>1, <1>2, <2>1, <2>2
<1>5. Tail(old) \in Seq(S) /\ Len(Tail(old)) = n - 1
  BY <1>1, <1>2, <1>4
<1>6. ASSUME NEW i \in 1 .. n - 1
      PROVE  new[i] = Tail(old)[i]
  <2>1. new[i] = d[(Succ(t) + i - 1) % RING_SIZE]
    BY <1>1 DEF Contents
  <2>2. Tail(old)[i] = old[i + 1] /\ i + 1 \in 1 .. n
    BY <1>1, <1>2, <1>4
  <2>3. old[i + 1] = d[(t + (i + 1) - 1) % RING_SIZE]
    BY <2>2 DEF Contents
  <2>4. (Succ(t) + i - 1) % RING_SIZE = (t + (i + 1) - 1) % RING_SIZE
    <3>1. /\ i - 1 \in 0 .. RING_SIZE
          /\ i \in 0 .. RING_SIZE
          /\ Succ(t) + i - 1 = Succ(t) + (i - 1)
          /\ t + (i + 1) - 1 = t + i
      <4>1. Succ(t) \in Int /\ t \in Int /\ i \in Int
        BY SuccSlot, RingSizeAssumption DEF Slots
      <4> HIDE DEF n
      <4> QED
        BY <4>1, <1>1, RingSizeAssumption
    <3>2. (t + i) % RING_SIZE =
              IF t + i < RING_SIZE THEN t + i ELSE t + i - RING_SIZE
      BY <3>1, ModSlot
    <3>3. (Succ(t) + (i - 1)) % RING_SIZE =
              IF Succ(t) + (i - 1) < RING_SIZE
              THEN Succ(t) + (i - 1) ELSE Succ(t) + (i - 1) - RING_SIZE
      BY <3>1, ModSlot, SuccSlot
    <3> QED
      <4>1. Succ(t) = IF t + 1 = RING_SIZE THEN 0 ELSE t + 1
        BY SuccSlot
      <4> HIDE DEF n
      <4> QED
        BY <3>1, <3>2, <3>3, <4>1, <1>1, RingSizeAssumption DEF Slots
  <2> QED
    BY <2>1, <2>2, <2>3, <2>4
<1> QED
  BY <1>1, <1>3, <1>4, <1>5, <1>6
=============================================================================
