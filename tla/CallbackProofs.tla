--------------------------- MODULE CallbackProofs ---------------------------
(***************************************************************************)
(* Theorems about the servers of registered clients (lessons 25b, 25c and  *)
(* 27e to 27g), stated of their composition MCCallbacks.  Each server has  *)
(* an inductive invariant.  Lesson 25b has no lock: what is said of its    *)
(* table is said of the clients whose first message was not handled while  *)
(* another one was, whatever the others do to it.                          *)
(***************************************************************************)
EXTENDS MCCallbacks, SequenceTheorems, WellFoundedInduction, TLAPS

(***************************************************************************)
(* Lists: the operators of CallbackList and NotifierChain on a list whose  *)
(* elements are distinct                                                   *)
(***************************************************************************)
\* The loops that look for the first node with a property stop at the first.
LEMMA SmallestIndex ==
    ASSUME NEW T \in SUBSET Nat, T # {}
    PROVE  Min(T) \in T /\ \A k \in T : Min(T) <= k
<1>1. PICK x \in T : \A y \in T : <<y, x>> \notin OpToRel(<, Nat)
  BY NatLessThanWellFounded, WFMin, Zenon
<1>2. \A y \in T : ~(y < x)
  BY <1>1, Zenon DEF OpToRel
<1>3. \A y \in T : x <= y
  BY <1>2
<1> QED
  BY <1>3 DEF Min

\* list_del of the first node with a callback shifts the nodes behind it.
LEMMA RemovedAt ==
    ASSUME NEW S, NEW s \in Seq(S), IsInjective(s), NEW k \in 1 .. Len(s)
    PROVE  /\ RemoveFirst(s, s[k]) \in Seq(S)
           /\ Len(RemoveFirst(s, s[k])) = Len(s) - 1
           /\ \A j \in 1 .. Len(s) - 1 :
                  RemoveFirst(s, s[k])[j] = IF j < k THEN s[j] ELSE s[j + 1]
<1> DEFINE I == {m \in 1 .. Len(s) : s[m] = s[k]}
<1>1. I = {k}
  BY DEF IsInjective
<1>2. Min(I) = k
  <2> HIDE DEF I
  <2>1. I \in SUBSET Nat /\ I # {}
    BY <1>1
  <2> QED
    BY <1>1, <2>1, SmallestIndex
<1> DEFINE front == SubSeq(s, 1, k - 1)
           back == SubSeq(s, k + 1, Len(s))
<1>3. RemoveFirst(s, s[k]) = front \o back
  BY <1>1, <1>2 DEF RemoveFirst, RemoveAt, SelectInSeq
<1>4. Len(s) \in Nat /\ \A m \in 1 .. Len(s) : s[m] \in S
  OBVIOUS
<1>5. /\ front \in Seq(S) /\ Len(front) = k - 1
      /\ \A j \in 1 .. k - 1 : front[j] = s[j]
  BY <1>4, SubSeqProperties
<1>6. /\ back \in Seq(S) /\ Len(back) = Len(s) - k
      /\ \A j \in 1 .. Len(s) - k : back[j] = s[k + j]
  BY <1>4, SubSeqProperties
<1> HIDE DEF front, back
<1>7. /\ front \o back \in Seq(S)
      /\ Len(front \o back) = Len(front) + Len(back)
      /\ \A j \in 1 .. Len(front) + Len(back) :
             (front \o back)[j] = IF j <= Len(front) THEN front[j]
                                  ELSE back[j - Len(front)]
  BY <1>5, <1>6, ConcatProperties
<1>8. ASSUME NEW j \in 1 .. Len(s) - 1
      PROVE  (front \o back)[j] = IF j < k THEN s[j] ELSE s[j + 1]
  <2>1. CASE j < k
    BY <1>4, <1>5, <1>6, <1>7, <2>1
  <2>2. CASE j >= k
    <3>1. j - Len(front) \in 1 .. Len(s) - k
      BY <1>4, <1>5, <2>2
    <3>2. back[j - Len(front)] = s[k + (j - Len(front))]
      BY <1>6, <3>1
    <3> QED
      BY <1>4, <1>5, <1>6, <1>7, <2>2, <3>2
  <2>3. j \in Int /\ k \in Int
    BY <1>4
  <2>4. j < k \/ j >= k
    BY <2>3
  <2> HIDE DEF front, back
  <2> QED
    BY <2>1, <2>2, <2>4
<1> QED
  BY <1>3, <1>4, <1>5, <1>6, <1>7, <1>8

\* A client that unregisters leaves the others in the list, in their order; one
\* that is not in it changes nothing.
LEMMA Removed ==
    ASSUME NEW S, NEW s \in Seq(S), IsInjective(s), NEW e
    PROVE  LET r == RemoveFirst(s, e)
           IN  /\ r \in Seq(S)
               /\ IsInjective(r)
               /\ \A x : Contains(r, x) <=> Contains(s, x) /\ x # e
               /\ \A j, m \in 1 .. Len(r) : j < m =>
                      \E p, q \in 1 .. Len(s) : p < q /\ r[j] = s[p] /\ r[m] = s[q]
<1> DEFINE r == RemoveFirst(s, e)
<1>1. CASE ~Contains(s, e)
  <2>1. r = s
    BY <1>1 DEF RemoveFirst, Contains
  <2> QED
    BY <1>1, <2>1 DEF Contains
<1>2. ASSUME NEW k \in 1 .. Len(s), s[k] = e
      PROVE  /\ r \in Seq(S)
             /\ IsInjective(r)
             /\ \A x : Contains(r, x) <=> Contains(s, x) /\ x # e
             /\ \A j, m \in 1 .. Len(r) : j < m =>
                    \E p, q \in 1 .. Len(s) : p < q /\ r[j] = s[p] /\ r[m] = s[q]
  <2>1. /\ r \in Seq(S) /\ Len(r) = Len(s) - 1
        /\ \A j \in 1 .. Len(s) - 1 : r[j] = IF j < k THEN s[j] ELSE s[j + 1]
    BY <1>2, RemovedAt
  <2> HIDE DEF r
  <2>2. Len(s) \in Nat /\ Len(r) \in Nat /\ DOMAIN s = 1 .. Len(s) /\ DOMAIN r = 1 .. Len(r)
    BY <2>1
  <2>3. ASSUME NEW j \in 1 .. Len(r), NEW m \in 1 .. Len(r), j < m
        PROVE  \E p, q \in 1 .. Len(s) : p < q /\ r[j] = s[p] /\ r[m] = s[q]
    <3>1. CASE m < k
      BY <2>1, <2>2, <2>3, <3>1
    <3>2. CASE j < k /\ m >= k
      <4>1. r[j] = s[j] /\ r[m] = s[m + 1] /\ m + 1 \in 1 .. Len(s) /\ j \in 1 .. Len(s) /\ j < m + 1
        BY <2>1, <2>2, <2>3, <3>2
      <4> QED
        BY <4>1
    <3>3. CASE j >= k
      <4>1. r[j] = s[j + 1] /\ r[m] = s[m + 1] /\ m + 1 \in 1 .. Len(s) /\ j + 1 \in 1 .. Len(s) /\ j + 1 < m + 1
        BY <2>1, <2>2, <2>3, <3>3
      <4> QED
        BY <4>1
    <3> QED
      BY <2>2, <3>1, <3>2, <3>3
  <2>4. IsInjective(r)
    <3>1. ASSUME NEW j \in 1 .. Len(r), NEW m \in 1 .. Len(r), j < m
          PROVE  r[j] # r[m]
      <4>1. PICK p \in 1 .. Len(s), q \in 1 .. Len(s) :
                p < q /\ r[j] = s[p] /\ r[m] = s[q]
        BY <2>3, <3>1
      <4> QED
        BY <2>2, <4>1 DEF IsInjective
    <3> QED
      BY <2>2, <3>1 DEF IsInjective
  <2>5. ASSUME NEW x, Contains(r, x) PROVE Contains(s, x) /\ x # e
    <3>1. PICK j \in 1 .. Len(r) : r[j] = x
      BY <2>5 DEF Contains
    <3>2. CASE j < k
      <4>1. j \in 1 .. Len(s) /\ r[j] = s[j]
        BY <2>1, <2>2, <3>2
      <4> QED
        BY <1>2, <2>2, <3>1, <3>2, <4>1 DEF Contains, IsInjective
    <3>3. CASE j >= k
      <4>1. j + 1 \in 1 .. Len(s) /\ r[j] = s[j + 1] /\ j + 1 # k
        BY <2>1, <2>2, <3>3
      <4> QED
        BY <1>2, <2>2, <3>1, <4>1 DEF Contains, IsInjective
    <3> QED
      BY <2>2, <3>2, <3>3
  <2>6. ASSUME NEW x, Contains(s, x), x # e PROVE Contains(r, x)
    <3>1. PICK p \in 1 .. Len(s) : s[p] = x /\ p # k
      BY <1>2, <2>6 DEF Contains
    <3>2. CASE p < k
      <4>1. p \in 1 .. Len(r) /\ r[p] = s[p]
        BY <2>1, <2>2, <3>2
      <4> QED
        BY <3>1, <4>1 DEF Contains
    <3>3. CASE p > k
      <4>1. p - 1 \in 1 .. Len(r) /\ r[p - 1] = s[p]
        BY <2>1, <2>2, <3>3
      <4> QED
        BY <3>1, <4>1 DEF Contains
    <3> QED
      BY <2>2, <3>1, <3>2, <3>3
  <2> QED
    BY <2>1, <2>3, <2>4, <2>5, <2>6
<1> QED
  BY <1>1, <1>2 DEF Contains

Descending(P, s) ==
    \A j, k \in 1 .. Len(s) : j < k => P[s[j]] >= P[s[k]]

Position(P, s, e) == Min({k \in DOMAIN s : P[s[k]] < P[e]} \cup {Len(s) + 1})

\* The position that blocking_notifier_chain_register walks to: everything
\* before it has at least the new block's priority, everything behind it less.
LEMMA InsertPosition ==
    ASSUME NEW S, NEW P \in [S -> Int], NEW s \in Seq(S), NEW e \in S,
           Descending(P, s), NEW pos, pos = Position(P, s, e)
    PROVE  /\ pos \in 1 .. Len(s) + 1
           /\ \A k \in 1 .. pos - 1 : P[s[k]] >= P[e]
           /\ \A k \in pos .. Len(s) : P[s[k]] < P[e]
<1> DEFINE lower == {k \in DOMAIN s : P[s[k]] < P[e]}
           T == lower \cup {Len(s) + 1}
<1>1. Len(s) \in Nat /\ DOMAIN s = 1 .. Len(s) /\ \A k \in 1 .. Len(s) : s[k] \in S
  OBVIOUS
<1>2. T \in SUBSET Nat /\ T # {}
  BY <1>1
<1>3. pos \in T /\ \A k \in T : pos <= k
  BY <1>2, SmallestIndex DEF Position
<1>4. pos \in 1 .. Len(s) + 1
  BY <1>1, <1>3
<1>5. ASSUME NEW k \in 1 .. pos - 1 PROVE P[s[k]] >= P[e]
  <2>1. k \in 1 .. Len(s) /\ k < pos
    BY <1>1, <1>4
  <2>2. P[s[k]] \in Int /\ P[e] \in Int
    BY <1>1, <2>1
  <2>3. k \notin lower
    BY <1>1, <1>3, <2>1
  <2> QED
    BY <1>1, <2>1, <2>2, <2>3
<1>6. ASSUME NEW k \in pos .. Len(s) PROVE P[s[k]] < P[e]
  <2>1. pos \in lower
    BY <1>1, <1>3, <1>4
  <2>2. k \in 1 .. Len(s) /\ pos \in 1 .. Len(s) /\ (pos < k \/ pos = k)
    BY <1>1, <1>4
  <2>3. P[s[k]] \in Int /\ P[e] \in Int /\ P[s[pos]] \in Int
    BY <1>1, <2>2
  <2>4. P[s[pos]] >= P[s[k]]
    BY <2>2, <2>3 DEF Descending
  <2> QED
    BY <2>1, <2>3, <2>4
<1> QED
  BY <1>4, <1>5, <1>6

\* A node that is put into a list shifts the nodes behind it.
LEMMA InsertedAt ==
    ASSUME NEW S, NEW s \in Seq(S), NEW e \in S, NEW pos \in 1 .. Len(s) + 1
    PROVE  /\ InsertAt(s, pos, e) \in Seq(S)
           /\ Len(InsertAt(s, pos, e)) = Len(s) + 1
           /\ InsertAt(s, pos, e)[pos] = e
           /\ \A j \in 1 .. pos - 1 : InsertAt(s, pos, e)[j] = s[j]
           /\ \A j \in pos .. Len(s) : InsertAt(s, pos, e)[j + 1] = s[j]
<1> DEFINE front == SubSeq(s, 1, pos - 1)
           mid == <<e>>
           back == SubSeq(s, pos, Len(s))
           head == front \o mid
<1>1. Len(s) \in Nat /\ \A m \in 1 .. Len(s) : s[m] \in S
  OBVIOUS
<1>2. /\ front \in Seq(S) /\ Len(front) = pos - 1
      /\ \A j \in 1 .. pos - 1 : front[j] = s[j]
  BY <1>1, SubSeqProperties
<1>3. /\ back \in Seq(S) /\ Len(back) = Len(s) - pos + 1
      /\ \A j \in 1 .. Len(s) - pos + 1 : back[j] = s[pos + j - 1]
  BY <1>1, SubSeqProperties
<1>4. mid \in Seq(S) /\ Len(mid) = 1 /\ mid[1] = e
  OBVIOUS
<1> HIDE DEF front, back, mid
<1>5. /\ head \in Seq(S) /\ Len(head) = pos
      /\ \A j \in 1 .. pos : head[j] = IF j <= pos - 1 THEN front[j] ELSE mid[j - (pos - 1)]
  <2>1. Len(front) + Len(mid) = pos
    BY <1>1, <1>2, <1>4
  <2>2. /\ head \in Seq(S) /\ Len(head) = Len(front) + Len(mid)
        /\ \A j \in 1 .. Len(front) + Len(mid) :
               head[j] = IF j <= Len(front) THEN front[j] ELSE mid[j - Len(front)]
    BY <1>2, <1>4, ConcatProperties
  <2> HIDE DEF head
  <2> QED
    BY <1>2, <2>1, <2>2
<1>6. head[pos] = e /\ \A j \in 1 .. pos - 1 : head[j] = s[j]
  <2> HIDE DEF head
  <2>1. pos \in 1 .. pos /\ ~(pos <= pos - 1) /\ pos - (pos - 1) = 1
    BY <1>1
  <2>2. head[pos] = mid[1]
    BY <1>5, <2>1
  <2> QED
    BY <1>1, <1>2, <1>4, <1>5, <2>2
<1>7. InsertAt(s, pos, e) = head \o back
  BY DEF InsertAt, front, mid, back
<1> HIDE DEF head
<1>8. /\ head \o back \in Seq(S)
      /\ Len(head \o back) = Len(s) + 1
      /\ \A j \in 1 .. Len(s) + 1 :
             (head \o back)[j] = IF j <= pos THEN head[j] ELSE back[j - pos]
  <2>1. Len(head) + Len(back) = Len(s) + 1
    BY <1>1, <1>3, <1>5
  <2> QED
    BY <1>3, <1>5, <2>1, ConcatProperties
<1>9. ASSUME NEW j \in pos .. Len(s) PROVE (head \o back)[j + 1] = s[j]
  <2>1. j + 1 \in 1 .. Len(s) + 1 /\ ~(j + 1 <= pos) /\ (j + 1) - pos \in 1 .. Len(s) - pos + 1
    BY <1>1
  <2>2. (head \o back)[j + 1] = back[(j + 1) - pos]
    BY <1>8, <2>1
  <2>3. back[(j + 1) - pos] = s[pos + ((j + 1) - pos) - 1]
    BY <1>3, <2>1
  <2> QED
    BY <1>1, <2>2, <2>3
<1>10. (head \o back)[pos] = e /\ \A j \in 1 .. pos - 1 : (head \o back)[j] = s[j]
  BY <1>1, <1>6, <1>8
<1> QED
  BY <1>7, <1>8, <1>9, <1>10

\* blocking_notifier_chain_register keeps the blocks that are there, in their
\* order, and keeps the chain in descending order of priority.
LEMMA InsertedInOrder ==
    ASSUME NEW S, NEW P \in [S -> Int], NEW s \in Seq(S), NEW e \in S,
           Descending(P, s), IsInjective(s), ~Contains(s, e),
           NEW pos, pos = Position(P, s, e)
    PROVE  LET r == InsertAt(s, pos, e)
           IN  /\ r \in Seq(S)
               /\ IsInjective(r)
               /\ Descending(P, r)
               /\ \A x : Contains(r, x) <=> Contains(s, x) \/ x = e
<1> DEFINE r == InsertAt(s, pos, e)
<1>1. /\ pos \in 1 .. Len(s) + 1
      /\ \A k \in 1 .. pos - 1 : P[s[k]] >= P[e]
      /\ \A k \in pos .. Len(s) : P[s[k]] < P[e]
  BY InsertPosition
<1>2. /\ r \in Seq(S) /\ Len(r) = Len(s) + 1 /\ r[pos] = e
      /\ \A j \in 1 .. pos - 1 : r[j] = s[j]
      /\ \A j \in pos .. Len(s) : r[j + 1] = s[j]
  BY <1>1, InsertedAt
<1> HIDE DEF r
<1>3. /\ Len(s) \in Nat /\ DOMAIN s = 1 .. Len(s) /\ DOMAIN r = 1 .. Len(s) + 1
      /\ \A k \in 1 .. Len(s) : s[k] \in S /\ P[s[k]] \in Int /\ s[k] # e
      /\ P[e] \in Int
  BY <1>2 DEF Contains
<1>4. ASSUME NEW j \in 1 .. Len(s) + 1
      PROVE  \/ j = pos
             \/ j \in 1 .. pos - 1 /\ j \in 1 .. Len(s)
             \/ j > pos /\ j - 1 \in pos .. Len(s) /\ j - 1 \in 1 .. Len(s) /\ r[j] = s[j - 1]
  <2>1. CASE j > pos
    <3>1. j - 1 \in pos .. Len(s) /\ (j - 1) + 1 = j
      BY <1>1, <1>3, <2>1
    <3> QED
      BY <1>1, <1>2, <1>3, <2>1, <3>1
  <2> QED
    BY <1>1, <1>3, <2>1
<1>5. ASSUME NEW j \in 1 .. Len(s) + 1, NEW m \in 1 .. Len(s) + 1, j < m
      PROVE  r[j] # r[m] /\ P[r[j]] >= P[r[m]]
  <2>1. CASE j = pos
    <3>1. m - 1 \in pos .. Len(s) /\ m - 1 \in 1 .. Len(s) /\ r[m] = s[m - 1]
      BY <1>1, <1>3, <1>4, <1>5, <2>1
    <3>2. r[j] = e /\ r[m] = s[m - 1] /\ P[s[m - 1]] < P[e] /\ s[m - 1] # e
      BY <1>1, <1>2, <1>3, <2>1, <3>1
    <3>3. P[s[m - 1]] \in Int /\ P[e] \in Int
      BY <1>3, <3>1
    <3> QED
      BY <3>2, <3>3
  <2>2. CASE m = pos
    <3>1. j \in 1 .. pos - 1 /\ j \in 1 .. Len(s)
      BY <1>1, <1>3, <1>4, <1>5, <2>2
    <3>2. r[j] = s[j] /\ r[m] = e /\ P[s[j]] >= P[e] /\ s[j] # e
      BY <1>1, <1>2, <1>3, <2>2, <3>1
    <3> QED
      BY <3>2
  <2>3. CASE j # pos /\ m # pos
    <3>1. PICK p \in 1 .. Len(s), q \in 1 .. Len(s) :
              p < q /\ r[j] = s[p] /\ r[m] = s[q]
      <4>1. CASE m < pos
        <5>1. j \in 1 .. pos - 1 /\ m \in 1 .. pos - 1
          BY <1>1, <1>3, <1>5, <4>1
        <5>2. j \in 1 .. Len(s) /\ m \in 1 .. Len(s)
          BY <1>1, <1>3, <5>1
        <5> QED
          BY <1>2, <1>5, <5>1, <5>2
      <4>2. CASE j < pos /\ m > pos
        <5>1. m - 1 \in 1 .. Len(s) /\ r[m] = s[m - 1] /\ j < m - 1
          BY <1>1, <1>3, <1>4, <4>2, SMTT(30)
        <5>2. j \in 1 .. Len(s) /\ r[j] = s[j]
          BY <1>1, <1>2, <1>3, <1>4, <4>2, SMTT(30)
        <5> QED
          BY <5>1, <5>2
      <4>3. CASE j > pos
        <5>1. m > pos /\ j - 1 < m - 1
          BY <1>1, <1>5, <4>3
        <5>2. m - 1 \in 1 .. Len(s) /\ r[m] = s[m - 1]
          BY <1>1, <1>3, <1>4, <5>1, SMTT(30)
        <5>3. j - 1 \in 1 .. Len(s) /\ r[j] = s[j - 1]
          <6>1. ~(j = pos) /\ ~(j \in 1 .. pos - 1)
            BY <1>1, <1>3, <4>3
          <6> QED
            BY <1>4, <6>1
        <5> QED
          BY <5>1, <5>2, <5>3
      <4> QED
        BY <1>1, <1>3, <1>5, <2>3, <4>1, <4>2, <4>3
    <3>2. s[p] # s[q]
      BY <1>3, <3>1 DEF IsInjective
    <3>3. P[s[p]] >= P[s[q]]
      BY <3>1 DEF Descending
    <3> QED
      BY <3>1, <3>2, <3>3
  <2> QED
    BY <2>1, <2>2, <2>3
<1>6. IsInjective(r)
  <2>1. ASSUME NEW j \in 1 .. Len(s) + 1, NEW m \in 1 .. Len(s) + 1, r[j] = r[m]
        PROVE  j = m
    <3>1. ~(j < m) /\ ~(m < j)
      BY <1>5, <2>1
    <3> QED
      BY <1>3, <3>1
  <2> QED
    BY <1>3, <2>1 DEF IsInjective
<1>7. Descending(P, r)
  BY <1>2, <1>5 DEF Descending
<1>8. ASSUME NEW x, Contains(r, x) PROVE Contains(s, x) \/ x = e
  <2>1. PICK j \in 1 .. Len(s) + 1 : r[j] = x
    BY <1>2, <1>8 DEF Contains
  <2> QED
    BY <1>2, <1>4, <2>1 DEF Contains
<1>9. ASSUME NEW x, Contains(s, x) \/ x = e PROVE Contains(r, x)
  <2>1. CASE x = e
    BY <1>1, <1>2, <2>1 DEF Contains
  <2>2. ASSUME NEW k \in 1 .. Len(s), s[k] = x PROVE Contains(r, x)
    <3>1. CASE k < pos
      <4>1. k \in 1 .. pos - 1 /\ k \in 1 .. Len(r)
        BY <1>1, <1>2, <1>3, <3>1
      <4> QED
        BY <1>2, <2>2, <4>1 DEF Contains
    <3>2. CASE k >= pos
      <4>1. k \in pos .. Len(s) /\ k + 1 \in 1 .. Len(r)
        BY <1>1, <1>2, <1>3, <3>2
      <4> QED
        BY <1>2, <2>2, <4>1 DEF Contains
    <3> QED
      BY <1>1, <1>3, <3>1, <3>2
  <2> QED
    BY <1>9, <2>1, <2>2 DEF Contains
<1> QED
  BY <1>2, <1>6, <1>7, <1>8, <1>9 DEF r

(***************************************************************************)
(* Lesson 27e: a module is registered only while it is in memory, since it *)
(* registers after it is loaded and its exit empties the slot.             *)
(***************************************************************************)
SlotInv ==
    /\ Slot!TypeOK
    /\ \A c \in SlotClients :
        /\ c \in loadedE <=> pcE[c] # "out"
        /\ pcE[c] = "call" => left[c] > 0
        /\ callback = c => pcE[c] \in {"test", "call", "in"}

\* Nobody is loaded and the slot is empty.
LEMMA SlotInit == Slot!Init => SlotInv
<1> SUFFICES ASSUME Slot!Init PROVE SlotInv
  OBVIOUS
<1>1. Null \notin SlotClients /\ Events \in Nat
  BY ServersAssumption DEF Slot!SlotAssumption
<1>2. left \in [SlotClients -> 0 .. Events]
  BY <1>1 DEF Slot!Init
<1>3. \A c \in SlotClients : pcE[c] = "out" /\ c \notin loadedE /\ callback # c
  BY <1>1 DEF Slot!Init
<1> QED
  BY <1>2, <1>3 DEF Slot!Init, SlotInv, Slot!TypeOK

\* Whoever empties the slot empties it for all; the test before the store says
\* nothing of the others.
LEMMA SlotStep == SlotInv /\ [Slot!Next]_varsE => SlotInv'
<1> SUFFICES ASSUME SlotInv, [Slot!Next]_varsE PROVE SlotInv'
  OBVIOUS
<1>1. Null \notin SlotClients /\ Events \in Nat
  BY ServersAssumption DEF Slot!SlotAssumption
<1> USE DEF SlotInv, Slot!TypeOK, Slot!Goto
<1>2. ASSUME NEW c \in SlotClients, Slot!Load(c) PROVE SlotInv'
  BY <1>1, <1>2 DEF Slot!Load
<1>3. ASSUME NEW c \in SlotClients, Slot!RegisterTest(c) PROVE SlotInv'
  BY <1>1, <1>3 DEF Slot!RegisterTest
<1>4. ASSUME NEW c \in SlotClients, Slot!RegisterStore(c) PROVE SlotInv'
  BY <1>1, <1>4 DEF Slot!RegisterStore
<1>5. ASSUME NEW c \in SlotClients, Slot!NotifyTest(c) PROVE SlotInv'
  BY <1>1, <1>5 DEF Slot!NotifyTest
<1>6. ASSUME NEW c \in SlotClients, Slot!NotifyCall(c) PROVE SlotInv'
  BY <1>1, <1>6 DEF Slot!NotifyCall
<1>7. ASSUME NEW c \in SlotClients, Slot!InitReturn(c) PROVE SlotInv'
  BY <1>1, <1>7 DEF Slot!InitReturn
<1>8. ASSUME NEW c \in SlotClients, Slot!Exit(c) PROVE SlotInv'
  BY <1>1, <1>8 DEF Slot!Exit
<1>9. ASSUME NEW c \in SlotClients, Slot!Unload(c) PROVE SlotInv'
  BY <1>1, <1>9 DEF Slot!Unload
<1>10. CASE UNCHANGED varsE
  BY <1>1, <1>10 DEF varsE
<1> QED
  BY <1>2, <1>3, <1>4, <1>5, <1>6, <1>7, <1>8, <1>9, <1>10 DEF Slot!Next

(***************************************************************************)
(* Lesson 27f.  A notification has called the list up to the node it       *)
(* stands on; the list is the same from its first callback to its last,    *)
(* since who holds the mutex is in the loop and the list changes under the *)
(* mutex only.  No client is in the list twice, as it registers once a     *)
(* load.                                                                   *)
(***************************************************************************)
Progress(n) ==
    /\ pc[n] = "out" => called[n] = <<>>
    /\ pc[n] \in {"call", "next"} =>
        /\ Len(called[n]) <= Len(callback_list)
        /\ \A j \in 1 .. Len(called[n]) : called[n][j] = callback_list[j]
    /\ pc[n] = "call" =>
        IF Len(called[n]) = Len(callback_list) THEN cursor[n] = End
        ELSE cursor[n] = callback_list[Len(called[n]) + 1]
    /\ pc[n] = "next" =>
        /\ Len(called[n]) > 0
        /\ cursor[n] = callback_list[Len(called[n])]

InList(c) ==
    /\ c \in loaded <=> pc[c] # "out"
    /\ Contains(callback_list, c) => pc[c] \in {"in", "unregister"}

ListInv ==
    /\ TypeOK
    /\ IsInjective(callback_list)
    /\ \A c \in Clients : InList(c)
    /\ \A n \in Notifiers : pc[n] \in {"out", "call", "next"} /\ Progress(n)

\* The list is empty and nobody notifies.
LEMMA ListInit == Init => ListInv
<1> SUFFICES ASSUME Init PROVE ListInv
  OBVIOUS
<1>1. TypeOK
  BY CallbackAssumption DEF Init, TypeOK
<1>2. \A n \in Notifiers : pc[n] = "out" /\ Progress(n)
  BY DEF Init, Progress
<1>3. \A c \in Clients : InList(c)
  BY DEF Init, InList, Contains
<1> QED
  BY <1>1, <1>2, <1>3 DEF Init, ListInv, IsInjective

\* While a notification is in its loop the mutex is its own.
LEMMA FreeMeansIdle ==
    ASSUME TypeOK, callback_lock = Free, NEW n \in Notifiers,
           pc[n] \in {"out", "call", "next"}
    PROVE  pc[n] = "out"
  BY CallbackAssumption DEF TypeOK

\* A notification that has reached the last node is led past the end, and from
\* any other to the node behind it.
LEMMA AfterAt ==
    ASSUME NEW S, NEW s \in Seq(S), IsInjective(s), NEW k \in 1 .. Len(s)
    PROVE  After(s, s[k]) = IF k = Len(s) THEN End ELSE s[k + 1]
<1> DEFINE length == Len(s)
<1>1. length \in Nat /\ k \in 1 .. length
  OBVIOUS
<1>2. \A j \in 1 .. length : s[j] = s[k] => j = k
  BY DEF IsInjective
<1>3. After(s, s[k]) = IF \E j \in 1 .. length - 1 : s[j] = s[k]
                       THEN s[1 + CHOOSE j \in 1 .. length - 1 : s[j] = s[k]]
                       ELSE End
  BY DEF After
<1> HIDE DEF length
<1>4. CASE k = length
  <2>1. \A j \in 1 .. length - 1 : s[j] # s[k]
    BY <1>1, <1>2, <1>4
  <2> QED
    BY <1>3, <1>4, <2>1 DEF length
<1>5. CASE k # length
  <2>1. k \in 1 .. length - 1
    BY <1>1, <1>5
  <2>2. (CHOOSE j \in 1 .. length - 1 : s[j] = s[k]) = k
    BY <1>1, <1>2, <2>1
  <2>3. 1 + k = k + 1
    BY <1>1
  <2>4. After(s, s[k]) = s[1 + CHOOSE j \in 1 .. length - 1 : s[j] = s[k]]
    BY <1>3, <2>1
  <2> QED
    BY <1>5, <2>2, <2>3, <2>4 DEF length
<1> QED
  BY <1>4, <1>5

\* Registering, unregistering, unloading and the steps of a notification keep
\* the list as described.
LEMMA ListStep == ListInv /\ [Next]_vars => ListInv'
<1> SUFFICES ASSUME ListInv, [Next]_vars PROVE ListInv'
  OBVIOUS
<1> USE DEF ListInv, TypeOK, Goto
<1>1. \A c \in Clients, n \in Notifiers : c # n
  BY CallbackAssumption
<1>2. ASSUME NEW c \in Clients, Load(c) PROVE ListInv'
  <2>1. TypeOK'
    BY <1>1, <1>2 DEF Load
  <2>2. \A d \in Clients : InList(d)'
    BY <1>1, <1>2 DEF Load, InList
  <2>3. \A n \in Notifiers : pc'[n] = pc[n] /\ Progress(n)'
    BY <1>1, <1>2 DEF Load, Progress
  <2> QED
    BY <1>2, <2>1, <2>2, <2>3 DEF Load
<1>3. ASSUME NEW c \in Clients, Exit(c) PROVE ListInv'
  BY <1>1, <1>3 DEF Exit, InList, Progress
<1>4. ASSUME NEW c \in Clients, Register(c) PROVE ListInv'
  <2>1. ~Contains(callback_list, c)
    BY <1>4 DEF Register, InList
  <2>2. /\ callback_list' \in Seq(Clients)
        /\ Len(callback_list') = Len(callback_list) + 1
        /\ \A j \in 1 .. Len(callback_list) : callback_list'[j] = callback_list[j]
        /\ callback_list'[Len(callback_list) + 1] = c
    BY <1>4 DEF Register
  <2>3. IsInjective(callback_list')
    BY <2>1, <2>2, SMTT(30) DEF IsInjective, Contains
  <2>4. \A d \in Clients : Contains(callback_list', d) => Contains(callback_list, d) \/ d = c
    BY <2>2 DEF Contains
  <2>5. \A d \in Clients : InList(d)'
    BY <1>4, <2>4 DEF Register, InList
  <2>6. \A n \in Notifiers : pc[n] = "out" /\ pc'[n] = "out" /\ Progress(n)'
    BY <1>1, <1>4, FreeMeansIdle DEF Register, Progress
  <2>7. TypeOK'
    BY <1>1, <1>4, <2>2 DEF Register
  <2> QED
    BY <2>3, <2>5, <2>6, <2>7
<1>5. ASSUME NEW c \in Clients, Unregister(c) PROVE ListInv'
  <2>1. /\ callback_list' \in Seq(Clients)
        /\ IsInjective(callback_list')
        /\ \A x : Contains(callback_list', x) <=> Contains(callback_list, x) /\ x # c
    BY <1>5, Removed DEF Unregister
  <2>2. \A d \in Clients : InList(d)'
    BY <1>5, <2>1 DEF Unregister, InList
  <2>3. \A n \in Notifiers : pc[n] = "out" /\ pc'[n] = "out" /\ Progress(n)'
    BY <1>1, <1>5, FreeMeansIdle DEF Unregister, Progress
  <2>4. TypeOK'
    BY <1>1, <1>5, <2>1 DEF Unregister
  <2> QED
    BY <2>1, <2>2, <2>3, <2>4
<1>6. ASSUME NEW c \in Clients, Unload(c) PROVE ListInv'
  BY <1>1, <1>6 DEF Unload, InList, Progress
<1>7. ASSUME NEW n \in Notifiers, NotifyLock(n) PROVE ListInv'
  <2>1. TypeOK'
    BY <1>1, <1>7, CallbackAssumption DEF NotifyLock
  <2>2. \A c \in Clients : InList(c)'
    BY <1>1, <1>7 DEF NotifyLock, InList
  <2>3. \A m \in Notifiers : pc[m] = "out"
    BY <1>7, FreeMeansIdle DEF NotifyLock
  <2>4. Progress(n)'
    <3>1. called'[n] = <<>> /\ pc'[n] = "call" /\ callback_list' = callback_list
      BY <1>7, <2>3 DEF NotifyLock, Progress
    <3>2. cursor'[n] = IF Len(callback_list) = 0 THEN End ELSE callback_list[1]
      BY <1>7 DEF NotifyLock
    <3> QED
      BY <3>1, <3>2 DEF Progress
  <2>5. \A m \in Notifiers \ {n} : pc'[m] = "out" /\ Progress(m)'
    BY <1>7, <2>3 DEF NotifyLock, Progress
  <2> QED
    BY <1>7, <2>1, <2>2, <2>4, <2>5 DEF NotifyLock
<1>8. ASSUME NEW n \in Notifiers, NotifyCall(n) PROVE ListInv'
  <2>1. TypeOK'
    BY <1>1, <1>8, CallbackAssumption DEF NotifyCall
  <2>2. \A c \in Clients : InList(c)'
    BY <1>1, <1>8 DEF NotifyCall, InList
  <2>3. Progress(n)'
    <3>1. /\ Len(called[n]) < Len(callback_list)
          /\ cursor[n] = callback_list[Len(called[n]) + 1]
          /\ \A j \in 1 .. Len(called[n]) : called[n][j] = callback_list[j]
      BY <1>8 DEF NotifyCall, Progress
    <3>2. /\ called'[n] = Append(called[n], cursor[n]) /\ pc'[n] = "next"
          /\ cursor' = cursor /\ callback_list' = callback_list
      BY <1>8 DEF NotifyCall
    <3>3. /\ Len(called'[n]) = Len(called[n]) + 1
          /\ \A j \in 1 .. Len(called[n]) : called'[n][j] = called[n][j]
          /\ called'[n][Len(called[n]) + 1] = cursor[n]
      BY <1>8, <3>2 DEF NotifyCall
    <3> QED
      BY <3>1, <3>2, <3>3 DEF Progress
  <2>4. \A m \in Notifiers \ {n} : pc'[m] = pc[m] /\ Progress(m)'
    BY <1>8 DEF NotifyCall, Progress
  <2> QED
    BY <1>8, <2>1, <2>2, <2>3, <2>4 DEF NotifyCall
<1>9. ASSUME NEW n \in Notifiers, NotifyNext(n) PROVE ListInv'
  <2>1. Len(called[n]) \in 1 .. Len(callback_list)
        /\ cursor[n] = callback_list[Len(called[n])]
    BY <1>9 DEF NotifyNext, Progress
  <2>2. cursor'[n] = IF Len(called[n]) = Len(callback_list) THEN End
                     ELSE callback_list[Len(called[n]) + 1]
    BY <1>9, <2>1, AfterAt DEF NotifyNext
  <2>3. TypeOK'
    <3>1. cursor'[n] \in Clients \cup {End}
      BY <2>1, <2>2
    <3> QED
      BY <1>1, <1>9, <3>1, CallbackAssumption DEF NotifyNext
  <2>4. \A c \in Clients : InList(c)'
    BY <1>1, <1>9 DEF NotifyNext, InList
  <2>5. Progress(n)'
    BY <1>9, <2>2 DEF NotifyNext, Progress
  <2>6. \A m \in Notifiers \ {n} : pc'[m] = pc[m] /\ Progress(m)'
    BY <1>9 DEF NotifyNext, Progress
  <2> QED
    BY <1>9, <2>3, <2>4, <2>5, <2>6 DEF NotifyNext
<1>10. ASSUME NEW n \in Notifiers, NotifyUnlock(n) PROVE ListInv'
  <2>1. TypeOK'
    BY <1>1, <1>10, CallbackAssumption DEF NotifyUnlock
  <2>2. \A c \in Clients : InList(c)'
    BY <1>1, <1>10 DEF NotifyUnlock, InList
  <2>3. \A m \in Notifiers : Progress(m)' /\ pc'[m] \in {"out", "call", "next"}
    BY <1>10 DEF NotifyUnlock, Progress
  <2> QED
    BY <1>10, <2>1, <2>2, <2>3 DEF NotifyUnlock
<1>11. CASE UNCHANGED vars
  BY <1>11 DEF vars, InList, Progress
<1> QED
  BY <1>2, <1>3, <1>4, <1>5, <1>6, <1>7, <1>8, <1>9, <1>10, <1>11
     DEF Next, ClientStep, NotifyStep

(***************************************************************************)
(* Lesson 27g.  The chain is sorted and holds who has registered; a call   *)
(* has run it up to the block it comes to next, and keeps the semaphore    *)
(* for reading, so that the chain does not change under it.                *)
(***************************************************************************)
BlockPriority == [b \in Blocks |-> IF b = ModuleC THEN 20 ELSE 10]

InChain(b) ==
    Contains(my_chain, b) <=> pcG[b] \in {"send", "call", "in", "unregister"}

Reached(b) ==
    /\ pcG[b] # "call" => heard[b] = <<>>
    /\ pcG[b] = "call" =>
        /\ event[b] < EventCount
        /\ Len(heard[b]) <= Len(my_chain)
        /\ \A j \in 1 .. Len(heard[b]) : heard[b][j] = my_chain[j]
        /\ nb[b] = IF Len(heard[b]) = Len(my_chain) THEN LastBlock
                   ELSE my_chain[Len(heard[b]) + 1]

ChainInv ==
    /\ Chain!TypeOK
    /\ IsInjective(my_chain)
    /\ Descending(BlockPriority, my_chain)
    /\ \A b \in Blocks : InChain(b) /\ Reached(b)

\* What is assumed of the blocks.
LEMMA ChainConstants ==
    /\ BlockPriority \in [Blocks -> Int]
    /\ EventCount \in Nat
    /\ LastBlock \notin Blocks
  BY ServersAssumption DEF Chain!ChainAssumption, BlockPriority

\* The chain is empty.
LEMMA ChainInit == Chain!Init => ChainInv
<1> SUFFICES ASSUME Chain!Init PROVE ChainInv
  OBVIOUS
<1>1. Chain!TypeOK
  BY ChainConstants DEF Chain!Init, Chain!TypeOK
<1>2. \A b \in Blocks : InChain(b) /\ Reached(b)
  BY DEF Chain!Init, InChain, Reached, Contains
<1> QED
  BY <1>1, <1>2 DEF Chain!Init, ChainInv, IsInjective, Descending

\* A registration inserts at the position that the chain's order gives.
LEMMA ChainInserted ==
    ASSUME NEW s, NEW b \in Blocks, DOMAIN s = 1 .. Len(s),
           \A k \in DOMAIN s : s[k] \in Blocks
    PROVE  Chain!Inserted(s, b) = InsertAt(s, Position(BlockPriority, s, b), b)
<1>1. {k \in DOMAIN s : [c \in Blocks |-> IF c = ModuleC THEN 20 ELSE 10][s[k]]
                      < [c \in Blocks |-> IF c = ModuleC THEN 20 ELSE 10][b]}
      = {k \in DOMAIN s : BlockPriority[s[k]] < BlockPriority[b]}
  BY DEF BlockPriority
<1> QED
  BY <1>1, Zenon DEF Chain!Inserted, Chain!InsertAt, Chain!Min, InsertAt, Position, Min

\* A call that has run the block at position k comes to the one behind it.
LEMMA BlockAfterAt ==
    ASSUME IsInjective(my_chain), my_chain \in Seq(Blocks),
           NEW k \in 1 .. Len(my_chain)
    PROVE  Chain!BlockAfter(my_chain[k]) =
               IF k = Len(my_chain) THEN LastBlock ELSE my_chain[k + 1]
<1> DEFINE length == Len(my_chain)
<1>1. length \in Nat /\ k \in 1 .. length
  OBVIOUS
<1>2. \A j \in 1 .. length : my_chain[j] = my_chain[k] => j = k
  BY DEF IsInjective
<1>3. Chain!BlockAfter(my_chain[k]) =
          IF \E j \in 1 .. length - 1 : my_chain[j] = my_chain[k]
          THEN my_chain[1 + CHOOSE j \in 1 .. length - 1 : my_chain[j] = my_chain[k]]
          ELSE LastBlock
  BY DEF Chain!BlockAfter
<1> HIDE DEF length
<1>4. CASE k = length
  <2>1. \A j \in 1 .. length - 1 : my_chain[j] # my_chain[k]
    BY <1>1, <1>2, <1>4
  <2> QED
    BY <1>3, <1>4, <2>1 DEF length
<1>5. CASE k # length
  <2>1. k \in 1 .. length - 1
    BY <1>1, <1>5
  <2>2. (CHOOSE j \in 1 .. length - 1 : my_chain[j] = my_chain[k]) = k
    BY <1>1, <1>2, <2>1
  <2>3. 1 + k = k + 1
    BY <1>1
  <2>4. Chain!BlockAfter(my_chain[k])
        = my_chain[1 + CHOOSE j \in 1 .. length - 1 : my_chain[j] = my_chain[k]]
    BY <1>3, <2>1
  <2> QED
    BY <1>5, <2>2, <2>3, <2>4 DEF length
<1> QED
  BY <1>4, <1>5

\* Who registers or unregisters waits for the calls; who calls goes through the
\* chain as it was when the call began.
LEMMA ChainStep == ChainInv /\ [Chain!Next]_varsG => ChainInv'
<1> SUFFICES ASSUME ChainInv, [Chain!Next]_varsG PROVE ChainInv'
  OBVIOUS
<1> USE DEF ChainInv, Chain!TypeOK, Chain!Goto
<1>1. ASSUME NEW b \in Blocks, Chain!ChainLoad(b) PROVE ChainInv'
  BY <1>1 DEF Chain!ChainLoad, InChain, Reached
<1>2. ASSUME NEW b \in Blocks, Chain!ChainRegister(b) PROVE ChainInv'
  <2>1. ~Contains(my_chain, b) /\ pcG[b] = "register"
    BY <1>2 DEF Chain!ChainRegister, InChain
  <2>2. my_chain' = InsertAt(my_chain, Position(BlockPriority, my_chain, b), b)
    <3>1. DOMAIN my_chain = 1 .. Len(my_chain) /\ \A k \in DOMAIN my_chain : my_chain[k] \in Blocks
      OBVIOUS
    <3> QED
      BY <1>2, <3>1, ChainInserted DEF Chain!ChainRegister
  <2>3. /\ my_chain' \in Seq(Blocks)
        /\ IsInjective(my_chain')
        /\ Descending(BlockPriority, my_chain')
        /\ \A x : Contains(my_chain', x) <=> Contains(my_chain, x) \/ x = b
    <3> DEFINE pos == Position(BlockPriority, my_chain, b)
               r == InsertAt(my_chain, pos, b)
    <3>1. my_chain \in Seq(Blocks) /\ IsInjective(my_chain) /\ Descending(BlockPriority, my_chain)
      OBVIOUS
    <3>2. BlockPriority \in [Blocks -> Int]
      BY ChainConstants
    <3> HIDE DEF pos, ChainInv
    <3>3. /\ r \in Seq(Blocks)
          /\ IsInjective(r)
          /\ Descending(BlockPriority, r)
          /\ \A x : Contains(r, x) <=> Contains(my_chain, x) \/ x = b
      BY <2>1, <3>1, <3>2, InsertedInOrder DEF pos
    <3> QED
      BY <2>2, <3>3 DEF pos
  <2>4. Chain!TypeOK'
    BY <1>2, <2>3, ChainConstants DEF Chain!ChainRegister
  <2>5. \A c \in Blocks : InChain(c)'
    BY <1>2, <2>3 DEF Chain!ChainRegister, InChain
  <2>6. \A c \in Blocks : Reached(c)'
    BY <1>2 DEF Chain!ChainRegister, Chain!NoReader, Reached
  <2> QED
    BY <2>3, <2>4, <2>5, <2>6
<1>3. ASSUME NEW b \in Blocks, Chain!CallStart(b) PROVE ChainInv'
  <2>1. Chain!TypeOK'
    <3>1. nb'[b] \in Blocks \cup {LastBlock}
      BY <1>3 DEF Chain!CallStart, Chain!FirstOf
    <3> QED
      BY <1>3, <3>1, ChainConstants DEF Chain!CallStart
  <2>2. \A c \in Blocks : InChain(c)'
    BY <1>3 DEF Chain!CallStart, InChain
  <2>3. Reached(b)'
    <3>1. /\ heard'[b] = <<>> /\ pcG'[b] = "call" /\ my_chain' = my_chain
          /\ event'[b] < EventCount
      BY <1>3 DEF Chain!CallStart, Reached
    <3>2. nb'[b] = IF Len(my_chain) = 0 THEN LastBlock ELSE my_chain[1]
      BY <1>3 DEF Chain!CallStart, Chain!FirstOf
    <3> QED
      BY <3>1, <3>2 DEF Reached
  <2>4. \A c \in Blocks \ {b} : Reached(c)'
    BY <1>3 DEF Chain!CallStart, Reached
  <2> QED
    BY <1>3, <2>1, <2>2, <2>3, <2>4 DEF Chain!CallStart
<1>4. ASSUME NEW b \in Blocks, Chain!CallBlock(b) PROVE ChainInv'
  <2>1. /\ Len(heard[b]) + 1 \in 1 .. Len(my_chain)
        /\ nb[b] = my_chain[Len(heard[b]) + 1]
        /\ \A j \in 1 .. Len(heard[b]) : heard[b][j] = my_chain[j]
    BY <1>4 DEF Chain!CallBlock, Reached
  <2>2. /\ heard'[b] = Append(heard[b], nb[b])
        /\ Len(heard'[b]) = Len(heard[b]) + 1
        /\ \A j \in 1 .. Len(heard[b]) : heard'[b][j] = heard[b][j]
        /\ heard'[b][Len(heard[b]) + 1] = nb[b]
    BY <1>4 DEF Chain!CallBlock
  <2>3. nb'[b] = IF Len(heard[b]) + 1 = Len(my_chain) THEN LastBlock
                 ELSE my_chain[(Len(heard[b]) + 1) + 1]
    BY <1>4, <2>1, BlockAfterAt DEF Chain!CallBlock
  <2>4. Chain!TypeOK'
    <3>1. nb'[b] \in Blocks \cup {LastBlock}
      BY <2>1, <2>3
    <3> QED
      BY <1>4, <3>1, ChainConstants DEF Chain!CallBlock
  <2>5. \A c \in Blocks : InChain(c)'
    BY <1>4 DEF Chain!CallBlock, InChain
  <2>6. Reached(b)'
    BY <1>4, <2>1, <2>2, <2>3, SMTT(30) DEF Chain!CallBlock, Reached
  <2>7. \A c \in Blocks \ {b} : Reached(c)'
    BY <1>4 DEF Chain!CallBlock, Reached
  <2> QED
    BY <1>4, <2>4, <2>5, <2>6, <2>7 DEF Chain!CallBlock
<1>5. ASSUME NEW b \in Blocks, Chain!CallEnd(b) PROVE ChainInv'
  <2>1. Chain!TypeOK'
    BY <1>5, ChainConstants DEF Chain!CallEnd, Reached
  <2>2. \A c \in Blocks : InChain(c)' /\ Reached(c)'
    BY <1>5 DEF Chain!CallEnd, InChain, Reached
  <2> QED
    BY <1>5, <2>1, <2>2 DEF Chain!CallEnd
<1>6. ASSUME NEW b \in Blocks, Chain!ChainInitReturn(b) PROVE ChainInv'
  BY <1>6, ChainConstants DEF Chain!ChainInitReturn, InChain, Reached
<1>7. ASSUME NEW b \in Blocks, Chain!ChainExit(b) PROVE ChainInv'
  BY <1>7 DEF Chain!ChainExit, InChain, Reached
<1>8. ASSUME NEW b \in Blocks, Chain!ChainUnregister(b) PROVE ChainInv'
  <2>1. my_chain' = RemoveFirst(my_chain, b)
    BY <1>8, Zenon DEF Chain!ChainUnregister, Chain!RemoveFirst, Chain!RemoveAt,
       Chain!SelectInSeq, Chain!Min, RemoveFirst, RemoveAt, SelectInSeq, Min
  <2>2. /\ my_chain' \in Seq(Blocks)
        /\ IsInjective(my_chain')
        /\ \A x : Contains(my_chain', x) <=> Contains(my_chain, x) /\ x # b
        /\ \A j, m \in 1 .. Len(my_chain') : j < m =>
               \E p, q \in 1 .. Len(my_chain) :
                   p < q /\ my_chain'[j] = my_chain[p] /\ my_chain'[m] = my_chain[q]
    <3> DEFINE r == RemoveFirst(my_chain, b)
    <3>1. my_chain \in Seq(Blocks) /\ IsInjective(my_chain)
      OBVIOUS
    <3> HIDE DEF ChainInv
    <3>2. /\ r \in Seq(Blocks)
          /\ IsInjective(r)
          /\ \A x : Contains(r, x) <=> Contains(my_chain, x) /\ x # b
          /\ \A j, m \in 1 .. Len(r) : j < m =>
                 \E p, q \in 1 .. Len(my_chain) :
                     p < q /\ r[j] = my_chain[p] /\ r[m] = my_chain[q]
      BY <3>1, Removed
    <3> HIDE DEF r
    <3>3. my_chain' = r
      BY <2>1 DEF r
    <3> QED
      BY <3>2, <3>3
  <2>3. Descending(BlockPriority, my_chain')
    <3> DEFINE new == my_chain'
    <3>1. ASSUME NEW j \in 1 .. Len(new), NEW m \in 1 .. Len(new), j < m
          PROVE  BlockPriority[new[j]] >= BlockPriority[new[m]]
      <4>1. PICK p \in 1 .. Len(my_chain), q \in 1 .. Len(my_chain) :
              p < q /\ new[j] = my_chain[p] /\ new[m] = my_chain[q]
        BY <2>2, <3>1
      <4>2. Descending(BlockPriority, my_chain)
        OBVIOUS
      <4>3. BlockPriority[my_chain[p]] >= BlockPriority[my_chain[q]]
        BY <4>1, <4>2 DEF Descending
      <4> QED
        BY <4>1, <4>3
    <3> HIDE DEF new
    <3>2. \A j, m \in 1 .. Len(new) : j < m => BlockPriority[new[j]] >= BlockPriority[new[m]]
      BY <3>1
    <3> QED
      BY <3>2 DEF Descending, new
  <2>4. Chain!TypeOK'
    BY <1>8, <2>2 DEF Chain!ChainUnregister
  <2>5. \A c \in Blocks : InChain(c)'
    BY <1>8, <2>2 DEF Chain!ChainUnregister, InChain
  <2>6. \A c \in Blocks : Reached(c)'
    BY <1>8 DEF Chain!ChainUnregister, Chain!NoReader, Reached
  <2> QED
    BY <2>2, <2>3, <2>4, <2>5, <2>6
<1>9. ASSUME NEW b \in Blocks, Chain!ChainUnload(b) PROVE ChainInv'
  BY <1>9 DEF Chain!ChainUnload, InChain, Reached
<1>10. CASE UNCHANGED varsG
  BY <1>10 DEF varsG, InChain, Reached
<1> QED
  BY <1>1, <1>2, <1>3, <1>4, <1>5, <1>6, <1>7, <1>8, <1>9, <1>10 DEF Chain!Next

(***************************************************************************)
(* Lesson 25b.  The types hold whatever overlaps.  A client that appends   *)
(* while nobody else does writes the entry behind the table; from then on  *)
(* that entry is its own: whoever appends later writes behind it.  A       *)
(* broadcast has dealt with every entry before its index.                  *)
(***************************************************************************)
NetTypes ==
    /\ Net!TypeOK
    /\ \A c \in Pids :
        /\ pcNet[c] \in {"idle", "limit", "append", "serve"} => i[c] = 0
        /\ pcNet[c] \in {"store", "count"} =>
            i[c] < MAX_CLIENTS /\ \A k \in 0 .. i[c] - 1 : clients[k] \in Pids
        /\ pcNet[c] = "count" => clients[i[c]] \in Pids
    /\ \A k \in 0 .. total_clients - 1 : clients[k] \in Pids
    /\ sent \in [Pids -> Seq(Pids)]
    /\ owed \in [Pids -> SUBSET Pids]
    /\ excused \in [Pids -> SUBSET Pids]

\* Entry j is c's and stays so: nobody is about to write it.
Home(c, j) ==
    /\ j < total_clients /\ clients[j] = c
    /\ \A k \in Net!Entries : clients[k] = c => k = j
    /\ \A d \in Pids : pcNet[d] \in {"store", "count"} => j < i[d]
    /\ pcNet[c] = "search" => i[c] <= j

\* The client is in the table, or it is not, or it is alone in adding itself.
Settled(c) ==
    /\ c \in known => /\ pcNet[c] # "limit" /\ pcNet[c] \notin Net!Appending
                      /\ \E j \in Net!Entries : Home(c, j)
    /\ c \notin known =>
           \A k \in Net!Entries : clients[k] = c => pcNet[c] = "count" /\ k = i[c]
    /\ pcNet[c] # "overrun"
    /\ pcNet[c] \in Net!Appending =>
           \A d \in Pids \ {c} : pcNet[d] \notin Net!Appending
    /\ pcNet[c] = "append" => total_clients < MAX_CLIENTS
    /\ pcNet[c] \in {"store", "count"} => i[c] = total_clients
    /\ pcNet[c] = "count" => clients[i[c]] = c

Served ==
    raced = {} => \A c \in Pids : pcNet[c] \in {"serve", "loop", "return"} =>
                      c \in known \/ total_clients = MAX_CLIENTS

\* What the broadcast of c has done.
Reaching(c) ==
    /\ owed[c] \subseteq known
    /\ \A k \in 0 .. i[c] - 1 : clients[k] \in owed[c] \ raced =>
           clients[k] \in Net!ToSet(sent[c]) \cup excused[c]
    /\ \A d \in Net!ToSet(sent[c]) \ raced :
           d \in known /\ \E k \in 0 .. i[c] - 1 : clients[k] = d
    /\ \A j, k \in DOMAIN sent[c] :
           sent[c][j] = sent[c][k] /\ sent[c][j] \notin raced => j = k

NetInv ==
    /\ NetTypes
    /\ \A c \in Pids \ raced : Settled(c)
    /\ Served
    /\ \A c \in Pids : pcNet[c] \in {"loop", "return"} => Reaching(c)
    /\ Net!BroadcastReachesAll

\* What is assumed of the table.
LEMMA NetConstants ==
    /\ NoPid \notin Pids
    /\ MAX_CLIENTS \in Nat
  BY ServersAssumption DEF Net!TableAssumption

\* The table is empty and nobody is in netlink_recv_msg.
LEMMA NetInit == Net!Init => NetInv
<1> SUFFICES ASSUME Net!Init PROVE NetInv
  OBVIOUS
<1>1. Net!TypeOK
  BY NetConstants DEF Net!Init, Net!TypeOK, Net!NetSteps
<1>2. NetTypes
  BY <1>1, NetConstants DEF Net!Init, NetTypes
<1>3. \A c \in Pids : pcNet[c] = "idle" /\ c \notin known
                      /\ \A k \in Net!Entries : clients[k] # c
  BY NetConstants DEF Net!Init
<1>4. ASSUME NEW c \in Pids PROVE Settled(c)
  BY <1>3 DEF Settled, Net!Appending
<1> QED
  BY <1>2, <1>3, <1>4 DEF NetInv, Served, Net!BroadcastReachesAll

\* The table is written at an index below MAX_CLIENTS, and whoever sends to an
\* entry sends to a client.
LEMMA NetTypesStep == NetTypes /\ [Net!Next]_varsNet => NetTypes'
<1> SUFFICES ASSUME NetTypes, [Net!Next]_varsNet PROVE NetTypes'
  OBVIOUS
<1> USE NetConstants DEF NetTypes, Net!TypeOK, Net!NetSteps, Net!Appending,
        Net!Entries, Net!Goto, Net!netHistories
<1>1. ASSUME NEW c \in Pids, Net!Bind(c) PROVE NetTypes'
  BY <1>1 DEF Net!Bind
<1>2. ASSUME NEW c \in Pids, Net!Close(c) PROVE NetTypes'
  BY <1>2 DEF Net!Close
<1>3. ASSUME NEW c \in Pids, NEW what \in {"hello", "broadcast"}, Net!Send(c, what)
      PROVE  NetTypes'
  BY <1>3 DEF Net!Send
<1>4. ASSUME NEW c \in Pids, Net!RegisterNext(c) PROVE NetTypes'
  BY <1>4, SMTT(30) DEF Net!RegisterNext
<1>5. ASSUME NEW c \in Pids, Net!RegisterFound(c) PROVE NetTypes'
  BY <1>5, SMTT(30) DEF Net!RegisterFound
<1>6. ASSUME NEW c \in Pids, Net!RegisterNew(c) PROVE NetTypes'
  BY <1>6 DEF Net!RegisterNew
<1>7. ASSUME NEW c \in Pids, Net!RegisterFull(c) PROVE NetTypes'
  BY <1>7 DEF Net!RegisterFull
<1>8. ASSUME NEW c \in Pids, Net!RegisterRoom(c) PROVE NetTypes'
  BY <1>8 DEF Net!RegisterRoom
<1>9. ASSUME NEW c \in Pids, Net!RegisterLoad(c) PROVE NetTypes'
  BY <1>9, SMTT(30) DEF Net!RegisterLoad
<1>10. ASSUME NEW c \in Pids, Net!RegisterBehind(c) PROVE NetTypes'
  BY <1>10 DEF Net!RegisterBehind
<1>11. ASSUME NEW c \in Pids, Net!RegisterStore(c) PROVE NetTypes'
  BY <1>11, SMTT(30) DEF Net!RegisterStore
<1>12. ASSUME NEW c \in Pids, Net!RegisterCount(c) PROVE NetTypes'
  BY <1>12, SMTT(30) DEF Net!RegisterCount
<1>13. ASSUME NEW c \in Pids, Net!Reply(c) PROVE NetTypes'
  BY <1>13 DEF Net!Reply
<1>14. ASSUME NEW c \in Pids, Net!Broadcast(c) PROVE NetTypes'
  BY <1>14 DEF Net!Broadcast
<1>15. ASSUME NEW c \in Pids, Net!BroadcastSend(c) PROVE NetTypes'
  <2>1. pcNet[c] = "loop" /\ clients[i[c]] \in Pids /\ i[c] + 1 \in 0 .. MAX_CLIENTS
    BY <1>15 DEF Net!BroadcastSend
  <2>2. sent' \in [Pids -> Seq(Pids)]
    BY <1>15, <2>1 DEF Net!BroadcastSend
  <2>3. i' \in [Pids -> 0 .. MAX_CLIENTS] /\ \A d \in Pids : d # c => i'[d] = i[d]
    BY <1>15, <2>1 DEF Net!BroadcastSend
  <2>4. UNCHANGED <<clients, total_clients, bound, pcNet, request, known, raced, owed, excused>>
    BY <1>15 DEF Net!BroadcastSend
  <2> QED
    BY <2>1, <2>2, <2>3, <2>4
<1>16. ASSUME NEW c \in Pids, Net!BroadcastFail(c) PROVE NetTypes'
  <2>1. pcNet[c] = "loop" /\ clients[i[c]] \in Pids /\ i[c] + 1 \in 0 .. MAX_CLIENTS
    BY <1>16 DEF Net!BroadcastFail
  <2>2. excused' \in [Pids -> SUBSET Pids]
    BY <1>16, <2>1 DEF Net!BroadcastFail
  <2>3. i' \in [Pids -> 0 .. MAX_CLIENTS] /\ \A d \in Pids : d # c => i'[d] = i[d]
    BY <1>16, <2>1 DEF Net!BroadcastFail
  <2>4. UNCHANGED <<clients, total_clients, bound, pcNet, request, known, raced, owed, sent>>
    BY <1>16 DEF Net!BroadcastFail
  <2> QED
    BY <2>1, <2>2, <2>3, <2>4
<1>17. ASSUME NEW c \in Pids, Net!BroadcastEnd(c) PROVE NetTypes'
  BY <1>17 DEF Net!BroadcastEnd
<1>18. ASSUME NEW c \in Pids, Net!Return(c) PROVE NetTypes'
  BY <1>18 DEF Net!Return
<1>19. CASE UNCHANGED varsNet
  BY <1>19 DEF varsNet
<1> QED
  BY <1>1, <1>2, <1>3, <1>4, <1>5, <1>6, <1>7, <1>8, <1>9, <1>10, <1>11, <1>12,
     <1>13, <1>14, <1>15, <1>16, <1>17, <1>18, <1>19
     DEF Net!Next, Net!Undefined, Net!netVars, varsNet

\* A client that has appended alone, or has not appended, stays settled.
LEMMA SettledStep ==
    ASSUME NetInv, [Net!Next]_varsNet, NEW c \in Pids, c \notin raced'
    PROVE  Settled(c)'
<1>1. NetTypes /\ NetTypes'
  BY NetTypesStep DEF NetInv
<1>2. /\ total_clients \in Nat /\ i \in [Pids -> Nat] /\ i' \in [Pids -> Nat]
      /\ pcNet \in [Pids -> Net!NetSteps] /\ Net!Entries \subseteq Nat
      /\ clients \in [Net!Entries -> Pids \cup {NoPid}]
  BY <1>1, NetConstants DEF NetTypes, Net!TypeOK, Net!Entries
<1> DEFINE Table == clients' = clients /\ total_clients' = total_clients
           Only(a) == \A d \in Pids \ {a} :
               pcNet'[d] = pcNet[d] /\ i'[d] = i[d] /\ (d \in known' <=> d \in known)
           Writes(pcs) == pcs \in {"store", "count"}
\* Another process leaves the table as it is.
<1>3. ASSUME NEW a \in Pids, a # c, Only(a), Table, Settled(c),
             Writes(pcNet'[a]) =>
                 (Writes(pcNet[a]) /\ i'[a] = i[a]) \/ i'[a] = total_clients,
             pcNet'[a] \in Net!Appending =>
                 pcNet[a] \in Net!Appending \/ pcNet[c] \notin Net!Appending
      PROVE  Settled(c)'
  <2>1. pcNet'[c] = pcNet[c] /\ i'[c] = i[c] /\ (c \in known' <=> c \in known)
    BY <1>3
  <2>2. ASSUME NEW j \in Net!Entries, Home(c, j) PROVE Home(c, j)'
    <3>1. \A d \in Pids : Writes(pcNet'[d]) => j < i'[d]
      BY <1>2, <1>3, <2>2 DEF Home
    <3> QED
      BY <1>3, <2>1, <2>2, <3>1 DEF Home, Net!Entries
  <2>3. c \in known' => \E j \in Net!Entries : Home(c, j)'
    BY <1>3, <2>1, <2>2 DEF Settled
  <2>4. pcNet'[c] \in Net!Appending => \A d \in Pids \ {c} : pcNet'[d] \notin Net!Appending
    BY <1>3, <2>1 DEF Settled
  <2> QED
    BY <1>3, <2>1, <2>3, <2>4 DEF Settled, Net!Entries, Net!Appending
\* c itself is not appending, before and after.
<1>4. ASSUME Only(c), Table, Settled(c), c \in known' <=> c \in known,
             pcNet[c] \notin Net!Appending, pcNet'[c] \notin Net!Appending,
             pcNet'[c] # "overrun", pcNet'[c] = "limit" => c \notin known,
             pcNet'[c] = "search" =>
                 \A j \in Net!Entries : Home(c, j) => i'[c] <= j
      PROVE  Settled(c)'
  <2>1. ASSUME NEW j \in Net!Entries, Home(c, j) PROVE Home(c, j)'
    <3>1. \A d \in Pids : Writes(pcNet'[d]) => j < i'[d]
      BY <1>2, <1>4, <2>1 DEF Home, Net!Appending
    <3> QED
      BY <1>4, <2>1, <3>1 DEF Home, Net!Entries
  <2>2. c \in known' => \E j \in Net!Entries : Home(c, j)'
    BY <1>4, <2>1 DEF Settled
  <2>3. \A k \in Net!Entries : clients[k] = c => c \in known
    BY <1>4 DEF Settled, Net!Appending
  <2> QED
    BY <1>4, <2>2, <2>3 DEF Settled, Net!Entries, Net!Appending
<1>5. c \notin raced => Settled(c)
  BY DEF NetInv
<1>6. ASSUME NEW j \in Net!Entries, Home(c, j) PROVE j \in Nat /\ j < total_clients
  BY <1>2, <1>6 DEF Home
<1> HIDE DEF Writes
<1>7. \A s \in {"idle", "search", "limit", "serve", "loop", "return", "overrun", "append"} :
          ~Writes(s)
  BY DEF Writes
<1> USE DEF Net!Goto, Net!netHistories
<1>8. ASSUME NEW a \in Pids, NEW what \in {"hello", "broadcast"},
             Net!Bind(a) \/ Net!Close(a) \/ Net!Send(a, what)
      PROVE  Settled(c)'
  <2>1. Table /\ Only(a) /\ i' = i /\ c \notin raced /\ known' = known
    BY <1>2, <1>8 DEF Net!Bind, Net!Close, Net!Send
  <2>2. \/ pcNet' = pcNet
        \/ pcNet[a] = "idle" /\ pcNet' = [pcNet EXCEPT ![a] = "search"] /\ i[a] = 0
    BY <1>1, <1>8 DEF Net!Bind, Net!Close, Net!Send, NetTypes
  <2>3. CASE pcNet' = pcNet
    BY <1>5, <2>1, <2>3 DEF Settled, Home, Net!Entries
  <2>4. CASE pcNet[a] = "idle" /\ pcNet' = [pcNet EXCEPT ![a] = "search"] /\ i[a] = 0
    <3>1. pcNet'[a] = "search"
      BY <1>2, <2>4
    <3>2. CASE a = c
      BY <1>4, <1>5, <1>6, <2>1, <2>4, <3>1, <3>2 DEF Net!Appending
    <3>3. CASE a # c
      BY <1>3, <1>5, <1>7, <2>1, <3>1, <3>3 DEF Net!Appending
    <3> QED
      BY <3>2, <3>3
  <2> QED
    BY <2>2, <2>3, <2>4
<1>9. ASSUME NEW a \in Pids, Net!RegisterNext(a) PROVE Settled(c)'
  <2>1. /\ Table /\ Only(a) /\ c \notin raced /\ known' = known
        /\ pcNet[a] = "search" /\ pcNet'[a] = "search" /\ i'[a] = i[a] + 1
        /\ clients[i[a]] # a
    BY <1>2, <1>9 DEF Net!RegisterNext
  <2>2. \A j \in Net!Entries : Home(a, j) => i'[a] <= j
    BY <1>2, <2>1 DEF Home
  <2>3. CASE a = c
    BY <1>4, <1>5, <2>1, <2>2, <2>3 DEF Net!Appending
  <2>4. CASE a # c
    BY <1>3, <1>5, <1>7, <2>1, <2>4 DEF Net!Appending
  <2> QED
    BY <2>3, <2>4
<1>10. ASSUME NEW a \in Pids, Net!RegisterFound(a) PROVE Settled(c)'
  <2>1. /\ Table /\ Only(a) /\ c \notin raced /\ known' = known \cup {a}
        /\ pcNet[a] = "search" /\ pcNet'[a] = "serve" /\ i[a] < total_clients
        /\ clients[i[a]] = a
    BY <1>2, <1>10 DEF Net!RegisterFound
  <2>2. i[a] \in Net!Entries
    BY <1>1, <1>2, <2>1, NetConstants DEF NetTypes, Net!TypeOK, Net!Entries
  <2>3. a = c => c \in known
    BY <1>5, <2>1, <2>2 DEF Settled
  <2>4. CASE a = c
    BY <1>4, <1>5, <2>1, <2>3, <2>4 DEF Net!Appending
  <2>5. CASE a # c
    BY <1>3, <1>5, <1>7, <2>1, <2>5 DEF Net!Appending
  <2> QED
    BY <2>4, <2>5
<1>11. ASSUME NEW a \in Pids, Net!RegisterNew(a) PROVE Settled(c)'
  <2>1. /\ Table /\ Only(a) /\ c \notin raced /\ known' = known
        /\ pcNet[a] = "search" /\ pcNet'[a] = "limit" /\ i[a] >= total_clients
    BY <1>2, <1>11 DEF Net!RegisterNew
  <2>2. a = c => c \notin known
    BY <1>2, <1>5, <2>1 DEF Settled, Home
  <2>3. CASE a = c
    BY <1>4, <1>5, <2>1, <2>2, <2>3 DEF Net!Appending
  <2>4. CASE a # c
    BY <1>3, <1>5, <1>7, <2>1, <2>4 DEF Net!Appending
  <2> QED
    BY <2>3, <2>4
<1>12. ASSUME NEW a \in Pids, Net!RegisterFull(a) \/ Net!Reply(a) PROVE Settled(c)'
  <2>1. /\ Table /\ Only(a) /\ c \notin raced /\ known' = known
        /\ pcNet[a] \in {"limit", "serve"} /\ pcNet'[a] \in {"serve", "idle"}
    BY <1>2, <1>12 DEF Net!RegisterFull, Net!Reply
  <2>2. CASE a = c
    BY <1>4, <1>5, <2>1, <2>2 DEF Net!Appending
  <2>3. CASE a # c
    BY <1>3, <1>5, <1>7, <2>1, <2>3 DEF Net!Appending
  <2> QED
    BY <2>2, <2>3
<1>13. ASSUME NEW a \in Pids,
              \/ Net!Broadcast(a) \/ Net!BroadcastSend(a) \/ Net!BroadcastFail(a)
              \/ Net!BroadcastEnd(a) \/ Net!Return(a)
       PROVE  Settled(c)'
  <2>1. /\ Table /\ Only(a) /\ c \notin raced /\ known' = known
        /\ pcNet[a] \in {"serve", "loop", "return"}
        /\ pcNet'[a] \in {"idle", "loop", "return"}
    BY <1>2, <1>13 DEF Net!Broadcast, Net!BroadcastSend, Net!BroadcastFail,
       Net!BroadcastEnd, Net!Return
  <2>2. CASE a = c
    BY <1>4, <1>5, <2>1, <2>2 DEF Net!Appending
  <2>3. CASE a # c
    BY <1>3, <1>5, <1>7, <2>1, <2>3 DEF Net!Appending
  <2> QED
    BY <2>2, <2>3
\* Whoever comes past the limit beside another one has raced.
<1>14. ASSUME NEW a \in Pids, Net!RegisterRoom(a) PROVE Settled(c)'
  <2>1. /\ Table /\ Only(a) /\ c \notin raced /\ known' = known
        /\ pcNet[a] = "limit" /\ pcNet'[a] = "append" /\ total_clients < MAX_CLIENTS
    BY <1>2, <1>14 DEF Net!RegisterRoom
  <2>2. /\ pcNet[c] \notin Net!Appending
        /\ a = c => \A d \in Pids : pcNet[d] \notin Net!Appending
    BY <1>14, <2>1 DEF Net!RegisterRoom, Net!Appending
  <2>3. CASE a = c
    <3>1. c \notin known /\ c \notin known' /\ \A k \in Net!Entries : clients[k] # c
      BY <1>5, <2>1, <2>3 DEF Settled
    <3>2. \A d \in Pids \ {c} : pcNet'[d] \notin Net!Appending
      BY <2>1, <2>2, <2>3
    <3> QED
      BY <2>1, <2>3, <3>1, <3>2 DEF Settled, Net!Entries
  <2>4. CASE a # c
    BY <1>3, <1>5, <1>7, <2>1, <2>2, <2>4
  <2> QED
    BY <2>3, <2>4
<1>15. ASSUME NEW a \in Pids, Net!RegisterLoad(a) PROVE Settled(c)'
  <2>1. /\ Table /\ Only(a) /\ c \notin raced /\ known' = known
        /\ pcNet[a] = "append" /\ pcNet'[a] = "store" /\ i'[a] = total_clients
    BY <1>2, <1>15 DEF Net!RegisterLoad
  <2>2. CASE a = c
    <3>1. c \notin known /\ c \notin known' /\ \A k \in Net!Entries : clients[k] # c
      BY <1>5, <2>1, <2>2 DEF Settled, Net!Appending
    <3>2. \A d \in Pids \ {c} : pcNet'[d] \notin Net!Appending
      BY <1>5, <2>1, <2>2 DEF Settled, Net!Appending
    <3> QED
      BY <2>1, <2>2, <3>1, <3>2 DEF Settled, Net!Entries
  <2>3. CASE a # c
    BY <1>3, <1>5, <2>1, <2>3 DEF Net!Appending
  <2> QED
    BY <2>2, <2>3
<1>16. ASSUME NEW a \in Pids, Net!RegisterBehind(a) PROVE Settled(c)'
  <2>1. /\ Table /\ Only(a) /\ c \notin raced /\ known' = known
        /\ pcNet[a] = "append" /\ pcNet'[a] = "overrun" /\ total_clients >= MAX_CLIENTS
    BY <1>2, <1>16 DEF Net!RegisterBehind
  <2>2. a # c
    BY <1>2, <1>5, <2>1, NetConstants DEF Settled
  <2> QED
    BY <1>3, <1>5, <1>7, <2>1, <2>2 DEF Net!Appending
\* The entry that is written is nobody's home.
<1>17. ASSUME NEW a \in Pids, Net!RegisterStore(a) PROVE Settled(c)'
  <2>1. /\ total_clients' = total_clients /\ Only(a) /\ c \notin raced /\ known' = known
        /\ i' = i /\ clients' = [clients EXCEPT ![i[a]] = a]
        /\ pcNet[a] = "store" /\ pcNet'[a] = "count"
    BY <1>2, <1>17 DEF Net!RegisterStore
  <2>2. i[a] \in Net!Entries
    BY <1>1, <1>2, <2>1, NetConstants DEF NetTypes, Net!Entries
  <2>3. clients'[i[a]] = a /\ \A k \in Net!Entries : k # i[a] => clients'[k] = clients[k]
    BY <1>2, <2>1, <2>2
  <2>4. CASE a = c
    <3>1. c \notin known' /\ \A k \in Net!Entries : clients'[k] = c => k = i'[c]
      BY <1>5, <2>1, <2>3, <2>4 DEF Settled, Net!Appending
    <3>2. \A d \in Pids \ {c} : pcNet'[d] \notin Net!Appending
      BY <1>5, <2>1, <2>4 DEF Settled, Net!Appending
    <3> QED
      BY <1>5, <2>1, <2>3, <2>4, <3>1, <3>2 DEF Settled, Net!Entries
  <2>5. CASE a # c
    <3>1. pcNet'[c] = pcNet[c] /\ pcNet[c] \notin Net!Appending
      BY <1>5, <2>1, <2>5 DEF Settled, Net!Appending
    <3>2. ASSUME NEW j \in Net!Entries, Home(c, j) PROVE Home(c, j)'
      <4>1. j # i[a] /\ clients'[j] = c
        BY <1>2, <2>1, <2>3, <3>2 DEF Home
      <4>2. \A k \in Net!Entries : clients'[k] = c => k = j
        BY <2>3, <2>5, <3>2 DEF Home
      <4>3. \A d \in Pids : pcNet'[d] \in {"store", "count"} => j < i'[d]
        BY <2>1, <3>2 DEF Home
      <4> QED
        BY <2>1, <3>1, <3>2, <4>1, <4>2, <4>3 DEF Home, Net!Entries
    <3>3. c \in known' => \E j \in Net!Entries : Home(c, j)'
      BY <1>5, <2>1, <3>2 DEF Settled
    <3>4. c \notin known' => \A k \in Net!Entries : clients'[k] # c
      BY <1>5, <2>1, <2>3, <2>5, <3>1 DEF Settled, Net!Appending
    <3>5. pcNet'[c] # "overrun" /\ (c \in known' => pcNet'[c] # "limit")
      BY <1>5, <2>1, <3>1 DEF Settled
    <3> QED
      BY <3>1, <3>3, <3>4, <3>5 DEF Settled, Net!Entries, Net!Appending
  <2> QED
    BY <2>4, <2>5
<1>18. ASSUME NEW a \in Pids, Net!RegisterCount(a) PROVE Settled(c)'
  <2>1. /\ clients' = clients /\ Only(a) /\ c \notin raced /\ known' = known \cup {a}
        /\ total_clients' = i[a] + 1 /\ pcNet[a] = "count" /\ pcNet'[a] = "serve"
    BY <1>2, <1>18 DEF Net!RegisterCount
  <2>2. i[a] \in Net!Entries
    BY <1>1, <1>2, <2>1, NetConstants DEF NetTypes, Net!Entries
  <2>3. CASE a = c
    <3>1. PICK j \in Net!Entries : j = i[c]
      BY <2>2, <2>3
    <3>2. clients[j] = c /\ \A k \in Net!Entries : clients[k] = c => k = j
      BY <1>5, <2>1, <2>3, <3>1 DEF Settled, Net!Appending
    <3>3. \A d \in Pids : pcNet'[d] \notin {"store", "count"}
      BY <1>5, <2>1, <2>3 DEF Settled, Net!Appending
    <3>4. j < total_clients'
      BY <1>2, <2>1, <2>3, <3>1
    <3>5. Home(c, j)'
      BY <2>1, <2>3, <3>2, <3>3, <3>4 DEF Home, Net!Entries
    <3>6. pcNet'[c] = "serve" /\ c \in known' /\ \E h \in Net!Entries : Home(c, h)'
      BY <2>1, <2>3, <3>5
    <3> QED
      BY <3>6 DEF Settled, Net!Appending, Net!Entries
  <2>4. CASE a # c
    <3>1. pcNet'[c] = pcNet[c] /\ pcNet[c] \notin Net!Appending /\ i'[c] = i[c]
      BY <1>5, <2>1, <2>4 DEF Settled, Net!Appending
    <3>2. ASSUME NEW j \in Net!Entries, Home(c, j) PROVE Home(c, j)'
      <4>1. j < total_clients'
        BY <1>2, <2>1, <3>2 DEF Home
      <4>2. \A d \in Pids : pcNet'[d] \in {"store", "count"} => j < i'[d]
        BY <2>1, <3>2 DEF Home
      <4> QED
        BY <2>1, <3>1, <3>2, <4>1, <4>2 DEF Home, Net!Entries
    <3>3. c \in known' => \E j \in Net!Entries : Home(c, j)'
      BY <1>5, <2>1, <2>4, <3>2 DEF Settled
    <3>4. c \notin known' => \A k \in Net!Entries : clients'[k] # c
      BY <1>5, <2>1, <3>1 DEF Settled, Net!Appending
    <3>5. pcNet'[c] # "overrun" /\ (c \in known' => pcNet'[c] # "limit")
      BY <1>5, <2>1, <2>4, <3>1 DEF Settled
    <3> QED
      BY <3>1, <3>3, <3>4, <3>5 DEF Settled, Net!Entries, Net!Appending
  <2> QED
    BY <2>3, <2>4
<1>19. CASE UNCHANGED varsNet
  BY <1>5, <1>19 DEF varsNet, Settled, Home, Net!Entries
<1> QED
  BY <1>8, <1>9, <1>10, <1>11, <1>12, <1>13, <1>14, <1>15, <1>16, <1>17, <1>18, <1>19
     DEF Net!Next, Net!Undefined, Net!netVars, varsNet

\* The number of clients never falls while nobody has raced.
LEMMA ServedStep == NetInv /\ [Net!Next]_varsNet => Served'
<1> SUFFICES ASSUME NetInv, [Net!Next]_varsNet, raced' = {},
                    NEW c \in Pids, pcNet'[c] \in {"serve", "loop", "return"}
             PROVE  c \in known' \/ total_clients' = MAX_CLIENTS
  BY DEF Served
<1>1. NetTypes /\ NetTypes'
  BY NetTypesStep DEF NetInv
<1>2. /\ pcNet \in [Pids -> Net!NetSteps] /\ i \in [Pids -> 0 .. MAX_CLIENTS]
      /\ total_clients \in 0 .. MAX_CLIENTS
  BY <1>1 DEF NetTypes, Net!TypeOK
<1>3. total_clients <= MAX_CLIENTS /\ total_clients \in Nat
  BY <1>2, NetConstants
<1> USE NetConstants DEF Net!Goto, Net!netHistories
<1>4. ASSUME known' = known, total_clients' = total_clients, raced = {},
             pcNet[c] \in {"serve", "loop", "return"}
      PROVE  c \in known' \/ total_clients' = MAX_CLIENTS
  BY <1>4 DEF NetInv, Served
<1>5. ASSUME NEW a \in Pids, NEW what \in {"hello", "broadcast"},
             \/ Net!Bind(a) \/ Net!Close(a) \/ Net!Send(a, what) \/ Net!RegisterNext(a)
             \/ Net!RegisterNew(a) \/ Net!RegisterRoom(a) \/ Net!RegisterLoad(a)
             \/ Net!RegisterBehind(a) \/ Net!RegisterStore(a)
      PROVE  c \in known' \/ total_clients' = MAX_CLIENTS
  <2>1. known' = known /\ total_clients' = total_clients /\ raced \subseteq raced'
    BY <1>5 DEF Net!Bind, Net!Close, Net!Send, Net!RegisterNext, Net!RegisterNew,
       Net!RegisterRoom, Net!RegisterLoad, Net!RegisterBehind, Net!RegisterStore
  <2>2. pcNet'[c] = pcNet[c] \/ pcNet'[c] \notin {"serve", "loop", "return"}
    BY <1>2, <1>5 DEF Net!Bind, Net!Close, Net!Send, Net!RegisterNext, Net!RegisterNew,
       Net!RegisterRoom, Net!RegisterLoad, Net!RegisterBehind, Net!RegisterStore
  <2> QED
    BY <1>4, <2>1, <2>2
<1>6. ASSUME NEW a \in Pids,
             \/ Net!Reply(a) \/ Net!Broadcast(a) \/ Net!BroadcastSend(a)
             \/ Net!BroadcastFail(a) \/ Net!BroadcastEnd(a) \/ Net!Return(a)
      PROVE  c \in known' \/ total_clients' = MAX_CLIENTS
  <2>1. /\ known' = known /\ total_clients' = total_clients /\ raced = {}
        /\ pcNet[c] \in {"serve", "loop", "return"}
    BY <1>2, <1>6 DEF Net!Reply, Net!Broadcast, Net!BroadcastSend, Net!BroadcastFail,
       Net!BroadcastEnd, Net!Return
  <2> QED
    BY <1>4, <2>1
<1>7. ASSUME NEW a \in Pids, Net!RegisterFound(a) PROVE c \in known' \/ total_clients' = MAX_CLIENTS
  <2>1. /\ known' = known \cup {a} /\ total_clients' = total_clients /\ raced = {}
        /\ c # a => pcNet[c] \in {"serve", "loop", "return"}
    BY <1>2, <1>7 DEF Net!RegisterFound
  <2> QED
    BY <2>1 DEF NetInv, Served
<1>8. ASSUME NEW a \in Pids, Net!RegisterFull(a) PROVE c \in known' \/ total_clients' = MAX_CLIENTS
  BY <1>3, <1>8 DEF Net!RegisterFull
<1>9. ASSUME NEW a \in Pids, Net!RegisterCount(a) PROVE c \in known' \/ total_clients' = MAX_CLIENTS
  <2>1. /\ known' = known \cup {a} /\ raced = {} /\ pcNet[a] = "count"
        /\ c # a => pcNet[c] \in {"serve", "loop", "return"}
    BY <1>2, <1>9 DEF Net!RegisterCount
  <2>2. i[a] = total_clients /\ i[a] < MAX_CLIENTS
    BY <1>1, <2>1 DEF NetInv, NetTypes, Settled
  <2> QED
    BY <1>3, <2>1, <2>2 DEF NetInv, Served
<1>10. CASE UNCHANGED varsNet
  BY <1>10 DEF varsNet, NetInv, Served
<1> QED
  BY <1>5, <1>6, <1>7, <1>8, <1>9, <1>10 DEF Net!Next, Net!Undefined, Net!netVars, varsNet

\* What a broadcast has sent, and to whom, when the table changes behind it.
LEMMA ReachingKept ==
    ASSUME NetInv, [Net!Next]_varsNet, NEW c \in Pids, Reaching(c),
           i'[c] = i[c], owed'[c] = owed[c], sent'[c] = sent[c], excused'[c] = excused[c]
    PROVE  Reaching(c)'
<1>1. /\ NetTypes /\ i[c] \in Nat /\ i[c] <= MAX_CLIENTS
      /\ Net!ToSet(sent[c]) \subseteq Pids /\ owed[c] \subseteq Pids
      /\ Net!Entries \subseteq Nat /\ 0 .. i[c] - 1 \subseteq Net!Entries
      /\ Net!ToSet(sent'[c]) = Net!ToSet(sent[c])
  BY NetConstants DEF NetInv, NetTypes, Net!TypeOK, Net!ToSet, Net!Entries
<1> USE DEF Net!Goto, Net!netHistories
<1>2. known \subseteq known' /\ raced \subseteq raced'
  BY DEF Net!Next, Net!Bind, Net!Close, Net!Send, Net!RegisterNext, Net!RegisterFound,
     Net!RegisterNew, Net!RegisterFull, Net!RegisterRoom, Net!RegisterLoad,
     Net!RegisterBehind, Net!RegisterStore, Net!RegisterCount, Net!Reply, Net!Broadcast,
     Net!BroadcastSend, Net!BroadcastFail, Net!BroadcastEnd, Net!Return, Net!Undefined,
     Net!netVars, varsNet
<1>3. \/ clients' = clients
      \/ \E a \in Pids : pcNet[a] = "store" /\ clients' = [clients EXCEPT ![i[a]] = a]
  BY DEF Net!Next, Net!Bind, Net!Close, Net!Send, Net!RegisterNext, Net!RegisterFound,
     Net!RegisterNew, Net!RegisterFull, Net!RegisterRoom, Net!RegisterLoad,
     Net!RegisterBehind, Net!RegisterStore, Net!RegisterCount, Net!Reply, Net!Broadcast,
     Net!BroadcastSend, Net!BroadcastFail, Net!BroadcastEnd, Net!Return, Net!Undefined,
     Net!netVars, varsNet
<1>4. CASE clients' = clients
  BY <1>1, <1>2, <1>4 DEF Reaching
<1>5. ASSUME NEW a \in Pids, pcNet[a] = "store", clients' = [clients EXCEPT ![i[a]] = a]
      PROVE  Reaching(c)'
  <2>1. i[a] \in Net!Entries
    BY <1>1, <1>5, NetConstants DEF NetTypes, Net!TypeOK, Net!Entries
  <2>2. clients'[i[a]] = a /\ \A k \in Net!Entries : k # i[a] => clients'[k] = clients[k]
    BY <1>1, <1>5, <2>1 DEF NetTypes, Net!TypeOK
  <2>3. a \notin raced => a \notin known
    BY <1>5 DEF NetInv, Settled, Net!Appending
  <2>4. \A k \in 0 .. i'[c] - 1 : clients'[k] \in owed'[c] \ raced' =>
            clients'[k] \in Net!ToSet(sent'[c]) \cup excused'[c]
    BY <1>1, <1>2, <2>2, <2>3 DEF Reaching
  <2>5. ASSUME NEW d \in Net!ToSet(sent'[c]) \ raced'
        PROVE  d \in known' /\ \E k \in 0 .. i'[c] - 1 : clients'[k] = d
    <3>1. d \in Pids \ raced /\ d \in known
      BY <1>1, <1>2, <2>5 DEF Reaching
    <3>2. PICK k \in 0 .. i[c] - 1 : clients[k] = d
      BY <1>1, <1>2, <2>5 DEF Reaching
    <3>3. PICK j \in Net!Entries : Home(d, j)
      BY <3>1 DEF NetInv, Settled
    <3>4. k = j
      BY <1>1, <3>2, <3>3 DEF Home
    <3>5. k # i[a]
      BY <1>1, <1>5, <3>3, <3>4 DEF Home
    <3>6. clients'[k] = d
      BY <1>1, <2>2, <3>2, <3>5
    <3> QED
      BY <1>2, <3>1, <3>2, <3>6
  <2> QED
    BY <1>1, <1>2, <2>4, <2>5 DEF Reaching
<1> QED
  BY <1>3, <1>4, <1>5

\* The messages that a broadcast has sent, one more sent.
LEMMA SentOneMore ==
    ASSUME NEW S, NEW s \in Seq(S), NEW e \in S
    PROVE  /\ Net!ToSet(Append(s, e)) = Net!ToSet(s) \cup {e}
           /\ DOMAIN Append(s, e) = DOMAIN s \cup {Len(s) + 1}
           /\ Append(s, e)[Len(s) + 1] = e
           /\ \A j \in DOMAIN s : Append(s, e)[j] = s[j]
<1> DEFINE t == Append(s, e)
<1>1. /\ t \in Seq(S) /\ Len(t) = Len(s) + 1 /\ t[Len(s) + 1] = e
      /\ \A j \in 1 .. Len(s) : t[j] = s[j]
      /\ Len(s) \in Nat /\ DOMAIN s = 1 .. Len(s)
  OBVIOUS
<1> HIDE DEF t
<1>2. DOMAIN t = 1 .. Len(s) + 1 /\ 1 .. Len(s) + 1 = (1 .. Len(s)) \cup {Len(s) + 1}
  BY <1>1
<1>3. Net!ToSet(t) = Net!ToSet(s) \cup {e}
  BY <1>1, <1>2 DEF Net!ToSet
<1> QED
  BY <1>1, <1>2, <1>3 DEF t

\* A broadcast that sends to the next entry.
LEMMA ReachingSend ==
    ASSUME NetInv, NEW c \in Pids, Net!BroadcastSend(c)
    PROVE  Reaching(c)'
<1>1. /\ NetTypes /\ Reaching(c) /\ pcNet[c] = "loop"
      /\ i[c] \in Nat /\ i[c] < total_clients /\ i[c] \in Net!Entries
      /\ clients[i[c]] \in Pids
  BY NetConstants DEF Net!BroadcastSend, NetInv, NetTypes, Net!TypeOK, Net!Entries
<1> DEFINE e == clients[i[c]]
           s == sent[c]
<1>2. /\ UNCHANGED <<clients, total_clients, pcNet, known, raced, owed, excused>>
      /\ i'[c] = i[c] + 1 /\ sent'[c] = Append(s, e)
  BY <1>1 DEF Net!BroadcastSend, NetTypes, Net!TypeOK
<1>3. 0 .. i'[c] - 1 = (0 .. i[c] - 1) \cup {i[c]}
  BY <1>1, <1>2
<1>4. /\ Net!ToSet(sent'[c]) = Net!ToSet(s) \cup {e}
      /\ DOMAIN sent'[c] = DOMAIN s \cup {Len(s) + 1}
      /\ sent'[c][Len(s) + 1] = e
      /\ \A j \in DOMAIN s : sent'[c][j] = s[j]
  <2>1. s \in Seq(Pids) /\ e \in Pids
    BY <1>1 DEF NetTypes
  <2> QED
    BY <1>2, <2>1, SentOneMore
\* An entry of a client that has not raced is its own.
<1>5. ASSUME e \notin raced
      PROVE  e \in known /\ \A k \in Net!Entries : clients[k] = e => k = i[c]
  <2>1. Settled(e)
    BY <1>1, <1>5 DEF NetInv
  <2>2. e \in known
    <3>1. ASSUME e \notin known PROVE FALSE
      <4>1. pcNet[e] = "count" /\ i[c] = i[e]
        BY <1>1, <2>1, <3>1 DEF Settled
      <4>2. i[e] = total_clients
        BY <2>1, <4>1 DEF Settled
      <4> QED
        BY <1>1, <4>1, <4>2
    <3> QED
      BY <3>1
  <2> QED
    BY <1>1, <2>1, <2>2 DEF Settled, Home
<1>6. e \notin raced => e \notin Net!ToSet(s)
  <2>1. ASSUME e \notin raced, e \in Net!ToSet(s) PROVE FALSE
    <3>1. PICK k \in 0 .. i[c] - 1 : clients[k] = e
      BY <1>1, <2>1 DEF Reaching
    <3>2. k \in Net!Entries /\ k # i[c]
      BY <1>1, <3>1, NetConstants DEF Net!Entries
    <3> QED
      BY <1>5, <2>1, <3>1, <3>2
  <2> QED
    BY <2>1
<1> HIDE DEF e, s
<1>7. \A k \in 0 .. i'[c] - 1 : clients'[k] \in owed'[c] \ raced' =>
          clients'[k] \in Net!ToSet(sent'[c]) \cup excused'[c]
  BY <1>1, <1>2, <1>3, <1>4 DEF Reaching, e, s
<1>8. \A d \in Net!ToSet(sent'[c]) \ raced' :
          d \in known' /\ \E k \in 0 .. i'[c] - 1 : clients'[k] = d
  <2>1. e \notin raced => e \in known /\ \E k \in 0 .. i'[c] - 1 : clients'[k] = e
    BY <1>2, <1>3, <1>5 DEF e
  <2>2. \A d \in Net!ToSet(s) \ raced :
            d \in known /\ \E k \in 0 .. i'[c] - 1 : clients'[k] = d
    BY <1>1, <1>2, <1>3 DEF Reaching, s
  <2> QED
    BY <1>2, <1>4, <2>1, <2>2
<1>9. ASSUME NEW j \in DOMAIN sent'[c], NEW k \in DOMAIN sent'[c],
             sent'[c][j] = sent'[c][k], sent'[c][j] \notin raced'
      PROVE  j = k
  <2>1. \A m \in DOMAIN s : s[m] \in Net!ToSet(s)
    BY DEF Net!ToSet
  <2>2. \A m, n \in DOMAIN s : s[m] = s[n] /\ s[m] \notin raced => m = n
    BY <1>1 DEF Reaching, s
  <2>3. CASE j \in DOMAIN s /\ k \in DOMAIN s
    BY <1>2, <1>4, <1>9, <2>2, <2>3
  <2>4. CASE j = Len(s) + 1 /\ k \in DOMAIN s
    BY <1>2, <1>4, <1>6, <1>9, <2>1, <2>4
  <2>5. CASE j \in DOMAIN s /\ k = Len(s) + 1
    BY <1>2, <1>4, <1>6, <1>9, <2>1, <2>5
  <2> QED
    BY <1>4, <2>3, <2>4, <2>5
<1> QED
  BY <1>1, <1>2, <1>7, <1>8, <1>9 DEF Reaching

\* One that cannot send to it.
LEMMA ReachingFail ==
    ASSUME NetInv, NEW c \in Pids, Net!BroadcastFail(c)
    PROVE  Reaching(c)'
<1>1. /\ NetTypes /\ Reaching(c) /\ pcNet[c] = "loop" /\ i[c] \in Nat
  BY NetConstants DEF Net!BroadcastFail, NetInv, NetTypes, Net!TypeOK
<1>2. /\ UNCHANGED <<clients, total_clients, pcNet, known, raced, owed, sent>>
      /\ i'[c] = i[c] + 1 /\ excused'[c] = excused[c] \cup {clients[i[c]]}
  BY <1>1 DEF Net!BroadcastFail, NetTypes, Net!TypeOK
<1>3. 0 .. i'[c] - 1 = (0 .. i[c] - 1) \cup {i[c]}
  BY <1>1, <1>2
<1>4. \A d \in Net!ToSet(sent'[c]) \ raced' :
          d \in known' /\ \E k \in 0 .. i'[c] - 1 : clients'[k] = d
  BY <1>1, <1>2, <1>3 DEF Reaching
<1>5. \A k \in 0 .. i'[c] - 1 : clients'[k] \in owed'[c] \ raced' =>
          clients'[k] \in Net!ToSet(sent'[c]) \cup excused'[c]
  BY <1>1, <1>2, <1>3 DEF Reaching
<1> QED
  BY <1>1, <1>2, <1>4, <1>5 DEF Reaching

\* One that is done has come to the entry of everyone who has not raced.
LEMMA ReachingEnd ==
    ASSUME NetInv, NEW c \in Pids, Net!BroadcastEnd(c)
    PROVE  owed[c] \ raced \subseteq Net!ToSet(sent[c]) \cup excused[c]
<1>1. /\ Reaching(c) /\ i[c] \in Nat /\ total_clients \in Nat /\ i[c] >= total_clients
      /\ owed[c] \subseteq Pids /\ Net!Entries \subseteq Nat
  BY NetConstants DEF Net!BroadcastEnd, Net!Goto, NetInv, NetTypes, Net!TypeOK, Net!Entries
<1>2. SUFFICES ASSUME NEW d \in owed[c] \ raced
               PROVE  d \in Net!ToSet(sent[c]) \cup excused[c]
  OBVIOUS
<1>3. d \in known /\ Settled(d)
  BY <1>1 DEF Reaching, NetInv
<1>4. PICK j \in Net!Entries : Home(d, j)
  BY <1>3 DEF Settled
<1>5. j \in 0 .. i[c] - 1 /\ clients[j] = d
  BY <1>1, <1>4 DEF Home
<1> QED
  BY <1>1, <1>5 DEF Reaching

\* Every step keeps the invariant.
LEMMA NetStep == NetInv /\ [Net!Next]_varsNet => NetInv'
<1> SUFFICES ASSUME NetInv, [Net!Next]_varsNet PROVE NetInv'
  OBVIOUS
<1>1. NetTypes /\ NetTypes'
  BY NetTypesStep DEF NetInv
<1>2. /\ pcNet \in [Pids -> Net!NetSteps] /\ i \in [Pids -> Nat]
      /\ owed \in [Pids -> SUBSET Pids] /\ excused \in [Pids -> SUBSET Pids]
      /\ sent \in [Pids -> Seq(Pids)]
  BY <1>1, NetConstants DEF NetTypes, Net!TypeOK
<1> USE DEF Net!Goto, Net!netHistories
<1> DEFINE Kept(c) ==
        /\ i'[c] = i[c] /\ owed'[c] = owed[c] /\ sent'[c] = sent[c]
        /\ excused'[c] = excused[c]
           Good(c) ==
        /\ pcNet[c] \in {"loop", "return"} => Reaching(c)
        /\ pcNet[c] = "return" =>
               owed[c] \ raced \subseteq Net!ToSet(sent[c]) \cup excused[c]
<1>3. raced \subseteq raced'
  BY DEF Net!Next, Net!Bind, Net!Close, Net!Send, Net!RegisterNext, Net!RegisterFound,
     Net!RegisterNew, Net!RegisterFull, Net!RegisterRoom, Net!RegisterLoad,
     Net!RegisterBehind, Net!RegisterStore, Net!RegisterCount, Net!Reply, Net!Broadcast,
     Net!BroadcastSend, Net!BroadcastFail, Net!BroadcastEnd, Net!Return, Net!Undefined,
     Net!netVars, varsNet
\* Whoever is not in its broadcast, and whoever stays where it is.
<1>4. ASSUME NEW c \in Pids, pcNet'[c] \notin {"loop", "return"} PROVE Good(c)'
  BY <1>4
<1>5. ASSUME NEW c \in Pids, Kept(c), pcNet'[c] = pcNet[c] PROVE Good(c)'
  <2>1. Good(c)
    BY DEF NetInv, Net!BroadcastReachesAll
  <2>2. pcNet'[c] \in {"loop", "return"} => Reaching(c)'
    BY <1>5, <2>1, ReachingKept
  <2> QED
    BY <1>3, <1>5, <2>1, <2>2
<1>6. ASSUME NEW c \in Pids PROVE Good(c)'
  <2>1. ASSUME NEW a \in Pids, NEW what \in {"hello", "broadcast"},
               \/ Net!Bind(a) \/ Net!Close(a) \/ Net!Send(a, what) \/ Net!RegisterNext(a)
               \/ Net!RegisterFound(a) \/ Net!RegisterNew(a) \/ Net!RegisterFull(a)
               \/ Net!RegisterRoom(a) \/ Net!RegisterLoad(a) \/ Net!RegisterBehind(a)
               \/ Net!RegisterStore(a) \/ Net!RegisterCount(a) \/ Net!Reply(a)
        PROVE  Good(c)'
    <3>1. \/ pcNet'[c] \notin {"loop", "return"}
          \/ Kept(c) /\ pcNet'[c] = pcNet[c]
      BY <1>2, <2>1 DEF Net!Bind, Net!Close, Net!Send, Net!RegisterNext, Net!RegisterFound,
         Net!RegisterNew, Net!RegisterFull, Net!RegisterRoom, Net!RegisterLoad,
         Net!RegisterBehind, Net!RegisterStore, Net!RegisterCount, Net!Reply
    <3> QED
      BY <1>4, <1>5, <3>1
  <2>2. ASSUME NEW a \in Pids, a # c,
               \/ Net!Broadcast(a) \/ Net!BroadcastSend(a) \/ Net!BroadcastFail(a)
               \/ Net!BroadcastEnd(a) \/ Net!Return(a)
        PROVE  Good(c)'
    <3>1. Kept(c) /\ pcNet'[c] = pcNet[c]
      BY <1>2, <2>2 DEF Net!Broadcast, Net!BroadcastSend, Net!BroadcastFail,
         Net!BroadcastEnd, Net!Return
    <3> QED
      BY <1>5, <3>1
  <2>3. ASSUME Net!Broadcast(c) PROVE Good(c)'
    <3>1. /\ pcNet'[c] = "loop" /\ i'[c] = 0 /\ owed'[c] = known /\ known' = known
          /\ sent'[c] = <<>>
      BY <1>2, <2>3 DEF Net!Broadcast
    <3>2. Net!ToSet(sent'[c]) = {} /\ DOMAIN sent'[c] = {} /\ 0 .. i'[c] - 1 = {}
      BY <3>1 DEF Net!ToSet
    <3>3. Reaching(c)'
      BY <3>1, <3>2 DEF Reaching
    <3> QED
      BY <3>1, <3>3
  <2>4. ASSUME Net!BroadcastSend(c) PROVE Good(c)'
    <3>1. pcNet'[c] = "loop"
      BY <2>4 DEF Net!BroadcastSend
    <3> QED
      BY <2>4, <3>1, ReachingSend
  <2>5. ASSUME Net!BroadcastFail(c) PROVE Good(c)'
    <3>1. pcNet'[c] = "loop"
      BY <2>5 DEF Net!BroadcastFail
    <3> QED
      BY <2>5, <3>1, ReachingFail
  <2>6. ASSUME Net!BroadcastEnd(c) PROVE Good(c)'
    <3>1. Kept(c) /\ raced' = raced /\ Reaching(c)
      BY <2>6 DEF Net!BroadcastEnd, NetInv
    <3>2. Reaching(c)'
      BY <3>1, ReachingKept
    <3>3. owed[c] \ raced \subseteq Net!ToSet(sent[c]) \cup excused[c]
      BY <2>6, ReachingEnd
    <3> QED
      BY <3>1, <3>2, <3>3
  <2>7. ASSUME Net!Return(c) PROVE Good(c)'
    <3>1. pcNet'[c] = "idle"
      BY <1>2, <2>7 DEF Net!Return
    <3> QED
      BY <1>4, <3>1
  <2>8. CASE UNCHANGED varsNet
    BY <1>5, <2>8 DEF varsNet
  <2> QED
    BY <2>1, <2>2, <2>3, <2>4, <2>5, <2>6, <2>7, <2>8
       DEF Net!Next, Net!Undefined, Net!netVars, varsNet
<1>7. Net!BroadcastReachesAll'
  <2>1. \A c \in Pids : pcNet'[c] = "return" =>
            \A j, k \in DOMAIN sent'[c] :
                sent'[c][j] = sent'[c][k] /\ sent'[c][j] \notin raced' => j = k
    BY <1>6 DEF Reaching
  <2> QED
    BY <1>6, <2>1 DEF Net!BroadcastReachesAll
<1>8. \A c \in Pids \ raced' : Settled(c)'
  BY SettledStep
<1>9. Served'
  BY ServedStep
<1>10. \A c \in Pids : pcNet'[c] \in {"loop", "return"} => Reaching(c)'
  BY <1>6
<1> QED
  BY <1>1, <1>7, <1>8, <1>9, <1>10 DEF NetInv

\* The entries of the clients that have not raced, seen from outside.
LEMMA TableSound == NetInv => Net!TableIsSound
<1> SUFFICES ASSUME NetInv PROVE Net!TableIsSound
  OBVIOUS
<1>1. total_clients \in 0 .. MAX_CLIENTS /\ known \subseteq Pids
  BY DEF NetInv, NetTypes, Net!TypeOK
<1>2. ASSUME NEW c \in known \ raced PROVE \E k \in Net!Entries : Net!At(c) = {k}
  <2>1. PICK k \in Net!Entries : Home(c, k)
    BY <1>1, <1>2 DEF NetInv, Settled
  <2>2. 0 .. total_clients - 1 \subseteq Net!Entries /\ k \in 0 .. total_clients - 1
    BY <1>1, <2>1, NetConstants DEF Home, Net!Entries
  <2>3. Net!At(c) = {k}
    BY <2>1, <2>2 DEF Home, Net!At
  <2> QED
    BY <2>3
<1>3. \A c \in Pids \ raced : pcNet[c] # "overrun"
  BY DEF NetInv, Settled
<1> QED
  BY <1>2, <1>3 DEF NetInv, Served, Net!TableIsSound

(***************************************************************************)
(* Lesson 25c.  A program that has resolved the group holds the number of  *)
(* the family that is registered, until the module is unloaded.            *)
(***************************************************************************)
GroupInv ==
    /\ Group!TypeOK
    /\ Group!ListenersAreMembers
    /\ family = "out" <=> events = NoGroup
    /\ \A p \in Listeners :
        /\ at[p] \in {"join", "joined", "listen"} => group_id[p] \in GroupIds
        /\ current[p] => /\ events # NoGroup /\ group_id[p] = events
                         /\ at[p] \in {"join", "joined", "listen"}

\* The family is not registered and no program runs.
LEMMA GroupInit == Group!Init => GroupInv
<1> SUFFICES ASSUME Group!Init PROVE GroupInv
  OBVIOUS
<1>1. NoGroup \notin GroupIds /\ SockBuf \in Nat
  BY ServersAssumption DEF Group!GroupAssumption
<1>2. queued \in [Listeners -> 0 .. SockBuf] /\ \A p \in Listeners : ~(queued[p] > 0)
  BY <1>1 DEF Group!Init
<1>3. current \in [Listeners -> BOOLEAN] /\ \A p \in Listeners : current[p] = FALSE
  BY DEF Group!Init
<1>4. \A p \in Listeners : at[p] = "out" /\ \A g \in GroupIds : p \notin members[g]
  BY DEF Group!Init
<1>5. Group!TypeOK
  BY <1>2, <1>3 DEF Group!Init, Group!TypeOK
<1>6. Group!ListenersAreMembers
  BY <1>2, <1>3, <1>4 DEF Group!ListenersAreMembers
<1> QED
  BY <1>3, <1>4, <1>5, <1>6 DEF GroupInv, Group!Init

\* Unregistering the family takes everybody out of the group and makes every
\* number that a program holds a number of the past.
LEMMA GroupStep == GroupInv /\ [Group!Next]_varsM => GroupInv'
<1> SUFFICES ASSUME GroupInv, [Group!Next]_varsM PROVE GroupInv'
  OBVIOUS
<1>1. NoGroup \notin GroupIds /\ SockBuf \in Nat
  BY ServersAssumption DEF Group!GroupAssumption
<1> USE DEF GroupInv, Group!TypeOK, Group!ListenersAreMembers, Group!Step
<1>2. CASE Group!RegisterFamily
  BY <1>1, <1>2 DEF Group!RegisterFamily
<1>3. CASE Group!SendMulticast
  BY <1>1, <1>3 DEF Group!SendMulticast
<1>4. CASE Group!UnregisterFamily
  BY <1>1, <1>4 DEF Group!UnregisterFamily
<1>5. ASSUME NEW p \in Listeners, Group!ConnectSocket(p) PROVE GroupInv'
  BY <1>1, <1>5 DEF Group!ConnectSocket
<1>6. ASSUME NEW p \in Listeners, Group!ResolveFamily(p) PROVE GroupInv'
  BY <1>1, <1>6 DEF Group!ResolveFamily
<1>7. ASSUME NEW p \in Listeners, Group!ResolveGroup(p) PROVE GroupInv'
  BY <1>1, <1>7 DEF Group!ResolveGroup
<1>8. ASSUME NEW p \in Listeners, Group!NotFound(p) PROVE GroupInv'
  BY <1>1, <1>8 DEF Group!NotFound
<1>9. ASSUME NEW p \in Listeners, Group!AddMembership(p) PROVE GroupInv'
  BY <1>1, <1>9 DEF Group!AddMembership
<1>10. ASSUME NEW p \in Listeners, Group!SetCallback(p) PROVE GroupInv'
  BY <1>1, <1>10 DEF Group!SetCallback
<1>11. ASSUME NEW p \in Listeners, Group!ReceiveMessage(p) PROVE GroupInv'
  BY <1>1, <1>11 DEF Group!ReceiveMessage
<1>12. ASSUME NEW p \in Listeners, Group!KillProgram(p) PROVE GroupInv'
  BY <1>1, <1>12 DEF Group!KillProgram
<1>13. CASE UNCHANGED varsM
  BY <1>1, <1>13 DEF varsM
<1> QED
  BY <1>2, <1>3, <1>4, <1>5, <1>6, <1>7, <1>8, <1>9, <1>10, <1>11, <1>12,
     <1>13 DEF Group!Next

(***************************************************************************)
(* The composition                                                         *)
(***************************************************************************)
allVars == <<framework, vars, varsE, varsG, varsNet, varsM>>

\* A step of one server is a step or a stutter of every other: only one of the
\* frameworks is loaded.
LEMMA EachItsOwn ==
    [CallbackNext]_allVars =>
        /\ [Next]_vars
        /\ [Slot!Next]_varsE
        /\ [Chain!Next]_varsG
        /\ [Net!Next]_varsNet
        /\ [Group!Next]_varsM
  BY DEF CallbackNext, allVars

\* Each server keeps what it keeps by itself.
LEMMA ServerInvariants ==
    CallbackSpec => [](SlotInv /\ ListInv /\ ChainInv /\ NetInv /\ GroupInv)
<1> DEFINE Inv == SlotInv /\ ListInv /\ ChainInv /\ NetInv /\ GroupInv
<1>1. CallbackInit => Inv
  BY SlotInit, ListInit, ChainInit, NetInit, GroupInit DEF CallbackInit
<1>2. Inv /\ [CallbackNext]_allVars => Inv'
  BY EachItsOwn, SlotStep, ListStep, ChainStep, NetStep, GroupStep
<1>3. CallbackSpec => CallbackInit /\ [][CallbackNext]_allVars
  BY DEF CallbackSpec, allVars
<1> HIDE DEF Inv
<1>4. CallbackSpec => []Inv
  BY <1>1, <1>2, <1>3, PTL
<1> QED
  BY <1>4 DEF Inv

\* Every server keeps its types, however first messages to the netlink server
\* overlap; the mutex of lesson 27f is held by the notifier that is in its loop.
THEOREM CallbackTypes == CallbackSpec => []CallbackTypeOK
<1>1. SlotInv /\ ListInv /\ ChainInv /\ NetInv /\ GroupInv => CallbackTypeOK
  BY DEF SlotInv, ListInv, ChainInv, NetInv, NetTypes, GroupInv, CallbackTypeOK
<1> QED
  BY <1>1, ServerInvariants, PTL

\* notify_event stands on a node of the list and calls a module that is loaded
\* (Multiple_Cb_Registration_Module-A.c:49-66 against :77-86), for any number
\* of modules and of threads that notify.
THEOREM CallbacksAreLoaded == CallbackSpec => []CursorIsAlive
<1>1. ListInv => CursorIsAlive
  <2> SUFFICES ASSUME ListInv, NEW n \in Notifiers, pc[n] \in {"call", "next"},
                      cursor[n] # End
               PROVE  Contains(callback_list, cursor[n]) /\ cursor[n] \in loaded
    BY DEF CursorIsAlive
  <2>1. called[n] \in Seq(Clients) /\ callback_list \in Seq(Clients) /\ Progress(n)
    BY DEF ListInv, TypeOK
  <2>2. Len(called[n]) \in Nat /\ Len(callback_list) \in Nat
    BY <2>1
  <2>3. \E k \in 1 .. Len(callback_list) : cursor[n] = callback_list[k]
    <3>1. CASE pc[n] = "call"
      <4>1. Len(called[n]) + 1 \in 1 .. Len(callback_list)
            /\ cursor[n] = callback_list[Len(called[n]) + 1]
        BY <2>1, <2>2, <3>1 DEF Progress
      <4> QED
        BY <4>1
    <3>2. CASE pc[n] = "next"
      <4>1. Len(called[n]) \in 1 .. Len(callback_list)
            /\ cursor[n] = callback_list[Len(called[n])]
        BY <2>1, <2>2, <3>2 DEF Progress
      <4> QED
        BY <4>1
    <3> QED
      BY <3>1, <3>2
  <2>4. Contains(callback_list, cursor[n]) /\ cursor[n] \in Clients
    BY <2>1, <2>3 DEF Contains
  <2> QED
    BY <2>4 DEF ListInv, InList
<1> QED
  BY <1>1, ServerInvariants, PTL

\* A notification calls every registered client, once and in the order of the
\* list (Multiple_Cb_Registration_Module-A.c:77-86).
THEOREM NotificationsReachAll == CallbackSpec => []NotifyReachesAll
<1>1. ListInv => NotifyReachesAll
  <2> SUFFICES ASSUME ListInv, NEW n \in Notifiers, pc[n] = "call", cursor[n] = End
               PROVE  called[n] = callback_list
    BY DEF NotifyReachesAll
  <2>1. called[n] \in Seq(Clients) /\ callback_list \in Seq(Clients) /\ Progress(n)
    BY DEF ListInv, TypeOK
  <2>2. Len(called[n]) \in Nat /\ Len(callback_list) \in Nat
    BY <2>1
  <2>3. Len(called[n]) = Len(callback_list)
    <3>1. ASSUME Len(called[n]) # Len(callback_list) PROVE FALSE
      <4>1. Len(called[n]) + 1 \in 1 .. Len(callback_list)
            /\ cursor[n] = callback_list[Len(called[n]) + 1]
        BY <2>1, <2>2, <3>1 DEF Progress
      <4>2. cursor[n] \in Clients
        BY <2>1, <4>1
      <4> QED
        BY <4>2, CallbackAssumption
    <3> QED
      BY <3>1
  <2>4. \A j \in 1 .. Len(called[n]) : called[n][j] = callback_list[j]
    BY <2>1 DEF Progress
  <2> QED
    BY <2>1, <2>3, <2>4, SeqEqual
<1> QED
  BY <1>1, ServerInvariants, PTL

\* The slot never holds a module that is gone
\* (Callback_Registration_Module-B.c:30-33); a client whose first message was
\* not handled beside another one is in the table of netlink clients once and
\* for good, whoever is added after it, and does not write behind the table
\* (netlink_kernel_broadcast.c:18-37); and who waits for multicasts is in the
\* group of the registered family (netlink_user_multicast_libnl.c:96-170).
THEOREM WhatIsRegisteredMayBeCalled == CallbackSpec => []RegistersAreSound
<1>1. SlotInv => Slot!SlotIsLoaded
  BY DEF SlotInv, Slot!TypeOK, Slot!SlotIsLoaded
<1>2. NetInv => Net!TableIsSound
  BY TableSound
<1>3. GroupInv => Group!ListenersAreMembers
  BY DEF GroupInv
<1>4. SlotInv /\ NetInv /\ GroupInv => RegistersAreSound
  BY <1>1, <1>2, <1>3 DEF RegistersAreSound
<1> QED
  BY <1>4, ServerInvariants, PTL

\* An event of the chain is called in the order of the priorities, at every
\* registered block and at none whose module is gone.
LEMMA ChainCalls == ChainInv => Chain!CallsByPriority
<1> SUFFICES ASSUME ChainInv, NEW b \in Blocks, pcG[b] = "call"
             PROVE  /\ \A c \in Chain!ToSet(heard[b]) \cup ({nb[b]} \ {LastBlock}) :
                           pcG[c] \notin {"out", "register", "unload"}
                    /\ \A j, k \in DOMAIN heard[b] :
                           j < k => BlockPriority[heard[b][j]] >= BlockPriority[heard[b][k]]
                    /\ nb[b] = LastBlock =>
                        /\ Len(heard[b]) = Len(my_chain)
                        /\ \A c \in Blocks :
                            pcG[c] \in {"send", "call", "in"} => Chain!Contains(heard[b], c)
  BY Zenon DEF Chain!CallsByPriority, BlockPriority
<1>1. heard[b] \in Seq(Blocks) /\ my_chain \in Seq(Blocks) /\ Reached(b)
  BY DEF ChainInv, Chain!TypeOK
<1>2. /\ Len(heard[b]) \in Nat /\ Len(my_chain) \in Nat /\ DOMAIN heard[b] = 1 .. Len(heard[b])
      /\ Len(heard[b]) <= Len(my_chain)
      /\ \A j \in 1 .. Len(heard[b]) : heard[b][j] = my_chain[j]
      /\ nb[b] = IF Len(heard[b]) = Len(my_chain) THEN LastBlock
                 ELSE my_chain[Len(heard[b]) + 1]
  BY <1>1 DEF Reached
<1>3. \A c \in Blocks : Contains(my_chain, c) =>
          pcG[c] \notin {"out", "register", "unload"}
  BY DEF ChainInv, InChain
<1>4. \A k \in 1 .. Len(my_chain) :
          my_chain[k] \in Blocks /\ Contains(my_chain, my_chain[k])
  BY <1>1 DEF Contains
<1>5. ASSUME NEW c \in Chain!ToSet(heard[b]) \cup ({nb[b]} \ {LastBlock})
      PROVE  \E k \in 1 .. Len(my_chain) : c = my_chain[k]
  <2>1. CASE c \in Chain!ToSet(heard[b])
    <3>1. PICK k \in 1 .. Len(heard[b]) : c = heard[b][k]
      BY <1>2, <2>1 DEF Chain!ToSet
    <3>2. k \in 1 .. Len(my_chain) /\ c = my_chain[k]
      BY <1>2, <3>1
    <3> QED
      BY <3>2
  <2>2. CASE c = nb[b] /\ c # LastBlock
    <3>1. Len(heard[b]) + 1 \in 1 .. Len(my_chain) /\ c = my_chain[Len(heard[b]) + 1]
      BY <1>2, <2>2
    <3> QED
      BY <3>1
  <2> QED
    BY <1>5, <2>1, <2>2
<1>6. ASSUME NEW j \in DOMAIN heard[b], NEW k \in DOMAIN heard[b], j < k
      PROVE  BlockPriority[heard[b][j]] >= BlockPriority[heard[b][k]]
  <2>1. j \in 1 .. Len(my_chain) /\ k \in 1 .. Len(my_chain)
        /\ heard[b][j] = my_chain[j] /\ heard[b][k] = my_chain[k]
    BY <1>2
  <2> QED
    BY <1>6, <2>1 DEF ChainInv, Descending
<1>7. ASSUME nb[b] = LastBlock PROVE Len(heard[b]) = Len(my_chain)
  <2>1. ASSUME Len(heard[b]) # Len(my_chain) PROVE FALSE
    <3>1. Len(heard[b]) + 1 \in 1 .. Len(my_chain) /\ nb[b] = my_chain[Len(heard[b]) + 1]
      BY <1>2, <2>1
    <3> QED
      BY <1>4, <1>7, <3>1, ChainConstants
  <2> QED
    BY <2>1
<1>8. ASSUME nb[b] = LastBlock, NEW c \in Blocks, pcG[c] \in {"send", "call", "in"}
      PROVE  Chain!Contains(heard[b], c)
  <2>1. Contains(my_chain, c)
    BY <1>8 DEF ChainInv, InChain
  <2>2. Len(heard[b]) = Len(my_chain)
    BY <1>7, <1>8
  <2> QED
    BY <1>2, <2>1, <2>2 DEF Contains, Chain!Contains
<1> QED
  BY <1>3, <1>4, <1>5, <1>6, <1>7, <1>8

\* Module C's events are called by priority at every registered block
\* (linux_notifier_Module-B.c:27-51, linux_notifier_Module-C.c:27-51), and
\* send_broadcast has sent to every client that was registered when it began,
\* or could not reach it, and to nobody twice, whoever registers or closes
\* meanwhile; not so for clients whose first messages were handled at once
\* (netlink_kernel_broadcast.c:18-37, :48-71).
THEOREM EventsAndBroadcastsReachAll == CallbackSpec => []EventsReachAll
<1>1. ChainInv /\ NetInv => EventsReachAll
  BY ChainCalls DEF EventsReachAll, NetInv
<1> QED
  BY <1>1, ServerInvariants, PTL

=============================================================================
