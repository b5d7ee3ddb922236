----------------------- MODULE DriverLifecycleProofs -----------------------
(***************************************************************************)
(* Theorems about loading and unloading a driver, for every table whose    *)
(* rows keep the rules of LadderRules: whatever call of init fails and     *)
(* whatever handlers run, the driver releases what it acquired, nothing    *)
(* twice, in an order that what is made on top of something else allows.   *)
(***************************************************************************)
EXTENDS MCDriverLifecycle, FiniteSetTheorems, FunctionTheorems,
        SequenceTheorems, WellFoundedInduction, TLAPS

(***************************************************************************)
(* What is held, as a list whose elements are distinct                     *)
(***************************************************************************)
\* Of the places where a resource is held the first one is the smallest.
LEMMA SmallestIndex ==
    ASSUME NEW T \in SUBSET Nat, T # {}
    PROVE  Min(T) \in T /\ \A k \in T : Min(T) <= k
<1>1. PICK x \in T : \A y \in T : <<y, x>> \notin OpToRel(<, Nat)
  BY NatLessThanWellFounded, WFMin, Zenon
<1>2. \A y \in T : ~(y < x)
  BY <1>1, Zenon DEF OpToRel
<1>3. \A y \in T : x <= y
  BY <1>2
<1> QED
  BY <1>3 DEF Min

\* A release shifts what was acquired after the resource.
LEMMA RemovedAt ==
    ASSUME NEW S, NEW s \in Seq(S), IsInjective(s), NEW k \in 1 .. Len(s)
    PROVE  /\ RemoveFirst(s, s[k]) \in Seq(S)
           /\ Len(RemoveFirst(s, s[k])) = Len(s) - 1
           /\ \A j \in 1 .. Len(s) - 1 :
                  RemoveFirst(s, s[k])[j] = IF j < k THEN s[j] ELSE s[j + 1]
<1> DEFINE I == {m \in 1 .. Len(s) : s[m] = s[k]}
<1>1. I = {k}
  BY DEF IsInjective
<1>2. Min(I) = k
  <2> HIDE DEF I
  <2>1. I \in SUBSET Nat /\ I # {}
    BY <1>1
  <2> QED
    BY <1>1, <2>1, SmallestIndex
<1> DEFINE front == SubSeq(s, 1, k - 1)
           back == SubSeq(s, k + 1, Len(s))
<1>3. RemoveFirst(s, s[k]) = front \o back
  BY <1>1, <1>2 DEF RemoveFirst, RemoveAt, SelectInSeq
<1>4. Len(s) \in Nat /\ \A m \in 1 .. Len(s) : s[m] \in S
  OBVIOUS
<1>5. /\ front \in Seq(S) /\ Len(front) = k - 1
      /\ \A j \in 1 .. k - 1 : front[j] = s[j]
  BY <1>4, SubSeqProperties
<1>6. /\ back \in Seq(S) /\ Len(back) = Len(s) - k
      /\ \A j \in 1 .. Len(s) - k : back[j] = s[k + j]
  BY <1>4, SubSeqProperties
<1> HIDE DEF front, back
<1>7. /\ front \o back \in Seq(S)
      /\ Len(front \o back) = Len(front) + Len(back)
      /\ \A j \in 1 .. Len(front) + Len(back) :
             (front \o back)[j] = IF j <= Len(front) THEN front[j]
                                  ELSE back[j - Len(front)]
  BY <1>5, <1>6, ConcatProperties
<1>8. ASSUME NEW j \in 1 .. Len(s) - 1
      PROVE  (front \o back)[j] = IF j < k THEN s[j] ELSE s[j + 1]
  <2>1. CASE j < k
    BY <1>4, <1>5, <1>6, <1>7, <2>1
  <2>2. CASE j >= k
    <3>1. j - Len(front) \in 1 .. Len(s) - k
      BY <1>4, <1>5, <2>2
    <3>2. back[j - Len(front)] = s[k + (j - Len(front))]
      BY <1>6, <3>1
    <3> QED
      BY <1>4, <1>5, <1>6, <1>7, <2>2, <3>2
  <2>3. j \in Int /\ k \in Int
    BY <1>4
  <2>4. j < k \/ j >= k
    BY <2>3
  <2> HIDE DEF front, back
  <2> QED
    BY <2>1, <2>2, <2>4
<1> QED
  BY <1>3, <1>4, <1>5, <1>6, <1>7, <1>8


\* A release takes the resource out and leaves the others in their order.
LEMMA Removed ==
    ASSUME NEW S, NEW s \in Seq(S), IsInjective(s), NEW r
    PROVE  LET t == RemoveFirst(s, r)
           IN  /\ t \in Seq(S)
               /\ IsInjective(t)
               /\ ToSet(t) = ToSet(s) \ {r}
               /\ \A j, m \in 1 .. Len(t) : j <= m =>
                      \E p, q \in 1 .. Len(s) : p <= q /\ t[j] = s[p] /\ t[m] = s[q]
<1> DEFINE t == RemoveFirst(s, r)
<1>0. Len(s) \in Nat /\ DOMAIN s = 1 .. Len(s)
  OBVIOUS
<1>1. CASE r \notin ToSet(s)
  <2>1. t = s
    BY <1>0, <1>1 DEF RemoveFirst, ToSet
  <2> QED
    BY <1>0, <1>1, <2>1
<1>2. ASSUME NEW k \in 1 .. Len(s), s[k] = r
      PROVE  /\ t \in Seq(S)
             /\ IsInjective(t)
             /\ ToSet(t) = ToSet(s) \ {r}
             /\ \A j, m \in 1 .. Len(t) : j <= m =>
                    \E p, q \in 1 .. Len(s) : p <= q /\ t[j] = s[p] /\ t[m] = s[q]
  <2>1. /\ t \in Seq(S) /\ Len(t) = Len(s) - 1
        /\ \A j \in 1 .. Len(s) - 1 : t[j] = IF j < k THEN s[j] ELSE s[j + 1]
    BY <1>2, RemovedAt
  <2> DEFINE From(j) == IF j < k THEN j ELSE j + 1
  <2> HIDE DEF t
  <2>2. DOMAIN t = 1 .. Len(t) /\ Len(t) \in Nat
    BY <2>1
  <2>3. \A j \in 1 .. Len(t) : From(j) \in 1 .. Len(s) \ {k} /\ t[j] = s[From(j)]
    BY <1>0, <2>1, <2>2
  <2>4. \A j, m \in 1 .. Len(t) : (j <= m => From(j) <= From(m)) /\ (j # m => From(j) # From(m))
    BY <1>0, <2>2
  <2>5. \A p \in 1 .. Len(s) \ {k} : \E j \in 1 .. Len(t) : From(j) = p
    <3>1. ASSUME NEW p \in 1 .. Len(s), p # k PROVE \E j \in 1 .. Len(t) : From(j) = p
      <4>1. CASE p < k
        <5>1. p \in 1 .. Len(t) /\ From(p) = p
          BY <1>0, <2>1, <2>2, <4>1
        <5> QED
          BY <5>1
      <4>2. CASE p > k
        <5>1. p - 1 \in 1 .. Len(t) /\ ~ (p - 1 < k) /\ (p - 1) + 1 = p
          BY <1>0, <2>1, <2>2, <4>2
        <5>2. From(p - 1) = p
          BY <5>1
        <5> QED
          BY <5>1, <5>2
      <4> QED
        BY <1>0, <3>1, <4>1, <4>2
    <3> QED
      BY <3>1
  <2> HIDE DEF From
  <2>6. IsInjective(t)
    <3>1. ASSUME NEW j \in 1 .. Len(t), NEW m \in 1 .. Len(t), t[j] = t[m] PROVE j = m
      <4>1. From(j) \in DOMAIN s /\ From(m) \in DOMAIN s /\ s[From(j)] = s[From(m)]
        BY <1>0, <2>3, <3>1
      <4>2. From(j) = From(m)
        BY <4>1 DEF IsInjective
      <4> QED
        BY <2>4, <4>2
    <3> QED
      BY <2>2, <3>1 DEF IsInjective
  <2>7. ToSet(t) = ToSet(s) \ {r}
    <3>1. ASSUME NEW x \in ToSet(t) PROVE x \in ToSet(s) \ {r}
      <4>1. PICK j \in 1 .. Len(t) : x = t[j]
        BY <2>2, <3>1 DEF ToSet
      <4>2. From(j) \in DOMAIN s /\ From(j) # k /\ x = s[From(j)]
        BY <1>0, <2>3, <4>1
      <4> QED
        BY <1>0, <1>2, <4>2 DEF IsInjective, ToSet
    <3>2. ASSUME NEW x \in ToSet(s) \ {r} PROVE x \in ToSet(t)
      <4>1. PICK p \in 1 .. Len(s) : x = s[p]
        BY <1>0, <3>2 DEF ToSet
      <4>2. p # k
        BY <1>2, <3>2, <4>1
      <4>3. PICK j \in 1 .. Len(t) : From(j) = p
        BY <2>5, <4>2
      <4> QED
        BY <2>2, <2>3, <4>1, <4>3 DEF ToSet
    <3> QED
      BY <3>1, <3>2
  <2> QED
    BY <2>1, <2>3, <2>4, <2>6, <2>7
<1>3. r \in ToSet(s) => \E k \in 1 .. Len(s) : s[k] = r
  BY <1>0 DEF ToSet
<1> QED
  BY <1>1, <1>2, <1>3

\* A call that acquires adds to the end.
LEMMA Appended ==
    ASSUME NEW S, NEW s \in Seq(S), IsInjective(s), NEW r \in S, r \notin ToSet(s)
    PROVE  /\ Append(s, r) \in Seq(S)
           /\ IsInjective(Append(s, r))
           /\ ToSet(Append(s, r)) = ToSet(s) \cup {r}
           /\ Len(Append(s, r)) = Len(s) + 1
           /\ \A j \in 1 .. Len(s) : Append(s, r)[j] = s[j]
           /\ Append(s, r)[Len(s) + 1] = r
<1> DEFINE t == Append(s, r)
<1>1. /\ t \in Seq(S) /\ Len(t) = Len(s) + 1 /\ Len(s) \in Nat
      /\ DOMAIN s = 1 .. Len(s) /\ DOMAIN t = 1 .. Len(s) + 1
      /\ \A j \in 1 .. Len(s) : t[j] = s[j]
      /\ t[Len(s) + 1] = r
  BY AppendProperties
<1> HIDE DEF t
<1>2. \A j \in 1 .. Len(s) : t[j] # r
  BY <1>1 DEF ToSet
<1>3. \A j \in 1 .. Len(s) + 1 : j \in 1 .. Len(s) \/ j = Len(s) + 1
  BY <1>1
<1>4. IsInjective(t)
  BY <1>1, <1>2, <1>3 DEF IsInjective
<1>5. ToSet(t) = ToSet(s) \cup {r}
  BY <1>1, <1>3 DEF ToSet
<1> QED
  BY <1>1, <1>4, <1>5 DEF t

\* A list without repetitions has as many elements as places.
LEMMA DistinctCount ==
    ASSUME NEW S, NEW s \in Seq(S), IsInjective(s)
    PROVE  Len(s) = Cardinality(ToSet(s))
<1>1. Len(s) \in Nat /\ DOMAIN s = 1 .. Len(s) /\ s \in [1 .. Len(s) -> ToSet(s)]
  BY DEF ToSet
<1>2. s \in Bijection(1 .. Len(s), ToSet(s))
  BY <1>1 DEF Bijection, Injection, Surjection, IsInjective, ToSet
<1>3. IsFiniteSet(1 .. Len(s)) /\ Cardinality(1 .. Len(s)) = Len(s)
  BY <1>1, FS_Interval
<1> QED
  BY <1>2, <1>3, FS_Bijection DEF ExistsBijection

(***************************************************************************)
(* What is held rests on what is held: uses[r] is held with r, and was     *)
(* acquired before r                                                       *)
(***************************************************************************)
Rests(s, uses) ==
    /\ \A r \in ToSet(s) : uses[r] \subseteq ToSet(s)
    /\ \A j, m \in 1 .. Len(s) : j <= m => s[m] \notin uses[s[j]]

\* A call that acquires something on top of what is held.
LEMMA RestsAppended ==
    ASSUME NEW S, NEW s \in Seq(S), IsInjective(s), NEW r \in S, r \notin ToSet(s),
           NEW uses, Rests(s, uses), uses[r] \subseteq ToSet(s)
    PROVE  Rests(Append(s, r), uses)
<1> DEFINE t == Append(s, r)
<1>1. /\ ToSet(t) = ToSet(s) \cup {r} /\ Len(t) = Len(s) + 1 /\ Len(s) \in Nat
      /\ \A j \in 1 .. Len(s) : t[j] = s[j]
      /\ t[Len(s) + 1] = r
  BY Appended
<1> HIDE DEF t
<1>2. \A j \in 1 .. Len(s) : s[j] \in ToSet(s)
  BY DEF ToSet
<1>3. ASSUME NEW j \in 1 .. Len(t), NEW m \in 1 .. Len(t), j <= m
      PROVE  t[m] \notin uses[t[j]]
  <2>1. CASE m \in 1 .. Len(s)
    <3>1. j \in 1 .. Len(s)
      BY <1>1, <1>3, <2>1
    <3> QED
      BY <1>1, <1>3, <2>1, <3>1 DEF Rests
  <2>2. CASE m = Len(s) + 1 /\ j \in 1 .. Len(s)
    BY <1>1, <1>2, <2>2 DEF Rests
  <2>3. CASE m = Len(s) + 1 /\ j = Len(s) + 1
    BY <1>1, <2>3
  <2> QED
    BY <1>1, <2>1, <2>2, <2>3
<1> QED
  BY <1>1, <1>3 DEF Rests, t

\* A release of something that nothing held rests on.
LEMMA RestsRemoved ==
    ASSUME NEW S, NEW s \in Seq(S), IsInjective(s), NEW r,
           NEW uses, Rests(s, uses), \A x \in ToSet(s) \ {r} : r \notin uses[x]
    PROVE  Rests(RemoveFirst(s, r), uses)
<1> DEFINE t == RemoveFirst(s, r)
<1>1. /\ ToSet(t) = ToSet(s) \ {r}
      /\ \A j, m \in 1 .. Len(t) : j <= m =>
             \E p, q \in 1 .. Len(s) : p <= q /\ t[j] = s[p] /\ t[m] = s[q]
  BY Removed
<1> HIDE DEF t
<1>2. \A x \in ToSet(t) : uses[x] \subseteq ToSet(t)
  BY <1>1 DEF Rests
<1>3. ASSUME NEW j \in 1 .. Len(t), NEW m \in 1 .. Len(t), j <= m
      PROVE  t[m] \notin uses[t[j]]
  <2>1. PICK p, q \in 1 .. Len(s) : p <= q /\ t[j] = s[p] /\ t[m] = s[q]
    BY <1>1, <1>3
  <2>2. s[q] \notin uses[s[p]]
    BY <2>1 DEF Rests
  <2> QED
    BY <2>1, <2>2
<1> QED
  BY <1>2, <1>3 DEF Rests, t

(***************************************************************************)
(* A list of releases: l is what the list of e has left, H what is held,   *)
(* F what was released before                                              *)
(***************************************************************************)
Gone(e, l, r) == \E j \in 1 .. Len(e.list) - Len(l) : e.list[j] = r

Along(e, l, H, F) ==
    /\ Len(l) <= Len(e.list)
    /\ \A j \in 1 .. Len(l) : l[j] = e.list[Len(e.list) - Len(l) + j]
    /\ \A r \in H : r \in e.may /\ ~ Gone(e, l, r)
    /\ \A r \in e.must : r \in H \/ Gone(e, l, r)
    /\ \A r \in F \cap e.may : Gone(e, l, r)

\* A label or exit begins.
LEMMA AlongBegins ==
    ASSUME NEW S, NEW e, e.list \in Seq(S), NEW H, e.must \subseteq H, H \subseteq e.may,
           NEW F, F \cap e.may = {}
    PROVE  Along(e, e.list, H, F)
<1>1. Len(e.list) \in Nat
  OBVIOUS
<1>2. \A r : ~ Gone(e, e.list, r)
  BY <1>1 DEF Gone
<1> QED
  BY <1>1, <1>2 DEF Along

\* What is released next stands in the list after what is gone.
LEMMA AlongHead ==
    ASSUME NEW S, NEW e, e.list \in Seq(S), NEW l \in Seq(S), l # <<>>, NEW H, NEW F,
           Along(e, l, H, F)
    PROVE  \E k \in 1 .. Len(e.list) :
               /\ k = Len(e.list) - Len(l) + 1
               /\ Head(l) = e.list[k]
               /\ \A r : Gone(e, l, r) <=> \E j \in 1 .. k - 1 : e.list[j] = r
               /\ \A r : Gone(e, Tail(l), r) <=> Gone(e, l, r) \/ r = Head(l)
<1> DEFINE k == Len(e.list) - Len(l) + 1
<1>1. Len(e.list) \in Nat /\ Len(l) \in Nat /\ Len(l) > 0 /\ Len(l) <= Len(e.list)
  BY DEF Along
<1>2. k \in 1 .. Len(e.list) /\ k - 1 = Len(e.list) - Len(l)
  BY <1>1
<1>3. Head(l) = e.list[k]
  <2>1. 1 \in 1 .. Len(l)
    BY <1>1
  <2>2. l[1] = e.list[Len(e.list) - Len(l) + 1]
    BY <2>1 DEF Along
  <2> QED
    BY <1>1, <2>2
<1>4. Len(Tail(l)) = Len(l) - 1
  BY <1>1
<1>5. Len(e.list) - Len(Tail(l)) = k
  BY <1>1, <1>4
<1>6. \A j \in 1 .. k : j \in 1 .. k - 1 \/ j = k
  BY <1>1
<1>7. \A j \in 1 .. k - 1 : j \in 1 .. k
  BY <1>1
<1>8. k \in 1 .. k
  BY <1>1
<1> HIDE DEF k
<1>9. \A r : Gone(e, l, r) <=> \E j \in 1 .. k - 1 : e.list[j] = r
  BY <1>2 DEF Gone
<1>10. \A r : Gone(e, Tail(l), r) <=> Gone(e, l, r) \/ r = Head(l)
  <2> SUFFICES ASSUME NEW r PROVE Gone(e, Tail(l), r) <=> Gone(e, l, r) \/ r = Head(l)
    OBVIOUS
  <2>1. Gone(e, Tail(l), r) <=> \E j \in 1 .. k : e.list[j] = r
    BY <1>5 DEF Gone
  <2> QED
    BY <1>3, <1>6, <1>7, <1>8, <1>9, <2>1, Zenon
<1> QED
  BY <1>2, <1>3, <1>9, <1>10 DEF k

\* A release.
LEMMA AlongReleases ==
    ASSUME NEW S, NEW e, e.list \in Seq(S), NEW l \in Seq(S), l # <<>>, NEW H, NEW F,
           Along(e, l, H, F), NEW G, G \subseteq F \cup {Head(l)}
    PROVE  Along(e, Tail(l), H \ {Head(l)}, G)
<1>1. /\ \A r : Gone(e, Tail(l), r) <=> Gone(e, l, r) \/ r = Head(l)
  BY AlongHead, Zenon
<1>2. /\ Len(e.list) \in Nat /\ Len(l) \in Nat /\ Len(l) > 0 /\ Len(l) <= Len(e.list)
      /\ Len(Tail(l)) = Len(l) - 1
      /\ \A j \in 1 .. Len(l) - 1 : Tail(l)[j] = l[j + 1]
  BY DEF Along
<1>3. Len(Tail(l)) <= Len(e.list)
  BY <1>2
<1>4. ASSUME NEW j \in 1 .. Len(Tail(l))
      PROVE  Tail(l)[j] = e.list[Len(e.list) - Len(Tail(l)) + j]
  <2>1. j + 1 \in 1 .. Len(l) /\ Tail(l)[j] = l[j + 1]
    BY <1>2
  <2>2. l[j + 1] = e.list[Len(e.list) - Len(l) + (j + 1)]
    BY <2>1 DEF Along
  <2> DEFINE a == Len(e.list)
             b == Len(l)
             c == Len(Tail(l))
  <2>3. a \in Int /\ b \in Int /\ c = b - 1 /\ j \in Int
    BY <1>2
  <2> HIDE DEF a, b, c
  <2>4. a - b + (j + 1) = a - c + j
    BY <2>3
  <2> QED
    BY <2>1, <2>2, <2>4 DEF a, b, c
<1>5. \A r \in H \ {Head(l)} : r \in e.may /\ ~ Gone(e, Tail(l), r)
  BY <1>1 DEF Along
<1>6. \A r \in e.must : r \in H \ {Head(l)} \/ Gone(e, Tail(l), r)
  BY <1>1 DEF Along
<1>7. \A r \in G \cap e.may : Gone(e, Tail(l), r)
  BY <1>1 DEF Along
<1> QED
  BY <1>3, <1>4, <1>5, <1>6, <1>7 DEF Along

\* A label or exit returns.
LEMMA AlongEnds ==
    ASSUME NEW S, NEW e, e.list \in Seq(S), NEW H, NEW F, Along(e, <<>>, H, F)
    PROVE  /\ H \subseteq e.may \ ToSet(e.list)
           /\ F \cap e.may \subseteq ToSet(e.list)
<1>1. Len(e.list) \in Nat /\ Len(<<>>) = 0 /\ DOMAIN e.list = 1 .. Len(e.list)
  OBVIOUS
<1>2. Len(e.list) - Len(<<>>) = Len(e.list)
  BY <1>1
<1>3. \A r \in ToSet(e.list) : Gone(e, <<>>, r)
  BY <1>1, <1>2 DEF Gone, ToSet
<1>4. \A r : Gone(e, <<>>, r) => r \in ToSet(e.list)
  BY <1>1, <1>2 DEF Gone, ToSet
<1> QED
  BY <1>3, <1>4 DEF Along

(***************************************************************************)
(* The rows of the table                                                   *)
(***************************************************************************)
\* What a call of init is, and the labels and the exit of a row.
LEMMA CallShape ==
    ASSUME NEW d \in DOMAIN Table, IsRow(d)
    PROVE  /\ Done(d) \in Nat /\ Done(d) > 0 /\ Done(d) = Len(Table[d].init) + 1
           /\ \A i \in 1 .. Done(d) - 1 :
                  /\ Call(d, i).op \in Ops
                  /\ Call(d, i).back \in Seq(STRING)
                  /\ ToSet(Call(d, i).back) \subseteq Acquired(d)
                  /\ Call(d, i).what \in Acquired(d)
           /\ Table[d].exit \in Seq(STRING)
<1>1. Table[d].init \in Seq([op : Ops, what : STRING, back : Seq(STRING)])
  BY DEF IsRow
<1>2. Len(Table[d].init) \in Nat
  BY <1>1
<1>3. ASSUME NEW i \in 1 .. Done(d) - 1
      PROVE  /\ Call(d, i).op \in Ops
             /\ Call(d, i).back \in Seq(STRING)
             /\ ToSet(Call(d, i).back) \subseteq Acquired(d)
             /\ Call(d, i).what \in Acquired(d)
  <2>1. i \in 1 .. Len(Table[d].init)
    BY <1>2, <1>3 DEF Done
  <2>2. Call(d, i) \in [op : Ops, what : STRING, back : Seq(STRING)]
    BY <1>1, <2>1, ElementOfSeq, Zenon DEF Call
  <2>3. Call(d, i).what \in Acquired(d)
    BY <2>1 DEF Call, Acquired
  <2>4. ToSet(Call(d, i).back) \subseteq Acquired(d)
    BY <1>3 DEF IsRow
  <2> QED
    BY <2>2, <2>3, <2>4
<1>4. Done(d) \in Nat /\ Done(d) > 0 /\ Done(d) = Len(Table[d].init) + 1
  BY <1>2 DEF Done
<1>5. Table[d].exit \in Seq(STRING)
  BY DEF IsRow
<1> QED
  BY <1>3, <1>4, <1>5

\* What stands after a call: what stood before it, but what it releases, and
\* the call itself.
LEMMA StandingNext ==
    ASSUME NEW d, NEW i \in Nat, i > 0
    PROVE  Standing(d, i + 1) =
             {i} \cup {j \in Standing(d, i) :
                          Call(d, i).op = "put" => Call(d, i).what # Call(d, j).what}
<1> DEFINE Kept(k, j) == Call(d, k).op = "put" => Call(d, k).what # Call(d, j).what
<1>1. Standing(d, i) = {j \in 1 .. i - 1 : \A k \in j + 1 .. i - 1 : Kept(k, j)}
  BY DEF Standing
<1>2. Standing(d, i + 1) = {j \in 1 .. i : \A k \in j + 1 .. i : Kept(k, j)}
  <2>1. (i + 1) - 1 = i
    OBVIOUS
  <2> QED
    BY <2>1 DEF Standing
<1> HIDE DEF Kept
<1>3. ASSUME NEW j \in 1 .. i - 1
      PROVE  (\A k \in j + 1 .. i : Kept(k, j))
                 <=> (\A k \in j + 1 .. i - 1 : Kept(k, j)) /\ Kept(i, j)
  <2>1. /\ \A k \in j + 1 .. i : k \in j + 1 .. i - 1 \/ k = i
        /\ \A k \in j + 1 .. i - 1 : k \in j + 1 .. i
        /\ i \in j + 1 .. i
    OBVIOUS
  <2> QED
    BY <2>1, Zenon
<1>4. \A j \in 1 .. i : j \in 1 .. i - 1 \/ j = i
  OBVIOUS
<1>5. \A j \in 1 .. i - 1 : j \in 1 .. i
  OBVIOUS
<1>6. i \in 1 .. i /\ \A k \in i + 1 .. i : Kept(k, i)
  OBVIOUS
<1>7. Standing(d, i + 1) = {i} \cup {j \in Standing(d, i) : Kept(i, j)}
  BY <1>1, <1>2, <1>3, <1>4, <1>5, <1>6, Zenon
<1> QED
  BY <1>7 DEF Kept

\* What may be held after a call of init.
LEMMA MayNext ==
    ASSUME NEW d, NEW i \in Nat, i > 0
    PROVE  May(d, i + 1) =
             (IF Call(d, i).op = "put" THEN May(d, i) \ {Call(d, i).what} ELSE May(d, i))
               \cup (IF Call(d, i).op \in Acquiring THEN {Call(d, i).what} ELSE {})
<1>1. ASSUME NEW r
      PROVE  r \in May(d, i) <=>
                 \E j \in Standing(d, i) : Call(d, j).op \in Acquiring /\ r = Call(d, j).what
  BY DEF May
<1>2. ASSUME NEW r
      PROVE  r \in May(d, i + 1) <=>
                 \/ Call(d, i).op \in Acquiring /\ r = Call(d, i).what
                 \/ \E j \in Standing(d, i) :
                        /\ Call(d, i).op = "put" => Call(d, i).what # Call(d, j).what
                        /\ Call(d, j).op \in Acquiring /\ r = Call(d, j).what
  <2>1. \A j : j \in Standing(d, i + 1) <=>
                 \/ j = i
                 \/ /\ j \in Standing(d, i)
                    /\ Call(d, i).op = "put" => Call(d, i).what # Call(d, j).what
    <3>1. Standing(d, i + 1) =
            {i} \cup {j \in Standing(d, i) :
                         Call(d, i).op = "put" => Call(d, i).what # Call(d, j).what}
      BY StandingNext
    <3> QED
      BY <3>1
  <2>2. r \in May(d, i + 1) <=>
            \E j \in Standing(d, i + 1) : Call(d, j).op \in Acquiring /\ r = Call(d, j).what
    BY DEF May
  <2> QED
    BY <2>1, <2>2, Zenon
<1> QED
  BY <1>1, <1>2

\* What is held after a call of init.
LEMMA MustNext ==
    ASSUME NEW d, NEW i \in Nat, i > 0
    PROVE  Must(d, i + 1) =
             (IF Call(d, i).op = "put" THEN Must(d, i) \ {Call(d, i).what} ELSE Must(d, i))
               \cup (IF Certain(d, i) THEN {Call(d, i).what} ELSE {})
<1>1. ASSUME NEW r
      PROVE  r \in Must(d, i) <=>
                 \E j \in Standing(d, i) : Certain(d, j) /\ r = Call(d, j).what
  BY DEF Must
<1>2. ASSUME NEW r
      PROVE  r \in Must(d, i + 1) <=>
                 \/ Certain(d, i) /\ r = Call(d, i).what
                 \/ \E j \in Standing(d, i) :
                        /\ Call(d, i).op = "put" => Call(d, i).what # Call(d, j).what
                        /\ Certain(d, j) /\ r = Call(d, j).what
  <2>1. \A j : j \in Standing(d, i + 1) <=>
                 \/ j = i
                 \/ /\ j \in Standing(d, i)
                    /\ Call(d, i).op = "put" => Call(d, i).what # Call(d, j).what
    <3>1. Standing(d, i + 1) =
            {i} \cup {j \in Standing(d, i) :
                         Call(d, i).op = "put" => Call(d, i).what # Call(d, j).what}
      BY StandingNext
    <3> QED
      BY <3>1
  <2>2. r \in Must(d, i + 1) <=>
            \E j \in Standing(d, i + 1) : Certain(d, j) /\ r = Call(d, j).what
    BY DEF Must
  <2> QED
    BY <2>1, <2>2, Zenon
<1> QED
  BY <1>1, <1>2

\* Before the first call nothing is held.
LEMMA MayFirst == ASSUME NEW d PROVE May(d, 1) = {} /\ Must(d, 1) = {}
BY DEF May, Must, Standing

\* What may be held is acquired by init.
LEMMA MayAcquired ==
    ASSUME NEW d \in DOMAIN Table, IsRow(d), NEW i \in 1 .. Done(d)
    PROVE  May(d, i) \subseteq Acquired(d)
<1>1. Standing(d, i) \subseteq 1 .. Done(d) - 1
  BY CallShape DEF Standing
<1> QED
  BY <1>1, CallShape DEF May

\* The lists of labels and of exit.
LEMMA EndShape ==
    ASSUME NEW d \in DOMAIN Table, IsRow(d), NEW e \in Ends(d)
    PROVE  /\ e.list \in Seq(STRING)
           /\ ToSet(e.list) \subseteq ToSet(Table[d].exit) \cup Acquired(d)
           /\ e.may \subseteq Acquired(d)
<1>1. Done(d) \in 1 .. Done(d) /\ \A i \in 1 .. Done(d) - 1 : i \in 1 .. Done(d)
  BY CallShape
<1>2. CASE \E i \in 1 .. Done(d) - 1 : e = LabelEnd(d, i)
  BY <1>1, <1>2, CallShape, MayAcquired DEF LabelEnd, End
<1>3. CASE e \in ExitEnds(d)
  <2>1. e.list = Table[d].exit
    BY <1>3 DEF ExitEnds, End
  <2>2. \E i \in 1 .. Done(d) : e.may \subseteq May(d, i)
    BY <1>1, <1>3 DEF ExitEnds, End
  <2> QED
    BY <2>1, <2>2, CallShape, MayAcquired
<1> QED
  BY <1>2, <1>3 DEF Ends

(***************************************************************************)
(* The invariant.  In init what is held is between Must and May, and what  *)
(* was released is not in May; on the way through a list of releases what  *)
(* is held is what the list has left, and of what the list may release     *)
(* only that was released before which it has released itself.             *)
(***************************************************************************)
RowsKeepRules == \A d \in DOMAIN Table : KeepsRules(d)

Have == ToSet(held)

LadderTypes ==
    /\ driver \in DOMAIN Table
    /\ phase \in {"out", "init", "unwind", "astray", "live", "exit", "core"}
    /\ at \in 1 .. Done(driver)
    /\ held \in Seq(Acquired(driver)) /\ IsInjective(held)
    /\ todo \in Seq(STRING)
    /\ todo # <<>> => phase \in {"unwind", "astray", "exit"}
    /\ running \subseteq DOMAIN Calls
    /\ freed \subseteq Acquired(driver) \ Have
    /\ bad \subseteq ToSet(Table[driver].exit) \cup Acquired(driver)

Between(e) == e.must \subseteq Have /\ Have \subseteq e.may /\ freed \cap e.may = {}

Phases ==
    /\ phase = "init" =>
        /\ Must(driver, at) \subseteq Have /\ Have \subseteq May(driver, at)
        /\ freed \cap May(driver, at) = {}
    /\ phase \in {"unwind", "astray"} =>
        /\ at \in 1 .. Done(driver) - 1
        /\ MayFail(driver, at)
        /\ phase = "astray" <=> Call(driver, at).op = "oops"
        /\ Along(LabelEnd(driver, at), todo, Have, freed)
    /\ phase = "live" => \E e \in ExitEnds(driver) : Between(e)
    /\ phase = "exit" => \E e \in ExitEnds(driver) : Along(e, todo, Have, freed)
    /\ phase = "core" => Have \subseteq Managed \cup Marks
    /\ phase = "out" => Have \subseteq Marks

LadderInv == LadderTypes /\ Phases

\* Nothing is held before the first driver is loaded.
LEMMA LadderInit == ASSUME RowsKeepRules PROVE Init => LadderInv
<1> SUFFICES ASSUME Init PROVE LadderInv
  OBVIOUS
<1>1. driver \in DOMAIN Table /\ IsRow(driver)
  BY DEF Init, RowsKeepRules, KeepsRules
<1>2. Done(driver) \in Nat /\ Done(driver) > 0
  BY <1>1, CallShape
<1>3. 1 \in 1 .. Done(driver)
  BY <1>2
<1>4. held = <<>> /\ IsInjective(held) /\ Have = {}
  BY DEF Init, IsInjective, Have, ToSet
<1>5. held \in Seq(Acquired(driver)) /\ todo \in Seq(STRING)
  BY <1>4, EmptySeq DEF Init
<1> QED
  BY <1>1, <1>3, <1>4, <1>5 DEF Init, LadderInv, LadderTypes, Phases

\* A step of init is a call of the row.
LEMMA InitCall ==
    ASSUME RowsKeepRules, LadderTypes, NEW ops, InStep(ops)
    PROVE  /\ phase = "init" /\ IsRow(driver)
           /\ at \in Nat /\ at > 0 /\ at \in 1 .. Done(driver) - 1
           /\ at + 1 \in 1 .. Done(driver)
           /\ Steps[at] = Call(driver, at)
           /\ Call(driver, at).op \in ops
           /\ Call(driver, at).what \in Acquired(driver)
           /\ Call(driver, at).back \in Seq(STRING)
<1>1. driver \in DOMAIN Table /\ IsRow(driver)
  BY DEF LadderTypes, RowsKeepRules, KeepsRules
<1>2. Done(driver) \in Nat /\ Done(driver) = Len(Steps) + 1 /\ Len(Steps) \in Nat
  <2>1. Steps \in Seq([op : Ops, what : STRING, back : Seq(STRING)])
    BY <1>1 DEF Steps, IsRow
  <2>2. Len(Steps) \in Nat
    BY <2>1
  <2> QED
    BY <1>1, <2>2, CallShape DEF Steps
<1>3. phase = "init" /\ at <= Len(Steps) /\ Steps[at].op \in ops /\ at \in 1 .. Done(driver)
  BY DEF InStep, LadderTypes
<1>4. /\ at \in Nat /\ at > 0 /\ at \in 1 .. Done(driver) - 1
      /\ at + 1 \in 1 .. Done(driver)
  BY <1>2, <1>3
<1>5. Steps[at] = Call(driver, at)
  BY DEF Steps, Call
<1> QED
  BY <1>1, <1>3, <1>4, <1>5, CallShape

\* init acquires nothing twice.
LEMMA AcquireHeld ==
    ASSUME RowsKeepRules, LadderInv, Acquire
    PROVE  /\ Call(driver, at).what \notin Have
           /\ held' = Append(held, Call(driver, at).what)
           /\ held' \in Seq(Acquired(driver))
           /\ IsInjective(held')
           /\ Have' = Have \cup {Call(driver, at).what}
           /\ freed' = freed \ {Call(driver, at).what}
           /\ freed' \subseteq Acquired(driver) \ Have'
<1>1. /\ InStep(Acquiring) /\ held' = Append(held, Steps[at].what)
      /\ freed' = freed \ {Steps[at].what}
  BY DEF Acquire, Acquiring
<1>2. /\ phase = "init" /\ IsRow(driver) /\ at \in 1 .. Done(driver) - 1
      /\ Steps[at] = Call(driver, at) /\ Call(driver, at).op \in Acquiring
      /\ Call(driver, at).what \in Acquired(driver)
  BY <1>1, InitCall DEF LadderInv
<1>3. Call(driver, at).what \notin Have
  BY <1>2 DEF LadderInv, Phases, IsRow
<1>4. /\ held \in Seq(Acquired(driver)) /\ IsInjective(held)
      /\ freed \subseteq Acquired(driver) \ Have
  BY DEF LadderInv, LadderTypes
<1>5. /\ held' = Append(held, Call(driver, at).what)
      /\ held' \in Seq(Acquired(driver)) /\ IsInjective(held')
      /\ Have' = Have \cup {Call(driver, at).what}
  BY <1>1, <1>2, <1>3, <1>4, Appended DEF Have
<1> QED
  BY <1>1, <1>2, <1>3, <1>4, <1>5

\* Whatever is released leaves the rest as it was.
LEMMA ReleaseHeld ==
    ASSUME LadderTypes, NEW r, Free(r)
    PROVE  /\ held' = RemoveFirst(held, r)
           /\ held' \in Seq(Acquired(driver))
           /\ IsInjective(held')
           /\ Have' = Have \ {r}
           /\ freed' = freed \cup ({r} \cap Have)
           /\ freed' \subseteq Acquired(driver) \ Have'
<1>1. held \in Seq(Acquired(driver)) /\ IsInjective(held) /\ freed \subseteq Acquired(driver) \ Have
  BY DEF LadderTypes
<1>2. /\ held' = RemoveFirst(held, r) /\ held' \in Seq(Acquired(driver))
      /\ IsInjective(held') /\ Have' = Have \ {r}
  BY <1>1, Removed DEF Free, Have
<1>3. freed' = freed \cup ({r} \cap Have)
  BY DEF Free, Have
<1>4. Have \subseteq Acquired(driver)
  BY <1>1 DEF Have, ToSet
<1> QED
  BY <1>1, <1>2, <1>3, <1>4

\* Holds looks at what is held.
LEMMA HoldsIs == ASSUME LadderTypes, NEW r PROVE Holds(r) <=> r \in Have
<1>1. DOMAIN held = 1 .. Len(held)
  BY DEF LadderTypes
<1> QED
  BY <1>1 DEF Holds, Contains, Have, ToSet

\* A driver that releases is on its way through one of its lists.
LEMMA UnderWay ==
    ASSUME RowsKeepRules, LadderInv, phase \in {"unwind", "astray", "exit"}
    PROVE  \E e \in Ends(driver) : e.list \in Seq(STRING) /\ Along(e, todo, Have, freed)
<1>1. driver \in DOMAIN Table /\ IsRow(driver)
  BY DEF LadderInv, LadderTypes, RowsKeepRules, KeepsRules
<1>2. \E e \in Ends(driver) : Along(e, todo, Have, freed)
  BY DEF LadderInv, Phases, Ends
<1> QED
  BY <1>1, <1>2, EndShape

\* What it releases next stands in that list.
LEMMA NextInList ==
    ASSUME RowsKeepRules, LadderInv, phase \in {"unwind", "astray", "exit"}, todo # <<>>
    PROVE  \E e \in Ends(driver) : \E k \in 1 .. Len(e.list) :
               /\ e.list \in Seq(STRING)
               /\ Along(e, todo, Have, freed)
               /\ Head(todo) = e.list[k]
               /\ \A r : Gone(e, todo, r) <=> \E j \in 1 .. k - 1 : e.list[j] = r
<1>1. PICK e \in Ends(driver) : e.list \in Seq(STRING) /\ Along(e, todo, Have, freed)
  BY UnderWay
<1>2. todo \in Seq(STRING)
  BY DEF LadderInv, LadderTypes
<1>3. PICK k \in 1 .. Len(e.list) :
          /\ k = Len(e.list) - Len(todo) + 1
          /\ Head(todo) = e.list[k]
          /\ \A r : Gone(e, todo, r) <=> \E j \in 1 .. k - 1 : e.list[j] = r
          /\ \A r : Gone(e, Tail(todo), r) <=> Gone(e, todo, r) \/ r = Head(todo)
  BY <1>1, <1>2, AlongHead
<1> QED
  BY <1>1, <1>3

\* No action puts anything into the wrong place, or releases what the row does
\* not name.
LEMMA LadderTypesStep ==
    ASSUME RowsKeepRules, LadderInv, [Next]_vars
    PROVE  LadderTypes'
<1>0. /\ LadderTypes /\ driver \in DOMAIN Table /\ IsRow(driver)
      /\ DOMAIN Calls \subseteq Acquired(driver)
  BY LifecycleAssumption DEF LadderInv, LadderTypes, RowsKeepRules, KeepsRules, Calls
<1>1. ASSUME NEW d \in DOMAIN Table, Load(d) PROVE LadderTypes'
  <2>1. Done(d) \in Nat /\ Done(d) > 0
    BY <1>1, CallShape DEF RowsKeepRules, KeepsRules
  <2>2. at' \in 1 .. Done(d) /\ driver' = d
    BY <1>1, <2>1 DEF Load
  <2>3. held' \in Seq(Acquired(d)) /\ IsInjective(held')
    BY <1>1, EmptySeq DEF Load, IsInjective
  <2>4. /\ todo' = <<>> /\ todo' \in Seq(STRING) /\ running' = {} /\ phase' = "init"
        /\ freed' = {} /\ bad' = {}
    BY <1>0, <1>1 DEF Load, LadderTypes
  <2> QED
    BY <2>2, <2>3, <2>4 DEF LadderTypes
<1>2. CASE Acquire
  <2>1. InStep(Acquiring)
    BY <1>2 DEF Acquire, Acquiring
  <2>2. at' \in 1 .. Done(driver) /\ phase' = "init"
    BY <1>0, <1>2, <2>1, InitCall DEF Acquire
  <2>3. /\ held' \in Seq(Acquired(driver)) /\ IsInjective(held')
        /\ freed' \subseteq Acquired(driver) \ Have'
    BY <1>2, AcquireHeld
  <2> QED
    BY <1>0, <1>2, <2>2, <2>3 DEF Acquire, LadderTypes, Calls
<1>3. CASE Ignore \/ Check
  <2>1. InStep({"try", "need", "probe"})
    BY <1>3 DEF Ignore, Check, InStep
  <2>2. at' \in 1 .. Done(driver) /\ phase' = "init"
    BY <1>0, <1>3, <2>1, InitCall DEF Ignore, Check
  <2>3. Have' = Have /\ freed' \subseteq freed
    BY <1>3 DEF Ignore, Check, Have
  <2> QED
    BY <1>0, <1>3, <2>2, <2>3 DEF Ignore, Check, LadderTypes, Calls
<1>4. CASE Fail
  <2>1. InStep({"get", "oops", "probe", "need"})
    BY <1>4 DEF Fail, InStep
  <2>2. todo' \in Seq(STRING)
    BY <1>0, <1>4, <2>1, InitCall DEF Fail
  <2>3. phase' \in {"astray", "unwind"}
    BY <1>4 DEF Fail
  <2> QED
    BY <1>0, <1>4, <2>2, <2>3 DEF Fail, LadderTypes, Calls, Have
<1>5. CASE Drop
  <2>1. InStep({"put"})
    BY <1>5 DEF Drop
  <2>2. at' \in 1 .. Done(driver) /\ phase' = "init"
    BY <1>0, <1>5, <2>1, InitCall DEF Drop
  <2>3. /\ held' \in Seq(Acquired(driver)) /\ IsInjective(held')
        /\ freed' \subseteq Acquired(driver) \ Have'
    BY <1>0, <1>5, ReleaseHeld DEF Drop
  <2> QED
    BY <1>0, <1>5, <2>2, <2>3 DEF Drop, LadderTypes, Calls
<1>6. CASE InitReturn
  BY <1>0, <1>6 DEF InitReturn, LadderTypes, Calls, Have
<1>7. CASE Exit
  <2>1. todo' \in Seq(STRING)
    BY <1>0, <1>7, CallShape DEF Exit
  <2> QED
    BY <1>0, <1>7, <2>1 DEF Exit, LadderTypes, Calls, Have
<1>8. CASE Release
  <2>1. PICK e \in Ends(driver) :
          e.list \in Seq(STRING) /\ \E k \in 1 .. Len(e.list) : Head(todo) = e.list[k]
    BY <1>8, NextInList DEF Release
  <2>2. todo \in Seq(STRING) /\ todo # <<>>
    BY <1>0, <1>8 DEF Release, LadderTypes
  <2>3. Head(todo) \in ToSet(e.list)
    BY <2>1 DEF ToSet
  <2>4. Head(todo) \in ToSet(Table[driver].exit) \cup Acquired(driver)
    BY <1>0, <2>3, EndShape
  <2>5. bad' \subseteq ToSet(Table[driver].exit) \cup Acquired(driver)
    BY <1>0, <1>8, <2>4 DEF Release, LadderTypes
  <2>6. /\ held' \in Seq(Acquired(driver)) /\ IsInjective(held')
        /\ freed' \subseteq Acquired(driver) \ Have'
    BY <1>0, <1>8, ReleaseHeld DEF Release
  <2>7. todo' \in Seq(STRING)
    BY <1>8, <2>2 DEF Release
  <2> QED
    BY <1>0, <1>8, <2>5, <2>6, <2>7 DEF Release, LadderTypes, Calls
<1>9. CASE Return
  BY <1>0, <1>9 DEF Return, LadderTypes, Calls, Have
<1>10. CASE CoreRelease
  <2>1. /\ held' \in Seq(Acquired(driver)) /\ IsInjective(held')
        /\ freed' \subseteq Acquired(driver) \ Have'
    BY <1>0, <1>10, ReleaseHeld DEF CoreRelease
  <2> QED
    BY <1>0, <1>10, <2>1 DEF CoreRelease, LadderTypes, Calls
<1>11. CASE Unloaded
  BY <1>0, <1>11 DEF Unloaded, LadderTypes, Calls, Have
<1>12. ASSUME NEW g \in DOMAIN Calls, Enter(g) PROVE LadderTypes'
  BY <1>0, <1>12 DEF Enter, LadderTypes, Calls, Have
<1>13. ASSUME NEW g \in running, Leave(g) PROVE LadderTypes'
  BY <1>0, <1>13 DEF Leave, LadderTypes, Calls, Have
<1>14. CASE UNCHANGED vars
  BY <1>0, <1>14 DEF vars, LadderTypes, Calls, Have
<1> QED
  BY <1>1, <1>2, <1>3, <1>4, <1>5, <1>6, <1>7, <1>8, <1>9, <1>10, <1>11, <1>12,
     <1>13, <1>14 DEF Next, InitStep, ExitStep


\* Init acquires between Must and May, labels and exit go along their lists, and
\* what a driver that is unbound holds is managed.
LEMMA PhasesStep ==
    ASSUME RowsKeepRules, LadderInv, [Next]_vars
    PROVE  Phases'
<1>0. /\ LadderTypes /\ Phases /\ driver \in DOMAIN Table
      /\ IsRow(driver) /\ KeepsNothing(driver)
  BY DEF LadderInv, LadderTypes, RowsKeepRules, KeepsRules
<1>1. ASSUME NEW d \in DOMAIN Table, Load(d) PROVE Phases'
  <2>1. Have' = {} /\ freed' = {} /\ phase' = "init" /\ at' = 1 /\ driver' = d
    BY <1>1 DEF Load, Have, ToSet
  <2> QED
    BY <2>1, MayFirst DEF Phases
<1>2. CASE Acquire
  <2>1. InStep(Acquiring)
    BY <1>2 DEF Acquire, Acquiring
  <2>2. /\ phase = "init" /\ at \in Nat /\ at > 0
        /\ Call(driver, at).op \in Acquiring
    BY <1>0, <2>1, InitCall
  <2>3. /\ Must(driver, at + 1) \subseteq Must(driver, at) \cup {Call(driver, at).what}
        /\ May(driver, at + 1) = May(driver, at) \cup {Call(driver, at).what}
    BY <2>2, MayNext, MustNext DEF Acquiring
  <2>4. /\ Have' = Have \cup {Call(driver, at).what}
        /\ freed' = freed \ {Call(driver, at).what}
    BY <1>2, AcquireHeld
  <2>5. driver' = driver /\ phase' = "init" /\ at' = at + 1
    BY <1>2, <2>2 DEF Acquire
  <2> QED
    BY <1>0, <2>2, <2>3, <2>4, <2>5 DEF Phases
<1>3. CASE Ignore
  <2>1. InStep({"try"}) /\ driver \in Failing
    BY <1>3 DEF Ignore
  <2>2. phase = "init" /\ at \in Nat /\ at > 0 /\ Call(driver, at).op = "try"
    BY <1>0, <2>1, InitCall
  <2>3. /\ Must(driver, at + 1) = Must(driver, at)
        /\ May(driver, at + 1) = May(driver, at) \cup {Call(driver, at).what}
    <3>1. ~ Certain(driver, at)
      BY <2>1, <2>2 DEF Certain
    <3>2. Call(driver, at).op # "put"
      BY <2>2
    <3>3. Must(driver, at + 1) =
            (IF Call(driver, at).op = "put" THEN Must(driver, at) \ {Call(driver, at).what}
             ELSE Must(driver, at))
              \cup (IF Certain(driver, at) THEN {Call(driver, at).what} ELSE {})
      BY <2>2, MustNext
    <3>4. May(driver, at + 1) = May(driver, at) \cup {Call(driver, at).what}
      BY <2>2, <3>2, MayNext DEF Acquiring
    <3> QED
      BY <3>1, <3>2, <3>3, <3>4
  <2>4. /\ driver' = driver /\ phase' = "init" /\ at' = at + 1 /\ Have' = Have
        /\ freed' = freed \ {Call(driver, at).what}
    BY <1>3, <2>2 DEF Ignore, Have, Steps, Call
  <2> QED
    BY <1>0, <2>2, <2>3, <2>4 DEF Phases
<1>4. CASE Check
  <2>1. InStep({"need", "probe"}) /\ (Steps[at].op = "need" => Holds(Steps[at].what))
    BY <1>4 DEF Check
  <2>2. /\ phase = "init" /\ at \in Nat /\ at > 0
        /\ Call(driver, at).op \in {"need", "probe"}
        /\ Steps[at] = Call(driver, at)
    BY <1>0, <2>1, InitCall
  <2>3. /\ Must(driver, at + 1) \subseteq Must(driver, at)
               \cup (IF Call(driver, at).op = "need" THEN {Call(driver, at).what} ELSE {})
        /\ May(driver, at + 1) = May(driver, at)
    <3>1. /\ Call(driver, at).op # "put" /\ Call(driver, at).op \notin Acquiring
          /\ Certain(driver, at) => Call(driver, at).op = "need"
      BY <2>2 DEF Certain, Acquiring
    <3>2. May(driver, at + 1) = May(driver, at)
      <4>1. May(driver, at + 1) =
              (IF Call(driver, at).op = "put" THEN May(driver, at) \ {Call(driver, at).what}
               ELSE May(driver, at))
                \cup (IF Call(driver, at).op \in Acquiring THEN {Call(driver, at).what} ELSE {})
        BY <2>2, MayNext
      <4> QED
        BY <3>1, <4>1
    <3>3. Must(driver, at + 1) = Must(driver, at)
               \cup (IF Certain(driver, at) THEN {Call(driver, at).what} ELSE {})
      BY <2>2, <3>1, MustNext
    <3> QED
      BY <3>1, <3>2, <3>3
  <2>4. Call(driver, at).op = "need" => Call(driver, at).what \in Have
    BY <1>0, <2>1, <2>2, HoldsIs
  <2>5. driver' = driver /\ phase' = "init" /\ at' = at + 1 /\ Have' = Have /\ freed' = freed
    BY <1>4, <2>2 DEF Check, Have
  <2> QED
    BY <1>0, <2>2, <2>3, <2>4, <2>5 DEF Phases
<1>5. CASE Fail
  <2>1. InStep({"get", "oops", "probe", "need"})
    BY <1>5 DEF Fail, InStep
  <2>2. /\ phase = "init" /\ at \in 1 .. Done(driver) - 1
        /\ Steps[at] = Call(driver, at)
        /\ Call(driver, at).back \in Seq(STRING)
    BY <1>0, <2>1, InitCall
  <2>3. MayFail(driver, at)
    BY <1>5, <2>2 DEF Fail, InStep, MayFail
  <2>4. Along(LabelEnd(driver, at), Call(driver, at).back, Have, freed)
    <3> DEFINE e == LabelEnd(driver, at)
    <3>1. /\ e.list = Call(driver, at).back /\ e.must \subseteq Have /\ Have \subseteq e.may
          /\ freed \cap e.may = {}
      BY <1>0, <2>2 DEF Phases, LabelEnd, End
    <3> HIDE DEF e
    <3>2. Along(e, e.list, Have, freed)
      BY <2>2, <3>1, AlongBegins
    <3> QED
      BY <3>1, <3>2 DEF e
  <2>5. /\ driver' = driver /\ at' = at /\ Have' = Have /\ freed' = freed
        /\ todo' = Call(driver, at).back
        /\ phase' = IF Call(driver, at).op = "oops" THEN "astray" ELSE "unwind"
    BY <1>5, <2>2 DEF Fail, Have
  <2> QED
    BY <2>2, <2>3, <2>4, <2>5 DEF Phases
<1>6. CASE Drop
  <2>1. InStep({"put"})
    BY <1>6 DEF Drop
  <2>2. /\ phase = "init" /\ at \in Nat /\ at > 0 /\ Call(driver, at).op = "put"
        /\ Steps[at] = Call(driver, at)
    BY <1>0, <2>1, InitCall
  <2>3. /\ Must(driver, at + 1) = Must(driver, at) \ {Call(driver, at).what}
        /\ May(driver, at + 1) = May(driver, at) \ {Call(driver, at).what}
    BY <2>2, MayNext, MustNext DEF Certain, Acquiring
  <2>4. /\ Have' = Have \ {Call(driver, at).what}
        /\ freed' \subseteq freed \cup {Call(driver, at).what}
    BY <1>0, <1>6, <2>2, ReleaseHeld DEF Drop
  <2>5. driver' = driver /\ phase' = "init" /\ at' = at + 1
    BY <1>6, <2>2 DEF Drop
  <2> QED
    BY <1>0, <2>2, <2>3, <2>4, <2>5 DEF Phases
<1>7. CASE InitReturn
  <2>1. phase = "init" /\ at > Len(Steps) /\ phase' = "live"
        /\ driver' = driver /\ Have' = Have /\ freed' = freed
    BY <1>7 DEF InitReturn, Have
  <2>2. at = Done(driver)
    BY <1>0, <2>1, CallShape DEF LadderTypes, Steps
  <2> DEFINE e == End(May(driver, Done(driver)), Must(driver, Done(driver)), Table[driver].exit)
  <2>3. e \in ExitEnds(driver)
    BY DEF ExitEnds
  <2>4. e.must \subseteq Have /\ Have \subseteq e.may /\ freed \cap e.may = {}
    BY <1>0, <2>1, <2>2 DEF Phases, End
  <2> HIDE DEF e
  <2>5. \E x \in ExitEnds(driver) :
            x.must \subseteq Have /\ Have \subseteq x.may /\ freed \cap x.may = {}
    BY <2>3, <2>4
  <2> QED
    BY <2>1, <2>5 DEF Phases, Between
<1>8. CASE Exit
  <2>1. PICK e \in ExitEnds(driver) :
            e.must \subseteq Have /\ Have \subseteq e.may /\ freed \cap e.may = {}
    BY <1>0, <1>8 DEF Exit, Phases, Between
  <2>2. e.list = Table[driver].exit
    BY <2>1 DEF ExitEnds, End
  <2>3. Along(e, Table[driver].exit, Have, freed)
    BY <1>0, <2>1, <2>2, CallShape, AlongBegins
  <2>4. /\ phase' = "exit" /\ todo' = Table[driver].exit
        /\ driver' = driver /\ Have' = Have /\ freed' = freed
    BY <1>8 DEF Exit, Have
  <2> QED
    BY <2>3, <2>4 DEF Phases
<1>9. CASE Release
  <2>1. todo \in Seq(STRING) /\ todo # <<>> /\ phase \in {"unwind", "astray", "exit"}
    BY <1>0, <1>9 DEF Release, LadderTypes
  <2>2. /\ driver' = driver /\ at' = at /\ phase' = phase /\ todo' = Tail(todo)
        /\ Have' = Have \ {Head(todo)} /\ freed' \subseteq freed \cup {Head(todo)}
    BY <1>0, <1>9, ReleaseHeld DEF Release
  <2>3. ASSUME NEW e \in Ends(driver), Along(e, todo, Have, freed) PROVE Along(e, todo', Have', freed')
    <3>1. e.list \in Seq(STRING)
      BY <1>0, <2>3, EndShape
    <3> QED
      BY <2>1, <2>2, <2>3, <3>1, AlongReleases
  <2>4. CASE phase \in {"unwind", "astray"}
    <3>1. /\ at \in 1 .. Done(driver) - 1 /\ MayFail(driver, at)
          /\ phase = "astray" <=> Call(driver, at).op = "oops"
          /\ Along(LabelEnd(driver, at), todo, Have, freed)
      BY <1>0, <2>4 DEF Phases
    <3>2. LabelEnd(driver, at) \in Ends(driver)
      BY <3>1 DEF Ends
    <3>3. Along(LabelEnd(driver, at), todo', Have', freed')
      BY <2>3, <3>1, <3>2
    <3> QED
      BY <2>2, <2>4, <3>1, <3>3 DEF Phases
  <2>5. CASE phase = "exit"
    <3>1. PICK e \in ExitEnds(driver) : Along(e, todo, Have, freed)
      BY <1>0, <2>5 DEF Phases
    <3>2. Along(e, todo', Have', freed')
      BY <2>3, <3>1 DEF Ends
    <3> QED
      BY <2>2, <2>5, <3>2 DEF Phases
  <2> QED
    BY <2>1, <2>4, <2>5
<1>10. CASE Return
  <2>1. /\ phase \in {"unwind", "astray", "exit"} /\ todo = <<>>
        /\ driver' = driver /\ Have' = Have /\ freed' = freed
        /\ \/ phase' = "core"
           \/ phase = "astray" /\ phase' = "live"
    BY <1>10 DEF Return, Have
  <2>2. CASE phase' = "core"
    <3>1. PICK e \in Ends(driver) : e.list \in Seq(STRING) /\ Along(e, <<>>, Have, freed)
      BY <2>1, UnderWay
    <3>2. Have \subseteq e.may \ ToSet(e.list)
      BY <3>1, AlongEnds
    <3>3. e.may \subseteq ToSet(e.list) \cup Table[driver].managed \cup Marks
      BY <1>0 DEF KeepsNothing
    <3>4. Have \subseteq Managed \cup Marks
      BY <3>2, <3>3 DEF Managed
    <3> QED
      BY <2>1, <2>2, <3>4 DEF Phases, Managed
  <2>3. CASE phase = "astray" /\ phase' = "live"
    <3>1. /\ at \in 1 .. Done(driver) - 1 /\ MayFail(driver, at)
          /\ Call(driver, at).op = "oops"
          /\ Along(LabelEnd(driver, at), <<>>, Have, freed)
      BY <1>0, <2>1, <2>3 DEF Phases
    <3> DEFINE e == End(May(driver, at) \ ToSet(Call(driver, at).back), {}, Table[driver].exit)
    <3>2. e \in ExitEnds(driver)
      BY <3>1 DEF ExitEnds
    <3>3. LabelEnd(driver, at).list \in Seq(STRING)
      BY <1>0, <3>1, CallShape DEF LabelEnd, End
    <3>4. /\ Have \subseteq LabelEnd(driver, at).may \ ToSet(LabelEnd(driver, at).list)
          /\ freed \cap LabelEnd(driver, at).may \subseteq ToSet(LabelEnd(driver, at).list)
      BY <3>1, <3>3, AlongEnds
    <3>5. e.must \subseteq Have /\ Have \subseteq e.may /\ freed \cap e.may = {}
      BY <3>4 DEF LabelEnd, End
    <3> HIDE DEF e
    <3>6. \E x \in ExitEnds(driver) :
              x.must \subseteq Have /\ Have \subseteq x.may /\ freed \cap x.may = {}
      BY <3>2, <3>5
    <3> QED
      BY <2>1, <2>3, <3>6 DEF Phases, Between
  <2> QED
    BY <2>1, <2>2, <2>3
<1>11. CASE CoreRelease
  <2>1. PICK r \in LastManaged \ running : Free(r)
    BY <1>11 DEF CoreRelease
  <2>2. Have' = Have \ {r} /\ phase = "core" /\ phase' = "core" /\ driver' = driver
    BY <1>0, <1>11, <2>1, ReleaseHeld DEF CoreRelease
  <2> QED
    BY <1>0, <2>2 DEF Phases, Managed
<1>12. CASE Unloaded
  <2>1. /\ phase = "core" /\ phase' = "out" /\ Have' = Have
        /\ \A r \in Managed : r \notin Have
    BY <1>0, <1>12, HoldsIs DEF Unloaded, Have
  <2> QED
    BY <1>0, <2>1 DEF Phases
<1>13. CASE UNCHANGED <<driver, phase, at, held, todo, freed>>
  BY <1>0, <1>13 DEF Phases, Have, Between, Managed
<1>14. ASSUME NEW g \in DOMAIN Calls, Enter(g) PROVE Phases'
  BY <1>13, <1>14 DEF Enter
<1>15. ASSUME NEW g \in running, Leave(g) PROVE Phases'
  BY <1>13, <1>15 DEF Leave
<1>16. CASE UNCHANGED vars
  BY <1>13, <1>16 DEF vars
<1> QED
  BY <1>1, <1>2, <1>3, <1>4, <1>5, <1>6, <1>7, <1>8, <1>9, <1>10, <1>11, <1>12,
     <1>14, <1>15, <1>16 DEF Next, InitStep, ExitStep

(***************************************************************************)
(* Order: what is held rests on what is held.  uses is what a row is built *)
(* on (Basis), or what its handlers use (calls).                           *)
(***************************************************************************)
Loads == \E d \in DOMAIN Table : Load(d)

\* No step but the loading of another driver takes away what something held
\* rests on, and init acquires nothing before what it rests on.
LEMMA RestsStep ==
    ASSUME RowsKeepRules, LadderInv, NEW uses, Supported(driver, uses),
           Rests(held, uses), [Next]_vars, ~ Loads
    PROVE  Rests(held', uses)
<1>0. /\ LadderTypes /\ Phases /\ driver \in DOMAIN Table /\ IsRow(driver)
      /\ held \in Seq(Acquired(driver)) /\ IsInjective(held)
  BY DEF LadderInv, LadderTypes, RowsKeepRules, KeepsRules
<1>1. ASSUME NEW r, held' = RemoveFirst(held, r), \A x \in Have \ {r} : r \notin uses[x]
      PROVE  Rests(held', uses)
  BY <1>0, <1>1, RestsRemoved DEF Have
<1>2. CASE Acquire
  <2>1. InStep(Acquiring)
    BY <1>2 DEF Acquire, Acquiring
  <2>2. /\ phase = "init" /\ at \in 1 .. Done(driver) - 1
        /\ Call(driver, at).op \in Acquiring
        /\ Call(driver, at).what \in Acquired(driver)
    BY <1>0, <2>1, InitCall
  <2>3. uses[Call(driver, at).what] \subseteq Have
    BY <1>0, <2>2 DEF Supported, Phases
  <2>4. /\ Call(driver, at).what \notin Have
        /\ held' = Append(held, Call(driver, at).what)
    BY <1>2, AcquireHeld
  <2> QED
    BY <1>0, <2>2, <2>3, <2>4, RestsAppended DEF Have
<1>3. CASE Drop
  <2>1. InStep({"put"})
    BY <1>3 DEF Drop
  <2>2. /\ phase = "init" /\ at \in 1 .. Done(driver) - 1
        /\ Call(driver, at).op = "put"
        /\ Steps[at] = Call(driver, at)
    BY <1>0, <2>1, InitCall
  <2>3. \A x \in Have : Call(driver, at).what \notin uses[x]
    BY <1>0, <2>2 DEF Supported, Phases
  <2>4. held' = RemoveFirst(held, Call(driver, at).what)
    BY <1>3, <2>2 DEF Drop, Free
  <2> QED
    BY <1>1, <2>3, <2>4
<1>4. CASE Release
  <2>1. /\ todo \in Seq(STRING) /\ todo # <<>> /\ phase \in {"unwind", "astray", "exit"}
        /\ held' = RemoveFirst(held, Head(todo))
    BY <1>0, <1>4 DEF Release, Free, LadderTypes
  <2>2. PICK e \in Ends(driver) : \E k \in 1 .. Len(e.list) :
          /\ e.list \in Seq(STRING)
          /\ Along(e, todo, Have, freed)
          /\ Head(todo) = e.list[k]
          /\ \A r : Gone(e, todo, r) <=> \E j \in 1 .. k - 1 : e.list[j] = r
    BY <2>1, NextInList
  <2>3. PICK k \in 1 .. Len(e.list) :
          /\ Head(todo) = e.list[k]
          /\ \A r : Gone(e, todo, r) <=> \E j \in 1 .. k - 1 : e.list[j] = r
    BY <2>2
  <2>4. ASSUME NEW x \in Have, Head(todo) \in uses[x] PROVE FALSE
    <3>1. x \in e.may /\ ~ Gone(e, todo, x)
      BY <2>2 DEF Along
    <3>2. \E j \in 1 .. k - 1 : e.list[j] = x
      BY <2>3, <2>4, <3>1 DEF Supported
    <3> QED
      BY <2>3, <3>1, <3>2
  <2> QED
    BY <1>1, <2>1, <2>4
<1>5. CASE CoreRelease
  <2>1. PICK r \in LastManaged : held' = RemoveFirst(held, r)
    BY <1>5 DEF CoreRelease, Free
  <2>2. PICK k \in 1 .. Len(held) :
          /\ r = held[k] /\ held[k] \in Managed
          /\ \A j \in k + 1 .. Len(held) : held[j] \notin Managed
    BY <2>1 DEF LastManaged
  <2>3. phase = "core" /\ Have \subseteq Managed \cup Marks
    BY <1>0, <1>5 DEF CoreRelease, Phases
  <2>4. Len(held) \in Nat /\ DOMAIN held = 1 .. Len(held)
    BY <1>0
  <2>5. ASSUME NEW x \in Have, r \in uses[x] PROVE FALSE
    <3>1. PICK i \in 1 .. Len(held) : x = held[i]
      BY <2>4, <2>5 DEF Have, ToSet
    <3>2. ~ (i <= k)
      BY <2>2, <2>5, <3>1 DEF Rests
    <3>3. i \in k + 1 .. Len(held)
      BY <2>4, <3>1, <3>2
    <3>4. x \notin Managed /\ x \in Marks /\ x \in Acquired(driver)
      BY <1>0, <2>2, <2>3, <2>5, <3>1, <3>3
    <3>5. uses[x] \cap Table[driver].managed = {}
      BY <3>4 DEF Supported, Managed
    <3> QED
      BY <2>2, <2>5, <3>5 DEF Managed
  <2> QED
    BY <1>1, <2>1, <2>5
<1>6. CASE held' = held
  BY <1>6
<1>7. CASE Ignore \/ Check \/ Fail \/ InitReturn \/ Exit \/ Return \/ Unloaded
  BY <1>6, <1>7 DEF Ignore, Check, Fail, InitReturn, Exit, Return, Unloaded
<1>8. ASSUME NEW g \in DOMAIN Calls, Enter(g) PROVE Rests(held', uses)
  BY <1>6, <1>8 DEF Enter
<1>9. ASSUME NEW g \in running, Leave(g) PROVE Rests(held', uses)
  BY <1>6, <1>9 DEF Leave
<1>10. CASE UNCHANGED vars
  BY <1>6, <1>10 DEF vars
<1> QED
  BY <1>2, <1>3, <1>4, <1>5, <1>7, <1>8, <1>9, <1>10
     DEF Next, InitStep, ExitStep, Loads

\* A driver stays the same until the next one is loaded, with nothing held.
LEMMA DriverKept ==
    ASSUME [Next]_vars
    PROVE  /\ Loads => held' = <<>> /\ running' = {} /\ freed' = {} /\ bad' = {}
           /\ ~ Loads => driver' = driver
<1>1. ASSUME NEW d \in DOMAIN Table, Load(d)
      PROVE  held' = <<>> /\ running' = {} /\ freed' = {} /\ bad' = {}
  BY <1>1 DEF Load
<1>2. InitStep => driver' = driver
  BY DEF InitStep, Acquire, Ignore, Check, Fail, Drop, InitReturn
<1>3. Exit \/ ExitStep => driver' = driver
  BY DEF Exit, ExitStep, Release, Return, CoreRelease, Unloaded
<1>4. ASSUME NEW g \in DOMAIN Calls, Enter(g) PROVE driver' = driver
  BY <1>4 DEF Enter
<1>5. ASSUME NEW g \in running, Leave(g) PROVE driver' = driver
  BY <1>5 DEF Leave
<1>6. UNCHANGED vars => driver' = driver
  BY DEF vars
<1>7. Loads => held' = <<>> /\ running' = {} /\ freed' = {} /\ bad' = {}
  BY <1>1 DEF Loads
<1>8. ~ Loads => driver' = driver
  BY <1>2, <1>3, <1>4, <1>5, <1>6 DEF Next, Loads
<1> QED
  BY <1>7, <1>8

\* Nothing rests on nothing.
LEMMA RestsEmpty == ASSUME NEW uses PROVE Rests(<<>>, uses)
BY DEF Rests, ToSet

(***************************************************************************)
(* What was released without being held                                    *)
(***************************************************************************)
BadInv == bad \subseteq Wrong(driver)

\* What a list releases is held, or was never released: the list names it once,
\* and nobody else has released what it still may hold.
LEMMA BadStep ==
    ASSUME RowsKeepRules, LadderInv, BadInv, [Next]_vars
    PROVE  BadInv'
<1>0. LadderTypes /\ ReleasesHeld(driver, Wrong(driver))
  BY DEF LadderInv, LadderTypes, RowsKeepRules, KeepsRules
<1>1. CASE Loads
  BY <1>1, DriverKept DEF BadInv
<1>2. CASE Release
  <2>1. todo \in Seq(STRING) /\ todo # <<>> /\ phase \in {"unwind", "astray", "exit"}
    BY <1>0, <1>2 DEF Release, LadderTypes
  <2>2. PICK e \in Ends(driver) : \E k \in 1 .. Len(e.list) :
          /\ e.list \in Seq(STRING)
          /\ Along(e, todo, Have, freed)
          /\ Head(todo) = e.list[k]
          /\ \A r : Gone(e, todo, r) <=> \E j \in 1 .. k - 1 : e.list[j] = r
    BY <2>1, NextInList
  <2>3. PICK k \in 1 .. Len(e.list) :
          /\ Head(todo) = e.list[k]
          /\ \A r : Gone(e, todo, r) <=> \E j \in 1 .. k - 1 : e.list[j] = r
    BY <2>2
  <2>4. \/ Head(todo) \in Wrong(driver)
        \/ /\ Head(todo) \in e.must \cup (Optional \cap e.may)
           /\ ~ Gone(e, todo, Head(todo))
    BY <1>0, <2>3 DEF ReleasesHeld
  <2>5. CASE Head(todo) \in Wrong(driver)
    BY <1>2, <2>5 DEF Release, BadInv
  <2>6. CASE Head(todo) \in e.must /\ ~ Gone(e, todo, Head(todo))
    <3>1. Holds(Head(todo))
      BY <1>0, <2>2, <2>6, HoldsIs DEF Along
    <3> QED
      BY <1>2, <3>1 DEF Release, BadInv
  <2>7. CASE Head(todo) \in Optional \cap e.may /\ ~ Gone(e, todo, Head(todo))
    <3>1. Head(todo) \notin freed
      BY <2>2, <2>7 DEF Along
    <3>2. Harmless(Head(todo))
      BY <2>7, <3>1 DEF Harmless
    <3> QED
      BY <1>2, <3>2 DEF Release, BadInv
  <2> QED
    BY <2>4, <2>5, <2>6, <2>7
<1>3. CASE UNCHANGED <<driver, bad>>
  BY <1>3 DEF BadInv
<1>4. CASE InitStep
  BY <1>3, <1>4 DEF InitStep, Acquire, Ignore, Check, Fail, Drop, InitReturn
<1>5. CASE Exit \/ Return \/ CoreRelease \/ Unloaded
  BY <1>3, <1>5 DEF Exit, Return, CoreRelease, Unloaded
<1>6. ASSUME NEW g \in DOMAIN Calls, Enter(g) PROVE BadInv'
  BY <1>3, <1>6 DEF Enter
<1>7. ASSUME NEW g \in running, Leave(g) PROVE BadInv'
  BY <1>3, <1>7 DEF Leave
<1>8. CASE UNCHANGED vars
  BY <1>3, <1>8 DEF vars
<1> QED
  BY <1>1, <1>2, <1>4, <1>5, <1>6, <1>7, <1>8 DEF Next, ExitStep, Loads

(***************************************************************************)
(* Handlers.  What runs was entered through a gate that is still held; a   *)
(* file that is open keeps the module from being unloaded.                 *)
(***************************************************************************)
GateInv ==
    \A g \in running : g \in Have /\ (g \in Pinning => phase \in {"init", "live"})

\* No gate is closed while its handler runs.
LEMMA GateStep ==
    ASSUME RowsKeepRules, LadderInv, ClosesGates(driver), GateInv, [Next]_vars, ~ Loads
    PROVE  GateInv'
<1>0. /\ LadderTypes /\ Phases /\ running \subseteq DOMAIN Table[driver].calls
      /\ driver \in DOMAIN Table /\ IsRow(driver)
  BY DEF LadderInv, LadderTypes, Calls, RowsKeepRules, KeepsRules
<1>1. ASSUME NEW g \in running, g \in Pinning, phase = "init", at \in 1 .. Done(driver) - 1,
             MayFail(driver, at)
      PROVE  FALSE
  <2>1. g \in May(driver, at) \cap DOMAIN Table[driver].calls \cap Pinning
    BY <1>0, <1>1 DEF GateInv, Phases
  <2>2. at \in 1 .. Done(driver) /\ at < Done(driver)
    BY <1>0, <1>1, CallShape DEF LadderTypes
  <2> QED
    BY <1>1, <2>1, <2>2 DEF ClosesGates
<1>2. CASE Acquire
  <2>1. Have \subseteq Have' /\ phase' = phase /\ running' = running
    BY <1>2, AcquireHeld DEF Acquire
  <2> QED
    BY <2>1 DEF GateInv
<1>3. CASE Ignore \/ Check
  BY <1>3 DEF Ignore, Check, GateInv, Have
<1>4. CASE Fail
  <2>1. InStep({"get", "oops", "probe", "need"})
    BY <1>4 DEF Fail, InStep
  <2>2. phase = "init" /\ at \in 1 .. Done(driver) - 1 /\ Steps[at] = Call(driver, at)
    BY <1>0, <2>1, InitCall
  <2>3. MayFail(driver, at)
    BY <1>4, <2>2 DEF Fail, InStep, MayFail
  <2>4. \A g \in running : g \notin Pinning
    BY <1>1, <2>2, <2>3
  <2> QED
    BY <1>4, <2>4 DEF Fail, GateInv, Have
<1>5. CASE Drop
  <2>1. InStep({"put"})
    BY <1>5 DEF Drop
  <2>2. /\ phase = "init" /\ at \in 1 .. Done(driver) - 1
        /\ Call(driver, at).op = "put" /\ Steps[at] = Call(driver, at)
    BY <1>0, <2>1, InitCall
  <2>3. Call(driver, at).what \notin running
    BY <1>0, <2>2 DEF ClosesGates
  <2>4. Have' = Have \ {Call(driver, at).what}
    BY <1>0, <1>5, <2>2, ReleaseHeld DEF Drop
  <2> QED
    BY <1>5, <2>3, <2>4 DEF Drop, GateInv
<1>6. CASE InitReturn
  BY <1>6 DEF InitReturn, GateInv, Have
<1>7. CASE Exit
  BY <1>7 DEF Exit, GateInv, Have
<1>8. CASE Release
  <2>1. Head(todo) \notin running
    BY <1>8 DEF Release, GateInv
  <2>2. Have' = Have \ {Head(todo)}
    BY <1>0, <1>8, ReleaseHeld DEF Release
  <2> QED
    BY <1>8, <2>1, <2>2 DEF Release, GateInv
<1>9. CASE Return
  <2>1. \A g \in running : g \notin Pinning
    BY <1>9 DEF Return, GateInv
  <2> QED
    BY <1>9, <2>1 DEF Return, GateInv, Have
<1>10. CASE CoreRelease
  <2>1. PICK r \in LastManaged \ running : Free(r)
    BY <1>10 DEF CoreRelease
  <2>2. Have' = Have \ {r}
    BY <1>0, <2>1, ReleaseHeld
  <2> QED
    BY <1>10, <2>1, <2>2 DEF CoreRelease, GateInv
<1>11. CASE Unloaded
  BY <1>11 DEF Unloaded, GateInv, Have
<1>12. ASSUME NEW g \in DOMAIN Calls, Enter(g) PROVE GateInv'
  <2>1. g \in Have
    BY <1>0, <1>12, HoldsIs DEF Enter
  <2>2. ASSUME g \in Pinning, phase \in {"unwind", "astray"} PROVE FALSE
    <3>1. /\ at \in 1 .. Done(driver) - 1 /\ MayFail(driver, at)
          /\ Along(LabelEnd(driver, at), todo, Have, freed)
      BY <1>0, <2>2 DEF Phases
    <3>2. g \in May(driver, at)
      BY <2>1, <3>1 DEF Along, LabelEnd, End
    <3>3. at \in 1 .. Done(driver) /\ at < Done(driver)
      BY <1>0, <3>1, CallShape DEF LadderTypes
    <3> QED
      BY <1>12, <2>2, <3>1, <3>2, <3>3 DEF ClosesGates, Calls
  <2>3. g \in Pinning => phase \in {"init", "live"}
    BY <1>12, <2>2 DEF Enter
  <2> QED
    BY <1>12, <2>1, <2>3 DEF Enter, GateInv, Have
<1>13. ASSUME NEW g \in running, Leave(g) PROVE GateInv'
  BY <1>13 DEF Leave, GateInv, Have
<1>14. CASE UNCHANGED vars
  BY <1>14 DEF vars, GateInv, Have
<1> QED
  BY <1>2, <1>3, <1>4, <1>5, <1>6, <1>7, <1>8, <1>9, <1>10, <1>11, <1>12, <1>13,
     <1>14 DEF Next, InitStep, ExitStep, Loads

CallsInv == ClosesGates(driver) => Rests(held, CallsIn(driver)) /\ GateInv

\* What a handler uses is held while it runs, whatever gate it came through.
LEMMA GatesBack ==
    ASSUME RowsKeepRules, LadderInv, CallsInv, ClosesGates(driver)
    PROVE  HandlersAreBacked
<1>0. /\ LadderTypes /\ Phases /\ GateInv /\ Rests(held, CallsIn(driver))
      /\ driver \in DOMAIN Table /\ IsRow(driver)
      /\ running \subseteq DOMAIN Calls /\ DOMAIN Calls \subseteq Acquired(driver)
      /\ Supported(driver, CallsIn(driver))
  BY LifecycleAssumption
     DEF LadderInv, LadderTypes, CallsInv, RowsKeepRules, KeepsRules, Calls, ClosesGates
<1>1. SUFFICES ASSUME NEW g \in running
               PROVE  phase # "out" /\ Calls[g] \subseteq Have
  <2>1. ASSUME NEW g \in running, Calls[g] \subseteq Have PROVE \A r \in Calls[g] : Holds(r)
    BY <1>0, <2>1, HoldsIs
  <2> QED
    BY <2>1 DEF HandlersAreBacked
<1>2. g \in Have /\ g \in Acquired(driver) /\ (g \in Pinning => phase \in {"init", "live"})
  BY <1>0, <1>1 DEF GateInv
<1>3. CASE g \notin Pinning
  <2>1. CallsIn(driver)[g] = Calls[g]
    BY <1>0, <1>1, <1>2, <1>3 DEF CallsIn, Calls
  <2>2. Calls[g] \subseteq Have
    BY <1>0, <1>2, <2>1 DEF Rests, Have
  <2>3. phase # "out"
    BY <1>0, <1>1, <1>2, <1>3 DEF Phases, ClosesGates, Calls
  <2> QED
    BY <2>2, <2>3
<1>4. CASE g \in Pinning
  <2>1. Done(driver) \in 1 .. Done(driver) /\ at \in 1 .. Done(driver)
    BY <1>0, CallShape DEF LadderTypes
  <2>2. ASSUME NEW i \in 1 .. Done(driver), g \in May(driver, i)
        PROVE  Calls[g] \subseteq Must(driver, i)
    BY <1>0, <1>1, <1>4, <2>2 DEF ClosesGates, Calls
  <2>3. CASE phase = "init"
    BY <1>0, <1>2, <2>1, <2>2, <2>3 DEF Phases
  <2>4. CASE phase = "live"
    <3>1. PICK e \in ExitEnds(driver) : Between(e)
      BY <1>0, <2>4 DEF Phases
    <3>2. e = End(May(driver, Done(driver)), Must(driver, Done(driver)), Table[driver].exit)
      BY <1>0 DEF ExitEnds, ClosesGates
    <3>3. e.may = May(driver, Done(driver)) /\ e.must = Must(driver, Done(driver))
      BY <3>2 DEF End
    <3> QED
      BY <1>2, <2>1, <2>2, <2>4, <3>1, <3>3 DEF Between
  <2> QED
    BY <1>2, <1>4, <2>3, <2>4
<1> QED
  BY <1>3, <1>4

\* The four invariants together, and what they need of each other.
DriverInv ==
    /\ LadderInv
    /\ BadInv
    /\ Rests(held, BasisIn(driver))
    /\ CallsInv

LEMMA DriverInvariant == ASSUME RowsKeepRules PROVE Spec => []DriverInv
<1>1. Init => DriverInv
  BY LadderInit, RestsEmpty DEF Init, DriverInv, BadInv, CallsInv, GateInv
<1>2. DriverInv /\ [Next]_vars => DriverInv'
  <2> SUFFICES ASSUME DriverInv, [Next]_vars PROVE DriverInv'
    OBVIOUS
  <2>1. LadderInv /\ LadderInv'
    BY LadderTypesStep, PhasesStep DEF DriverInv, LadderInv
  <2>2. BadInv'
    BY BadStep DEF DriverInv
  <2>3. Supported(driver, BasisIn(driver))
    BY <2>1 DEF LadderInv, LadderTypes, RowsKeepRules, KeepsRules
  <2>4. Rests(held, BasisIn(driver))'
    <3>1. CASE Loads
      BY <3>1, DriverKept, RestsEmpty
    <3>2. CASE ~ Loads
      <4>1. Rests(held', BasisIn(driver))
        BY <2>1, <2>3, <3>2, RestsStep DEF DriverInv
      <4>2. driver' = driver
        BY <3>2, DriverKept
      <4> QED
        BY <4>1, <4>2
    <3> QED
      BY <3>1, <3>2
  <2>5. CallsInv'
    <3>1. CASE Loads
      <4>1. held' = <<>> /\ running' = {}
        BY <3>1, DriverKept
      <4>2. GateInv'
        BY <4>1 DEF GateInv
      <4> QED
        BY <4>1, <4>2, RestsEmpty DEF CallsInv
    <3>2. CASE ~ Loads
      <4>1. driver' = driver
        BY <3>2, DriverKept
      <4>2. ASSUME ClosesGates(driver) PROVE Rests(held', CallsIn(driver)) /\ GateInv'
        <5>1. Rests(held, CallsIn(driver)) /\ GateInv
          BY <4>2 DEF DriverInv, CallsInv
        <5>2. Rests(held', CallsIn(driver))
          BY <2>1, <3>2, <4>2, <5>1, RestsStep DEF ClosesGates
        <5> QED
          BY <2>1, <3>2, <4>2, <5>1, <5>2, GateStep
      <4> QED
        BY <4>1, <4>2 DEF CallsInv
    <3> QED
      BY <3>1, <3>2
  <2> QED
    BY <2>1, <2>2, <2>4, <2>5 DEF DriverInv
<1> QED
  BY <1>1, <1>2, PTL DEF Spec

\* Types of the ladder, for every table: what is held is held once and was
\* acquired by this driver's init.
THEOREM DriverTypes ==
    ASSUME RowsKeepRules PROVE Spec => []DriverTypeOK
<1>1. LadderInv => DriverTypeOK
  <2> SUFFICES ASSUME LadderInv PROVE DriverTypeOK
    OBVIOUS
  <2>1. LadderTypes /\ driver \in DOMAIN Table /\ KeepsRules(driver)
    BY DEF LadderInv, LadderTypes, RowsKeepRules
  <2>2. Done(driver) = Len(Steps) + 1
    BY DEF Done, Steps
  <2>3. ToSet(held) \subseteq Acquired(driver)
    BY <2>1 DEF LadderTypes, ToSet
  <2>4. Len(held) = Cardinality(ToSet(held))
    BY <2>1, DistinctCount DEF LadderTypes
  <2> QED
    BY <2>1, <2>2, <2>3, <2>4 DEF LadderTypes, TypeOK, DriverTypeOK, Have
<1> QED
  BY <1>1, DriverInvariant, PTL DEF DriverInv

\* A driver that failed to load or was unloaded holds nothing, whatever call of
\* init failed (the goto ladders, e.g. 21b dma_mem2mem.c:184-207).
THEOREM EverythingIsReleased ==
    ASSUME RowsKeepRules PROVE Spec => []NothingLeaks
<1>1. LadderInv => NothingLeaks
  BY DEF LadderInv, Phases, NothingLeaks, Have
<1> QED
  BY <1>1, DriverInvariant, PTL DEF DriverInv

\* Labels and exit release what is held, and nothing twice.  A pointer that init
\* tried to get and has not freed since may be passed to kfree once.  Of the
\* lessons this leaves out 4-3, and the major number of lesson 14.
THEOREM NothingIsReleasedTwice ==
    ASSUME RowsKeepRules PROVE Spec => []NoOtherBadRelease
<1>1. BadInv => NoOtherBadRelease
  BY DEF BadInv, NoOtherBadRelease
<1> QED
  BY <1>1, DriverInvariant, PTL DEF DriverInv

\* What something is made on top of outlives it, also in the driver core, which
\* releases what is managed in reverse (char_cdev-2.c:178-185).
THEOREM ReleasedInOrder ==
    ASSUME RowsKeepRules PROVE Spec => []OrderedRelease
<1>1. LadderInv /\ Rests(held, BasisIn(driver)) => OrderedRelease
  <2> SUFFICES ASSUME LadderInv, Rests(held, BasisIn(driver)),
                      NEW r \in ToSet(held) \cap DOMAIN Basis,
                      NEW b \in Basis[r] \cap Acquired(driver)
               PROVE  Holds(b)
    BY DEF OrderedRelease
  <2>1. LadderTypes
    BY DEF LadderInv
  <2>2. r \in Acquired(driver)
    BY <2>1 DEF LadderTypes, ToSet
  <2>3. b \in BasisIn(driver)[r]
    BY <2>2 DEF BasisIn
  <2>4. b \in Have
    BY <2>3 DEF Rests, Have
  <2> QED
    BY <2>1, <2>4, HoldsIs
<1> QED
  BY <1>1, DriverInvariant, PTL DEF DriverInv

\* No file operation, interrupt, timer or work item runs on what is released or
\* not there yet, in any driver that opens its gates last and closes them before
\* what their handlers use: of the lessons all but 4-3, 10, 25, 25a and 25b.
THEOREM HandlersHaveWhatTheyUse ==
    ASSUME RowsKeepRules PROVE Spec => []OtherHandlersAreBacked
<1>1. LadderInv /\ CallsInv => OtherHandlersAreBacked
  BY GatesBack DEF LadderInv, LadderTypes, RowsKeepRules, KeepsRules, OtherHandlersAreBacked
<1> QED
  BY <1>1, DriverInvariant, PTL DEF DriverInv

=============================================================================
