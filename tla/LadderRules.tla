---------------------------- MODULE LadderRules ----------------------------
(***************************************************************************)
(* Rules for a row of DriverLifecycle, each of them a look at the calls of *)
(* init and the labels in the order in which they are written.  A row that *)
(* keeps them is right in every behaviour, whatever fails and whatever     *)
(* handlers run.                                                           *)
(***************************************************************************)
EXTENDS DriverLifecycle

Ops == {"get", "oops", "try", "sure", "need", "probe", "put"}
Acquiring == {"get", "oops", "try", "sure"}

Call(d, i) == Table[d].init[i]
Done(d) == Len(Table[d].init) + 1

\* The calls before the i-th whose resource init has not released since.
Standing(d, i) ==
    {j \in 1 .. i - 1 : \A k \in j + 1 .. i - 1 :
        Call(d, k).op = "put" => Call(d, k).what # Call(d, j).what}

\* What may be held when init is at step i, and what is held.
May(d, i) ==
    {Call(d, j).what : j \in {j \in Standing(d, i) : Call(d, j).op \in Acquiring}}

Certain(d, j) ==
    \/ Call(d, j).op \in {"get", "oops", "sure", "need"}
    \/ Call(d, j).op = "try" /\ d \notin Failing

Must(d, i) == {Call(d, j).what : j \in {j \in Standing(d, i) : Certain(d, j)}}

MayFail(d, i) ==
    \/ Call(d, i).op \in {"get", "oops", "probe"} /\ d \in Failing
    \/ Call(d, i).op = "need"

(***************************************************************************)
(* The lists of releases: that of a label, that of exit, and that of exit  *)
(* after a label whose error was taken for success.                        *)
(***************************************************************************)
End(may, must, list) == [may |-> may, must |-> must, list |-> list]

LabelEnd(d, i) == End(May(d, i), Must(d, i), Call(d, i).back)

ExitEnds(d) ==
    {End(May(d, Done(d)), Must(d, Done(d)), Table[d].exit)}
      \cup {End(May(d, i) \ ToSet(Call(d, i).back), {}, Table[d].exit) :
              i \in {i \in 1 .. Done(d) - 1 : MayFail(d, i) /\ Call(d, i).op = "oops"}}

Ends(d) ==
    {LabelEnd(d, i) : i \in {i \in 1 .. Done(d) - 1 : MayFail(d, i)}} \cup ExitEnds(d)
-----------------------------------------------------------------------------
\* The shape of a row; init acquires nothing twice.
IsRow(d) ==
    /\ Table[d].init \in Seq([op : Ops, what : STRING, back : Seq(STRING)])
    /\ Table[d].exit \in Seq(STRING)
    /\ \A i \in 1 .. Done(d) - 1 :
        /\ Call(d, i).op \in Acquiring => Call(d, i).what \notin May(d, i)
        /\ ToSet(Call(d, i).back) \subseteq Acquired(d)

\* Every list has all that may be held and is not managed.
KeepsNothing(d) ==
    \A e \in Ends(d) : e.may \subseteq ToSet(e.list) \cup Table[d].managed \cup Marks

\* Every list has only what is held, once, or what init tried to acquire and
\* has not released since, once; or what is known to be released wrongly.
ReleasesHeld(d, known) ==
    \A e \in Ends(d) : \A k \in 1 .. Len(e.list) :
        \/ e.list[k] \in known
        \/ /\ e.list[k] \in e.must \cup (Optional \cap e.may)
           /\ \A j \in 1 .. k - 1 : e.list[j] # e.list[k]

\* What r uses is acquired before r, and released after it.
Supported(d, uses) ==
    /\ \A i \in 1 .. Done(d) - 1 :
        /\ Call(d, i).op \in Acquiring => uses[Call(d, i).what] \subseteq Must(d, i)
        /\ Call(d, i).op = "put" => \A r \in May(d, i) : Call(d, i).what \notin uses[r]
    /\ \A e \in Ends(d) : \A k \in 1 .. Len(e.list) : \A r \in e.may :
        e.list[k] \in uses[r] => \E j \in 1 .. k - 1 : e.list[j] = r
    /\ \A r \in (Marks \cap Acquired(d)) \ Table[d].managed :
        uses[r] \cap Table[d].managed = {}

BasisIn(d) ==
    [r \in Acquired(d) |-> IF r \in DOMAIN Basis THEN Basis[r] \cap Acquired(d) ELSE {}]

\* Exit waits for these handlers; it does not begin before the others are gone.
CallsIn(d) ==
    [r \in Acquired(d) |->
        IF r \in DOMAIN Table[d].calls \ Pinning THEN Table[d].calls[r] ELSE {}]

\* What a handler uses supports its gate.  A gate that pins the module is open
\* only when no call is left that may fail, and init releases no gate itself.
ClosesGates(d) ==
    /\ Supported(d, CallsIn(d))
    /\ \A i \in 1 .. Done(d) : \A g \in May(d, i) \cap DOMAIN Table[d].calls \cap Pinning :
        /\ Table[d].calls[g] \subseteq Must(d, i)
        /\ i < Done(d) => ~ MayFail(d, i)
    /\ \A i \in 1 .. Done(d) - 1 :
        /\ MayFail(d, i) => Call(d, i).op # "oops"
        /\ Call(d, i).op = "put" => Call(d, i).what \notin DOMAIN Table[d].calls
    /\ Marks \cap DOMAIN Table[d].calls \subseteq Pinning
=============================================================================
