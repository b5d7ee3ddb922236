----------------------------- MODULE RingIndex -----------------------------
(***************************************************************************)
(* Index arithmetic of struct ring_buffer { data, head, tail }, the same   *)
(* in lessons 27c and 27d: head is the next slot to fill, tail the oldest  *)
(* filled slot, and one slot stays unused so that head = tail means empty. *)
(***************************************************************************)
EXTENDS Integers, Sequences

CONSTANT RING_SIZE

ASSUME RingSizeAssumption == RING_SIZE \in Nat \ {0, 1}

Slots == 0 .. RING_SIZE - 1

\* Mutant: the index is not wrapped.
SuccNoWrap(i) == i + 1

Succ(i) == (i + 1) % RING_SIZE

\* Number of filled slots.
Count(h, t) == IF h >= t THEN h - t ELSE (h - t) + RING_SIZE

\* The filled slots, oldest first.
Contents(d, h, t) == [i \in 1 .. Count(h, t) |-> d[(t + i - 1) % RING_SIZE]]
=============================================================================
