----------------------------- MODULE StartQueue -----------------------------
(***************************************************************************)
(* The operations of std::collections::VecDeque that the engine applies to *)
(* `queue`, the rows that wait for a slot (engine.rs).  A queue is a       *)
(* sequence; the same row may stand in it more than once, because commands *)
(* push without looking and stale entries are dropped only by the next     *)
(* scan that has a free slot.                                              *)
(***************************************************************************)
EXTENDS Naturals, Sequences, FiniteSets

(* The rows that stand in queue q. *)
Entries(q) == {q[n] : n \in DOMAIN q}

(* How many positions of the set K are at most p. *)
Rank(K, p) == Cardinality({m \in K : m <= p})

(***************************************************************************)
(* VecDeque::retain: the entries of q that belong to S, in their order.    *)
(* It is SelectSeq, written without recursion (the n-th kept entry is the  *)
(* one of rank n among the kept positions) so that it can be reasoned      *)
(* about; MCEngine compares the two on short queues.                       *)
(***************************************************************************)
Retain(q, S) ==
  LET kept == {p \in DOMAIN q : q[p] \in S}
  IN  [n \in 1..Cardinality(kept) |-> q[CHOOSE p \in kept : Rank(kept, p) = n]]

(* VecDeque::remove(index), without the entry it returns. *)
DropAt(q, n) == SubSeq(q, 1, n - 1) \o SubSeq(q, n + 1, Len(q))

(* The sequences that hold each member of the finite set S once. *)
Orderings(S) ==
  {q \in [1..Cardinality(S) -> S] :
     \A m, n \in 1..Cardinality(S) : q[m] = q[n] => m = n}
=============================================================================
