------------------------------ MODULE Ordering ------------------------------
(* What is cut and sorted, wherever the code slices and sorts.             *)
EXTENDS Naturals, Sequences, SequencesExt, FiniteSets

Top(seq, n) == SubSeq(seq, 1, IF n < Len(seq) THEN n ELSE Len(seq))

(* What sorting by a strict total order, a set of pairs, gives: in place i,
   the element with i - 1 others before it. *)
Sorted(S, before) ==
  [i \in 1 .. Cardinality(S) |-> CHOOSE x \in S : Cardinality({y \in S : <<y, x>> \in before}) = i - 1]
=============================================================================
