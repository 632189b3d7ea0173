---------------------------- MODULE Subsequences ----------------------------
(***************************************************************************)
(* The part of a sequence at given positions.  It is what SelectSeq is for *)
(* the positions that pass its test, as a definition that proofs can open. *)
(***************************************************************************)
EXTENDS Naturals, Sequences, FiniteSets

\* How many of the positions K come no later than j.
Rank(K, j) == Cardinality({k \in K : k <= j})

\* The elements of s at the positions K, in order.
Subsequence(s, K) ==
  [i \in 1..Cardinality(K) |-> s[CHOOSE j \in K : Rank(K, j) = i]]

=============================================================================
