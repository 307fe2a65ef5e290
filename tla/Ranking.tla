------------------------------ MODULE Ranking ------------------------------
(***************************************************************************)
(* The elements of a finite set of numbers in their order: what the loops  *)
(* that look at the entries of an array one after the other see.           *)
(***************************************************************************)
EXTENDS Naturals, FiniteSets

Rank(S, n) == Cardinality({m \in S : m < n})
Kth(S, k) == CHOOSE n \in S : Rank(S, n) = k - 1
=============================================================================
