------------------------------ MODULE Ordering ------------------------------
(***************************************************************************)
(* The members of a finite set of numbers, smallest first: what ORDER BY   *)
(* and sorted() give.                                                      *)
(***************************************************************************)
EXTENDS Naturals, FiniteSets

InOrder(S) ==
  [i \in 1..Cardinality(S) |-> CHOOSE n \in S : Cardinality({m \in S : m < n}) = i - 1]
=============================================================================
