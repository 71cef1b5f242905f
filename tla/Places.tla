------------------------------- MODULE Places -------------------------------
(***************************************************************************)
(* Sequences, place by place: what a loop over a slice keeps of it, stated *)
(* by the set of the places it keeps.                                      *)
(***************************************************************************)
EXTENDS Naturals, Sequences, FiniteSets

\* The members of a set of numbers, in order.
InOrder(S) ==
  [i \in 1 .. Cardinality(S) |->
     CHOOSE k \in S : Cardinality({j \in S : j < k}) = i - 1]

\* What stands at those places.
Picked(s, S) == [i \in 1 .. Cardinality(S) |-> s[InOrder(S)[i]]]
=============================================================================
