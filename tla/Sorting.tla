------------------------------ MODULE Sorting ------------------------------
(***************************************************************************)
(* What a sort returns.                                                    *)
(***************************************************************************)
EXTENDS Integers, FiniteSets

\* s[i] is the element that comes after i - 1 others.
Sorted(S, comes) ==
  [i \in 1..Cardinality(S) |->
     CHOOSE x \in S : Cardinality({y \in S : <<y, x>> \in comes}) = i - 1]
=============================================================================
