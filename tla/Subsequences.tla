---------------------------- MODULE Subsequences ----------------------------
(***************************************************************************)
(* Array.prototype.filter, as the task plane uses it: the entries of a     *)
(* sequence at some of its positions, in their order.                      *)
(***************************************************************************)
EXTENDS Naturals, Sequences, FiniteSets

\* Which of the positions in I the position i is: the first, the second...
Rank(I, i) == Cardinality({j \in I : j =< i})

Subsequence(s, I) ==
    [n \in 1..Cardinality(I) |-> s[CHOOSE i \in I : Rank(I, i) = n]]
=============================================================================
