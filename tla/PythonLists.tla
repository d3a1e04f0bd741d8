---------------------------- MODULE PythonLists ----------------------------
(***************************************************************************)
(* What the skills' scripts share: the value None, and the ways they pick  *)
(* from a list by a condition on its elements, given here as the set of    *)
(* positions where it holds: next((x for x in s if ...), None), the last   *)
(* assignment of a loop, and [x for x in s if ...].                        *)
(***************************************************************************)
EXTENDS Naturals, Sequences, FiniteSets, SequencesExt

CONSTANT None

FirstOf(s, I) == IF I = {} THEN None ELSE s[Min(I)]
LastOf(s, I) == IF I = {} THEN None ELSE s[Max(I)]

\* The k-th of a set of positions, and the elements there in their order.
Nth(I, k) == CHOOSE i \in I : Cardinality({j \in I : j <= i}) = k
Kept(s, I) == [k \in 1..Cardinality(I) |-> s[Nth(I, k)]]
=============================================================================
