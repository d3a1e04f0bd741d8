-------------------------- MODULE MCRequestGuards --------------------------
(***************************************************************************)
(* A small instance of RequestGuards for TLC: two messages, of which one   *)
(* may be stamped ahead of the clock, and a nonce that both may carry.     *)
(***************************************************************************)
EXTENDS RequestGuards, TLC

CONSTANTS o1, o2

SomeMessages == {[nonce |-> o1, stamp |-> 1], [nonce |-> o2, stamp |-> 2]}

Rates == [s \in Scopes |-> IF s = "operator" THEN 2 ELSE 1]

Symmetry == Permutations(Calls)
=============================================================================
