---------------------------- MODULE MCSpinRound ----------------------------
(***************************************************************************)
(* Small instances of SpinRound for TLC.  An outcome pays nothing, half    *)
(* the stake, which an odd stake truncates, or twice the stake.            *)
(***************************************************************************)
EXTENDS SpinRound, TLC

CONSTANTS p1, p2, k1, k2

Stake(k, p, family, n) == [id |-> k, player |-> p, family |-> family, bet |-> n]

Purses == [p \in Players |-> Coins(1, 1, 2)]

\* One id used by two players and with two stakes, another round of one player,
\* and a call of no family.
Rounds == {Stake(k1, p1, "SC", 3), Stake(k1, p1, "SC", 1), Stake(k1, p2, "GC", 1),
           Stake(k2, p1, "SC", 3), Stake(k2, p1, "UNKNOWN", 1)}

\* A bet of ProcessBet under the id of a bet leg.
Intruder == {Stake(k1, p1, "SC", 1)}

Symmetry == Permutations(Spins)
=============================================================================
