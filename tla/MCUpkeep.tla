------------------------------ MODULE MCUpkeep ------------------------------
(***************************************************************************)
(* Small instances of Upkeep for TLC, and a statement of aggregator.go     *)
(* that the code does not keep when there are replicas.                    *)
(***************************************************************************)
EXTENDS Upkeep, TLC

Symmetry == Permutations(Calls)

\* aggregator.go:103-106: the lock "serialises overlapping cycles and multiple
\* replicas: a second worker blocks here, then reads the advanced watermark and finds
\* an empty window": no ledger row is added to the revenue twice.
ReplicasCountOnce == \A c \in Calls : tally[c] <= 1
=============================================================================
