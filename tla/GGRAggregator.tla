--------------------------- MODULE GGRAggregator ---------------------------
(***************************************************************************)
(* The revenue roll-up of internal/worker/aggregator.go.  A cycle is one   *)
(* transaction: it locks the watermark row, adds the ledger rows of        *)
(* (watermark, now() - safetyLag] to daily_ggr and moves the watermark to  *)
(* that same upper bound.  now() is the instant of the cycle's own BEGIN.  *)
(* daily_ggr is represented by how often each ledger row was added to it.  *)
(***************************************************************************)
EXTENDS LedgerCalls

CONSTANTS Replicas,   \* engine processes, each running one aggregator
          SafetyLag   \* how far behind now() a cycle stops

ASSUME LagAssumption == SafetyLag \in Nat

VARIABLES watermark,  \* ggr_aggregator_state.last_processed_at
          tally,      \* daily_ggr: how often each call's rows were added
          cycle       \* each replica's cycle

Resting == [st |-> "resting", began |-> 0, last |-> 0, picked |-> {}]

\* Before every ledger row: the '-infinity' of migration 000007.
Genesis == 0 - SafetyLag - 1

AggregatorInit == /\ watermark = Genesis
                  /\ tally = [c \in Calls |-> 0]
                  /\ cycle = [r \in Replicas |-> Resting]

Put(r, f) == cycle' = [cycle EXCEPT ![r] = f]

\* The ticker fires: BEGIN fixes the now() of the whole cycle.
BeginCycle(r) ==
    /\ cycle[r].st = "resting"
    /\ Put(r, [Resting EXCEPT !.st = "begun", !.began = now])
    /\ UNCHANGED <<watermark, tally>>

\* SELECT last_processed_at ... FOR UPDATE waits for the cycle that holds the row.
LockState(r) ==
    /\ cycle[r].st = "begun"
    /\ \A s \in Replicas : cycle[s].st \notin {"locked", "rolled"}
    /\ Put(r, [cycle[r] EXCEPT !.st = "locked", !.last = watermark])
    /\ UNCHANGED <<watermark, tally>>

\* Mutated form of Cutoff: the rows of transactions still in flight are not
\* left to a later cycle.
CutoffNoLag(r) == cycle[r].began

\* The upper end of the cycle's window.
Cutoff(r) == cycle[r].began - SafetyLag

\* The committed rows in the window.
Due(r) == {c \in Calls : /\ Committed(c)
                         /\ cycle[r].last < tx[c].at
                         /\ tx[c].at <= Cutoff(r)}

\* The upsert reads the rows that are committed at that moment.
AggregateGGR(r) ==
    /\ cycle[r].st = "locked"
    /\ Put(r, [cycle[r] EXCEPT !.st = "rolled", !.picked = Due(r)])
    /\ UNCHANGED <<watermark, tally>>

\* The watermark moves and COMMIT makes it durable together with the sums.
AdvanceWatermark(r) ==
    /\ cycle[r].st = "rolled"
    /\ tally' = [c \in Calls |-> IF c \in cycle[r].picked THEN tally[c] + 1 ELSE tally[c]]
    /\ watermark' = Cutoff(r)
    /\ Put(r, Resting)

\* An error, a panic or a crash: PostgreSQL undoes the cycle.
AbandonCycle(r) ==
    /\ cycle[r].st # "resting"
    /\ Put(r, Resting)
    /\ UNCHANGED <<watermark, tally>>

Cycle(r) == \/ BeginCycle(r) \/ LockState(r) \/ AggregateGGR(r) \/ AdvanceWatermark(r)

-----------------------------------------------------------------------------

AggregatorTypeOK ==
    /\ watermark \in Int
    /\ tally \in [Calls -> Nat]
    /\ cycle \in [Replicas -> [st: {"resting", "begun", "locked", "rolled"},
                               began: Ticks, last: Int, picked: SUBSET Calls]]

\* Revenue is exact: daily_ggr holds each committed ledger row up to the
\* watermark once, and none beyond it, however transactions and cycles overlap,
\* fail and are retried (aggregator.go: "no ledger row is ever lost or
\* double-counted").
RevenueIsExact ==
    \A c \in Calls :
        tally[c] = IF Committed(c) /\ tx[c].at <= watermark THEN 1 ELSE 0
=============================================================================
