---------------------------- MODULE DedupPruner ----------------------------
(***************************************************************************)
(* The idempotency rows of the database (ledger_transaction_dedup) and the *)
(* worker that deletes the old ones, internal/worker/dedup_prune.go.  The  *)
(* Redis payload of a call is taken to be gone, so that the dedup row is   *)
(* all that stands between a retry and a second application.               *)
(***************************************************************************)
EXTENDS LedgerCalls

CONSTANTS Retention,  \* how long a dedup row is kept
          BatchSize   \* rows deleted per statement

ASSUME RetentionAssumption == Retention \in Nat
ASSUME BatchAssumption     == BatchSize \in Nat \ {0}

VARIABLES dedup,    \* ledger_transaction_dedup: [id, at]
          sweeping  \* the pruner is between two batches of a sweep

PrunerInit == dedup = {} /\ sweeping = FALSE

Known(k) == \E d \in dedup : d.id = k

\* The INSERT of a call: its dedup row carries the created_at of its transaction.
RecordId(c) == /\ ~ Known(tx[c].id)
               /\ dedup' = dedup \union {[id |-> tx[c].id, at |-> tx[c].at]}
               /\ UNCHANGED sweeping

\* Mutated form of Expired: rows are kept too short a time by one TxSpan.
ExpiredEarly(d) == d.at < now - RetryHorizon

Expired(d) == d.at < now - Retention

\* The oldest expired rows, at most BatchSize of them.
Batch(B) == /\ B \subseteq {d \in dedup : Expired(d)}
            /\ Cardinality(B) <= BatchSize
            /\ \A d \in dedup \ B : Expired(d) =>
                 Cardinality(B) = BatchSize /\ \A b \in B : b.at <= d.at

\* At boot and on every tick of the pruner.
StartSweep == /\ ~ sweeping
              /\ sweeping' = TRUE
              /\ UNCHANGED dedup

\* One autocommit DELETE; a batch that is not full ends the sweep.
PruneBatch == /\ sweeping
              /\ \E B \in SUBSET dedup :
                   /\ Batch(B)
                   /\ dedup' = dedup \ B
                   /\ sweeping' = (Cardinality(B) = BatchSize)

\* The DELETE fails, or the process stops between two batches.
AbandonSweep == /\ sweeping
                /\ sweeping' = FALSE
                /\ UNCHANGED dedup

-----------------------------------------------------------------------------

PrunerTypeOK == /\ dedup \subseteq [id: Ids, at: Ticks]
                /\ sweeping \in BOOLEAN

\* A retry never applies a transaction again, though its dedup row is deleted
\* after Retention (dedup_prune.go: "a duplicate can never arrive after its
\* dedup row is gone").
AppliedOnce ==
    \A c, d \in Calls :
        Committed(c) /\ Committed(d) /\ tx[c].id = tx[d].id => c = d
=============================================================================
