------------------------------- MODULE Upkeep -------------------------------
(***************************************************************************)
(* The background workers of one deployment (cmd/engine/main.go starts     *)
(* them side by side) around the ledger that the money flows write: the    *)
(* transactions need the partitions and leave dedup rows; the aggregator   *)
(* reads what they commit, and the pruner deletes what they leave.         *)
(***************************************************************************)
EXTENDS GGRAggregator, DedupPruner, Partitioner

aggregator == <<watermark, tally, cycle>>
pruner     == <<dedup, sweeping>>
partitions == <<parts, strays, runway, covered>>
vars       == <<now, tx, aggregator, pruner, partitions>>

Init == CallsInit /\ AggregatorInit /\ PrunerInit /\ PartitionsInit

Begin(c) == /\ \E k \in Ids : BeginTx(c, k)
            /\ UNCHANGED <<now, aggregator, pruner, partitions>>

\* The ledger rows go to their day's partition, the dedup row is new, COMMIT.
Commit(c) == /\ EndTx(c, "committed")
             /\ RecordId(c)
             /\ Route(tx[c].at)
             /\ UNCHANGED <<now, aggregator>>

\* The dedup row exists: 23505, rolled back and answered from the ledger.
Recognise(c) == /\ EndTx(c, "recovered")
                /\ Known(tx[c].id)
                /\ UNCHANGED <<now, aggregator, pruner, partitions>>

Abort(c) == /\ EndTx(c, "aborted")
            /\ UNCHANGED <<now, aggregator, pruner, partitions>>

Passes == /\ Tick
          /\ UNCHANGED <<tx, aggregator, pruner, partitions>>

Aggregates(r) == /\ Cycle(r) \/ AbandonCycle(r)
                 /\ UNCHANGED <<now, tx, pruner, partitions>>

Prunes == /\ StartSweep \/ PruneBatch \/ AbandonSweep
          /\ UNCHANGED <<now, tx, aggregator, partitions>>

Partitions == /\ StartCycle \/ EnsureNext \/ EnsureDone \/ EnsureBlocked \/ AbandonRunway
              /\ UNCHANGED <<now, tx, aggregator, pruner>>

Next == \/ \E c \in Calls : Begin(c) \/ Commit(c) \/ Recognise(c) \/ Abort(c)
        \/ Passes
        \/ \E r \in Replicas : Aggregates(r)
        \/ Prunes
        \/ Partitions

Spec == Init /\ [][Next]_vars

TypeOK == CallsTypeOK /\ AggregatorTypeOK /\ PrunerTypeOK /\ PartitionsTypeOK
=============================================================================
