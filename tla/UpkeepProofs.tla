---------------------------- MODULE UpkeepProofs ----------------------------
(***************************************************************************)
(* Theorems about Upkeep, for any calls, ids, spans and clocks: revenue    *)
(* counts every ledger row once under a single aggregator, an id whose     *)
(* dedup row was pruned is not applied again, and rows are misfiled only   *)
(* when no cycle of the partitioner has covered their day.                 *)
(***************************************************************************)
EXTENDS Upkeep, TLAPS

-----------------------------------------------------------------------------
(* Types, and what is in a transaction.                                    *)

\* A transaction that has begun carries an id, began in the past, and is not
\* open beyond its span.
CallsInv ==
    \A c \in Calls : tx[c].st # "unborn" =>
        /\ tx[c].id \in Ids
        /\ tx[c].at <= now
        /\ Open(c) => now <= tx[c].at + TxSpan

LedgerInv == CallsTypeOK /\ AggregatorTypeOK /\ PrunerTypeOK /\ CallsInv

LEMMA LedgerInit == Init => LedgerInv
<1> SUFFICES ASSUME Init PROVE LedgerInv OBVIOUS
<1> 0 \in Ticks BY TickAssumption DEF Ticks
<1>1. CallsTypeOK BY DEF Init, CallsInit, CallsTypeOK, TxStates, Unborn
<1>2. AggregatorTypeOK
  BY LagAssumption DEF Init, AggregatorInit, AggregatorTypeOK, Resting, Genesis
<1>3. PrunerTypeOK BY DEF Init, PrunerInit, PrunerTypeOK
<1>4. CallsInv BY DEF Init, CallsInit, CallsInv, Unborn
<1> QED BY <1>1, <1>2, <1>3, <1>4 DEF LedgerInv

LEMMA LedgerStep == LedgerInv /\ [Next]_vars => LedgerInv'
<1> SUFFICES ASSUME LedgerInv, [Next]_vars PROVE LedgerInv' OBVIOUS
<1> USE DEF LedgerInv, CallsTypeOK, AggregatorTypeOK, PrunerTypeOK, CallsInv, Open, Ticks,
            aggregator, pruner
<1>1. ASSUME NEW c \in Calls, Begin(c) PROVE LedgerInv'
  BY <1>1, SpanAssumption DEF Begin, BeginTx, TxStates
<1>2. ASSUME NEW c \in Calls, Commit(c) PROVE LedgerInv'
  <2>1. CallsTypeOK' /\ CallsInv' BY <1>2 DEF Commit, EndTx, TxStates
  <2>2. AggregatorTypeOK' BY <1>2 DEF Commit
  <2>3. PrunerTypeOK' BY <1>2 DEF Commit, EndTx, RecordId
  <2> QED BY <2>1, <2>2, <2>3
<1>3. ASSUME NEW c \in Calls, Recognise(c) \/ Abort(c) PROVE LedgerInv'
  <2>1. /\ UNCHANGED <<now, aggregator, pruner>>
        /\ \E st \in {"recovered", "aborted"} : EndTx(c, st)
    BY <1>3 DEF Recognise, Abort
  <2>2. CallsTypeOK' /\ CallsInv' BY <2>1 DEF EndTx, TxStates
  <2>3. AggregatorTypeOK' /\ PrunerTypeOK' BY <2>1
  <2> QED BY <2>2, <2>3
<1>4. ASSUME Passes PROVE LedgerInv'
  BY <1>4, TickAssumption, SpanAssumption DEF Passes, Tick
<1>5. ASSUME NEW r \in Replicas, Aggregates(r) PROVE LedgerInv'
  <2>1. CallsTypeOK' /\ CallsInv' /\ PrunerTypeOK' BY <1>5 DEF Aggregates
  <2> DEFINE CycleType == [st: {"resting", "begun", "locked", "rolled"}, began: Ticks,
                           last: Int, picked: SUBSET Calls]
  <2>2. Due(r) \subseteq Calls /\ Cutoff(r) \in Int BY LagAssumption DEF Due, Cutoff
  <2>3. /\ Resting \in CycleType
        /\ [Resting EXCEPT !.st = "begun", !.began = now] \in CycleType
        /\ [cycle[r] EXCEPT !.st = "locked", !.last = watermark] \in CycleType
        /\ [cycle[r] EXCEPT !.st = "rolled", !.picked = Due(r)] \in CycleType
    <3>1. cycle[r] \in CycleType /\ now \in Ticks OBVIOUS
    <3>2. Resting \in CycleType BY TickAssumption DEF Resting
    <3>3. [Resting EXCEPT !.st = "begun", !.began = now] \in CycleType BY <3>1, <3>2
    <3>4. [cycle[r] EXCEPT !.st = "locked", !.last = watermark] \in CycleType BY <3>1
    <3>5. [cycle[r] EXCEPT !.st = "rolled", !.picked = Due(r)] \in CycleType BY <2>2, <3>1
    <3> QED BY <3>2, <3>3, <3>4, <3>5
  <2>4. \E f \in CycleType : cycle' = [cycle EXCEPT ![r] = f]
    BY <1>5, <2>3 DEF Aggregates, Cycle, BeginCycle, LockState, AggregateGGR, AdvanceWatermark,
                      AbandonCycle, Put
  <2>5. watermark' \in Int /\ tally' \in [Calls -> Nat]
    BY <1>5, <2>2 DEF Aggregates, Cycle, BeginCycle, LockState, AggregateGGR, AdvanceWatermark,
                      AbandonCycle
  <2>6. AggregatorTypeOK' BY <2>4, <2>5
  <2> QED BY <2>1, <2>6
<1>6. ASSUME Prunes PROVE LedgerInv'
  BY <1>6 DEF Prunes, StartSweep, PruneBatch, AbandonSweep
<1>7. ASSUME Partitions \/ UNCHANGED vars PROVE LedgerInv'
  BY <1>7 DEF Partitions, vars
<1> QED BY <1>1, <1>2, <1>3, <1>4, <1>5, <1>6, <1>7 DEF Next

-----------------------------------------------------------------------------
(* Revenue.                                                                *)

\* A cycle under way began at most now and behind no watermark, has read the
\* current watermark once it is locked, and has picked every row that is due
\* once it is rolled up.
CycleInv ==
    /\ watermark <= now - SafetyLag
    /\ \A r \in Replicas : cycle[r].st # "resting" =>
          /\ cycle[r].began <= now
          /\ watermark <= Cutoff(r)
          /\ cycle[r].st \in {"locked", "rolled"} => cycle[r].last = watermark
          /\ cycle[r].st = "rolled" => cycle[r].picked = Due(r)

RevenueInv == LedgerInv /\ CycleInv /\ RevenueIsExact

LEMMA RevenueInit == Init => CycleInv /\ RevenueIsExact
BY LagAssumption
   DEF Init, CallsInit, AggregatorInit, CycleInv, RevenueIsExact, Resting, Genesis, Unborn, Committed

\* What is still open is beyond every cycle's window, so that a COMMIT changes
\* neither what is due nor what the watermark has passed.
LEMMA RevenueStep ==
    ASSUME TxSpan < SafetyLag, \A r, s \in Replicas : r = s,
           RevenueInv, [Next]_vars
    PROVE  CycleInv' /\ RevenueIsExact'
<1> USE SpanAssumption, LagAssumption
<1> USE DEF RevenueInv, LedgerInv, CallsTypeOK, AggregatorTypeOK, Ticks, aggregator
<1>1. ASSUME NEW c \in Calls, Begin(c) PROVE CycleInv' /\ RevenueIsExact'
  <2>1. /\ \A d \in Calls : Committed(d)' <=> Committed(d)
        /\ \A d \in Calls : Committed(d) => tx[d]' = tx[d]
    BY <1>1 DEF Begin, BeginTx, Committed
  <2>2. \A r \in Replicas : Due(r)' = Due(r) /\ Cutoff(r)' = Cutoff(r)
    BY <1>1, <2>1 DEF Begin, Due, Cutoff
  <2> QED BY <1>1, <2>1, <2>2 DEF Begin, CycleInv, RevenueIsExact
<1>2. ASSUME NEW c \in Calls, Commit(c) PROVE CycleInv' /\ RevenueIsExact'
  <2>1. /\ tx[c].at + TxSpan >= now
        /\ ~ Committed(c)
        /\ tx[c].at \in Int /\ now \in Int
    BY <1>2 DEF Commit, EndTx, CallsInv, Open, Committed
  <2>2. tx[c].at > now - SafetyLag BY <2>1
  <2>3. tx' = [tx EXCEPT ![c].st = "committed"] /\ UNCHANGED <<now, watermark, tally, cycle>>
    BY <1>2 DEF Commit, EndTx
  <2>4. /\ \A d \in Calls : tx'[d].at = tx[d].at
        /\ \A d \in Calls : d # c => (Committed(d)' <=> Committed(d))
    BY <2>3 DEF Committed
  <2>5. RevenueIsExact'
    BY <2>1, <2>2, <2>3, <2>4 DEF RevenueIsExact, CycleInv
  <2>6. ASSUME NEW r \in Replicas, cycle[r].st # "resting" PROVE Due(r)' = Due(r)
    <3>1. Cutoff(r) <= now - SafetyLag /\ Cutoff(r) \in Int BY <2>6 DEF CycleInv, Cutoff
    <3>2. c \notin Due(r) /\ c \notin Due(r)'
      BY <2>1, <2>2, <2>3, <2>4, <3>1 DEF Due, Cutoff
    <3> QED BY <2>3, <2>4, <3>2 DEF Due, Cutoff
  <2>7. CycleInv' BY <2>3, <2>6 DEF CycleInv, Cutoff
  <2> QED BY <2>5, <2>7
<1>3. ASSUME NEW c \in Calls, Recognise(c) \/ Abort(c) PROVE CycleInv' /\ RevenueIsExact'
  <2>1. /\ \A d \in Calls : tx'[d].at = tx[d].at /\ (Committed(d)' <=> Committed(d))
        /\ UNCHANGED <<now, watermark, tally, cycle>>
    BY <1>3 DEF Recognise, Abort, EndTx, Committed, Open
  <2>2. \A r \in Replicas : Due(r)' = Due(r) BY <2>1 DEF Due, Cutoff
  <2> QED BY <2>1, <2>2 DEF CycleInv, RevenueIsExact, Cutoff
<1>4. ASSUME Passes PROVE CycleInv' /\ RevenueIsExact'
  <2>1. now' = now + 1 /\ UNCHANGED <<tx, watermark, tally, cycle>> BY <1>4 DEF Passes, Tick
  <2>2. \A r \in Replicas : Due(r)' = Due(r) BY <2>1 DEF Due, Cutoff, Committed
  <2> QED BY <2>1, <2>2 DEF CycleInv, RevenueIsExact, Cutoff, Committed
<1>5. ASSUME NEW r \in Replicas, Aggregates(r) PROVE CycleInv' /\ RevenueIsExact'
  <2> \A s \in Replicas : s = r OBVIOUS
  <2>1. UNCHANGED <<now, tx>> BY <1>5 DEF Aggregates
  <2>2. CASE BeginCycle(r)
    BY <2>1, <2>2 DEF BeginCycle, Put, Resting, CycleInv, RevenueIsExact, Cutoff, Committed
  <2>3. CASE LockState(r)
    BY <2>1, <2>3 DEF LockState, Put, CycleInv, RevenueIsExact, Cutoff, Committed
  <2>4. CASE AggregateGGR(r)
    BY <2>1, <2>4 DEF AggregateGGR, Put, CycleInv, RevenueIsExact, Cutoff, Committed, Due
  <2>5. CASE AdvanceWatermark(r)
    <3>1. /\ cycle[r].picked = {c \in Calls : /\ Committed(c)
                                             /\ watermark < tx[c].at
                                             /\ tx[c].at <= Cutoff(r)}
          /\ watermark <= Cutoff(r) /\ Cutoff(r) <= now - SafetyLag
      BY <2>5 DEF AdvanceWatermark, CycleInv, Due, Cutoff
    <3>2. watermark' = Cutoff(r) /\ cycle'[r].st = "resting"
      BY <2>5 DEF AdvanceWatermark, Put, Resting
    <3>3. CycleInv' BY <2>1, <3>1, <3>2 DEF CycleInv
    <3>4. ASSUME NEW c \in Calls
          PROVE  tally'[c] = IF Committed(c)' /\ tx'[c].at <= watermark' THEN 1 ELSE 0
      <4>1. tally'[c] = IF c \in cycle[r].picked THEN tally[c] + 1 ELSE tally[c]
        BY <2>5 DEF AdvanceWatermark
      <4>2. Committed(c)' <=> Committed(c) BY <2>1 DEF Committed
      <4>3. tx[c].at \in Int /\ watermark \in Int /\ Cutoff(r) \in Int BY DEF Cutoff
      <4> QED BY <2>1, <3>1, <3>2, <4>1, <4>2, <4>3 DEF RevenueIsExact
    <3> QED BY <3>3, <3>4 DEF RevenueIsExact
  <2>6. CASE AbandonCycle(r)
    BY <2>1, <2>6 DEF AbandonCycle, Put, Resting, CycleInv, RevenueIsExact, Committed
  <2> QED BY <1>5, <2>2, <2>3, <2>4, <2>5, <2>6 DEF Aggregates, Cycle
<1>6. ASSUME Prunes \/ Partitions \/ UNCHANGED vars PROVE CycleInv' /\ RevenueIsExact'
  <2>1. UNCHANGED <<now, tx, watermark, tally, cycle>> BY <1>6 DEF Prunes, Partitions, vars
  <2>2. \A r \in Replicas : Due(r)' = Due(r) BY <2>1 DEF Due, Cutoff, Committed
  <2> QED BY <2>1, <2>2 DEF CycleInv, RevenueIsExact, Cutoff, Committed
<1> QED BY <1>1, <1>2, <1>3, <1>4, <1>5, <1>6 DEF Next

\* One aggregator whose lag is longer than any transaction counts every
\* committed ledger row up to its watermark exactly once.
THEOREM RevenueCorrect ==
    ASSUME TxSpan < SafetyLag, \A r, s \in Replicas : r = s
    PROVE  Spec => []RevenueIsExact
<1>1. Init => RevenueInv BY LedgerInit, RevenueInit DEF RevenueInv
<1>2. RevenueInv /\ [Next]_vars => RevenueInv'
  BY LedgerStep, RevenueStep DEF RevenueInv
<1>3. RevenueInv => RevenueIsExact BY DEF RevenueInv
<1> QED BY <1>1, <1>2, <1>3, PTL DEF Spec

-----------------------------------------------------------------------------
(* Pruned ids.                                                             *)

\* Calls of an id begin within the horizon of each other, and a committed one
\* has its dedup row until Retention has passed.
DedupInv ==
    /\ \A c, d \in Calls :
          tx[c].st # "unborn" /\ tx[d].st # "unborn" /\ tx[c].id = tx[d].id
             => tx[d].at <= tx[c].at + RetryHorizon
    /\ \A c \in Calls : Committed(c) =>
          \/ [id |-> tx[c].id, at |-> tx[c].at] \in dedup
          \/ tx[c].at + Retention < now

AppliedInv == LedgerInv /\ DedupInv /\ AppliedOnce

LEMMA AppliedInit == Init => DedupInv /\ AppliedOnce
BY DEF Init, CallsInit, DedupInv, AppliedOnce, Unborn, Committed

LEMMA AppliedStep ==
    ASSUME RetryHorizon + TxSpan <= Retention, AppliedInv, [Next]_vars
    PROVE  DedupInv' /\ AppliedOnce'
<1> USE SpanAssumption, HorizonAssumption, RetentionAssumption
<1> USE DEF AppliedInv, LedgerInv, CallsTypeOK, PrunerTypeOK, Ticks, pruner
<1>1. ASSUME NEW c \in Calls, Begin(c) PROVE DedupInv' /\ AppliedOnce'
  <2>1. PICK k \in Ids : BeginTx(c, k) BY <1>1 DEF Begin
  <2>2. /\ tx[c].st = "unborn"
        /\ tx' = [tx EXCEPT ![c] = [st |-> "open", id |-> k, at |-> now]]
        /\ \A d \in Calls : tx[d].id = k => now <= tx[d].at + RetryHorizon
        /\ UNCHANGED <<now, dedup>>
    BY <1>1, <2>1 DEF Begin, BeginTx, InHorizon
  <2>3. \A d \in Calls : Committed(d)' => d # c /\ Committed(d) BY <2>2 DEF Committed
  <2>4. ASSUME NEW d \in Calls, NEW e \in Calls,
               tx'[d].st # "unborn", tx'[e].st # "unborn", tx'[d].id = tx'[e].id
        PROVE  tx'[e].at <= tx'[d].at + RetryHorizon
    BY <2>2, <2>4 DEF DedupInv, CallsInv
  <2> QED BY <2>2, <2>3, <2>4 DEF DedupInv, AppliedOnce, Committed
<1>2. ASSUME NEW c \in Calls, Commit(c) PROVE DedupInv' /\ AppliedOnce'
  <2>1. /\ tx[c].st = "open" /\ ~ Known(tx[c].id)
        /\ tx' = [tx EXCEPT ![c].st = "committed"]
        /\ dedup' = dedup \union {[id |-> tx[c].id, at |-> tx[c].at]}
        /\ now' = now
    BY <1>2 DEF Commit, EndTx, RecordId, Open
  <2>2. \A d \in Calls : /\ tx'[d].id = tx[d].id /\ tx'[d].at = tx[d].at
                         /\ tx'[d].st # "unborn" => tx[d].st # "unborn"
                         /\ d # c => (Committed(d)' <=> Committed(d))
    BY <2>1 DEF Committed
  <2>3. DedupInv' BY <2>1, <2>2 DEF DedupInv
  <2>4. ASSUME NEW d \in Calls, Committed(d), tx[d].id = tx[c].id PROVE FALSE
    <3>1. tx[d].at + Retention < now BY <2>1, <2>4 DEF Known, DedupInv
    <3>2. tx[c].at <= tx[d].at + RetryHorizon BY <2>1, <2>4 DEF DedupInv, Committed
    <3>3. now <= tx[c].at + TxSpan BY <2>1 DEF CallsInv, Open
    <3> QED BY <3>1, <3>2, <3>3
  <2> QED BY <2>1, <2>2, <2>3, <2>4 DEF AppliedOnce
<1>3. ASSUME NEW c \in Calls, Recognise(c) \/ Abort(c) PROVE DedupInv' /\ AppliedOnce'
  <2>1. /\ \A d \in Calls : /\ tx'[d].at = tx[d].at /\ tx'[d].id = tx[d].id
                            /\ (tx'[d].st # "unborn" <=> tx[d].st # "unborn")
                            /\ (Committed(d)' <=> Committed(d))
        /\ UNCHANGED <<now, dedup>>
    BY <1>3 DEF Recognise, Abort, EndTx, Committed, Open
  <2> QED BY <2>1 DEF DedupInv, AppliedOnce
<1>4. ASSUME Passes PROVE DedupInv' /\ AppliedOnce'
  BY <1>4 DEF Passes, Tick, DedupInv, AppliedOnce, Committed
<1>5. ASSUME Prunes PROVE DedupInv' /\ AppliedOnce'
  <2>1. UNCHANGED <<now, tx>> BY <1>5 DEF Prunes
  <2>2. \A e \in dedup : e \in dedup' \/ Expired(e)
    BY <1>5 DEF Prunes, StartSweep, PruneBatch, AbandonSweep, Batch
  <2>3. ASSUME NEW c \in Calls, Committed(c), [id |-> tx[c].id, at |-> tx[c].at] \notin dedup'
        PROVE  tx[c].at + Retention < now
    BY <2>2, <2>3 DEF DedupInv, Expired
  <2> QED BY <2>1, <2>3 DEF DedupInv, AppliedOnce, Committed
<1>6. ASSUME NEW r \in Replicas, Aggregates(r) PROVE DedupInv' /\ AppliedOnce'
  BY <1>6 DEF Aggregates, DedupInv, AppliedOnce, Committed
<1>7. ASSUME Partitions \/ UNCHANGED vars PROVE DedupInv' /\ AppliedOnce'
  BY <1>7 DEF Partitions, vars, DedupInv, AppliedOnce, Committed
<1> QED BY <1>1, <1>2, <1>3, <1>4, <1>5, <1>6, <1>7 DEF Next

\* When the retention covers the retry horizon and the longest transaction, a
\* transaction is applied once although its dedup row is deleted.
THEOREM AppliedOnceCorrect ==
    ASSUME RetryHorizon + TxSpan <= Retention
    PROVE  Spec => []AppliedOnce
<1>1. Init => AppliedInv BY LedgerInit, AppliedInit DEF AppliedInv
<1>2. AppliedInv /\ [Next]_vars => AppliedInv'
  BY LedgerStep, AppliedStep DEF AppliedInv
<1>3. AppliedInv => AppliedOnce BY DEF AppliedInv
<1> QED BY <1>1, <1>2, <1>3, PTL DEF Spec

-----------------------------------------------------------------------------
(* Partitions.                                                             *)

\* No day has both a partition and strays, the days covered have partitions,
\* and so have those of the statements a cycle has behind it.
FilingInv ==
    /\ DOMAIN parts = Parents /\ DOMAIN strays = Parents
    /\ runway.next \in Nat /\ runway.base \in Int
    /\ \A t \in Parents : parts[t] \intersect strays[t] = {} /\ covered \subseteq parts[t]
    /\ runway.st = "running" =>
          \A n \in 0..(runway.next - 1) : DayOf(n) \in parts[ParentOf(n)]

LEMMA FilingStep ==
    ASSUME LedgerInv, FilingInv, [Next]_vars
    PROVE  FilingInv'
<1> USE DaysAssumption DEF FilingInv, partitions
<1>1. ASSUME NEW c \in Calls, Commit(c) PROVE FilingInv'
  BY <1>1 DEF Commit, Route, DayOf, ParentOf
<1>2. ASSUME Partitions PROVE FilingInv'
  <2>1. CASE StartCycle
    BY <2>1 DEF StartCycle, Day, LedgerInv, CallsTypeOK, Ticks
  <2>2. CASE EnsureNext
    <3> DEFINE t == ParentOf(runway.next)
               d == DayOf(runway.next)
    <3>1. t \in Parents BY DEF ParentOf, Parents
    <3>2. /\ parts' = [parts EXCEPT ![t] = @ \union {d}] /\ strays' = strays
          /\ d \in parts[t] \/ d \notin strays[t]
          /\ runway' = [runway EXCEPT !.next = @ + 1] /\ covered' = covered
      BY <2>2 DEF EnsureNext, CreateDaily
    <3> QED BY <3>1, <3>2 DEF DayOf, ParentOf
  <2>3. CASE EnsureDone
    <3>1. ASSUME NEW t \in Parents, NEW d \in covered' PROVE d \in parts[t]
      <4> DEFINE n == IF t = "ledger_entries" THEN 2 * (d - runway.base)
                      ELSE 2 * (d - runway.base) + 1
      <4>1. d \in runway.base..(runway.base + Lookahead) BY <2>3 DEF EnsureDone
      <4>2. n \in 0..(runway.next - 1) BY <2>3, <4>1 DEF EnsureDone, Statements
      <4>3. DayOf(n) = d /\ ParentOf(n) = t BY <4>1 DEF DayOf, ParentOf, Parents
      <4> QED BY <2>3, <4>2, <4>3 DEF EnsureDone
    <3> QED BY <2>3, <3>1 DEF EnsureDone, Parked
  <2>4. CASE EnsureBlocked \/ AbandonRunway
    BY <2>4 DEF EnsureBlocked, AbandonRunway, Parked
  <2> QED BY <1>2, <2>1, <2>2, <2>3, <2>4 DEF Partitions
<1>3. ASSUME UNCHANGED partitions PROVE FilingInv'
  BY <1>3 DEF DayOf, ParentOf
<1> QED BY <1>1, <1>2, <1>3
        DEF Next, Begin, Recognise, Abort, Passes, Aggregates, Prunes, vars

\* Of a day that the partitioner's last completed cycle covers, no row is ever
\* in a default partition.
THEOREM FiledCorrect == Spec => []MisfiledOnlyInAnOutage
<1>1. Init => LedgerInv /\ FilingInv
  BY LedgerInit, DaysAssumption DEF Init, PartitionsInit, FilingInv, Parked
<1>2. (LedgerInv /\ FilingInv) /\ [Next]_vars => (LedgerInv /\ FilingInv)'
  BY LedgerStep, FilingStep
<1>3. LedgerInv /\ FilingInv => MisfiledOnlyInAnOutage
  BY DEF FilingInv, MisfiledOnlyInAnOutage
<1> QED BY <1>1, <1>2, <1>3, PTL DEF Spec

-----------------------------------------------------------------------------
(* Types of the partitions.                                                *)

\* Days are in the order of their instants.
LEMMA DaysInOrder ==
    ASSUME NEW t \in Ticks PROVE Day(t) \in 0..Day(LastTick)
<1>1. t \in Nat /\ LastTick \in Nat /\ t <= LastTick /\ DayLength \in Nat /\ DayLength > 0
  BY TickAssumption, DaysAssumption DEF Ticks
<1> DEFINE q == t \div DayLength
           u == LastTick \div DayLength
<1>2. q \in Nat /\ u \in Nat /\ t % DayLength \in 0..(DayLength - 1)
      /\ LastTick % DayLength \in 0..(DayLength - 1)
      /\ t = DayLength * q + (t % DayLength)
      /\ LastTick = DayLength * u + (LastTick % DayLength)
  BY <1>1
<1>3. q <= u
  <2> SUFFICES ASSUME u + 1 <= q PROVE FALSE BY <1>2
  <2>1. DayLength * (u + 1) <= DayLength * q BY <1>1, <1>2
  <2> QED BY <1>1, <1>2, <2>1
<1> QED BY <1>2, <1>3 DEF Day

\* A cycle's days are those from a day on the clock to Lookahead days later.
RunwayInv == PartitionsTypeOK /\ runway.base <= Day(LastTick)

LEMMA RunwayInit == Init => RunwayInv
<1> SUFFICES ASSUME Init PROVE RunwayInv OBVIOUS
<1>1. Day(LastTick) \in Nat BY TickAssumption, DaysInOrder DEF Ticks
<1> QED BY <1>1, DaysAssumption
        DEF Init, PartitionsInit, RunwayInv, PartitionsTypeOK, Parked, Days, Statements

LEMMA RunwayStep == LedgerInv /\ RunwayInv /\ [Next]_vars => RunwayInv'
<1> SUFFICES ASSUME LedgerInv, RunwayInv, [Next]_vars PROVE RunwayInv' OBVIOUS
<1> USE DEF RunwayInv, PartitionsTypeOK, partitions
<1>d. /\ Day(LastTick) \in Nat /\ Lookahead \in Nat /\ BootDays \in Nat
      /\ Statements \in Nat /\ Statements = 2 * (Lookahead + 1)
  BY TickAssumption, DaysAssumption, DaysInOrder DEF Ticks, Statements
<1>1. ASSUME NEW c \in Calls, Commit(c) PROVE RunwayInv'
  <2>1. Day(tx[c].at) \in Days
    BY <1>d, DaysInOrder DEF LedgerInv, CallsTypeOK, Days
  <2> QED BY <1>1, <2>1 DEF Commit, Route
<1>2. ASSUME Partitions PROVE RunwayInv'
  <2>1. CASE StartCycle
    <3>1. Day(now) \in Days /\ Day(now) <= Day(LastTick)
      BY <1>d, DaysInOrder DEF LedgerInv, CallsTypeOK, Days
    <3> QED BY <1>d, <2>1, <3>1 DEF StartCycle
  <2>2. CASE EnsureNext
    <3>1. runway.next \in 0..Statements /\ runway.next < Statements /\ runway.base \in Days
      BY <2>2 DEF EnsureNext
    <3>2. DayOf(runway.next) \in Days BY <1>d, <3>1 DEF DayOf, Days
    <3>3. parts' \in [Parents -> SUBSET Days] BY <2>2, <3>2 DEF EnsureNext, CreateDaily
    <3>4. runway' \in [st: {"parked", "running"}, base: Days, next: 0..Statements]
          /\ runway'.base = runway.base
      BY <1>d, <2>2, <3>1 DEF EnsureNext
    <3> QED BY <2>2, <3>3, <3>4 DEF EnsureNext
  <2>3. 0 \in Days /\ 0 \in 0..Statements BY <1>d DEF Days
  <2>4. CASE EnsureDone
    <3>1. runway.base..(runway.base + Lookahead) \subseteq Days BY <1>d DEF Days
    <3> QED BY <1>d, <2>3, <2>4, <3>1 DEF EnsureDone, Parked
  <2>5. CASE EnsureBlocked \/ AbandonRunway
    BY <1>d, <2>3, <2>5 DEF EnsureBlocked, AbandonRunway, Parked
  <2> QED BY <1>2, <2>1, <2>2, <2>4, <2>5 DEF Partitions
<1>3. ASSUME UNCHANGED partitions PROVE RunwayInv'
  BY <1>3
<1> QED BY <1>1, <1>2, <1>3
        DEF Next, Begin, Recognise, Abort, Passes, Aggregates, Prunes, vars

\* However the calls and the workers interleave, every variable keeps its type: the
\* days of partitions, strays and cycles are days the clock can bring about.
THEOREM UpkeepTypes == Spec => []TypeOK
<1>1. Init => LedgerInv /\ RunwayInv BY LedgerInit, RunwayInit
<1>2. (LedgerInv /\ RunwayInv) /\ [Next]_vars => (LedgerInv /\ RunwayInv)'
  BY LedgerStep, RunwayStep
<1>3. LedgerInv /\ RunwayInv => TypeOK BY DEF LedgerInv, RunwayInv, TypeOK
<1> QED BY <1>1, <1>2, <1>3, PTL DEF Spec
=============================================================================
