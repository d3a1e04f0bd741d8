------------------------- MODULE WalletEngineProofs -------------------------
(***************************************************************************)
(* Theorems about WalletEngine and the audit of its ledger, for any sets   *)
(* of calls, ids, players and requests and any opening wallets.            *)
(***************************************************************************)
EXTENDS LedgerAudit, MoneyProofs

-----------------------------------------------------------------------------
(* Types.                                                                  *)

\* A call past its arrival carries a request, and a call about to commit has
\* a post-state that the wallets table accepts.
CallsInv == \A a \in Attempts : /\ pc[a] # "idle" => req[a] \in Requests
                                /\ pc[a] = "commit" => Within(Post(a))

TypeInv == TypeOK /\ CallsInv

LEMMA CallTypes ==
    ASSUME TypeInv, NEW a \in Attempts, pc[a] # "idle"
    PROVE  /\ req[a] \in Requests /\ req[a] \in Request
           /\ Id(a) \in Ids
           /\ Player(a) \in Players
           /\ Announced(req[a]) \in Int
BY RequestsAssumption DEF TypeInv, CallsInv, Request, Id, Player, Announced

\* What the guards admit is a plan.
LEMMA MovementType ==
    ASSUME TypeInv, NEW a \in Attempts, pc[a] # "idle", CanMove(req[a], seen[a])
    PROVE  Movement(req[a], seen[a]) \in Deltas
<1> DEFINE r == req[a]
<1>1. r \in Request BY CallTypes
<1>2. seen[a] \in Deltas BY DEF TypeInv, TypeOK
<1>3. BetDebits(seen[a], r.family, r.amount) \in Deltas
  BY <1>1, <1>2, FlowPlanTypes DEF Request
<1>4. /\ WinCredit(r.family, r.amount) \in Deltas
      /\ IssueCredit(r.amount, r.sc) \in Deltas
      /\ RedeemDebit(r.amount) \in Deltas
  BY <1>1, <1>2, FlowPlanTypes, WalletIsPlan DEF Request
<1>5. ASSUME r.kind = "ROLLBACK" PROVE Reversal(r) \in Deltas
  <2>1. Reversible(r) # {} BY <1>5 DEF CanMove
  <2>2. (CHOOSE t \in Reversible(r) : TRUE) \in ledger BY <2>1 DEF Reversible
  <2>3. (CHOOSE t \in Reversible(r) : TRUE).delta \in Deltas
    BY <2>2 DEF TypeInv, TypeOK, LedgerTx
  <2> QED BY <2>3, PlanTypes DEF Reversal
<1>6. /\ Negated(BetDebits(seen[a], r.family, r.amount)) \in Deltas
      /\ Negated(RedeemDebit(r.amount)) \in Deltas
  BY <1>3, <1>4, PlanTypes
<1> QED BY <1>4, <1>5, <1>6 DEF Movement

LEMMA TypeInit == Init => TypeInv
<1> SUFFICES ASSUME Init PROVE TypeInv OBVIOUS
<1>1. Nothing \in Deltas BY WalletIsPlan
<1>2. Absent \in RedisEntry BY DEF Absent, RedisEntry
<1> QED BY <1>1, <1>2, OpeningAssumption
        DEF Init, TypeInv, TypeOK, CallsInv, AllStandings, Places, Replies

LEMMA TypeStep == TypeInv /\ [Next]_vars => TypeInv'
<1> SUFFICES ASSUME TypeInv, [Next]_vars PROVE TypeInv' OBVIOUS
<1> USE DEF TypeInv, CallsInv, TypeOK, Goto, Answer, store, attempt
<1>1. ASSUME NEW a \in Attempts, Arrive(a) PROVE TypeInv'
  BY <1>1 DEF Arrive, Places, Replies, Post
<1>2. ASSUME NEW a \in Attempts, Claim(a) PROVE TypeInv'
  <2>1. Marker(a) \in RedisEntry
    BY <1>2, CallTypes DEF Claim, Marker, Fingerprint, RedisEntry, Request
  <2> QED BY <1>2, <2>1 DEF Claim, Places, Post
<1>3. ASSUME NEW a \in Attempts, AnswerPending(a) PROVE TypeInv'
  BY <1>3 DEF AnswerPending, Places, Replies, Post
<1>4. ASSUME NEW a \in Attempts, AnswerCached(a) PROVE TypeInv'
  BY <1>4, CallTypes DEF AnswerCached, RedisEntry, Places, Replies, Post
<1>5. ASSUME NEW a \in Attempts, AnswerMismatch(a) PROVE TypeInv'
  BY <1>5 DEF AnswerMismatch, Places, Replies, Post
<1>6. ASSUME NEW a \in Attempts, BarrierDown(a) PROVE TypeInv'
  <2>1. Marker(a) \in RedisEntry
    BY <1>6, CallTypes DEF BarrierDown, Marker, Fingerprint, RedisEntry, Request
  <2>2. redis' \in [Ids -> RedisEntry]
    BY <1>6, <2>1 DEF BarrierDown
  <2> QED BY <1>6, <2>2 DEF BarrierDown, Places, Replies, Post
<1>7. ASSUME NEW a \in Attempts, LockWallet(a) PROVE TypeInv'
  <2>1. balance[Player(a)] \in Deltas
    BY <1>7, CallTypes, BoundsAssumption DEF LockWallet, Deltas
  <2> QED BY <1>7, <2>1, CallTypes DEF LockWallet, Places, Post
<1>8. ASSUME NEW a \in Attempts, Admit(a) PROVE TypeInv'
  <2>1. Movement(req[a], seen[a]) \in Deltas
    BY <1>8, MovementType DEF Admit, Admissible
  <2> QED BY <1>8, <2>1 DEF Admit, Places, Post
<1>9. ASSUME NEW a \in Attempts, Refuse(a) PROVE TypeInv'
  BY <1>9, WalletIsPlan DEF Refuse, Abort, EndTx, Unlocked, Places, Replies, Post
<1>10. ASSUME NEW a \in Attempts, UpdateRejected(a) PROVE TypeInv'
  BY <1>10, WalletIsPlan DEF UpdateRejected, Abort, EndTx, Unlocked, Places, Replies, Post
<1>11. ASSUME NEW a \in Attempts, Fail(a) PROVE TypeInv'
  BY <1>11, WalletIsPlan DEF Fail, Abort, EndTx, Unlocked, Places, Replies, Post
<1>12. ASSUME NEW a \in Attempts, InsertLedgerTx(a) PROVE TypeInv'
  BY <1>12 DEF InsertLedgerTx, Places, Post
<1>13. ASSUME NEW a \in Attempts, DuplicateLedgerTx(a) PROVE TypeInv'
  BY <1>13, WalletIsPlan DEF DuplicateLedgerTx, Abort, EndTx, Unlocked, Places, Post
<1>14. ASSUME NEW a \in Attempts, pc[a] = "commit", Persist(a)
       PROVE  /\ balance' \in [Players -> [Currencies -> 0..MaxBalance]]
              /\ holder' \in [Players -> Attempts \union {None}]
              /\ ledger' \subseteq LedgerTx
              /\ entries' \in [Players -> Deltas]
              /\ dedup' \subseteq Ids
              /\ seen' \in [Attempts -> Deltas]
              /\ delta' \in [Attempts -> Deltas]
              /\ \A b \in Attempts \ {a} : Post(b)' = Post(b)
  <2>1. Post(a) \in [Currencies -> 0..MaxBalance]
    BY <1>14, BoundsAssumption, PlanTypes DEF Within, Post, Plus, Deltas
  <2>2. Tx(a) \in LedgerTx
    BY <1>14, CallTypes DEF Tx, LedgerTx, Request
  <2>3. Plus(entries[Player(a)], delta[a]) \in Deltas
    BY <1>14, CallTypes, PlanTypes
  <2> QED BY <1>14, <2>1, <2>2, <2>3, CallTypes, WalletIsPlan
          DEF Persist, EndTx, Unlocked, Post
<1>15. ASSUME NEW a \in Attempts, Commit(a) PROVE TypeInv'
  <2>1. Headline(a) \in Int
    BY <1>15, CallTypes, PlanTypes DEF Commit, Headline
  <2>2. ReceiptOf(a, a, Headline(a)) \in Receipt
    BY <1>15, <2>1, CallTypes DEF Commit, ReceiptOf, Receipt, Request
  <2> QED BY <1>14, <1>15, <2>2 DEF Commit, Places, Replies
<1>16. ASSUME NEW a \in Attempts, CommitUnacknowledged(a) PROVE TypeInv'
  BY <1>14, <1>16 DEF CommitUnacknowledged, Places, Replies
<1>17. ASSUME NEW a \in Attempts, Recover(a) PROVE TypeInv'
  <2>1. ASSUME NEW t \in ledger PROVE ReceiptOf(a, t.lid, Announced(req[a])) \in Receipt
    BY <1>17, CallTypes DEF Recover, ReceiptOf, Receipt, LedgerTx, Request
  <2> QED BY <1>17, <2>1 DEF Recover, Places, Replies, Post
<1>18. ASSUME NEW a \in Attempts, RecoverConflict(a) PROVE TypeInv'
  BY <1>18 DEF RecoverConflict, Places, Replies, Post
<1>19. ASSUME NEW a \in Attempts, CacheResult(a) PROVE TypeInv'
  <2>1. Payload(a) \in RedisEntry
    BY <1>19, CallTypes DEF CacheResult, Payload, Fingerprint, RedisEntry, Request
  <2>2. redis' \in [Ids -> RedisEntry]
    BY <1>19, <2>1 DEF CacheResult
  <2> QED BY <1>19, <2>2 DEF CacheResult, Places, Post
<1>20. ASSUME NEW a \in Attempts, Release(a) PROVE TypeInv'
  <2>1. redis' \in [Ids -> RedisEntry]
    BY <1>20 DEF Release, Absent, RedisEntry
  <2> QED BY <1>20, <2>1 DEF Release, Places, Post
<1>21. ASSUME NEW a \in Attempts, Crash(a) PROVE TypeInv'
  BY <1>21, WalletIsPlan DEF Crash, Abort, EndTx, Unlocked, Places, Post
<1>22. ASSUME NEW k \in Ids, Expire(k) PROVE TypeInv'
  BY <1>22 DEF Expire, Absent, RedisEntry, Post
<1>23. ASSUME NEW p \in Players, ChangeStanding(p) PROVE TypeInv'
  BY <1>23, StandingsAssumption DEF ChangeStanding, Post
<1>24. ASSUME UNCHANGED vars PROVE TypeInv'
  BY <1>24 DEF vars, Post
<1> QED
  BY <1>1, <1>2, <1>3, <1>4, <1>5, <1>6, <1>7, <1>8, <1>9, <1>10, <1>11, <1>12, <1>13,
     <1>15, <1>16, <1>17, <1>18, <1>19, <1>20, <1>21, <1>22, <1>23, <1>24
  DEF Next, Step, Fault, Acquire, Transact, Conclude, Finished

\* Every variable keeps its type, and every balance its column's range.
THEOREM TypeCorrect == Spec => []TypeOK
<1>1. TypeInv => TypeOK BY DEF TypeInv
<1> QED BY TypeInit, TypeStep, <1>1, PTL DEF Spec

-----------------------------------------------------------------------------
(* The wallet row lock.                                                    *)

\* The only steps that write a wallet row, and the only ones that free a lock.
LEMMA SnapshotStep ==
    TypeInv /\ SnapshotIsCurrent /\ [Next]_vars => SnapshotIsCurrent'
<1> SUFFICES ASSUME TypeInv, SnapshotIsCurrent, [Next]_vars PROVE SnapshotIsCurrent'
  OBVIOUS
<1> USE DEF TypeInv, TypeOK, SnapshotIsCurrent, Goto, Answer, store, attempt, Player
<1>1. ASSUME NEW a \in Attempts, Arrive(a) PROVE SnapshotIsCurrent'
  BY <1>1 DEF Arrive
<1>2. ASSUME NEW a \in Attempts, Acquire(a) \/ BarrierDown(a) PROVE SnapshotIsCurrent'
  BY <1>2 DEF Acquire, Claim, AnswerPending, AnswerCached, AnswerMismatch, BarrierDown
<1>3. ASSUME NEW a \in Attempts, LockWallet(a) PROVE SnapshotIsCurrent'
  BY <1>3, CallTypes, NoneAssumption DEF LockWallet
<1>4. ASSUME NEW a \in Attempts, Admit(a) \/ InsertLedgerTx(a) PROVE SnapshotIsCurrent'
  BY <1>4 DEF Admit, InsertLedgerTx
\* No other call in a transaction loses its lock when this one ends.
<1>5. ASSUME NEW a \in Attempts, EndTx(a), pc' = [pc EXCEPT ![a] = pc'[a]], UNCHANGED req,
             pc'[a] \notin {"locked", "insert", "commit"}, UNCHANGED balance
      PROVE  SnapshotIsCurrent'
  BY <1>5, CallTypes DEF EndTx, Unlocked
<1>6. ASSUME NEW a \in Attempts,
             Refuse(a) \/ UpdateRejected(a) \/ Fail(a) \/ DuplicateLedgerTx(a) \/ Crash(a)
      PROVE  SnapshotIsCurrent'
  BY <1>5, <1>6 DEF Refuse, UpdateRejected, Fail, DuplicateLedgerTx, Crash, Abort
\* A wallet row is written under its lock, so under no one else's snapshot.
<1>7. ASSUME NEW a \in Attempts, Commit(a) \/ CommitUnacknowledged(a)
      PROVE  SnapshotIsCurrent'
  BY <1>7, CallTypes DEF Commit, CommitUnacknowledged, Persist, EndTx, Unlocked
<1>8. ASSUME NEW a \in Attempts, Conclude(a) PROVE SnapshotIsCurrent'
  BY <1>8 DEF Conclude, Recover, RecoverConflict, CacheResult, Release
<1>9. ASSUME NEW k \in Ids, Expire(k) PROVE SnapshotIsCurrent'
  BY <1>9 DEF Expire
<1>10. ASSUME NEW p \in Players, ChangeStanding(p) PROVE SnapshotIsCurrent'
  BY <1>10 DEF ChangeStanding
<1>11. ASSUME UNCHANGED vars PROVE SnapshotIsCurrent'
  BY <1>11 DEF vars
<1> QED BY <1>1, <1>2, <1>3, <1>4, <1>6, <1>7, <1>8, <1>9, <1>10, <1>11
        DEF Next, Step, Fault, Transact, Finished

\* What a transaction read of the wallet is the committed row until it ends.
THEOREM SnapshotTheorem == Spec => []SnapshotIsCurrent
<1>1. Init => SnapshotIsCurrent BY DEF Init, SnapshotIsCurrent
<1> QED BY <1>1, TypeInit, TypeStep, SnapshotStep, PTL DEF Spec

-----------------------------------------------------------------------------
(* The ledger and its cache.                                               *)

\* The committed rows change by COMMIT alone.
LEMMA OnlyCommitWrites ==
    ASSUME TypeInv, [Next]_vars
    PROVE  \/ \E a \in Attempts : pc[a] = "commit" /\ pc'[a] \in {"store", "release"} /\ Persist(a)
           \/ UNCHANGED <<balance, ledger, entries, dedup>>
<1> USE DEF store, attempt, TypeInv, TypeOK, Goto, Answer
<1>1. ASSUME NEW a \in Attempts, Arrive(a) \/ Step(a) \/ Fault(a)
      PROVE  \/ pc[a] = "commit" /\ pc'[a] \in {"store", "release"} /\ Persist(a)
             \/ UNCHANGED <<balance, ledger, entries, dedup>>
  BY <1>1 DEF Step, Fault, Acquire, Transact, Conclude, Arrive, Claim, AnswerPending,
       AnswerCached, AnswerMismatch, BarrierDown, LockWallet, Admit, Refuse, UpdateRejected,
       Fail, InsertLedgerTx, DuplicateLedgerTx, Commit, CommitUnacknowledged, Recover,
       RecoverConflict, CacheResult, Release, Crash, Abort
<1>2. ASSUME NEW k \in Ids, Expire(k) PROVE UNCHANGED <<balance, ledger, entries, dedup>>
  BY <1>2 DEF Expire
<1>3. ASSUME NEW p \in Players, ChangeStanding(p)
      PROVE  UNCHANGED <<balance, ledger, entries, dedup>>
  BY <1>3 DEF ChangeStanding
<1>4. ASSUME UNCHANGED vars PROVE UNCHANGED <<balance, ledger, entries, dedup>>
  BY <1>4 DEF vars
<1> QED BY <1>1, <1>2, <1>3, <1>4 DEF Next, Finished

LEMMA WalletStep ==
    TypeInv /\ SnapshotIsCurrent /\ WalletMatchesLedger /\ [Next]_vars => WalletMatchesLedger'
<1> SUFFICES ASSUME TypeInv, SnapshotIsCurrent, WalletMatchesLedger, [Next]_vars
             PROVE  WalletMatchesLedger'
  OBVIOUS
<1>1. ASSUME NEW a \in Attempts, pc[a] = "commit", Persist(a) PROVE WalletMatchesLedger'
  <2> DEFINE p == Player(a)
  <2>1. p \in Players BY <1>1, CallTypes
  <2>2. seen[a] = Plus(Opening[p], entries[p])
    BY <1>1, <2>1 DEF SnapshotIsCurrent, WalletMatchesLedger
  <2>3. /\ delta[a] \in Deltas /\ entries[p] \in Deltas
        /\ Opening[p] \in [Currencies -> Int]
    BY <2>1, OpeningAssumption, BoundsAssumption DEF TypeInv, TypeOK
  <2>4. Plus(Plus(Opening[p], entries[p]), delta[a]) = Plus(Opening[p], Plus(entries[p], delta[a]))
    BY <2>3 DEF Plus, Deltas
  <2>5. balance'[p] = Plus(Opening[p], entries'[p])
    BY <1>1, <2>1, <2>2, <2>4 DEF Persist, Post, TypeInv, TypeOK
  <2> QED BY <1>1, <2>5 DEF Persist, WalletMatchesLedger, TypeInv, TypeOK
<1>2. ASSUME UNCHANGED <<balance, entries>> PROVE WalletMatchesLedger'
  BY <1>2 DEF WalletMatchesLedger
<1> QED BY <1>1, <1>2, OnlyCommitWrites

\* The wallet row never departs from the ledger it caches.
THEOREM WalletIsLedger == Spec => []WalletMatchesLedger
<1>1. Init => WalletMatchesLedger
  <2> SUFFICES ASSUME Init, NEW p \in Players PROVE balance[p] = Plus(Opening[p], entries[p])
    BY DEF WalletMatchesLedger
  <2>1. Opening[p] \in [Currencies -> Int] BY OpeningAssumption, BoundsAssumption
  <2>2. Plus(Opening[p], Nothing) = Opening[p]
    BY <2>1 DEF Plus, Nothing, Coins
  <2> QED BY <2>2 DEF Init
<1>2. Init => SnapshotIsCurrent BY DEF Init, SnapshotIsCurrent
<1> QED BY <1>1, <1>2, TypeInit, TypeStep, SnapshotStep, WalletStep, PTL DEF Spec

-----------------------------------------------------------------------------
(* Exactly once.                                                           *)

\* The dedup rows are the ids of the ledger; a call about to commit an id has
\* found it absent, and no one else is about to commit it.
DedupInv ==
    /\ dedup = {t.id : t \in ledger}
    /\ \A a \in Attempts : pc[a] = "commit" =>
         /\ Id(a) \notin dedup
         /\ \A b \in Attempts \ {a} : pc[b] = "commit" => Id(b) # Id(a)

\* A call about to commit was about to commit before the step, unless it is
\* the call that has just inserted its rows.
LEMMA OnlyInsertPrepares ==
    ASSUME TypeInv, [Next]_vars
    PROVE  \/ \E a \in Attempts : InsertLedgerTx(a)
           \/ \A b \in Attempts : pc'[b] = "commit" =>
                pc[b] = "commit" /\ req'[b] = req[b] /\ seen'[b] = seen[b] /\ delta'[b] = delta[b]
<1> DEFINE Same == \A b \in Attempts : pc'[b] = "commit" =>
                     pc[b] = "commit" /\ req'[b] = req[b] /\ seen'[b] = seen[b] /\ delta'[b] = delta[b]
<1> USE DEF TypeInv, TypeOK, store, attempt, Goto, Answer
<1>1. ASSUME NEW a \in Attempts, Arrive(a) \/ Acquire(a) \/ Conclude(a) \/ BarrierDown(a)
      PROVE  Same
  BY <1>1 DEF Acquire, Conclude, Arrive, Claim, AnswerPending, AnswerCached, AnswerMismatch,
       BarrierDown, Recover, RecoverConflict, CacheResult, Release
<1>2. ASSUME NEW a \in Attempts, Transact(a) \/ Fault(a), ~ BarrierDown(a), ~ InsertLedgerTx(a)
      PROVE  Same
  BY <1>2 DEF Transact, Fault, LockWallet, Admit, Refuse, UpdateRejected, Fail, DuplicateLedgerTx,
       Commit, CommitUnacknowledged, Crash, Abort, Persist, EndTx
<1>3. ASSUME NEW k \in Ids, Expire(k) PROVE Same
  BY <1>3 DEF Expire
<1>4. ASSUME NEW p \in Players, ChangeStanding(p) PROVE Same
  BY <1>4 DEF ChangeStanding
<1>5. ASSUME UNCHANGED vars PROVE Same
  BY <1>5 DEF vars
<1> QED BY <1>1, <1>2, <1>3, <1>4, <1>5 DEF Next, Step, Fault, Finished

LEMMA DedupStep == TypeInv /\ DedupInv /\ [Next]_vars => DedupInv'
<1> SUFFICES ASSUME TypeInv, DedupInv, [Next]_vars PROVE DedupInv' OBVIOUS
<1> USE DEF DedupInv, Id
\* The INSERT waits for every other call that has inserted the same id.
<1>1. ASSUME NEW a \in Attempts, InsertLedgerTx(a) PROVE DedupInv'
  <2>1. UNCHANGED <<ledger, dedup, req>> /\ Id(a) \notin dedup
    BY <1>1 DEF InsertLedgerTx, store
  <2>2. \A b \in Attempts : pc'[b] = "commit" => b = a \/ pc[b] = "commit"
    BY <1>1 DEF InsertLedgerTx, Goto, TypeInv, TypeOK
  <2>3. \A b \in Attempts \ {a} : pc[b] = "commit" => Id(b) # Id(a)
    BY <1>1 DEF InsertLedgerTx, InFlight
  <2>4. dedup' = {t.id : t \in ledger'} BY <2>1
  <2>5. \A b \in Attempts : pc'[b] = "commit" =>
          /\ req'[b].id \notin dedup'
          /\ \A c \in Attempts \ {b} : pc'[c] = "commit" => req'[c].id # req'[b].id
    BY <2>1, <2>2, <2>3
  <2> QED BY <2>4, <2>5
<1>2. ASSUME NEW a \in Attempts, pc[a] = "commit", Persist(a), pc'[a] # "commit",
             ~ \E b \in Attempts : InsertLedgerTx(b)
      PROVE  DedupInv'
  <2>1. dedup' = {t.id : t \in ledger'}
    <3>1. Tx(a).id = Id(a) BY DEF Tx
    <3>2. ledger' = ledger \union {Tx(a)} /\ dedup' = dedup \union {Id(a)}
      BY <1>2 DEF Persist
    <3>3. dedup = {t.id : t \in ledger} OBVIOUS
    <3> HIDE DEF Id
    <3> QED BY <3>1, <3>2, <3>3
  <2>2. \A b \in Attempts : pc'[b] = "commit" =>
          pc[b] = "commit" /\ req'[b] = req[b] /\ b # a
    BY <1>2, OnlyInsertPrepares
  <2>3. \A b \in Attempts : pc'[b] = "commit" => req'[b].id \notin dedup'
    <3> SUFFICES ASSUME NEW b \in Attempts, pc'[b] = "commit"
                 PROVE  req'[b].id \notin dedup'
      OBVIOUS
    <3>1. req[b].id \notin dedup /\ req[b].id # req[a].id BY <1>2, <2>2
    <3>2. dedup' = dedup \union {req[a].id} BY <1>2 DEF Persist
    <3> QED BY <2>2, <3>1, <3>2
  <2>4. \A b \in Attempts : pc'[b] = "commit" =>
          \A c \in Attempts \ {b} : pc'[c] = "commit" => req'[c].id # req'[b].id
    BY <2>2
  <2> QED BY <2>1, <2>3, <2>4
<1>3. ASSUME UNCHANGED <<ledger, dedup>>, ~ \E b \in Attempts : InsertLedgerTx(b)
      PROVE  DedupInv'
  BY <1>3, OnlyInsertPrepares
<1> QED BY <1>1, <1>2, <1>3, OnlyCommitWrites

\* One ledger transaction per operator transaction id, for ever.
LEMMA AtMostOnceStep ==
    TypeInv /\ DedupInv /\ AtMostOnce /\ [Next]_vars => AtMostOnce'
<1> SUFFICES ASSUME TypeInv, DedupInv, AtMostOnce, [Next]_vars PROVE AtMostOnce' OBVIOUS
<1>1. ASSUME NEW a \in Attempts, pc[a] = "commit", Persist(a) PROVE AtMostOnce'
  <2>1. \A t \in ledger : t.id # Id(a) BY <1>1 DEF DedupInv
  <2>2. Tx(a).id = Id(a) BY DEF Tx
  <2> QED BY <1>1, <2>1, <2>2 DEF Persist, AtMostOnce
<1> QED BY <1>1, OnlyCommitWrites DEF AtMostOnce

THEOREM EachIdMovesMoneyOnce == Spec => []AtMostOnce
<1>1. Init => DedupInv /\ AtMostOnce BY DEF Init, DedupInv, AtMostOnce
<1> QED BY <1>1, TypeInit, TypeStep, DedupStep, AtMostOnceStep, PTL DEF Spec

-----------------------------------------------------------------------------
(* Overdrafts.                                                             *)

\* The entries of a bet are debits, in the ledger and on their way to it: what
\* a rollback gives back is never negative.
BetsAreDebits ==
    /\ \A t \in ledger : t.kind = "BET" => \A c \in Currencies : t.delta[c] <= 0
    /\ \A a \in Attempts : pc[a] \in {"insert", "commit"} /\ req[a].kind = "BET" =>
         \A c \in Currencies : delta[a][c] <= 0

OverdraftInv == BetsAreDebits /\ NeverOverdrawn

\* The guards admit no movement that the wallet read does not cover.
LEMMA AdmittedMovementIsCovered ==
    ASSUME TypeInv, OverdraftInv, NEW a \in Attempts, pc[a] # "idle",
           seen[a] \in Balances, CanMove(req[a], seen[a]), NEW c \in Currencies
    PROVE  /\ seen[a][c] + Movement(req[a], seen[a])[c] >= 0
           /\ req[a].kind = "BET" => Movement(req[a], seen[a])[c] <= 0
<1> DEFINE r == req[a]
           w == seen[a]
<1>1. r \in Request BY CallTypes
<1>2. w[c] \in Nat /\ r.amount \in Nat /\ r.sc \in Nat BY <1>1 DEF Balances, Request
<1>3. CASE r.kind = "BET"
  <2>1. CanBet(w, r.family, r.amount) BY <1>3 DEF CanMove
  <2>2. /\ BetDebits(w, r.family, r.amount) \in Balances
        /\ Covers(w, BetDebits(w, r.family, r.amount))
    BY <2>1, <1>2, BetPlanIsCovered
  <2> HIDE DEF r, w
  <2>3. BetDebits(w, r.family, r.amount)[c] \in Nat /\ BetDebits(w, r.family, r.amount)[c] <= w[c]
    BY <2>2 DEF Balances, Covers
  <2>4. Movement(r, w)[c] = 0 - BetDebits(w, r.family, r.amount)[c]
    BY <1>3 DEF Movement, Negated
  <2> QED BY <2>3, <2>4, <1>2 DEF r, w
<1>4. CASE r.kind = "WITHDRAWAL"
  <2>1. CanRedeem(w, r.amount) BY <1>4 DEF CanMove
  <2>2. Movement(r, w)[c] = 0 - RedeemDebit(r.amount)[c]
    BY <1>4 DEF Movement, Negated
  <2>3. RedeemDebit(r.amount)[c] <= w[c]
    BY <2>1, <1>2, RedeemTakesWinningsOnly DEF Covers
  <2>4. RedeemDebit(r.amount)[c] \in Nat BY <1>2 DEF RedeemDebit, Coins
  <2> QED BY <2>2, <2>3, <2>4, <1>2, <1>4
<1>5. CASE r.kind = "ROLLBACK"
  <2> DEFINE bet == CHOOSE t \in Reversible(r) : TRUE
  <2>1. bet \in ledger /\ bet.kind = "BET" BY <1>5 DEF CanMove, Reversible
  <2>2. bet.delta[c] \in Int /\ bet.delta[c] <= 0
    BY <2>1 DEF OverdraftInv, BetsAreDebits, TypeInv, TypeOK, LedgerTx, Deltas
  <2>3. Movement(r, w)[c] = 0 - bet.delta[c]
    BY <1>5 DEF Movement, Reversal, Negated
  <2> QED BY <2>2, <2>3, <1>2, <1>5
<1>6. CASE r.kind \in {"WIN", "DEPOSIT", "PROMO_CREDIT"}
  <2>1. Movement(r, w)[c] \in Nat
    BY <1>2, <1>6 DEF Movement, WinCredit, IssueCredit, Coins
  <2> QED BY <2>1, <1>2, <1>6
<1> QED BY <1>1, <1>3, <1>4, <1>5, <1>6 DEF Request, Kinds

\* A planned movement was planned before the step, unless the guards have just
\* admitted it.
LEMMA OnlyAdmitPlans ==
    ASSUME TypeInv, [Next]_vars
    PROVE  \/ \E a \in Attempts : Admit(a)
           \/ \A b \in Attempts : pc'[b] \in {"insert", "commit"} =>
                /\ pc[b] \in {"insert", "commit"}
                /\ req'[b] = req[b] /\ seen'[b] = seen[b] /\ delta'[b] = delta[b]
<1> DEFINE Same == \A b \in Attempts : pc'[b] \in {"insert", "commit"} =>
                     /\ pc[b] \in {"insert", "commit"}
                     /\ req'[b] = req[b] /\ seen'[b] = seen[b] /\ delta'[b] = delta[b]
<1> USE DEF TypeInv, TypeOK, store, attempt, Goto, Answer
<1>1. ASSUME NEW a \in Attempts, Arrive(a) \/ Acquire(a) \/ Conclude(a) \/ BarrierDown(a)
      PROVE  Same
  BY <1>1 DEF Acquire, Conclude, Arrive, Claim, AnswerPending, AnswerCached, AnswerMismatch,
       BarrierDown, Recover, RecoverConflict, CacheResult, Release
<1>2. ASSUME NEW a \in Attempts, Transact(a) \/ Fault(a), ~ BarrierDown(a), ~ Admit(a)
      PROVE  Same
  BY <1>2 DEF Transact, Fault, LockWallet, Refuse, UpdateRejected, Fail, InsertLedgerTx,
       DuplicateLedgerTx, Commit, CommitUnacknowledged, Crash, Abort, Persist, EndTx
<1>3. ASSUME NEW k \in Ids, Expire(k) PROVE Same
  BY <1>3 DEF Expire
<1>4. ASSUME NEW p \in Players, ChangeStanding(p) PROVE Same
  BY <1>4 DEF ChangeStanding
<1>5. ASSUME UNCHANGED vars PROVE Same
  BY <1>5 DEF vars
<1> QED BY <1>1, <1>2, <1>3, <1>4, <1>5 DEF Next, Step, Fault, Finished

LEMMA OverdraftStep ==
    TypeInv /\ SnapshotIsCurrent /\ OverdraftInv /\ [Next]_vars => OverdraftInv'
<1> SUFFICES ASSUME TypeInv, SnapshotIsCurrent, OverdraftInv, [Next]_vars PROVE OverdraftInv'
  OBVIOUS
<1> DEFINE Debits(b)  == req[b].kind = "BET" => \A c \in Currencies : delta[b][c] <= 0
           Covered(b) == \A c \in Currencies : Post(b)[c] >= 0
           Planned(b) == pc[b] \in {"insert", "commit"} => Debits(b) /\ Covered(b)
<1>1. \A b \in Attempts : Planned(b) BY DEF OverdraftInv, BetsAreDebits, NeverOverdrawn
<1>2. ASSUME NEW a \in Attempts, Admit(a) PROVE \A b \in Attempts : Planned(b)'
  <2>1. seen[a] \in Balances
    BY <1>2, CallTypes, BoundsAssumption
       DEF Admit, SnapshotIsCurrent, TypeInv, TypeOK, Balances
  <2>2. CanMove(req[a], seen[a]) /\ pc[a] # "idle" BY <1>2 DEF Admit, Admissible
  <2>3. delta'[a] = Movement(req[a], seen[a]) /\ UNCHANGED <<req, seen>>
    BY <1>2 DEF Admit, TypeInv, TypeOK
  <2>4. Planned(a)'
    BY <2>1, <2>2, <2>3, AdmittedMovementIsCovered DEF Post, Plus
  <2>5. ASSUME NEW b \in Attempts \ {a} PROVE Planned(b)'
    <3>1. pc'[b] = pc[b] /\ delta'[b] = delta[b]
      BY <1>2 DEF Admit, Goto, TypeInv, TypeOK
    <3> QED BY <3>1, <2>3, <1>1 DEF Post
  <2> QED BY <2>4, <2>5
<1>3. ASSUME ~ \E a \in Attempts : Admit(a) PROVE \A b \in Attempts : Planned(b)'
  BY <1>1, <1>3, OnlyAdmitPlans DEF Post
<1>4. \A t \in ledger' : t.kind = "BET" => \A c \in Currencies : t.delta[c] <= 0
  <2>1. ASSUME NEW a \in Attempts, pc[a] = "commit", Persist(a),
               NEW t \in ledger', t.kind = "BET", NEW c \in Currencies
        PROVE  t.delta[c] <= 0
    BY <1>1, <2>1 DEF Persist, Tx, OverdraftInv, BetsAreDebits
  <2> QED BY <2>1, OnlyCommitWrites DEF OverdraftInv, BetsAreDebits
<1>5. \A b \in Attempts : Planned(b)' BY <1>2, <1>3
<1> QED BY <1>4, <1>5 DEF OverdraftInv, BetsAreDebits, NeverOverdrawn

\* The CHECK constraints of the wallets table never see a negative balance.
THEOREM NoOverdraftIsAttempted == Spec => []NeverOverdrawn
<1>1. Init => SnapshotIsCurrent /\ OverdraftInv
  BY DEF Init, SnapshotIsCurrent, OverdraftInv, BetsAreDebits, NeverOverdrawn
<1>2. OverdraftInv => NeverOverdrawn BY DEF OverdraftInv
<1> QED BY <1>1, <1>2, TypeInit, TypeStep, SnapshotStep, OverdraftStep, PTL DEF Spec

-----------------------------------------------------------------------------
(* Promotional coins first.                                                *)

LEMMA AdmittedBetSparesWinnings ==
    ASSUME TypeInv, NEW a \in Attempts, pc[a] # "idle", seen[a] \in Balances,
           CanMove(req[a], seen[a]), req[a].kind = "BET",
           Movement(req[a], seen[a])["SC_REDEEMABLE"] < 0
    PROVE  seen[a]["SC_UNPLAYED"] + Movement(req[a], seen[a])["SC_UNPLAYED"] = 0
<1> DEFINE r == req[a]
           w == seen[a]
           plan == BetDebits(w, r.family, r.amount)
<1>1. r.amount \in Nat  BY CallTypes DEF Request
<1>2. CanBet(w, r.family, r.amount)  BY DEF CanMove
<1>3. /\ plan \in Balances
      /\ plan["SC_REDEEMABLE"] > 0 => plan["SC_UNPLAYED"] = w["SC_UNPLAYED"]
  BY <1>1, <1>2, BetPlanIsCovered
<1>4. /\ Movement(r, w)["SC_REDEEMABLE"] = 0 - plan["SC_REDEEMABLE"]
      /\ Movement(r, w)["SC_UNPLAYED"] = 0 - plan["SC_UNPLAYED"]
  BY DEF Movement, Negated, Currencies
<1> HIDE DEF plan
<1>5. plan["SC_REDEEMABLE"] \in Nat /\ plan["SC_UNPLAYED"] \in Nat /\ w["SC_UNPLAYED"] \in Nat
  BY <1>3 DEF Balances, Currencies
<1> QED BY <1>3, <1>4, <1>5

LEMMA StakeOrderStep ==
    TypeInv /\ SnapshotIsCurrent /\ WinningsAreStakedLast /\ [Next]_vars => WinningsAreStakedLast'
<1> SUFFICES ASSUME TypeInv, SnapshotIsCurrent, WinningsAreStakedLast, [Next]_vars
             PROVE  WinningsAreStakedLast'
  OBVIOUS
<1> DEFINE Ordered(b) == /\ pc[b] \in {"insert", "commit"}
                         /\ req[b].kind = "BET"
                         /\ delta[b]["SC_REDEEMABLE"] < 0
                         => Post(b)["SC_UNPLAYED"] = 0
<1>1. \A b \in Attempts : Ordered(b)  BY DEF WinningsAreStakedLast
<1>2. ASSUME NEW a \in Attempts, Admit(a) PROVE \A b \in Attempts : Ordered(b)'
  <2>1. seen[a] \in Balances
    BY <1>2, CallTypes, BoundsAssumption
       DEF Admit, SnapshotIsCurrent, TypeInv, TypeOK, Balances
  <2>2. CanMove(req[a], seen[a]) /\ pc[a] # "idle"  BY <1>2 DEF Admit, Admissible
  <2>3. delta'[a] = Movement(req[a], seen[a]) /\ UNCHANGED <<req, seen>>
    BY <1>2 DEF Admit, TypeInv, TypeOK
  <2>4. Ordered(a)'
    BY <2>1, <2>2, <2>3, AdmittedBetSparesWinnings DEF Post, Plus, Currencies
  <2>5. ASSUME NEW b \in Attempts \ {a} PROVE Ordered(b)'
    <3>1. pc'[b] = pc[b] /\ delta'[b] = delta[b]
      BY <1>2 DEF Admit, Goto, TypeInv, TypeOK
    <3> QED BY <3>1, <2>3, <1>1 DEF Post
  <2> QED BY <2>4, <2>5
<1>3. ASSUME ~ \E a \in Attempts : Admit(a) PROVE \A b \in Attempts : Ordered(b)'
  BY <1>1, <1>3, OnlyAdmitPlans DEF Post
<1>4. \A b \in Attempts : Ordered(b)'  BY <1>2, <1>3
<1> QED BY <1>4 DEF WinningsAreStakedLast

\* A bet spends winnings only together with the last unplayed SC, from a wallet that is
\* still the committed one.
THEOREM PromotionalCoinsGoFirst == Spec => []WinningsAreStakedLast
<1>1. Init => SnapshotIsCurrent /\ WinningsAreStakedLast
  BY DEF Init, SnapshotIsCurrent, WinningsAreStakedLast
<1> QED BY <1>1, TypeInit, TypeStep, SnapshotStep, StakeOrderStep, PTL DEF Spec

-----------------------------------------------------------------------------
(* Reversals.                                                              *)

Uncommitted == {"idle", "arrived", "begin", "locked", "insert", "commit"}

Rollbacks(ref) == {t \in ledger : t.kind = "ROLLBACK" /\ t.ref = ref}

\* Why the guard read under one player's lock covers every reversal of a bet:
\* a ledger UUID names one transaction, a reversal is made for the player of
\* the bet it names, and no reversal but a retry of this very id has slipped
\* in since the guard was read.
ReversalInv ==
    /\ \A t \in ledger : pc[t.lid] \notin Uncommitted
    /\ \A t, u \in ledger : t.lid = u.lid => t = u
    /\ \A t \in ledger : t.kind = "ROLLBACK" =>
         \E u \in ledger : u.lid = t.ref /\ u.player = t.player
    /\ \A a \in Attempts : pc[a] \in {"insert", "commit"} /\ req[a].kind = "ROLLBACK" =>
         /\ \E u \in ledger : u.lid = req[a].ref /\ u.player = Player(a)
         /\ \A t \in Rollbacks(req[a].ref) : t.id = Id(a)

\* No call returns to where it has not committed.
LEMMA NoWayBack ==
    ASSUME TypeInv, [Next]_vars, NEW b \in Attempts, pc[b] \notin Uncommitted
    PROVE  pc'[b] \notin Uncommitted
<1> USE DEF TypeInv, TypeOK, store, attempt, Goto, Answer, Uncommitted
<1>1. ASSUME NEW a \in Attempts, Arrive(a) \/ Acquire(a) \/ Conclude(a) \/ BarrierDown(a)
      PROVE  pc'[b] \notin Uncommitted
  BY <1>1 DEF Acquire, Conclude, Arrive, Claim, AnswerPending, AnswerCached, AnswerMismatch,
       BarrierDown, Recover, RecoverConflict, CacheResult, Release
<1>2. ASSUME NEW a \in Attempts, Transact(a) \/ Fault(a), ~ BarrierDown(a)
      PROVE  pc'[b] \notin Uncommitted
  BY <1>2 DEF Transact, Fault, LockWallet, Admit, Refuse, UpdateRejected, Fail, InsertLedgerTx,
       DuplicateLedgerTx, Commit, CommitUnacknowledged, Crash, Abort, Persist, EndTx
<1>3. ASSUME NEW k \in Ids, Expire(k) PROVE pc'[b] \notin Uncommitted
  BY <1>3 DEF Expire
<1>4. ASSUME NEW p \in Players, ChangeStanding(p) PROVE pc'[b] \notin Uncommitted
  BY <1>4 DEF ChangeStanding
<1>5. ASSUME UNCHANGED vars PROVE pc'[b] \notin Uncommitted
  BY <1>5 DEF vars
<1> QED BY <1>1, <1>2, <1>3, <1>4, <1>5 DEF Next, Step, Fault, Finished

LEMMA ReversalStep ==
    TypeInv /\ SnapshotIsCurrent /\ ReversalInv /\ [Next]_vars => ReversalInv'
<1> SUFFICES ASSUME TypeInv, SnapshotIsCurrent, ReversalInv, [Next]_vars PROVE ReversalInv'
  OBVIOUS
<1> DEFINE Reverses(b) == pc[b] \in {"insert", "commit"} /\ req[b].kind = "ROLLBACK"
           HasBet(b)   == \E u \in ledger : u.lid = req[b].ref /\ u.player = Player(b)
           First(b)    == \A t \in Rollbacks(req[b].ref) : t.id = Id(b)
<1>1. /\ \A t \in ledger : t.lid \in Attempts /\ pc[t.lid] \notin Uncommitted
      /\ \A t, u \in ledger : t.lid = u.lid => t = u
      /\ \A t \in ledger : t.kind = "ROLLBACK" =>
           \E u \in ledger : u.lid = t.ref /\ u.player = t.player
      /\ \A b \in Attempts : Reverses(b) => HasBet(b) /\ First(b)
  BY DEF ReversalInv, TypeInv, TypeOK, LedgerTx
\* The guard is read while the wallet row is locked.
<1>2. ASSUME NEW a \in Attempts, Admit(a) PROVE ReversalInv'
  <2>1. UNCHANGED <<ledger, req>> BY <1>2 DEF Admit, store
  <2>2. req[a].kind = "ROLLBACK" => HasBet(a) /\ First(a)
    BY <1>2 DEF Admit, Admissible, CanMove, Reversible, AlreadyRolledBack, Rollbacks, Id, Player
  <2>3. \A b \in Attempts : Reverses(b)' => b = a \/ Reverses(b)
    BY <1>2, <2>1 DEF Admit, Goto, TypeInv, TypeOK
  <2>4. \A b \in Attempts : Reverses(b)' => HasBet(b)' /\ First(b)'
    BY <1>1, <2>1, <2>2, <2>3 DEF Rollbacks, Id, Player
  <2>5. \A t \in ledger' : pc'[t.lid] \notin Uncommitted
    BY <1>1, <2>1, NoWayBack
  <2> QED BY <1>1, <2>1, <2>4, <2>5 DEF ReversalInv
\* Two reversals of one bet are made under one wallet lock, so not at once.
<1>3. ASSUME NEW a \in Attempts, pc[a] = "commit", pc'[a] \in {"store", "release"}, Persist(a)
      PROVE  ReversalInv'
  <2> DEFINE new == Tx(a)
  <2>1. ledger' = ledger \union {new} BY <1>3 DEF Persist
  <2>2. /\ new.lid = a /\ new.id = Id(a) /\ new.player = Player(a)
        /\ new.kind = req[a].kind /\ new.ref = req[a].ref
    BY DEF Tx
  <2> HIDE DEF new
  <2>3. ~ \E b \in Attempts : Admit(b)
    BY <1>3 DEF Admit, Goto, TypeInv, TypeOK
  <2>4. \A b \in Attempts : Reverses(b)' => Reverses(b) /\ req'[b] = req[b] /\ b # a
    BY <1>3, <2>3, OnlyAdmitPlans
  <2>5. \A t \in ledger' : pc'[t.lid] \notin Uncommitted
    BY <1>1, <1>3, <2>1, <2>2, NoWayBack DEF Uncommitted
  <2>6. \A t, u \in ledger' : t.lid = u.lid => t = u
    BY <1>1, <1>3, <2>1, <2>2 DEF Uncommitted
  <2>7. \A t \in ledger' : t.kind = "ROLLBACK" =>
          \E u \in ledger' : u.lid = t.ref /\ u.player = t.player
    <3>1. new.kind = "ROLLBACK" => HasBet(a) BY <1>1, <1>3, <2>2
    <3> QED BY <1>1, <3>1, <2>1, <2>2
  <2>8. ASSUME NEW b \in Attempts, Reverses(b)' PROVE HasBet(b)'
    BY <1>1, <2>1, <2>4, <2>8 DEF Player
  <2>9. ASSUME NEW b \in Attempts, Reverses(b)' PROVE First(b)'
    <3>1. Reverses(b) /\ req'[b] = req[b] /\ b # a BY <2>4, <2>9
    <3>2. \A t \in Rollbacks(req[b].ref) : t.id = Id(b) BY <1>1, <3>1
    <3>3. ~ (new.kind = "ROLLBACK" /\ new.ref = req[b].ref)
      <4> SUFFICES ASSUME new.kind = "ROLLBACK", new.ref = req[b].ref PROVE FALSE
        OBVIOUS
      <4>1. HasBet(a) /\ HasBet(b) BY <1>1, <1>3, <2>2, <3>1
      <4>2. req[a].ref = req[b].ref BY <2>2
      <4>3. Player(a) = Player(b) BY <1>1, <4>1, <4>2
      <4>4. holder[Player(a)] = a /\ holder[Player(b)] = b
        BY <1>3, <3>1 DEF SnapshotIsCurrent
      <4> QED BY <3>1, <4>3, <4>4
    <3> QED BY <2>1, <3>1, <3>2, <3>3 DEF Rollbacks, Id
  <2> QED BY <2>5, <2>6, <2>7, <2>8, <2>9 DEF ReversalInv
<1>4. ASSUME UNCHANGED ledger, ~ \E b \in Attempts : Admit(b) PROVE ReversalInv'
  <2>1. \A b \in Attempts : Reverses(b)' => Reverses(b) /\ req'[b] = req[b]
    BY <1>4, OnlyAdmitPlans
  <2>2. \A b \in Attempts : Reverses(b)' => HasBet(b)' /\ First(b)'
    BY <1>1, <1>4, <2>1 DEF Rollbacks, Id, Player
  <2>3. \A t \in ledger' : pc'[t.lid] \notin Uncommitted
    BY <1>1, <1>4, NoWayBack
  <2> QED BY <1>1, <1>4, <2>2, <2>3 DEF ReversalInv
<1> QED BY <1>2, <1>3, <1>4, OnlyCommitWrites

LEMMA AtMostOneReversalStep ==
    TypeInv /\ DedupInv /\ ReversalInv /\ AtMostOneReversal /\ [Next]_vars => AtMostOneReversal'
<1> SUFFICES ASSUME TypeInv, DedupInv, ReversalInv, AtMostOneReversal, [Next]_vars
             PROVE  AtMostOneReversal'
  OBVIOUS
<1>1. ASSUME NEW a \in Attempts, pc[a] = "commit", Persist(a) PROVE AtMostOneReversal'
  <2>1. ledger' = ledger \union {Tx(a)} BY <1>1 DEF Persist
  <2>2. Tx(a).kind = req[a].kind /\ Tx(a).ref = req[a].ref BY DEF Tx
  <2>3. \A t \in ledger : t.id # Id(a) BY <1>1 DEF DedupInv
  <2>4. ~ \E t \in ledger : req[a].kind = "ROLLBACK" /\ t.kind = "ROLLBACK" /\ t.ref = req[a].ref
    BY <1>1, <2>3 DEF ReversalInv, Rollbacks
  <2> QED BY <2>1, <2>2, <2>4 DEF AtMostOneReversal
<1> QED BY <1>1, OnlyCommitWrites DEF AtMostOneReversal

\* A bet's stake is given back at most once.
THEOREM BetIsReversedOnce == Spec => []AtMostOneReversal
<1>1. Init => SnapshotIsCurrent /\ DedupInv /\ ReversalInv /\ AtMostOneReversal
  BY DEF Init, SnapshotIsCurrent, DedupInv, ReversalInv, AtMostOneReversal, Rollbacks
<1> QED BY <1>1, TypeInit, TypeStep, SnapshotStep, DedupStep, ReversalStep,
           AtMostOneReversalStep, PTL DEF Spec

-----------------------------------------------------------------------------
(* Receipts.                                                               *)

\* A receipt is that of a settled transaction of an id, made for what a fingerprint
\* stands for.
Answers(n, k, fp) == /\ n.id = k /\ n.player = fp.player
                     /\ Backed(n) /\ Issued(n, fp)

Concluded == {"recache", "store", "done", "dead"}

\* A call that holds a receipt has left the database; a cached receipt answers the
\* fingerprint it is stored with.
ReceiptInv ==
    /\ \A a \in Attempts :
         /\ reply[a] \in {"processed", "recovered"} => pc[a] \in Concluded
         /\ receipt[a] # None => pc[a] \in Concluded
         /\ receipt[a] # None \/ pc[a] \in {"recache", "store"} =>
              /\ Answers(receipt[a], Id(a), Fingerprint(req[a]))
              /\ reply[a] # "cached" => receipt[a].kind = req[a].kind
    /\ \A k \in Ids : redis[k].st = "cached" =>
         Answers(redis[k].receipt, k, redis[k].fp)

\* What backs a receipt stays.
LEMMA LedgerGrows == ASSUME TypeInv, [Next]_vars PROVE ledger \subseteq ledger'
BY OnlyCommitWrites DEF Persist

\* A call that has left the database keeps its request, its answer and its receipt.
LEMMA ConclusionStays ==
    ASSUME TypeInv, [Next]_vars, NEW b \in Attempts, pc[b] \in Concluded
    PROVE  /\ pc'[b] \in Concluded
           /\ req'[b] = req[b] /\ reply'[b] = reply[b] /\ receipt'[b] = receipt[b]
<1> USE DEF TypeInv, TypeOK, Concluded, store, attempt, Goto, Answer
<1>1. ASSUME NEW a \in Attempts, Arrive(a) \/ Acquire(a) \/ Conclude(a) \/ BarrierDown(a)
      PROVE  /\ pc'[b] \in Concluded
             /\ req'[b] = req[b] /\ reply'[b] = reply[b] /\ receipt'[b] = receipt[b]
  BY <1>1 DEF Acquire, Conclude, Arrive, Claim, AnswerPending, AnswerCached, AnswerMismatch,
       BarrierDown, Recover, RecoverConflict, CacheResult, Release
<1>2. ASSUME NEW a \in Attempts, Transact(a) \/ Fault(a), ~ BarrierDown(a)
      PROVE  /\ pc'[b] \in Concluded
             /\ req'[b] = req[b] /\ reply'[b] = reply[b] /\ receipt'[b] = receipt[b]
  BY <1>2 DEF Transact, Fault, LockWallet, Admit, Refuse, UpdateRejected, Fail, InsertLedgerTx,
       DuplicateLedgerTx, Commit, CommitUnacknowledged, Crash, Abort, Persist, EndTx
<1>3. ASSUME (\E k \in Ids : Expire(k)) \/ (\E p \in Players : ChangeStanding(p)) \/ UNCHANGED vars
      PROVE  /\ pc'[b] \in Concluded
             /\ req'[b] = req[b] /\ reply'[b] = reply[b] /\ receipt'[b] = receipt[b]
  BY <1>3 DEF Expire, ChangeStanding, vars
<1> QED BY <1>1, <1>2, <1>3 DEF Next, Step, Fault, Finished

\* What a receipt answers, it answers from then on.
LEMMA AnswersStay ==
    ASSUME TypeInv, ReceiptInv, [Next]_vars, NEW n, NEW k, NEW fp, Answers(n, k, fp)
    PROVE  Answers(n, k, fp)'
<1>1. Backed(n)' BY LedgerGrows DEF Answers, Backed
<1>2. PICK b \in Attempts : /\ reply[b] \in {"processed", "recovered"} /\ receipt[b] = n
                            /\ n.kind = req[b].kind /\ Fingerprint(req[b]) = fp
  BY DEF Answers, Issued
<1>3. req'[b] = req[b] /\ reply'[b] = reply[b] /\ receipt'[b] = receipt[b]
  BY <1>2, ConclusionStays DEF ReceiptInv
<1>4. Issued(n, fp)' BY <1>2, <1>3 DEF Issued, Fingerprint
<1> QED BY <1>1, <1>4 DEF Answers

LEMMA ReceiptStep == TypeInv /\ ReceiptInv /\ [Next]_vars => ReceiptInv'
<1> SUFFICES ASSUME TypeInv, ReceiptInv, [Next]_vars PROVE ReceiptInv' OBVIOUS
<1> DEFINE Mine(b)   == /\ Answers(receipt[b], Id(b), Fingerprint(req[b]))
                        /\ reply[b] # "cached" => receipt[b].kind = req[b].kind
           Holds(b)  == /\ reply[b] \in {"processed", "recovered"} => pc[b] \in Concluded
                        /\ receipt[b] # None => pc[b] \in Concluded
                        /\ receipt[b] # None \/ pc[b] \in {"recache", "store"} => Mine(b)
           Cached(k) == redis[k].st = "cached" => Answers(redis[k].receipt, k, redis[k].fp)
           Kept(b)   == /\ req'[b] = req[b] /\ reply'[b] = reply[b] /\ receipt'[b] = receipt[b]
<1>1. (\A b \in Attempts : Holds(b)) /\ (\A k \in Ids : Cached(k)) BY DEF ReceiptInv
<1>2. \A n, k, fp : Answers(n, k, fp) => Answers(n, k, fp)' BY AnswersStay
<1> SUFFICES (\A b \in Attempts : Holds(b)') /\ (\A k \in Ids : Cached(k)') BY DEF ReceiptInv
\* What a call holds on to, it holds rightly.
<1>3. ASSUME NEW b \in Attempts, Kept(b), Mine(b) PROVE Mine(b)'
  BY <1>2, <1>3 DEF Id, Fingerprint
<1>4. ASSUME NEW b \in Attempts, Kept(b), pc'[b] = pc[b] PROVE Holds(b)'
  BY <1>1, <1>3, <1>4
\* A step of one call that leaves its own part in order.
<1>5. ASSUME NEW a \in Attempts, Holds(a)',
             \A b \in Attempts \ {a} : Kept(b) /\ pc'[b] = pc[b]
      PROVE  \A b \in Attempts : Holds(b)'
  BY <1>4, <1>5
\* A step that leaves the barrier alone, or empties or marks one key.
<1>6. ASSUME \A k \in Ids : redis'[k] = redis[k] \/ redis'[k].st # "cached"
      PROVE  \A k \in Ids : Cached(k)'
  BY <1>1, <1>2, <1>6
<1> USE DEF store, attempt, Goto, Answer
\* A call without a receipt that takes none.
<1>7. ASSUME NEW a \in Attempts,
             \/ Arrive(a) \/ Claim(a) \/ AnswerPending(a) \/ AnswerMismatch(a) \/ BarrierDown(a)
             \/ LockWallet(a) \/ Admit(a) \/ Refuse(a) \/ UpdateRejected(a) \/ Fail(a)
             \/ InsertLedgerTx(a) \/ DuplicateLedgerTx(a) \/ CommitUnacknowledged(a)
             \/ RecoverConflict(a) \/ Release(a)
      PROVE  (\A b \in Attempts : Holds(b)') /\ (\A k \in Ids : Cached(k)')
  <2>1. /\ receipt' = receipt
        /\ pc[a] \notin Concluded
        /\ pc'[a] \notin {"recache", "store"}
        /\ \/ reply'[a] = reply[a]
           \/ reply'[a] \notin {"processed", "recovered"}
        /\ \A b \in Attempts \ {a} : Kept(b) /\ pc'[b] = pc[b]
    BY <1>7 DEF Arrive, Claim, AnswerPending, AnswerMismatch, BarrierDown, LockWallet, Admit,
         Refuse, UpdateRejected, InsertLedgerTx, DuplicateLedgerTx, Fail, Release,
         CommitUnacknowledged, RecoverConflict, TypeInv, TypeOK, Concluded
  <2>2. Holds(a)' BY <1>1, <2>1
  <2>3. \A k \in Ids : redis'[k] = redis[k] \/ redis'[k].st # "cached"
    BY <1>7 DEF Arrive, Claim, AnswerPending, AnswerMismatch, BarrierDown, LockWallet, Admit,
         Refuse, UpdateRejected, InsertLedgerTx, DuplicateLedgerTx, Fail, Release,
         CommitUnacknowledged, RecoverConflict, Marker, Absent, TypeInv, TypeOK
  <2> QED BY <1>5, <1>6, <2>1, <2>2, <2>3
<1>8. ASSUME NEW a \in Attempts, AnswerCached(a)
      PROVE  (\A b \in Attempts : Holds(b)') /\ (\A k \in Ids : Cached(k)')
  <2>1. /\ UNCHANGED <<redis, req>>
        /\ receipt'[a] = redis[Id(a)].receipt /\ reply'[a] = "cached" /\ pc'[a] = "done"
        /\ \A b \in Attempts \ {a} : Kept(b) /\ pc'[b] = pc[b]
    BY <1>8 DEF AnswerCached, TypeInv, TypeOK
  <2>2. Answers(redis[Id(a)].receipt, Id(a), Fingerprint(req[a]))
    BY <1>1, <1>8, CallTypes DEF AnswerCached, SameFingerprint
  <2>3. Answers(receipt[a], Id(a), Fingerprint(req[a]))'
    BY <1>2, <2>1, <2>2 DEF Id, Fingerprint
  <2>4. Holds(a)' BY <2>1, <2>3 DEF Concluded
  <2> QED BY <1>5, <1>6, <2>1, <2>4
<1>9. ASSUME NEW a \in Attempts, Commit(a)
      PROVE  (\A b \in Attempts : Holds(b)') /\ (\A k \in Ids : Cached(k)')
  <2> DEFINE n == ReceiptOf(a, a, Headline(a))
  <2>1. /\ UNCHANGED <<redis, req>> /\ receipt'[a] = n /\ pc'[a] = "store"
        /\ reply'[a] = "processed" /\ Tx(a) \in ledger'
        /\ \A b \in Attempts \ {a} : Kept(b) /\ pc'[b] = pc[b]
    BY <1>9 DEF Commit, Persist, TypeInv, TypeOK
  <2>2. /\ n.lid = Tx(a).lid /\ n.id = Tx(a).id /\ n.player = Tx(a).player /\ n.kind = Tx(a).kind
        /\ n.id = req[a].id /\ n.player = req[a].player /\ n.kind = req[a].kind
    BY DEF ReceiptOf, Tx, Id, Player
  <2> HIDE DEF n
  <2>3. Mine(a)' BY <2>1, <2>2 DEF Answers, Backed, Issued, Id, Fingerprint
  <2>4. Holds(a)' BY <2>1, <2>3 DEF Concluded
  <2> QED BY <1>5, <1>6, <2>1, <2>4
<1>10. ASSUME NEW a \in Attempts, Recover(a)
       PROVE  (\A b \in Attempts : Holds(b)') /\ (\A k \in Ids : Cached(k)')
  <2>1. PICK t \in ledger :
          /\ Recoverable(t, req[a])
          /\ receipt' = [receipt EXCEPT ![a] = ReceiptOf(a, t.lid, Announced(req[a]))]
    BY <1>10 DEF Recover
  <2> DEFINE n == ReceiptOf(a, t.lid, Announced(req[a]))
  <2>2. /\ UNCHANGED <<redis, ledger, req>> /\ receipt'[a] = n /\ pc'[a] = "recache"
        /\ reply'[a] = "recovered"
        /\ \A b \in Attempts \ {a} : Kept(b) /\ pc'[b] = pc[b]
    BY <1>10, <2>1 DEF Recover, TypeInv, TypeOK
  <2>3. /\ n.lid = t.lid /\ n.id = req[a].id /\ n.player = req[a].player /\ n.kind = req[a].kind
        /\ t.id = req[a].id /\ t.player = req[a].player /\ t.kind = req[a].kind
    BY <2>1 DEF ReceiptOf, Recoverable, Id, Player
  <2> HIDE DEF n
  <2>4. Mine(a)' BY <2>2, <2>3 DEF Answers, Backed, Issued, Id, Fingerprint
  <2>5. Holds(a)' BY <2>2, <2>4 DEF Concluded
  <2> QED BY <1>5, <1>6, <2>2, <2>5
<1>11. ASSUME NEW a \in Attempts, CacheResult(a)
       PROVE  (\A b \in Attempts : Holds(b)') /\ (\A k \in Ids : Cached(k)')
  <2>1. /\ Kept(a) /\ pc[a] \in {"recache", "store"} /\ pc'[a] \in {"store", "done"}
        /\ \A b \in Attempts \ {a} : Kept(b) /\ pc'[b] = pc[b]
    BY <1>11 DEF CacheResult, TypeInv, TypeOK
  <2>2. Mine(a) /\ Mine(a)' BY <1>1, <1>3, <2>1
  <2>3. Holds(a)' BY <2>1, <2>2 DEF Concluded
  <2>4. ASSUME NEW k \in Ids, redis'[k] # redis[k] PROVE Cached(k)'
    <3>1. k = Id(a) /\ redis'[k] = Payload(a)
      BY <1>11, <2>4 DEF CacheResult, TypeInv, TypeOK
    <3>2. Answers(receipt[a], k, Fingerprint(req[a]))' BY <1>2, <2>1, <2>2, <3>1 DEF Fingerprint
    <3> QED BY <2>1, <3>1, <3>2 DEF Payload, Fingerprint
  <2>5. \A k \in Ids : Cached(k)' BY <1>1, <1>2, <2>4
  <2> QED BY <1>5, <2>1, <2>3, <2>5
<1>12. ASSUME NEW a \in Attempts, Crash(a)
       PROVE  (\A b \in Attempts : Holds(b)') /\ (\A k \in Ids : Cached(k)')
  <2>1. /\ UNCHANGED redis /\ Kept(a) /\ pc'[a] = "dead"
        /\ \A b \in Attempts \ {a} : Kept(b) /\ pc'[b] = pc[b]
    BY <1>12 DEF Crash, Abort, EndTx, TypeInv, TypeOK
  <2>2. Holds(a)' BY <1>1, <1>3, <2>1 DEF Concluded
  <2> QED BY <1>5, <1>6, <2>1, <2>2
<1>13. ASSUME NEW k \in Ids, Expire(k)
       PROVE  (\A b \in Attempts : Holds(b)') /\ (\A j \in Ids : Cached(j)')
  <2>1. /\ UNCHANGED <<pc, req, reply, receipt>>
        /\ \A j \in Ids : redis'[j] = redis[j] \/ redis'[j].st # "cached"
    BY <1>13 DEF Expire, Absent, TypeInv, TypeOK
  <2> QED BY <1>4, <1>6, <2>1
<1>14. ASSUME (\E p \in Players : ChangeStanding(p)) \/ UNCHANGED vars
       PROVE  (\A b \in Attempts : Holds(b)') /\ (\A j \in Ids : Cached(j)')
  <2>1. UNCHANGED <<redis, pc, req, reply, receipt>> BY <1>14 DEF ChangeStanding, vars
  <2> QED BY <1>4, <1>6, <2>1
<1> QED
  BY <1>7, <1>8, <1>9, <1>10, <1>11, <1>12, <1>13, <1>14
  DEF Next, Step, Fault, Acquire, Transact, Conclude, Finished

\* No success is reported or cached that the ledger does not back, or that was
\* made for somebody else's request.
THEOREM EveryReceiptIsBacked == Spec => []ReceiptIsBacked
<1>1. Init => ReceiptInv BY DEF Init, ReceiptInv, Absent
<1>2. ReceiptInv => ReceiptIsBacked
  BY DEF ReceiptInv, ReceiptIsBacked, Answers, Id, Player, Fingerprint
<1> QED BY <1>1, <1>2, TypeInit, TypeStep, ReceiptStep, PTL DEF Spec

-----------------------------------------------------------------------------
(* The engine implements ExactlyOnce.                                      *)

\* A call that releases its key is not going to report success.
ReplyInv == \A a \in Attempts : pc[a] = "release" => reply[a] \notin Success

LEMMA ReplyStep == TypeInv /\ ReplyInv /\ [Next]_vars => ReplyInv'
<1> SUFFICES ASSUME TypeInv, ReplyInv, [Next]_vars PROVE ReplyInv' OBVIOUS
<1> USE DEF TypeInv, TypeOK, ReplyInv, Success, store, attempt, Goto, Answer
<1>1. ASSUME NEW a \in Attempts, Arrive(a) \/ Acquire(a) \/ Conclude(a) \/ BarrierDown(a)
      PROVE  ReplyInv'
  BY <1>1 DEF Acquire, Conclude, Arrive, Claim, AnswerPending, AnswerCached, AnswerMismatch,
       BarrierDown, Recover, RecoverConflict, CacheResult, Release
<1>2. ASSUME NEW a \in Attempts, Transact(a) \/ Fault(a), ~ BarrierDown(a)
      PROVE  ReplyInv'
  BY <1>2 DEF Transact, Fault, LockWallet, Admit, Refuse, UpdateRejected, Fail, InsertLedgerTx,
       DuplicateLedgerTx, Commit, CommitUnacknowledged, Crash, Abort, Persist, EndTx
<1>3. ASSUME NEW k \in Ids, Expire(k) PROVE ReplyInv'
  BY <1>3 DEF Expire
<1>4. ASSUME NEW p \in Players, ChangeStanding(p) PROVE ReplyInv'
  BY <1>4 DEF ChangeStanding
<1>5. ASSUME UNCHANGED vars PROVE ReplyInv'
  BY <1>5 DEF vars
<1> QED BY <1>1, <1>2, <1>3, <1>4, <1>5 DEF Next, Step, Fault, Finished

EngineInv == /\ TypeInv /\ SnapshotIsCurrent /\ DedupInv /\ ReceiptInv /\ ReplyInv

Settled   == {[id |-> t.id, player |-> t.player, delta |-> t.delta] : t \in ledger}
Answered  == {Id(a) : a \in Told}

Tells == \E k \in Ids : /\ Answered' = Answered \union {k}
                        /\ \E t \in ledger : t.id = k
                        /\ UNCHANGED <<balance, ledger>>

\* A step tells at most one more caller of success, of an id the ledger already
\* holds.
LEMMA TellingStep ==
    ASSUME EngineInv, [Next]_vars
    PROVE  Answered' = Answered \/ Tells
<1> USE DEF store, attempt, Goto, Answer, Success
<1>1. ASSUME NEW a \in Attempts, pc[a] \in {"arrived", "store"},
             UNCHANGED <<balance, ledger, req>>, pc'[a] = "done",
             Answers(receipt'[a], Id(a), Fingerprint(req[a])),
             \A b \in Attempts \ {a} : pc'[b] = pc[b] /\ reply'[b] = reply[b]
      PROVE  Answered' = Answered \/ Tells
  <2>1. Id(a) \in Ids BY <1>1, CallTypes DEF EngineInv
  <2>2. \E t \in ledger : t.id = Id(a) BY <1>1 DEF Answers, Backed, Id
  <2>3. Told' = Told \/ Told' = Told \union {a} BY <1>1 DEF Told
  <2> QED BY <1>1, <2>1, <2>2, <2>3 DEF Answered, Tells, Id
<1>2. ASSUME NEW a \in Attempts, a \notin Told,
             pc'[a] = "done" => reply'[a] \notin Success,
             \A b \in Attempts \ {a} :
               pc'[b] = pc[b] /\ reply'[b] = reply[b] /\ req'[b] = req[b]
      PROVE  Answered' = Answered
  <2>1. Told' = Told BY <1>2 DEF Told
  <2>2. \A b \in Told : Id(b)' = Id(b) BY <1>2 DEF Told, Id
  <2> QED BY <2>1, <2>2 DEF Answered
<1> USE DEF EngineInv, TypeInv, TypeOK
<1>3. ASSUME NEW a \in Attempts, AnswerCached(a)
      PROVE  Answered' = Answered \/ Tells
  <2>1. Answers(receipt'[a], Id(a), Fingerprint(req[a]))
    BY <1>3, CallTypes DEF AnswerCached, ReceiptInv, SameFingerprint
  <2> QED BY <1>1, <1>3, <2>1 DEF AnswerCached
<1>4. ASSUME NEW a \in Attempts, CacheResult(a), pc[a] = "store"
      PROVE  Answered' = Answered \/ Tells
  <2>1. Answers(receipt'[a], Id(a), Fingerprint(req[a]))
    BY <1>4 DEF CacheResult, ReceiptInv
  <2> QED BY <1>1, <1>4, <2>1 DEF CacheResult
<1>5. ASSUME NEW a \in Attempts, CacheResult(a), pc[a] # "store" PROVE Answered' = Answered
  BY <1>2, <1>5 DEF CacheResult, Told
<1>6. ASSUME NEW a \in Attempts, Arrive(a) \/ Claim(a) \/ AnswerPending(a) \/ AnswerMismatch(a)
                                           \/ BarrierDown(a)
      PROVE  Answered' = Answered
  BY <1>2, <1>6 DEF Arrive, Claim, AnswerPending, AnswerMismatch, BarrierDown, Told
<1>7. ASSUME NEW a \in Attempts, Transact(a) \/ Fail(a) \/ CommitUnacknowledged(a) \/ Crash(a)
      PROVE  Answered' = Answered
  BY <1>2, <1>7 DEF Transact, LockWallet, Admit, Refuse, UpdateRejected, Fail, InsertLedgerTx,
       DuplicateLedgerTx, Commit, CommitUnacknowledged, Crash, Abort, Persist, EndTx, Told
<1>8. ASSUME NEW a \in Attempts, Recover(a) \/ RecoverConflict(a) \/ Release(a)
      PROVE  Answered' = Answered
  BY <1>2, <1>8 DEF Recover, RecoverConflict, Release, ReplyInv, Told
<1>9. ASSUME (\E k \in Ids : Expire(k)) \/ (\E p \in Players : ChangeStanding(p)) \/ UNCHANGED vars
      PROVE  Answered' = Answered
  BY <1>9 DEF Expire, ChangeStanding, vars, Answered, Told, Id
<1> QED
  BY <1>3, <1>4, <1>5, <1>6, <1>7, <1>8, <1>9
  DEF Next, Step, Fault, Acquire, Conclude, Finished

LEMMA PromiseStep == EngineInv /\ EngineInv' /\ [Next]_vars => [Promise!Next]_(Promise!vars)
<1> SUFFICES ASSUME EngineInv, EngineInv', [Next]_vars PROVE [Promise!Next]_(Promise!vars)
  OBVIOUS
<1> USE DEF EngineInv
<1>1. UNCHANGED <<balance, Settled, Answered>> => UNCHANGED Promise!vars
  BY DEF Promise!vars, Settled, Answered
\* A COMMIT settles one id, by what the wallet underwent under its lock.
<1>2. ASSUME NEW a \in Attempts, pc[a] = "commit", pc'[a] \in {"store", "release"}, Persist(a)
      PROVE  [Promise!Next]_(Promise!vars)
  <2>1. PICK k \in Ids, p \in Players : k = Id(a) /\ p = Player(a) BY <1>2, CallTypes
  <2>2. \A t \in ledger : t.id # k BY <1>2, <2>1 DEF DedupInv
  <2>3. ~ Promise!IsSettled(k)
    BY <2>2 DEF Promise!IsSettled
  <2>4. /\ balance' = [balance EXCEPT ![p] = Post(a)]
        /\ ledger' = ledger \union {Tx(a)}
    BY <1>2, <2>1 DEF Persist
  <2>5. balance' \in [Players -> Promise!Wallets]
    <3>1. balance' \in [Players -> [Currencies -> 0..MaxBalance]]
      BY DEF TypeInv, TypeOK
    <3> QED BY <3>1 DEF Promise!Wallets, Promise!Currencies, Currencies
  <2>6. \A q \in Players \ {p} : balance'[q] = balance[q]
    BY <2>4 DEF TypeInv, TypeOK
  <2>7. Minus(balance'[p], balance[p]) = delta[a]
    <3>1. seen[a] = balance[p] BY <1>2, <2>1 DEF SnapshotIsCurrent
    <3>2. balance'[p] = Plus(balance[p], delta[a])
      BY <2>1, <2>4, <3>1 DEF Post, TypeInv, TypeOK
    <3>3. balance[p] \in [Currencies -> Int] /\ delta[a] \in [Currencies -> Int]
      BY <2>1, BoundsAssumption DEF TypeInv, TypeOK, Deltas
    <3> QED BY <3>2, <3>3 DEF Plus, Minus
  <2>8. Settled' = Settled \union {Promise!Movement(k, p, delta[a])}
    <3>1. /\ Tx(a).id = k /\ Tx(a).player = p /\ Tx(a).delta = delta[a]
      BY <2>1 DEF Tx
    <3> QED BY <2>4, <3>1 DEF Settled, Promise!Movement
  <2>9. Answered' = Answered
    <3>1. Tx(a).id = k BY <2>1 DEF Tx
    <3>2. Tx(a) \notin ledger BY <2>2, <3>1
    <3>3. ledger' # ledger BY <2>4, <3>2
    <3> QED BY <3>3, TellingStep DEF Tells
  <2>10. Promise!Minus(balance'[p], balance[p]) = delta[a]
    BY <2>7 DEF Minus, Promise!Minus, Currencies, Promise!Currencies
  <2>11. Promise!Settle(k, p)
    BY <2>3, <2>5, <2>6, <2>8, <2>9, <2>10 DEF Promise!Settle, Settled, Answered
  <2> QED BY <2>1, <2>11 DEF Promise!Next
\* Anything else tells a caller of what is settled, or shows nothing.
<1>3. ASSUME UNCHANGED <<balance, ledger, entries, dedup>>
      PROVE  [Promise!Next]_(Promise!vars)
  <2>1. Settled' = Settled BY <1>3 DEF Settled
  <2>2. CASE Answered' = Answered BY <1>1, <1>3, <2>1, <2>2
  <2>3. CASE Tells
    <3>1. PICK k \in Ids : Answered' = Answered \union {k} /\ \E t \in ledger : t.id = k
      BY <2>3 DEF Tells
    <3>2. PICK t \in ledger : t.id = k BY <3>1
    <3> DEFINE m == [id |-> t.id, player |-> t.player, delta |-> t.delta]
    <3>3. m \in Settled BY DEF Settled
    <3>4. \E n \in Settled : n.id = k
      <4>1. m.id = k BY <3>2
      <4> QED BY <3>3, <4>1
    <3>5. Promise!IsSettled(k) BY <3>4 DEF Promise!IsSettled, Settled
    <3>6. Promise!Answer(k)
      BY <1>3, <2>1, <3>1, <3>5 DEF Promise!Answer, Settled, Answered
    <3> QED BY <3>6 DEF Promise!Next
  <2> QED BY <2>2, <2>3, TellingStep
<1> QED BY <1>2, <1>3, OnlyCommitWrites

\* However calls interleave, fail, crash and are retried, the engine moves and
\* reports money as ExactlyOnce promises.
THEOREM EngineKeepsPromise == Spec => KeepsPromise
<1>1. Init => EngineInv
  BY TypeInit DEF Init, EngineInv, SnapshotIsCurrent, DedupInv, ReceiptInv, ReplyInv, Absent
<1>2. EngineInv /\ [Next]_vars => EngineInv'
  BY TypeStep, SnapshotStep, DedupStep, ReceiptStep, ReplyStep DEF EngineInv
<1>3. Init => Promise!Init
  BY DEF Init, Promise!Init, Told
<1> QED BY <1>1, <1>2, <1>3, PromiseStep, PTL DEF Spec, KeepsPromise, Promise!Spec

-----------------------------------------------------------------------------
(* The audit: the ledger added up.                                         *)

Amount(c) == [t \in LedgerTx |-> t.delta[c]]

\* What an audit adds up is a sum of amounts.
LEMMA MovedIsSum ==
    ASSUME NEW c, NEW S, S \subseteq LedgerTx, IsFiniteSet(S)
    PROVE  Moved(S, c) = SumOf(Amount(c), S)
<1>1. PICK G : Adds(G, Amount(c), S) BY AddsExists
<1>2. G = [s \in SUBSET S |-> IF s = {} THEN 0 ELSE (CHOOSE x \in s : TRUE).delta[c]
                                                    + G[s \ {CHOOSE x \in s : TRUE}]]
  <2>1. \A s \in SUBSET S : s # {} => Pick(s) \in LedgerTx BY PickIsMember
  <2>2. \A s \in SUBSET S : s # {} => Amount(c)[Pick(s)] = Pick(s).delta[c]
    BY <2>1 DEF Amount
  <2>3. G = [s \in SUBSET S |-> IF s = {} THEN 0 ELSE Pick(s).delta[c] + G[s \ {Pick(s)}]]
    BY <1>1, <2>2 DEF Adds
  <2> QED BY <2>3 DEF Pick
<1>3. PICK H : /\ H = [s \in SUBSET S |-> IF s = {} THEN 0 ELSE (CHOOSE x \in s : TRUE).delta[c]
                                                    + H[s \ {CHOOSE x \in s : TRUE}]]
               /\ Moved(S, c) = H[S]
  BY <1>2 DEF Moved, MapThenSumSet, MapThenFoldSet
<1>4. Adds(H, Amount(c), S)
  <2>1. \A s \in SUBSET S : s # {} => Pick(s) \in LedgerTx BY PickIsMember
  <2>2. \A s \in SUBSET S : s # {} => Amount(c)[Pick(s)] = Pick(s).delta[c]
    BY <2>1 DEF Amount
  <2>3. H = [s \in SUBSET S |-> IF s = {} THEN 0 ELSE Pick(s).delta[c] + H[s \ {Pick(s)}]]
    BY <1>3 DEF Pick
  <2> QED BY <2>2, <2>3 DEF Adds
<1> QED BY <1>3, <1>4, SumIsUnique

\* How a total changes with its transactions.
LEMMA MovedRules ==
    ASSUME NEW c \in Currencies, NEW S, S \subseteq LedgerTx, IsFiniteSet(S)
    PROVE  /\ Moved(S, c) \in Int
           /\ S = {} => Moved(S, c) = 0
           /\ \A t \in LedgerTx \ S : Moved(S \union {t}, c) = Moved(S, c) + t.delta[c]
           /\ \A t \in S : Moved(S \ {t}, c) = Moved(S, c) - t.delta[c]
<1>1. \A t \in LedgerTx : Amount(c)[t] = t.delta[c] /\ t.delta[c] \in Int
  BY DEF Amount, LedgerTx, Deltas
<1>2. Moved(S, c) = SumOf(Amount(c), S) BY MovedIsSum
<1>3. SumOf(Amount(c), S) \in Int BY <1>1, SumRemoves
<1>4. S = {} => Moved(S, c) = 0 BY <1>2, SumOfNone
<1>5. ASSUME NEW t \in LedgerTx \ S PROVE Moved(S \union {t}, c) = Moved(S, c) + t.delta[c]
  <2>1. IsFiniteSet(S \union {t}) /\ S \union {t} \subseteq LedgerTx BY FS_AddElement
  <2>2. Moved(S \union {t}, c) = SumOf(Amount(c), S \union {t}) BY <2>1, MovedIsSum
  <2>3. SumOf(Amount(c), S \union {t}) = SumOf(Amount(c), S) + Amount(c)[t]
    BY <1>1, SumAdds
  <2> QED BY <1>1, <1>2, <2>2, <2>3
<1>6. ASSUME NEW t \in S PROVE Moved(S \ {t}, c) = Moved(S, c) - t.delta[c]
  <2>1. IsFiniteSet(S \ {t}) /\ S \ {t} \subseteq LedgerTx BY FS_RemoveElement
  <2>2. Moved(S \ {t}, c) = SumOf(Amount(c), S \ {t}) BY <2>1, MovedIsSum
  <2>3. SumOf(Amount(c), S) = Amount(c)[t] + SumOf(Amount(c), S \ {t}) BY <1>1, SumRemoves
  <2>4. SumOf(Amount(c), S \ {t}) \in Int BY <1>1, <2>1, SumRemoves
  <2>5. Amount(c)[t] = t.delta[c] /\ t.delta[c] \in Int BY <1>1
  <2> QED BY <1>2, <2>2, <2>3, <2>4, <2>5
<1> QED BY <1>2, <1>3, <1>4, <1>5, <1>6

\* The ledger at COMMIT: one transaction more, which was not there.
LEMMA LedgerGrowsByOne ==
    ASSUME TypeInv, DedupInv, NEW a \in Attempts, pc[a] = "commit", Persist(a)
    PROVE  /\ Tx(a) \in LedgerTx \ ledger
           /\ ledger' = ledger \union {Tx(a)}
           /\ Tx(a).player = Player(a) /\ Tx(a).kind = req[a].kind /\ Tx(a).delta = delta[a]
           /\ Tx(a).lid = a /\ Tx(a).ref = req[a].ref
           /\ \A p \in Players :
                Of(p)' = IF p = Player(a) THEN Of(p) \union {Tx(a)} ELSE Of(p)
<1>1. Tx(a) \in LedgerTx BY CallTypes DEF Tx, LedgerTx, Request, TypeInv, TypeOK
<1>2. /\ Tx(a).player = Player(a) /\ Tx(a).kind = req[a].kind /\ Tx(a).delta = delta[a]
      /\ Tx(a).lid = a /\ Tx(a).ref = req[a].ref /\ Tx(a).id = Id(a)
  BY DEF Tx
<1>3. Id(a) \notin {t.id : t \in ledger} BY DEF DedupInv
<1>4. Tx(a) \notin ledger BY <1>2, <1>3
<1>5. ledger' = ledger \union {Tx(a)} BY DEF Persist
<1> DEFINE new == Tx(a)
<1> HIDE DEF new
<1>6. \A p \in Players :
         {t \in ledger \union {new} : t.player = p}
         = IF p = new.player THEN Of(p) \union {new} ELSE Of(p)
  BY DEF Of
<1> QED BY <1>1, <1>2, <1>4, <1>5, <1>6 DEF Of, new

\* The ledger is finite, and the running totals of a player's entries are what
\* they add up to.
SumsInv == /\ IsFiniteSet(ledger)
           /\ \A p \in Players, c \in Currencies : entries[p][c] = Moved(Of(p), c)

LEMMA OfTypes ==
    ASSUME TypeInv, SumsInv, NEW p
    PROVE  Of(p) \subseteq LedgerTx /\ IsFiniteSet(Of(p))
BY FS_Subset DEF TypeInv, TypeOK, SumsInv, Of

LEMMA SumsInit == Init => SumsInv
<1> SUFFICES ASSUME Init PROVE SumsInv OBVIOUS
<1>1. \A p, c : Of(p) = {} /\ (c \in Currencies => Nothing[c] = 0)
  BY DEF Init, Of, Nothing, Coins, Currencies
<1>2. \A c \in Currencies : Moved({}, c) = 0 BY MovedRules, FS_EmptySet
<1> QED BY <1>1, <1>2, FS_EmptySet DEF Init, SumsInv

LEMMA SumsStep == TypeInv /\ DedupInv /\ SumsInv /\ [Next]_vars => SumsInv'
<1> SUFFICES ASSUME TypeInv, DedupInv, SumsInv, [Next]_vars PROVE SumsInv' OBVIOUS
<1>1. ASSUME NEW a \in Attempts, pc[a] = "commit", Persist(a) PROVE SumsInv'
  <2>1. IsFiniteSet(ledger') BY <1>1, LedgerGrowsByOne, FS_AddElement DEF SumsInv
  <2>2. ASSUME NEW p \in Players, NEW c \in Currencies
        PROVE  entries'[p][c] = Moved(Of(p), c)'
    <3>1. CASE p # Player(a)
      <4>1. entries'[p] = entries[p] BY <1>1, <3>1 DEF Persist, TypeInv, TypeOK
      <4>2. Of(p)' = Of(p) BY <1>1, <3>1, LedgerGrowsByOne
      <4> QED BY <2>2, <4>1, <4>2 DEF SumsInv
    <3>2. CASE p = Player(a)
      <4>1. entries'[p][c] = entries[p][c] + delta[a][c]
        BY <1>1, <3>2 DEF Persist, TypeInv, TypeOK, Plus
      <4>2. /\ Of(p)' = Of(p) \union {Tx(a)} /\ Tx(a) \in LedgerTx \ Of(p)
            /\ Tx(a).delta = delta[a]
        BY <1>1, <3>2, LedgerGrowsByOne DEF Of
      <4>3. Moved(Of(p) \union {Tx(a)}, c) = Moved(Of(p), c) + Tx(a).delta[c]
        BY <4>2, OfTypes, MovedRules
      <4>4. entries[p][c] = Moved(Of(p), c) BY DEF SumsInv
      <4>5. Moved(Of(p), c)' = Moved(Of(p) \union {Tx(a)}, c) BY <4>2
      <4> QED BY <4>1, <4>2, <4>3, <4>4, <4>5
    <3> QED BY <3>1, <3>2
  <2> QED BY <2>1, <2>2 DEF SumsInv
<1>2. ASSUME UNCHANGED <<ledger, entries>> PROVE SumsInv'
  <2>1. \A p : Of(p)' = Of(p) BY <1>2 DEF Of
  <2>2. \A p, c : Moved(Of(p), c)' = Moved(Of(p), c) BY <2>1
  <2> QED BY <1>2, <2>2 DEF SumsInv
<1> QED BY <1>1, <1>2, OnlyCommitWrites

\* The reconciler's equality holds at every moment: an audit that adds up a
\* player's ledger entries finds each balance.
THEOREM AuditsPass == Spec => []AuditPasses
<1>1. TypeInv /\ WalletMatchesLedger /\ SumsInv => AuditPasses
  <2> SUFFICES ASSUME WalletMatchesLedger, SumsInv, NEW p \in Players, NEW c \in Currencies
               PROVE  balance[p][c] = Opening[p][c] + Moved(Of(p), c)
    BY DEF AuditPasses
  <2>1. balance[p] = Plus(Opening[p], entries[p]) BY DEF WalletMatchesLedger
  <2>2. entries[p][c] = Moved(Of(p), c) BY DEF SumsInv
  <2> QED BY <2>1, <2>2 DEF Plus
<1>2. Init => SnapshotIsCurrent /\ DedupInv BY DEF Init, SnapshotIsCurrent, DedupInv
<1> QED BY <1>1, <1>2, WalletIsLedger, TypeInit, TypeStep, DedupStep, SumsInit, SumsStep, PTL
        DEF Spec

-----------------------------------------------------------------------------
(* Cashable coins.                                                         *)

\* What the guards have admitted adds no redeemable coins, unless it is a win, or
\* the reversal of a bet of the player's, whose entries it turns round.
PlanInv ==
    \A a \in Attempts : pc[a] \in {"insert", "commit"} =>
        /\ req[a].kind \in {"DEPOSIT", "PROMO_CREDIT", "WITHDRAWAL"} =>
             delta[a]["SC_REDEEMABLE"] <= 0
        /\ req[a].kind = "ROLLBACK" =>
             \E t \in Reversible(req[a]) : delta[a] = Negated(t.delta)

\* The wins of a player, and the bets that stand.
Wins(p) == {t \in Of(p) : t.kind = "WIN"}
Bets(p) == {t \in Of(p) : t.kind = "BET" /\ Rollbacks(t.lid) = {}}

\* A player's redeemable coins are at most what he opened with and has won, less
\* what his standing bets have staked: a bet that is reversed no longer counts,
\* so a second reversal would break the bound.
CashInv ==
    \A p \in Players :
        balance[p]["SC_REDEEMABLE"] <=
            Opening[p]["SC_REDEEMABLE"] + Moved(Wins(p), "SC_REDEEMABLE")
                                        + Moved(Bets(p), "SC_REDEEMABLE")

LEMMA PlanStep == TypeInv /\ PlanInv /\ [Next]_vars => PlanInv'
<1> SUFFICES ASSUME TypeInv, PlanInv, [Next]_vars PROVE PlanInv' OBVIOUS
<1> DEFINE Planned(b) ==
             pc[b] \in {"insert", "commit"} =>
               /\ req[b].kind \in {"DEPOSIT", "PROMO_CREDIT", "WITHDRAWAL"} =>
                    delta[b]["SC_REDEEMABLE"] <= 0
               /\ req[b].kind = "ROLLBACK" =>
                    \E t \in Reversible(req[b]) : delta[b] = Negated(t.delta)
<1>1. \A b \in Attempts : Planned(b) BY DEF PlanInv
<1>2. \A r : Reversible(r) \subseteq Reversible(r)'
  BY OnlyCommitWrites DEF Reversible, Persist
<1>3. ASSUME NEW a \in Attempts, Admit(a) PROVE \A b \in Attempts : Planned(b)'
  <2>1. /\ req[a] \in Request /\ CanMove(req[a], seen[a]) /\ UNCHANGED req
        /\ delta'[a] = Movement(req[a], seen[a])
    BY <1>3, CallTypes DEF Admit, Admissible, TypeInv, TypeOK
  <2> DEFINE r == req[a]
  <2>2. r.kind \in {"DEPOSIT", "PROMO_CREDIT"} => delta'[a]["SC_REDEEMABLE"] = 0
    BY <2>1 DEF Movement, IssueCredit, Coins, Currencies
  <2>3. r.kind = "WITHDRAWAL" => delta'[a]["SC_REDEEMABLE"] <= 0
    <3>1. r.amount \in Nat BY <2>1 DEF Request
    <3>2. r.kind = "WITHDRAWAL" => delta'[a]["SC_REDEEMABLE"] = 0 - r.amount
      BY <2>1 DEF Movement, RedeemDebit, Negated, Coins, Currencies
    <3> QED BY <3>1, <3>2
  <2>4. ASSUME r.kind = "ROLLBACK"
        PROVE  \E t \in Reversible(r) : delta'[a] = Negated(t.delta)
    <3>1. Reversible(r) # {} BY <2>1, <2>4 DEF CanMove
    <3>2. delta'[a] = Negated((CHOOSE t \in Reversible(r) : TRUE).delta)
      BY <2>1, <2>4 DEF Movement, Reversal
    <3> QED BY <3>1, <3>2
  <2>5. Planned(a)' BY <1>2, <2>1, <2>2, <2>3, <2>4
  <2>6. ASSUME NEW b \in Attempts \ {a} PROVE Planned(b)'
    <3>1. pc'[b] = pc[b] /\ delta'[b] = delta[b]
      BY <1>3 DEF Admit, Goto, TypeInv, TypeOK
    <3> QED BY <3>1, <2>1, <1>1, <1>2
  <2> QED BY <2>5, <2>6
<1>4. ASSUME ~ \E a \in Attempts : Admit(a), NEW b \in Attempts PROVE Planned(b)'
  <2>1. pc'[b] \in {"insert", "commit"} =>
          /\ pc[b] \in {"insert", "commit"} /\ req'[b] = req[b] /\ delta'[b] = delta[b]
    BY <1>4, OnlyAdmitPlans
  <2> QED BY <1>1, <1>2, <2>1
<1>5. \A b \in Attempts : Planned(b)' BY <1>3, <1>4
<1> QED BY <1>5 DEF PlanInv

\* What a reversal adds to the reversals of the transactions.
LEMMA RollbacksGrow ==
    ASSUME NEW new, ledger' = ledger \union {new}, NEW ref
    PROVE  Rollbacks(ref)' = IF new.kind = "ROLLBACK" /\ new.ref = ref
                             THEN Rollbacks(ref) \union {new} ELSE Rollbacks(ref)
BY DEF Rollbacks

LEMMA CashTypes ==
    ASSUME TypeInv, SumsInv, NEW p
    PROVE  /\ Wins(p) \subseteq LedgerTx /\ IsFiniteSet(Wins(p))
           /\ Bets(p) \subseteq LedgerTx /\ IsFiniteSet(Bets(p))
<1>1. Wins(p) \subseteq Of(p) /\ Bets(p) \subseteq Of(p) BY DEF Wins, Bets
<1> QED BY <1>1, OfTypes, FS_Subset

\* How a COMMIT changes the wins and the standing bets.
LEMMA CashFlows ==
    ASSUME TypeInv, DedupInv, ReversalInv, PlanInv, SumsInv, BetsAreDebits,
           NEW a \in Attempts, pc[a] = "commit", Persist(a),
           NEW p, p = Player(a), NEW new, new = Tx(a)
    PROVE  /\ \A q \in Players \ {p} : Wins(q)' = Wins(q) /\ Bets(q)' = Bets(q)
           /\ \/ /\ Wins(p)' = Wins(p) \union {new} /\ new \notin Wins(p)
                 /\ Bets(p)' = Bets(p)
              \/ /\ Wins(p)' = Wins(p)
                 /\ Bets(p)' = Bets(p) \union {new} /\ new \notin Bets(p)
              \/ /\ Wins(p)' = Wins(p)
                 /\ \E t \in Bets(p) : delta[a] = Negated(t.delta) /\ Bets(p)' = Bets(p) \ {t}
              \/ /\ Wins(p)' = Wins(p)
                 /\ Bets(p)' = Bets(p)
                 /\ delta[a]["SC_REDEEMABLE"] <= 0
<1>1. /\ new \in LedgerTx \ ledger /\ ledger' = ledger \union {new}
      /\ new.player = p /\ new.kind = req[a].kind /\ new.delta = delta[a]
      /\ new.lid = a /\ new.ref = req[a].ref
      /\ \A q \in Players : Of(q)' = IF q = p THEN Of(q) \union {new} ELSE Of(q)
      /\ \A q : Of(q) \subseteq ledger
  BY LedgerGrowsByOne DEF Of
<1>2. p \in Players /\ req[a] \in Request BY CallTypes
<1>3. \A q \in Players : Wins(q)' = IF q = p /\ new.kind = "WIN" THEN Wins(q) \union {new} ELSE Wins(q)
  BY <1>1 DEF Wins
\* The transaction is not yet reversed, nor is the bet that it reverses.
<1>4. Rollbacks(a) = {}
  <2>1. \A u \in ledger : u.lid # a BY DEF ReversalInv, Uncommitted
  <2> QED BY <2>1 DEF Rollbacks, ReversalInv
<1>5. new.kind = "ROLLBACK" => Rollbacks(new.ref) = {} /\ Rollbacks(a)' = {}
  <2> SUFFICES ASSUME new.kind = "ROLLBACK" PROVE Rollbacks(new.ref) = {} /\ Rollbacks(a)' = {}
    OBVIOUS
  <2>1. \A t \in Rollbacks(new.ref) : t.id = Id(a) BY <1>1 DEF ReversalInv
  <2>2. \A t \in ledger : t.id # Id(a) BY DEF DedupInv
  <2>3. Rollbacks(new.ref) = {} BY <2>1, <2>2 DEF Rollbacks
  <2>4. PICK u \in ledger : u.lid = new.ref BY <1>1 DEF ReversalInv
  <2>5. new.ref # a BY <2>4 DEF ReversalInv, Uncommitted
  <2> QED BY <1>1, <1>4, <2>3, <2>5, RollbacksGrow
<1>6. ASSUME NEW q \in Players \ {p} PROVE Bets(q)' = Bets(q)
  <2>1. ASSUME NEW t \in Of(q), t.kind = "BET" PROVE Rollbacks(t.lid)' = Rollbacks(t.lid)
    <3>1. CASE new.kind = "ROLLBACK" /\ new.ref = t.lid
      <4>1. PICK u \in ledger : u.lid = new.ref /\ u.player = p
        <5>1. req[a].kind = "ROLLBACK" /\ req[a].ref = new.ref BY <1>1, <3>1
        <5>2. \E u \in ledger : u.lid = req[a].ref /\ u.player = Player(a)
          BY <5>1 DEF ReversalInv
        <5> QED BY <5>1, <5>2
      <4>2. t \in ledger /\ t.player = q BY <2>1 DEF Of
      <4>3. t = u BY <3>1, <4>1, <4>2 DEF ReversalInv
      <4> QED BY <1>6, <4>1, <4>2, <4>3
    <3>2. CASE ~ (new.kind = "ROLLBACK" /\ new.ref = t.lid)
      BY <1>1, <3>2, RollbacksGrow
    <3> QED BY <3>1, <3>2
  <2>2. Of(q)' = Of(q) BY <1>1, <1>6
  <2> QED BY <2>1, <2>2 DEF Bets
<1>7. CASE new.kind = "WIN"
  <2>1. \A ref : Rollbacks(ref)' = Rollbacks(ref) BY <1>1, <1>7, RollbacksGrow
  <2>2. Bets(p)' = Bets(p) BY <1>1, <1>2, <1>7, <2>1 DEF Bets
  <2>3. new \notin Wins(p) BY <1>1 DEF Wins
  <2> QED BY <1>2, <1>3, <1>6, <1>7, <2>2, <2>3
<1>8. CASE new.kind = "BET"
  <2>1. \A ref : Rollbacks(ref)' = Rollbacks(ref) BY <1>1, <1>8, RollbacksGrow
  <2>2. Bets(p)' = Bets(p) \union {new} BY <1>1, <1>2, <1>4, <1>8, <2>1 DEF Bets
  <2>3. new \notin Bets(p) BY <1>1 DEF Bets
  <2> QED BY <1>2, <1>3, <1>6, <1>8, <2>2, <2>3
<1>9. CASE new.kind = "ROLLBACK"
  <2>1. PICK t \in Reversible(req[a]) : delta[a] = Negated(t.delta)
    BY <1>1, <1>9 DEF PlanInv
  <2>2. /\ t \in ledger /\ t.lid = new.ref /\ t.player = p /\ t.kind = "BET"
    BY <1>1, <2>1 DEF Reversible, Player
  <2>3. t \in Bets(p) BY <1>5, <1>9, <2>2 DEF Bets, Of
  <2>4. \A x \in Of(p) : x.lid = new.ref => x = t
    BY <1>1, <2>2 DEF ReversalInv
  <2>5. \A x \in Of(p) : Rollbacks(x.lid)' = IF x = t THEN {new} ELSE Rollbacks(x.lid)
    BY <1>1, <1>5, <1>9, <2>2, <2>4, RollbacksGrow
  <2>6. Bets(p)' = {x \in Of(p) : x.kind = "BET" /\ Rollbacks(x.lid)' = {}}
    BY <1>1, <1>2, <1>9 DEF Bets
  <2>7. Bets(p)' = Bets(p) \ {t} BY <2>5, <2>6 DEF Bets
  <2> QED BY <1>2, <1>3, <1>6, <1>9, <2>1, <2>3, <2>7
<1>10. CASE new.kind \in {"DEPOSIT", "PROMO_CREDIT", "WITHDRAWAL"}
  <2>1. \A ref : Rollbacks(ref)' = Rollbacks(ref) BY <1>1, <1>10, RollbacksGrow
  <2>2. Bets(p)' = Bets(p) BY <1>1, <1>2, <1>10, <2>1 DEF Bets
  <2>3. delta[a]["SC_REDEEMABLE"] <= 0 BY <1>1, <1>10 DEF PlanInv
  <2> QED BY <1>2, <1>3, <1>6, <1>10, <2>2, <2>3
<1> QED BY <1>1, <1>2, <1>7, <1>8, <1>9, <1>10 DEF Request, Kinds

LEMMA CashStep ==
    TypeInv /\ SnapshotIsCurrent /\ DedupInv /\ ReversalInv /\ PlanInv /\ SumsInv /\ OverdraftInv
      /\ CashInv /\ [Next]_vars => CashInv'
<1> SUFFICES ASSUME TypeInv, SnapshotIsCurrent, DedupInv, ReversalInv, PlanInv, SumsInv,
                    OverdraftInv, CashInv, [Next]_vars
             PROVE  CashInv'
  OBVIOUS
<1> DEFINE R == "SC_REDEEMABLE"
           Bounded(q) == balance[q][R] <= Opening[q][R] + Moved(Wins(q), R) + Moved(Bets(q), R)
<1>1. \A q \in Players : Bounded(q) BY DEF CashInv
<1>2. R \in Currencies BY DEF Currencies
<1>3. ASSUME NEW a \in Attempts, pc[a] = "commit", Persist(a) PROVE \A q \in Players : Bounded(q)'
  <2>1. PICK p : p = Player(a) OBVIOUS
  <2>2. PICK new : new = Tx(a) OBVIOUS
  <2>3. p \in Players BY <1>3, <2>1, CallTypes
  <2>4. /\ new \in LedgerTx /\ new.delta = delta[a] BY <1>3, <2>2, LedgerGrowsByOne
  <2>5. BetsAreDebits BY DEF OverdraftInv
  <2>6. ASSUME NEW q \in Players \ {p} PROVE Bounded(q)'
    <3>1. balance'[q] = balance[q] BY <1>3, <2>1, <2>3, <2>6 DEF Persist, TypeInv, TypeOK
    <3>2. Wins(q)' = Wins(q) /\ Bets(q)' = Bets(q)
      BY <1>3, <2>1, <2>2, <2>5, <2>6, CashFlows
    <3> QED BY <1>1, <2>6, <3>1, <3>2
  <2> DEFINE w == Moved(Wins(p), R)
             b == Moved(Bets(p), R)
             d == delta[a][R]
             have == balance[p][R]
  <2>7. balance'[p][R] = have + d
    <3>1. seen[a] = balance[p] BY <1>3, <2>1 DEF SnapshotIsCurrent
    <3>2. balance'[p] = Plus(balance[p], delta[a])
      BY <1>3, <2>1, <2>3, <3>1 DEF Persist, Post, TypeInv, TypeOK
    <3> QED BY <1>2, <3>2 DEF Plus
  <2>8. /\ have \in Int /\ d \in Int /\ Opening[p][R] \in Int /\ w \in Int /\ b \in Int
    <3>1. have \in Int /\ d \in Int /\ Opening[p][R] \in Int
      BY <1>2, <2>3, OpeningAssumption, BoundsAssumption DEF TypeInv, TypeOK, Deltas
    <3>2. w \in Int /\ b \in Int BY <1>2, CashTypes, MovedRules
    <3> QED BY <3>1, <3>2
  <2>9. have <= Opening[p][R] + w + b BY <1>1, <2>3
  <2>10. ASSUME Wins(p)' = Wins(p) \union {new}, new \notin Wins(p), Bets(p)' = Bets(p)
         PROVE  Bounded(p)'
    <3>1. Moved(Wins(p) \union {new}, R) = w + d BY <1>2, <2>4, <2>10, CashTypes, MovedRules
    <3>2. Moved(Wins(p), R)' = w + d /\ Moved(Bets(p), R)' = b BY <2>10, <3>1
    <3> HIDE DEF w, b, d, have, R
    <3> QED BY <2>7, <2>8, <2>9, <3>2
  <2>11. ASSUME Wins(p)' = Wins(p), Bets(p)' = Bets(p) \union {new}, new \notin Bets(p)
         PROVE  Bounded(p)'
    <3>1. Moved(Bets(p) \union {new}, R) = b + d BY <1>2, <2>4, <2>11, CashTypes, MovedRules
    <3>2. Moved(Wins(p), R)' = w /\ Moved(Bets(p), R)' = b + d BY <2>11, <3>1
    <3> HIDE DEF w, b, d, have, R
    <3> QED BY <2>7, <2>8, <2>9, <3>2
  <2>12. ASSUME Wins(p)' = Wins(p), NEW t \in Bets(p), delta[a] = Negated(t.delta),
                Bets(p)' = Bets(p) \ {t}
         PROVE  Bounded(p)'
    <3>1. d = 0 - t.delta[R] BY <1>2, <2>12 DEF Negated
    <3>2. t.delta[R] \in Int BY <1>2, <2>12, CashTypes DEF LedgerTx, Deltas
    <3>3. Moved(Bets(p) \ {t}, R) = b - t.delta[R] BY <1>2, <2>12, CashTypes, MovedRules
    <3>4. Moved(Wins(p), R)' = w /\ Moved(Bets(p), R)' = b - t.delta[R] BY <2>12, <3>3
    <3> HIDE DEF w, b, d, have, R
    <3> QED BY <2>7, <2>8, <2>9, <3>1, <3>2, <3>4
  <2>13. ASSUME Wins(p)' = Wins(p), Bets(p)' = Bets(p), d <= 0 PROVE Bounded(p)'
    <3>1. Moved(Wins(p), R)' = w /\ Moved(Bets(p), R)' = b BY <2>13
    <3> HIDE DEF w, b, have, R
    <3>2. balance'[p][R] <= Opening[p][R] + w + b BY <2>7, <2>8, <2>9, <2>13
    <3> QED BY <3>1, <3>2
  <2>14. Bounded(p)'
    <3> HIDE DEF Bounded
    <3> QED BY <1>3, <2>1, <2>2, <2>5, <2>10, <2>11, <2>12, <2>13, CashFlows
  <2> QED BY <2>6, <2>14
<1>4. ASSUME UNCHANGED <<balance, ledger>> PROVE \A q \in Players : Bounded(q)'
  <2>1. \A q : Wins(q)' = Wins(q) /\ Bets(q)' = Bets(q)
    BY <1>4 DEF Wins, Bets, Of, Rollbacks
  <2> QED BY <1>1, <1>4, <2>1
<1>5. \A q \in Players : Bounded(q)' BY <1>3, <1>4, OnlyCommitWrites
<1> QED BY <1>5 DEF CashInv

\* Standing bets are debits, so what they add to the bound is nothing.
LEMMA StandingBetsOwe ==
    ASSUME TypeInv, SumsInv, BetsAreDebits, NEW p \in Players
    PROVE  Moved(Bets(p), "SC_REDEEMABLE") <= 0
<1> DEFINE f == Amount("SC_REDEEMABLE")
<1>1. "SC_REDEEMABLE" \in Currencies BY DEF Currencies
<1>2. Bets(p) \subseteq LedgerTx /\ IsFiniteSet(Bets(p)) BY CashTypes
<1>3. \A t \in Bets(p) : f[t] \in Int /\ f[t] <= 0
  BY <1>1, <1>2 DEF Amount, LedgerTx, Deltas, BetsAreDebits, Bets, Of
<1>4. Moved(Bets(p), "SC_REDEEMABLE") = SumOf(f, Bets(p)) BY <1>2, MovedIsSum
<1> HIDE DEF f
<1>5. SumOf(f, Bets(p)) <= SumOf(f, {}) BY <1>2, <1>3, SumIsBounded
<1> QED BY <1>4, <1>5, SumOfNone

\* However bets are made, reversed and retried: nobody holds more cashable coins
\* than he opened with and has won.
THEOREM CashableCoinsAreWon == Spec => []RedeemableIsWon
<1> DEFINE Inv == /\ TypeInv /\ SnapshotIsCurrent /\ DedupInv /\ ReversalInv
                  /\ PlanInv /\ SumsInv /\ OverdraftInv /\ CashInv
<1>1. Init => Inv
  <2> SUFFICES ASSUME Init PROVE Inv OBVIOUS
  <2>1. /\ SnapshotIsCurrent /\ DedupInv /\ ReversalInv /\ PlanInv /\ OverdraftInv
    BY DEF Init, SnapshotIsCurrent, DedupInv, ReversalInv, PlanInv, OverdraftInv,
           BetsAreDebits, NeverOverdrawn
  <2>2. \A p \in Players : Wins(p) = {} /\ Bets(p) = {} BY DEF Init, Wins, Bets, Of
  <2>3. "SC_REDEEMABLE" \in Currencies BY DEF Currencies
  <2>4. Moved({}, "SC_REDEEMABLE") = 0 BY <2>3, MovedRules, FS_EmptySet
  <2>5. \A p \in Players : Opening[p]["SC_REDEEMABLE"] \in Int
    BY <2>3, OpeningAssumption, BoundsAssumption
  <2>6. ASSUME NEW p \in Players
        PROVE  balance[p]["SC_REDEEMABLE"] <=
                 Opening[p]["SC_REDEEMABLE"] + Moved(Wins(p), "SC_REDEEMABLE")
                                             + Moved(Bets(p), "SC_REDEEMABLE")
    <3>1. Moved(Wins(p), "SC_REDEEMABLE") = 0 /\ Moved(Bets(p), "SC_REDEEMABLE") = 0
      BY <2>2, <2>4, <2>6
    <3>2. balance[p] = Opening[p] BY DEF Init
    <3> QED BY <2>5, <3>1, <3>2
  <2> QED BY <2>1, <2>6, TypeInit, SumsInit DEF CashInv
<1>2. Inv /\ [Next]_vars => Inv'
  BY TypeStep, SnapshotStep, DedupStep, ReversalStep, PlanStep, SumsStep, OverdraftStep, CashStep
<1>3. Inv => RedeemableIsWon
  <2> SUFFICES ASSUME Inv, NEW p \in Players
               PROVE  balance[p]["SC_REDEEMABLE"] <=
                        Opening[p]["SC_REDEEMABLE"]
                        + Moved({t \in Of(p) : t.kind = "WIN"}, "SC_REDEEMABLE")
    BY DEF RedeemableIsWon
  <2> DEFINE w == Moved(Wins(p), "SC_REDEEMABLE")
             b == Moved(Bets(p), "SC_REDEEMABLE")
             have == balance[p]["SC_REDEEMABLE"]
             o == Opening[p]["SC_REDEEMABLE"]
  <2>1. "SC_REDEEMABLE" \in Currencies BY DEF Currencies
  <2>2. w \in Int /\ b \in Int BY <2>1, CashTypes, MovedRules
  <2>3. b <= 0 BY StandingBetsOwe DEF OverdraftInv
  <2>4. have <= o + w + b BY DEF CashInv
  <2>5. have \in Int /\ o \in Int
    BY <2>1, OpeningAssumption, BoundsAssumption DEF TypeInv, TypeOK
  <2>6. have <= o + w
    <3> HIDE DEF w, b, have, o
    <3> QED BY <2>2, <2>3, <2>4, <2>5
  <2> QED BY <2>6 DEF Wins
<1> HIDE DEF Inv
<1> QED BY <1>1, <1>2, <1>3, PTL DEF Spec
=============================================================================
