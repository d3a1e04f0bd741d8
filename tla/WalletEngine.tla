---------------------------- MODULE WalletEngine ----------------------------
(***************************************************************************)
(* The money flows of internal/repository: a request claims its key in the *)
(* Redis idempotency barrier, runs one PostgreSQL transaction (wallet row  *)
(* lock, guards, wallet UPDATE, ledger and dedup INSERT, COMMIT), and then *)
(* caches its receipt or releases its key.  ProcessBet, ProcessWin,        *)
(* ProcessRollback, ProcessPurchase, ProcessRedeem and ProcessPromoGrant   *)
(* share that skeleton and differ in their guards and in the amounts they  *)
(* move, so one set of actions covers all six.                             *)
(*                                                                         *)
(* An attempt is one HTTP call; a retry is another attempt that carries    *)
(* the same request.  Its ledger UUID is the attempt that inserted it.     *)
(***************************************************************************)
EXTENDS Wallet

CONSTANTS Attempts,    \* calls of the engine, each made once
          Ids,         \* operator_code:operator_transaction_id
          Players,
          Bodies,      \* raw request bodies, as their SHA-256 tells them apart
          Requests,    \* what an attempt may ask for
          Opening,     \* the wallets before the first call
          Standings,   \* the standings a player may be put in
          MaxWin,      \* WIN_CEILING; zero disables the check
          MaxBalance,  \* what a NUMERIC(18,4) balance column can hold
          None

Kinds == {"BET", "WIN", "ROLLBACK", "DEPOSIT", "WITHDRAWAL", "PROMO_CREDIT"}

\* For a DEPOSIT and a PROMO_CREDIT, amount is the GC part and sc the SC part.
\* ref is the ledger UUID a WIN or a ROLLBACK refers to.  The kind is that of the
\* endpoint: the body of a bet is a body that the endpoint of wins accepts too.
Request == [id: Ids, kind: Kinds, player: Players, body: Bodies,
            family: {"GC", "SC", "UNKNOWN"}, amount: Nat, sc: Nat,
            ref: Attempts \union {None}]

\* EXCLUDED: users.status is ACTIVE and a self-exclusion is in force.
AllStandings == {"ACTIVE", "EXCLUDED", "SUSPENDED"}

ASSUME RequestsAssumption  == Requests \subseteq Request
ASSUME BodiesAssumption    ==  \* an operator's body has one meaning at an endpoint
    \A r, s \in Requests : r.body = s.body /\ r.kind = s.kind /\ r.id = s.id => r = s
ASSUME StandingsAssumption == "ACTIVE" \in Standings /\ Standings \subseteq AllStandings
ASSUME BoundsAssumption    == MaxWin \in Nat /\ MaxBalance \in Nat
ASSUME OpeningAssumption   == Opening \in [Players -> [Currencies -> 0..MaxBalance]]
ASSUME NoneAssumption      == None \notin Attempts \union Requests

VARIABLES redis,     \* the barrier: one entry per id
          balance,   \* wallets: the committed row of each player
          holder,    \* the attempt whose transaction holds the wallet row lock
          ledger,    \* committed ledger_transactions and their player entries
          entries,   \* committed PLAYER_WALLET entries, credits minus debits
          dedup,     \* committed ledger_tx_dedup rows
          standing,  \* users.status and self-exclusion, as the guards read them
          pc, req, seen, delta, reply, receipt   \* the state of each attempt

store    == <<balance, holder, ledger, entries, dedup>>
attempt  == <<pc, req, seen, delta, reply, receipt>>
vars     == <<redis, store, standing, attempt>>

Places  == {"idle", "arrived", "begin", "locked", "insert", "commit", "recover",
            "recache", "store", "release", "done", "dead"}
Replies == {"none", "processed", "recovered", "cached", "pending", "mismatch",
            "refused", "conflict", "failed"}

LedgerTx == [lid: Attempts, id: Ids, kind: Kinds, player: Players,
             ref: Attempts \union {None}, delta: Deltas]
Receipt  == [lid: Attempts, id: Ids, kind: Kinds, player: Players, amount: Int]

\* Who is transacting and what they sent, but not to which endpoint.
Fingerprint(r) == [player |-> r.player, body |-> r.body]

Absent     == [st |-> "absent", fp |-> None, by |-> None, receipt |-> None]
Marker(a)  == [st |-> "processing", fp |-> Fingerprint(req[a]), by |-> a, receipt |-> None]
Payload(a) == [st |-> "cached", fp |-> Fingerprint(req[a]), by |-> None, receipt |-> receipt[a]]

Init == /\ redis = [k \in Ids |-> Absent]
        /\ balance = Opening
        /\ holder = [p \in Players |-> None]
        /\ ledger = {}
        /\ entries = [p \in Players |-> Nothing]
        /\ dedup = {}
        /\ standing = [p \in Players |-> "ACTIVE"]
        /\ pc = [a \in Attempts |-> "idle"]
        /\ req = [a \in Attempts |-> None]
        /\ seen = [a \in Attempts |-> Nothing]
        /\ delta = [a \in Attempts |-> Nothing]
        /\ reply = [a \in Attempts |-> "none"]
        /\ receipt = [a \in Attempts |-> None]

-----------------------------------------------------------------------------
(* Helpers.                                                                *)

Goto(a, place)         == pc' = [pc EXCEPT ![a] = place]
Answer(a, place, word) == Goto(a, place) /\ reply' = [reply EXCEPT ![a] = word]

Id(a)     == req[a].id
Player(a) == req[a].player

\* The wallet row lock is freed by whatever ends the transaction.
Unlocked(a) == [p \in Players |-> IF holder[p] = a THEN None ELSE holder[p]]

Post(a) == Plus(seen[a], delta[a])

\* Mutated form of Within: the range of the column is not checked.
AnyPositive(w) == \A c \in Currencies : 0 <= w[c]

Within(w) == \A c \in Currencies : 0 <= w[c] /\ w[c] <= MaxBalance

Tx(a) == [lid |-> a, id |-> Id(a), kind |-> req[a].kind, player |-> Player(a),
          ref |-> req[a].ref, delta |-> delta[a]]

ReceiptOf(a, lid, n) == [lid |-> lid, id |-> Id(a), kind |-> req[a].kind,
                         player |-> Player(a), amount |-> n]

\* The Amount a request announces: promoHeadlineAmount for a grant, and what
\* recoverGhostSpin is given.  A rollback announces nothing: it passes zero.
Announced(r) == IF r.kind = "ROLLBACK" THEN 0
                ELSE IF r.kind = "PROMO_CREDIT" /\ r.amount = 0 THEN r.sc
                ELSE r.amount

\* The Amount of a receipt made by the transaction itself.
Headline(a) == IF req[a].kind = "ROLLBACK" THEN Total(delta[a]) ELSE Announced(req[a])

-----------------------------------------------------------------------------
(* Arrival.  validate() and the win ceiling run before the barrier.        *)

Valid(r) ==
    /\ r.kind \in {"BET", "WIN"} => r.family \in Families
    /\ r.kind \in {"BET", "WIN", "WITHDRAWAL"} => r.amount > 0
    /\ r.kind \in {"DEPOSIT", "PROMO_CREDIT"} => CanIssue(r.amount, r.sc)
    /\ r.kind = "ROLLBACK" => r.ref # None

OverCeiling(r) == r.kind = "WIN" /\ MaxWin > 0 /\ r.amount > MaxWin

Arrive(a) ==
    /\ pc[a] = "idle"
    /\ \E r \in Requests :
         /\ req' = [req EXCEPT ![a] = r]
         /\ IF Valid(r) /\ ~ OverCeiling(r)
            THEN Goto(a, "arrived") /\ UNCHANGED reply
            ELSE Answer(a, "done", "refused")
    /\ UNCHANGED <<redis, store, standing, seen, delta, receipt>>

-----------------------------------------------------------------------------
(* The idempotency barrier (Acquire).  The Lua script runs alone, so each  *)
(* of its outcomes is one step.                                            *)

\* Mutated form of SameFingerprint: a key is not bound to the request behind it.
AnyFingerprint(k, a) == TRUE

SameFingerprint(k, a) == redis[k].fp = Fingerprint(req[a])

Claim(a) ==
    /\ pc[a] = "arrived"
    /\ redis[Id(a)].st = "absent"
    /\ redis' = [redis EXCEPT ![Id(a)] = Marker(a)]
    /\ Goto(a, "begin")
    /\ UNCHANGED <<store, standing, req, seen, delta, reply, receipt>>

AnswerPending(a) ==
    /\ pc[a] = "arrived"
    /\ redis[Id(a)].st = "processing"
    /\ SameFingerprint(Id(a), a)
    /\ Answer(a, "done", "pending")
    /\ UNCHANGED <<redis, store, standing, req, seen, delta, receipt>>

AnswerCached(a) ==
    /\ pc[a] = "arrived"
    /\ redis[Id(a)].st = "cached"
    /\ SameFingerprint(Id(a), a)
    /\ receipt' = [receipt EXCEPT ![a] = redis[Id(a)].receipt]
    /\ Answer(a, "done", "cached")
    /\ UNCHANGED <<redis, store, standing, req, seen, delta>>

AnswerMismatch(a) ==
    /\ pc[a] = "arrived"
    /\ redis[Id(a)].st # "absent"
    /\ ~ SameFingerprint(Id(a), a)
    /\ Answer(a, "done", "mismatch")
    /\ UNCHANGED <<redis, store, standing, req, seen, delta, receipt>>

\* Redis does not answer: fail closed, and never release.  The script may
\* have run all the same and left a marker that only its TTL removes.
BarrierDown(a) ==
    /\ pc[a] = "arrived"
    /\ \/ UNCHANGED redis
       \/ redis[Id(a)].st = "absent" /\ redis' = [redis EXCEPT ![Id(a)] = Marker(a)]
    /\ Answer(a, "done", "failed")
    /\ UNCHANGED <<store, standing, req, seen, delta, receipt>>

-----------------------------------------------------------------------------
(* The PostgreSQL transaction.                                             *)

\* Mutated form of LockWallet: a plain SELECT, without FOR UPDATE.
LockWalletUnlocked(a) ==
    /\ pc[a] = "begin"
    /\ holder' = [holder EXCEPT ![Player(a)] = a]
    /\ seen' = [seen EXCEPT ![a] = balance[Player(a)]]
    /\ Goto(a, "locked")
    /\ UNCHANGED <<redis, balance, ledger, entries, dedup, standing, req, delta, reply, receipt>>

\* BEGIN and SELECT ... FOR UPDATE: waits for the transaction that holds the row.
LockWallet(a) ==
    /\ pc[a] = "begin"
    /\ holder[Player(a)] = None
    /\ holder' = [holder EXCEPT ![Player(a)] = a]
    /\ seen' = [seen EXCEPT ![a] = balance[Player(a)]]
    /\ Goto(a, "locked")
    /\ UNCHANGED <<redis, balance, ledger, entries, dedup, standing, req, delta, reply, receipt>>

\* requirePlayerActive and guardNotExcluded, as each flow calls them.
StandingAllows(r, s) ==
    /\ r.kind # "ROLLBACK" => s # "SUSPENDED"
    /\ r.kind \in {"BET", "DEPOSIT", "PROMO_CREDIT"} => s # "EXCLUDED"

\* guardLossLimit and guardDepositLimit may refuse these two for a limit.
Limited(r) == r.kind \in {"BET", "DEPOSIT"}

\* Mutated form of AlreadyRolledBack: the guard is missing.
NeverRolledBack(r) == FALSE

\* A reversal under this very id is a retry, left to the dedup INSERT.
AlreadyRolledBack(r) ==
    \E t \in ledger : t.kind = "ROLLBACK" /\ t.ref = r.ref /\ t.id # r.id

\* The bets a rollback may reverse.
Reversible(r) == {t \in ledger : t.lid = r.ref /\ t.player = r.player /\ t.kind = "BET"}

CanMove(r, w) ==
    /\ r.kind = "BET"        => CanBet(w, r.family, r.amount)
    /\ r.kind = "WITHDRAWAL" => CanRedeem(w, r.amount)
    /\ r.kind = "ROLLBACK"   => Reversible(r) # {} /\ ~ AlreadyRolledBack(r)

\* What a rollback gives back: the entries of the bet, with their signs turned.
Reversal(r) == Negated((CHOOSE t \in Reversible(r) : TRUE).delta)

\* What the flow adds to the wallet.
Movement(r, w) ==
    IF      r.kind = "BET"        THEN Negated(BetDebits(w, r.family, r.amount))
    ELSE IF r.kind = "WITHDRAWAL" THEN Negated(RedeemDebit(r.amount))
    ELSE IF r.kind = "WIN"        THEN WinCredit(r.family, r.amount)
    ELSE IF r.kind = "ROLLBACK"   THEN Reversal(r)
    ELSE                               IssueCredit(r.amount, r.sc)

Admissible(a) == /\ StandingAllows(req[a], standing[Player(a)])
                 /\ CanMove(req[a], seen[a])

\* The guards pass and the post-state is computed, in memory.
Admit(a) ==
    /\ pc[a] = "locked"
    /\ Admissible(a)
    /\ delta' = [delta EXCEPT ![a] = Movement(req[a], seen[a])]
    /\ Goto(a, "insert")
    /\ UNCHANGED <<redis, store, standing, req, seen, reply, receipt>>

\* Whatever ends a transaction frees its lock; its variables go out of scope.
EndTx(a) == /\ holder' = Unlocked(a)
            /\ seen' = [seen EXCEPT ![a] = Nothing]
            /\ delta' = [delta EXCEPT ![a] = Nothing]

Abort(a) == EndTx(a) /\ UNCHANGED <<balance, ledger, entries, dedup>>

\* Mutated form of Refuse: the deferred tx.Rollback is missing.
RefuseLeakingLock(a) ==
    /\ pc[a] = "locked"
    /\ ~ Admissible(a) \/ Limited(req[a])
    /\ Answer(a, "release", "refused")
    /\ UNCHANGED <<redis, store, standing, req, seen, delta, receipt>>

Refuse(a) ==
    /\ pc[a] = "locked"
    /\ ~ Admissible(a) \/ Limited(req[a])
    /\ Abort(a)
    /\ Answer(a, "release", "refused")
    /\ UNCHANGED <<redis, standing, req, receipt>>

\* A balance out of its column's range fails the UPDATE of the wallet row.
UpdateRejected(a) ==
    /\ pc[a] = "insert"
    /\ ~ Within(Post(a))
    /\ Abort(a)
    /\ Answer(a, "release", "failed")
    /\ UNCHANGED <<redis, standing, req, receipt>>

\* Any statement may fail: connection lost, lock wait cancelled, COMMIT
\* refused, a read of the recovery.
Fail(a) ==
    /\ pc[a] \in {"begin", "locked", "insert", "commit", "recover"}
    /\ Abort(a)
    /\ Answer(a, "release", "failed")
    /\ UNCHANGED <<redis, standing, req, receipt>>

\* Another transaction has inserted this id and is yet to commit: the unique
\* index makes an INSERT of the same id wait for it.
InFlight(k, a) == \E b \in Attempts \ {a} : pc[b] = "commit" /\ Id(b) = k

\* Mutated form of InsertLedgerTx: the ledger row alone, whose unique key is
\* local to a day's partition, without the dedup row.
InsertPartitionOnly(a) ==
    /\ pc[a] = "insert"
    /\ Within(Post(a))
    /\ ~ InFlight(Id(a), a)
    /\ Goto(a, "commit")
    /\ UNCHANGED <<redis, store, standing, req, seen, delta, reply, receipt>>

\* UPDATE wallets, then INSERT the ledger and the dedup rows.
InsertLedgerTx(a) ==
    /\ pc[a] = "insert"
    /\ Within(Post(a))
    /\ ~ InFlight(Id(a), a)
    /\ Id(a) \notin dedup
    /\ Goto(a, "commit")
    /\ UNCHANGED <<redis, store, standing, req, seen, delta, reply, receipt>>

\* The INSERT reports 23505: roll back, and look the committed row up.
DuplicateLedgerTx(a) ==
    /\ pc[a] = "insert"
    /\ Within(Post(a))
    /\ Id(a) \in dedup
    /\ Abort(a)
    /\ Goto(a, "recover")
    /\ UNCHANGED <<redis, standing, req, reply, receipt>>

\* COMMIT makes the wallet row, the ledger rows and the dedup row durable at
\* once and frees the lock.
Persist(a) ==
    /\ EndTx(a)
    /\ balance' = [balance EXCEPT ![Player(a)] = Post(a)]
    /\ ledger' = ledger \union {Tx(a)}
    /\ entries' = [entries EXCEPT ![Player(a)] = Plus(entries[Player(a)], delta[a])]
    /\ dedup' = dedup \union {Id(a)}

Commit(a) ==
    /\ pc[a] = "commit"
    /\ Persist(a)
    /\ receipt' = [receipt EXCEPT ![a] = ReceiptOf(a, a, Headline(a))]
    /\ Answer(a, "store", "processed")
    /\ UNCHANGED <<redis, standing, req>>

\* COMMIT was applied and its acknowledgement lost: the caller is told of a
\* failure and the key is released.
CommitUnacknowledged(a) ==
    /\ pc[a] = "commit"
    /\ Persist(a)
    /\ Answer(a, "release", "failed")
    /\ UNCHANGED <<redis, standing, req, receipt>>

-----------------------------------------------------------------------------
(* Ghost-spin recovery, and the end of a call.                             *)

\* Mutated form of Recoverable: the stored player is not compared.
RecoverableByAnyone(t, r) == t.id = r.id /\ t.kind = r.kind

Recoverable(t, r) == t.id = r.id /\ t.kind = r.kind /\ t.player = r.player

\* The receipt names the ledger row found, and the amount the retry announces.
Recover(a) ==
    /\ pc[a] = "recover"
    /\ \E t \in ledger :
         /\ Recoverable(t, req[a])
         /\ receipt' = [receipt EXCEPT ![a] = ReceiptOf(a, t.lid, Announced(req[a]))]
    /\ Answer(a, "recache", "recovered")
    /\ UNCHANGED <<redis, store, standing, req, seen, delta>>

RecoverConflict(a) ==
    /\ pc[a] = "recover"
    /\ \A t \in ledger : ~ Recoverable(t, req[a])
    /\ Answer(a, "release", "conflict")
    /\ UNCHANGED <<redis, store, standing, req, seen, delta, receipt>>

\* SET XX: whatever is under the key is replaced, an absent key stays absent.
\* The write may fail, which is logged and nothing else.  A recovered receipt
\* is written twice, by recoverGhostSpin and by its caller.
CacheResult(a) ==
    /\ pc[a] \in {"recache", "store"}
    /\ \/ UNCHANGED redis
       \/ /\ redis[Id(a)].st # "absent"
          /\ redis' = [redis EXCEPT ![Id(a)] = Payload(a)]
    /\ Goto(a, IF pc[a] = "recache" THEN "store" ELSE "done")
    /\ UNCHANGED <<store, standing, req, seen, delta, reply, receipt>>

\* DEL: whatever is under the key is removed.  It may fail too.
Release(a) ==
    /\ pc[a] = "release"
    /\ \/ UNCHANGED redis
       \/ redis' = [redis EXCEPT ![Id(a)] = Absent]
    /\ Goto(a, "done")
    /\ UNCHANGED <<store, standing, req, seen, delta, reply, receipt>>

-----------------------------------------------------------------------------
(* What happens to the calls.                                              *)

\* The process dies; PostgreSQL aborts what was not committed.
Crash(a) ==
    /\ pc[a] \notin {"idle", "done", "dead"}
    /\ Abort(a)
    /\ Goto(a, "dead")
    /\ UNCHANGED <<redis, standing, req, reply, receipt>>

\* A TTL runs out (10 s for a marker, 24 h for a payload) or Redis evicts.
Expire(k) ==
    /\ redis[k].st # "absent"
    /\ redis' = [redis EXCEPT ![k] = Absent]
    /\ UNCHANGED <<store, standing, attempt>>

\* A self-exclusion begins or ends, or users.status is updated.  Only SetLimit,
\* which begins an exclusion, takes the users row FOR UPDATE, and waits for a
\* transaction that has inserted its ledger row, whose foreign key shares it.
\* An exclusion ends with time; a plain UPDATE of users.status waits for nothing.
ChangeStanding(p) ==
    /\ \E s \in Standings :
         /\ s = "EXCLUDED" => \A a \in Attempts : pc[a] = "commit" => Player(a) # p
         /\ standing' = [standing EXCEPT ![p] = s]
    /\ UNCHANGED <<redis, store, attempt>>

Finished == /\ \A a \in Attempts : pc[a] \in {"done", "dead"}
            /\ UNCHANGED vars

-----------------------------------------------------------------------------

Acquire(a) == \/ Claim(a) \/ AnswerPending(a) \/ AnswerCached(a) \/ AnswerMismatch(a)

Transact(a) == \/ LockWallet(a) \/ Admit(a) \/ Refuse(a) \/ UpdateRejected(a)
               \/ InsertLedgerTx(a) \/ DuplicateLedgerTx(a) \/ Commit(a)

Conclude(a) == Recover(a) \/ RecoverConflict(a) \/ CacheResult(a) \/ Release(a)

\* What a call does when nothing breaks down, and what may break down.
Step(a)  == Acquire(a) \/ Transact(a) \/ Conclude(a)
Fault(a) == BarrierDown(a) \/ Fail(a) \/ CommitUnacknowledged(a) \/ Crash(a)

Next == \/ \E a \in Attempts : Arrive(a) \/ Step(a) \/ Fault(a)
        \/ \E k \in Ids : Expire(k)
        \/ \E p \in Players : ChangeStanding(p)
        \/ Finished

Spec == Init /\ [][Next]_vars

\* A call that has arrived is scheduled until it returns, and PostgreSQL
\* grants a row lock that stays free.  Nothing is assumed of the faults.
FairSpec == Spec /\ \A a \in Attempts : WF_vars(Step(a))

-----------------------------------------------------------------------------
(* Properties.                                                             *)

RedisEntry == [st: {"absent", "processing", "cached"},
               fp: [player: Players, body: Bodies] \union {None},
               by: Attempts \union {None}, receipt: Receipt \union {None}]

\* Every variable has its type.
TypeOK ==
    /\ redis \in [Ids -> RedisEntry]
    /\ balance \in [Players -> [Currencies -> 0..MaxBalance]]
    /\ holder \in [Players -> Attempts \union {None}]
    /\ ledger \subseteq LedgerTx
    /\ entries \in [Players -> Deltas]
    /\ dedup \subseteq Ids
    /\ standing \in [Players -> AllStandings]
    /\ pc \in [Attempts -> Places]
    /\ req \in [Attempts -> Requests \union {None}]
    /\ seen \in [Attempts -> Deltas]
    /\ delta \in [Attempts -> Deltas]
    /\ reply \in [Attempts -> Replies]
    /\ receipt \in [Attempts -> Receipt \union {None}]

\* The wallet row is a cache of the ledger: each balance is the opening balance
\* plus the player's entries, whatever calls interleave, fail or crash
\* (processBetTx writes the whole row from a value it read several round trips
\* before; the reconciler audits this equality in production).
WalletMatchesLedger == \A p \in Players : balance[p] = Plus(Opening[p], entries[p])

\* What a transaction has read of its player's wallet is still the committed
\* row, until it ends: the row lock shuts out every other writer.
SnapshotIsCurrent ==
    \A a \in Attempts : pc[a] \in {"locked", "insert", "commit"} =>
        holder[Player(a)] = a /\ seen[a] = balance[Player(a)]

\* No plan computed in memory would take a balance below zero, so the CHECK
\* constraints of the wallets table are never the first line of defence
\* (engine.go: "Abort BEFORE any UPDATE").
NeverOverdrawn ==
    \A a \in Attempts : pc[a] \in {"insert", "commit"} =>
        \A c \in Currencies : Post(a)[c] >= 0

\* Promotional coins are played first: no bet touches the winnings of a wallet
\* that still holds unplayed SC once it is paid for.
WinningsAreStakedLast ==
    \A a \in Attempts :
        /\ pc[a] \in {"insert", "commit"}
        /\ req[a].kind = "BET"
        /\ delta[a]["SC_REDEEMABLE"] < 0
        => Post(a)["SC_UNPLAYED"] = 0

\* However often a call is retried, and whatever became of its key in Redis,
\* an operator transaction id has one ledger transaction.
AtMostOnce == \A t, u \in ledger : t.id = u.id => t = u

\* A bet is reversed at most once, whichever ids the rollbacks carry and
\* however they interleave (sqlRollbackExistsForReference under the wallet lock).
AtMostOneReversal ==
    \A t, u \in ledger :
        t.kind = "ROLLBACK" /\ u.kind = "ROLLBACK" /\ t.ref = u.ref => t = u

\* A receipt is the receipt of a committed ledger transaction of that very id,
\* player and kind.
Backed(n) == \E t \in ledger : /\ t.lid = n.lid /\ t.id = n.id
                               /\ t.player = n.player /\ t.kind = n.kind

\* A receipt was made, by settling or by recovering, for a call of its own kind
\* that sent what the fingerprint says.
Issued(n, fp) == \E b \in Attempts : /\ reply[b] \in {"processed", "recovered"}
                                     /\ receipt[b] = n /\ n.kind = req[b].kind
                                     /\ Fingerprint(req[b]) = fp

\* No caller holds, and no key caches, a success that the ledger does not know,
\* that belongs to another player, or that was made for another body: a receipt
\* from the cache was made for the same player and body under the same id
\* (idempotency.go: the key "is bound to BOTH who is transacting and exactly what
\* they asked for").
\* Its kind is that of the call it was made for, which may have been of another
\* endpoint; a call that is not answered from the cache is told of its own kind.
ReceiptIsBacked ==
    /\ \A a \in Attempts : receipt[a] # None =>
         /\ Backed(receipt[a])
         /\ receipt[a].id = Id(a)
         /\ receipt[a].player = Player(a)
         /\ Issued(receipt[a], Fingerprint(req[a]))
         /\ reply[a] # "cached" => receipt[a].kind = req[a].kind
    /\ \A k \in Ids : redis[k].st = "cached" =>
         /\ Backed(redis[k].receipt)
         /\ redis[k].receipt.id = k
         /\ Issued(redis[k].receipt, redis[k].fp)

\* The engine does what ExactlyOnce promises.
Success == {"processed", "recovered", "cached"}
Told    == {a \in Attempts : pc[a] = "done" /\ reply[a] \in Success}

Promise == INSTANCE ExactlyOnce WITH
    funds    <- balance,
    settled  <- {[id |-> t.id, player |-> t.player, delta |-> t.delta] : t \in ledger},
    answered <- {Id(a) : a \in Told}

KeepsPromise == Promise!Spec

\* Every call that arrives returns, unless its process dies: no wait on a
\* wallet row or on an uncommitted id lasts for ever.
EveryCallReturns ==
    \A a \in Attempts : pc[a] # "idle" ~> pc[a] \in {"done", "dead"}
=============================================================================
