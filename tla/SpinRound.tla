------------------------------ MODULE SpinRound ------------------------------
(***************************************************************************)
(* ProcessSpin of internal/repository/spin.go: a round whose outcome the   *)
(* server draws itself.  One transaction locks the wallet, runs the        *)
(* guards, draws, and settles the bet leg and, if the outcome pays, the    *)
(* win leg in a single statement.  The barrier in front of it is that of   *)
(* WalletEngine, on the spin's own id; the ledger rows carry the ids of    *)
(* the legs.                                                               *)
(*                                                                         *)
(* A spin is one HTTP call; the ledger UUIDs of its two legs are written   *)
(* as the spin that inserted them.                                         *)
(***************************************************************************)
EXTENDS Wallet

CONSTANTS Spins,       \* calls of ProcessSpin, each made once
          Ids,         \* operator_code:operator_transaction_id of the rounds
          Players,
          Requests,    \* the request bodies a spin may carry
          Outcomes,    \* what the reels may show, as tenths of the stake paid
          Foreign,     \* bets of ProcessBet whose id is that of a bet leg
          Opening,     \* the wallets before the first call
          MaxBalance,  \* what a NUMERIC(18,4) balance column can hold
          None

Request == [id: Ids, player: Players, family: {"GC", "SC", "UNKNOWN"}, bet: Nat]

Legs == Ids \X {"bet", "win"}

ASSUME SpinRequestsAssumption == Requests \subseteq Request
ASSUME OutcomesAssumption     == Outcomes \subseteq Nat /\ 0 \in Outcomes
ASSUME ForeignAssumption      == Foreign \subseteq Request
ASSUME SpinOpeningAssumption  == /\ MaxBalance \in Nat
                                 /\ Opening \in [Players -> [Currencies -> 0..MaxBalance]]
ASSUME SpinNoneAssumption     == None \notin Spins \union Requests /\ None \notin Outcomes

VARIABLES redis,     \* the barrier: one entry per id
          balance,   \* wallets: the committed row of each player
          holder,    \* the spin whose transaction holds the wallet row lock
          ledger,    \* committed ledger_transactions, one row per leg
          standing,  \* users.status
          pc, req, status, seen, drawn, reply, receipt   \* the state of each spin

spin == <<pc, req, status, seen, drawn, reply, receipt>>
vars == <<redis, balance, holder, ledger, standing, spin>>

Places  == {"idle", "arrived", "begin", "queued", "locked", "drawn", "commit",
            "recover", "recache", "store", "release", "done", "dead"}
Replies == {"none", "processed", "recovered", "cached", "pending", "mismatch",
            "refused", "conflict", "failed"}

Row     == [leg: Legs, player: Players, lid: Spins \union {None}, delta: Deltas,
            outcome: Outcomes]
Receipt == [id: Ids, player: Players, betTx: Spins \union {None},
            winTx: Spins \union {None}, bet: Nat, win: Nat, outcome: Outcomes]

Absent     == [st |-> "absent", fp |-> None, receipt |-> None]
Marker(a)  == [st |-> "processing", fp |-> req[a], receipt |-> None]
Payload(a) == [st |-> "cached", fp |-> req[a], receipt |-> receipt[a]]

Init == /\ redis = [k \in Ids |-> Absent]
        /\ balance = Opening
        /\ holder = [p \in Players |-> None]
        /\ ledger = {}
        /\ standing = [p \in Players |-> "ACTIVE"]
        /\ pc = [a \in Spins |-> "idle"]
        /\ req = [a \in Spins |-> None]
        /\ status = [a \in Spins |-> "ACTIVE"]
        /\ seen = [a \in Spins |-> Nothing]
        /\ drawn = [a \in Spins |-> None]
        /\ reply = [a \in Spins |-> "none"]
        /\ receipt = [a \in Spins |-> None]

-----------------------------------------------------------------------------
(* Helpers.                                                                *)

Goto(a, place)         == pc' = [pc EXCEPT ![a] = place]
Answer(a, place, word) == Goto(a, place) /\ reply' = [reply EXCEPT ![a] = word]

Id(a)     == req[a].id
Player(a) == req[a].player
Family(a) == req[a].family
Bet(a)    == req[a].bet

\* Mutated form of WinFor: a fraction of the smallest unit is rounded up.
WinRoundedUp(n, o) == (n * o + 9) \div 10

\* Stake times multiplier, truncated to the smallest unit.
WinFor(n, o) == (n * o) \div 10

Win(a) == WinFor(Bet(a), drawn[a])

\* What each leg adds to the wallet.
BetDelta(a) == Negated(BetDebits(seen[a], Family(a), Bet(a)))
WinDelta(a) == WinCredit(Family(a), Win(a))

\* Mutated form of Post: the win is added to the wallet as it was before the bet.
PostFromPreBet(a) == Plus(seen[a], IF Win(a) > 0 THEN WinDelta(a) ELSE BetDelta(a))

\* The win applies on top of the wallet the bet has left.
Post(a) == Plus(Plus(seen[a], BetDelta(a)), WinDelta(a))

\* Mutated form of Within: the range of the column is not checked.
AnyPositive(w) == \A c \in Currencies : 0 <= w[c]

Within(w) == \A c \in Currencies : 0 <= w[c] /\ w[c] <= MaxBalance

BetRow(a) == [leg |-> <<Id(a), "bet">>, player |-> Player(a), lid |-> a,
              delta |-> BetDelta(a), outcome |-> drawn[a]]
WinRow(a) == [BetRow(a) EXCEPT !.leg = <<Id(a), "win">>, !.delta = WinDelta(a)]

\* Both headers carry the outcome; the win leg exists if the round pays.
Rows(a) == {BetRow(a)} \union (IF Win(a) > 0 THEN {WinRow(a)} ELSE {})

LegsOf(rows) == {t.leg : t \in rows}

-----------------------------------------------------------------------------
(* Arrival and the barrier.                                                *)

\* An unknown family stands for every refusal before the barrier, an unknown
\* game among them.
Valid(r) == r.family \in Families /\ r.bet > 0

Arrive(a) ==
    /\ pc[a] = "idle"
    /\ \E r \in Requests :
         /\ req' = [req EXCEPT ![a] = r]
         /\ IF Valid(r) THEN Goto(a, "arrived") /\ UNCHANGED reply
                        ELSE Answer(a, "done", "refused")
    /\ UNCHANGED <<redis, balance, holder, ledger, standing, status, seen, drawn, receipt>>

Claim(a) ==
    /\ pc[a] = "arrived"
    /\ redis[Id(a)].st = "absent"
    /\ redis' = [redis EXCEPT ![Id(a)] = Marker(a)]
    /\ Goto(a, "begin")
    /\ UNCHANGED <<balance, holder, ledger, standing, req, status, seen, drawn, reply, receipt>>

\* The key is taken: by another request, by the same one in flight, or by its receipt.
Taken(a) ==
    /\ pc[a] = "arrived"
    /\ redis[Id(a)].st # "absent"
    /\ LET e == redis[Id(a)]
       IN  /\ Answer(a, "done", IF e.fp # req[a] THEN "mismatch"
                                ELSE IF e.st = "processing" THEN "pending" ELSE "cached")
           /\ receipt' = [receipt EXCEPT ![a] = IF e.fp = req[a] THEN e.receipt ELSE None]
    /\ UNCHANGED <<redis, balance, holder, ledger, standing, req, status, seen, drawn>>

\* Redis does not answer: fail closed; the script may have run all the same.
BarrierDown(a) ==
    /\ pc[a] = "arrived"
    /\ \/ UNCHANGED redis
       \/ redis[Id(a)].st = "absent" /\ redis' = [redis EXCEPT ![Id(a)] = Marker(a)]
    /\ Answer(a, "done", "failed")
    /\ UNCHANGED <<balance, holder, ledger, standing, req, status, seen, drawn, receipt>>

-----------------------------------------------------------------------------
(* The PostgreSQL transaction.                                             *)

\* BEGIN, and the snapshot of SELECT ... JOIN users ... FOR UPDATE OF w.  Only
\* the wallet row is read again once its lock is granted (READ COMMITTED
\* re-evaluates the locked row, not the rows joined to it), so the status is
\* the one of this moment.
Queue(a) ==
    /\ pc[a] = "begin"
    /\ status' = [status EXCEPT ![a] = standing[Player(a)]]
    /\ Goto(a, "queued")
    /\ UNCHANGED <<redis, balance, holder, ledger, standing, req, seen, drawn, reply, receipt>>

LockWalletAndStatus(a) ==
    /\ pc[a] = "queued"
    /\ holder[Player(a)] = None
    /\ holder' = [holder EXCEPT ![Player(a)] = a]
    /\ seen' = [seen EXCEPT ![a] = balance[Player(a)]]
    /\ Goto(a, "locked")
    /\ UNCHANGED <<redis, balance, ledger, standing, req, status, drawn, reply, receipt>>

\* The guards see the stake alone.  Then the reels are drawn.
Draw(a) ==
    /\ pc[a] = "locked"
    /\ status[a] = "ACTIVE"
    /\ \E o \in Outcomes : drawn' = [drawn EXCEPT ![a] = o]
    /\ Goto(a, "drawn")
    /\ UNCHANGED <<redis, balance, holder, ledger, standing, req, status, seen, reply, receipt>>

\* What ends a transaction frees its lock.
Unlocked(a) == [p \in Players |-> IF holder[p] = a THEN None ELSE holder[p]]
EndTx(a)    == /\ holder' = Unlocked(a)
               /\ seen' = [seen EXCEPT ![a] = Nothing]
               /\ status' = [status EXCEPT ![a] = "ACTIVE"]
Abort(a)    == EndTx(a) /\ UNCHANGED <<balance, ledger>>

Funded(a) == CanBet(seen[a], Family(a), Bet(a))

\* The player's status, a self-exclusion or the loss limit, before the draw; the
\* funds after it.
Refuse(a) ==
    /\ \/ pc[a] = "locked"
       \/ pc[a] = "drawn" /\ ~ Funded(a)
    /\ Abort(a)
    /\ Answer(a, "release", "refused")
    /\ UNCHANGED <<redis, standing, req, drawn, receipt>>

\* A balance out of its column's range fails the UPDATE inside the statement.
UpdateRejected(a) ==
    /\ pc[a] = "drawn"
    /\ Funded(a)
    /\ ~ Within(Post(a))
    /\ Abort(a)
    /\ Answer(a, "release", "failed")
    /\ UNCHANGED <<redis, standing, req, drawn, receipt>>

\* Any statement may fail, the random source too.
Fail(a) ==
    /\ pc[a] \in {"begin", "queued", "locked", "drawn", "commit", "recover"}
    /\ Abort(a)
    /\ Answer(a, "release", "failed")
    /\ UNCHANGED <<redis, standing, req, drawn, receipt>>

\* Legs inserted and not committed: an INSERT of one of them waits.
InFlight == UNION {LegsOf(Rows(b)) : b \in {b \in Spins : pc[b] = "commit"}}

\* One statement: the wallet row, both headers, both dedup anchors, the entries.
SettleSpin(a) ==
    /\ pc[a] = "drawn"
    /\ Funded(a)
    /\ Within(Post(a))
    /\ LegsOf(Rows(a)) \intersect (InFlight \union LegsOf(ledger)) = {}
    /\ Goto(a, "commit")
    /\ UNCHANGED <<redis, balance, holder, ledger, standing, req, status, seen, drawn, reply, receipt>>

\* 23505 on either leg: roll back, and look the bet leg up.
DuplicateRound(a) ==
    /\ pc[a] = "drawn"
    /\ Funded(a)
    /\ Within(Post(a))
    /\ LegsOf(Rows(a)) \intersect InFlight = {}
    /\ LegsOf(Rows(a)) \intersect LegsOf(ledger) # {}
    /\ Abort(a)
    /\ Goto(a, "recover")
    /\ UNCHANGED <<redis, standing, req, drawn, reply, receipt>>

Persist(a) ==
    /\ EndTx(a)
    /\ balance' = [balance EXCEPT ![Player(a)] = Post(a)]
    /\ ledger' = ledger \union Rows(a)

ReceiptOf(a, betTx, winTx, o) ==
    [id |-> Id(a), player |-> Player(a), betTx |-> betTx, winTx |-> winTx,
     bet |-> Bet(a), win |-> WinFor(Bet(a), o), outcome |-> o]

Commit(a) ==
    /\ pc[a] = "commit"
    /\ Persist(a)
    /\ receipt' = [receipt EXCEPT ![a] =
                     ReceiptOf(a, a, IF Win(a) > 0 THEN a ELSE None, drawn[a])]
    /\ Answer(a, "store", "processed")
    /\ UNCHANGED <<redis, standing, req, drawn>>

\* COMMIT was applied and its acknowledgement lost.
CommitUnacknowledged(a) ==
    /\ pc[a] = "commit"
    /\ Persist(a)
    /\ Answer(a, "release", "failed")
    /\ UNCHANGED <<redis, standing, req, drawn, receipt>>

-----------------------------------------------------------------------------
(* Recovery, and the end of a call.                                        *)

\* The lookup is by the id of the bet leg; the player is compared, and nothing else.
Recoverable(t, a) == t.leg = <<Id(a), "bet">> /\ t.player = Player(a)

\* Mutated form of Recover: the receipt shows the reels this call has drawn.
RecoverFreshDraw(a) ==
    /\ pc[a] = "recover"
    /\ \E t \in ledger :
         /\ Recoverable(t, a)
         /\ receipt' = [receipt EXCEPT ![a] = ReceiptOf(a, t.lid, None, drawn[a])]
    /\ Answer(a, "recache", "recovered")
    /\ UNCHANGED <<redis, balance, holder, ledger, standing, req, status, seen, drawn>>

\* The receipt shows the stored outcome, the stake of this call and the win that
\* would follow from both; it names no win leg.
Recover(a) ==
    /\ pc[a] = "recover"
    /\ \E t \in ledger :
         /\ Recoverable(t, a)
         /\ receipt' = [receipt EXCEPT ![a] = ReceiptOf(a, t.lid, None, t.outcome)]
    /\ Answer(a, "recache", "recovered")
    /\ UNCHANGED <<redis, balance, holder, ledger, standing, req, status, seen, drawn>>

RecoverConflict(a) ==
    /\ pc[a] = "recover"
    /\ \A t \in ledger : ~ Recoverable(t, a)
    /\ Answer(a, "release", "conflict")
    /\ UNCHANGED <<redis, balance, holder, ledger, standing, req, status, seen, drawn, receipt>>

\* SET XX, twice for a recovered receipt; a failed write is logged and no more.
CacheSpin(a) ==
    /\ pc[a] \in {"recache", "store"}
    /\ \/ UNCHANGED redis
       \/ redis[Id(a)].st # "absent" /\ redis' = [redis EXCEPT ![Id(a)] = Payload(a)]
    /\ Goto(a, IF pc[a] = "recache" THEN "store" ELSE "done")
    /\ UNCHANGED <<balance, holder, ledger, standing, req, status, seen, drawn, reply, receipt>>

Release(a) ==
    /\ pc[a] = "release"
    /\ \/ UNCHANGED redis
       \/ redis' = [redis EXCEPT ![Id(a)] = Absent]
    /\ Goto(a, "done")
    /\ UNCHANGED <<balance, holder, ledger, standing, req, status, seen, drawn, reply, receipt>>

-----------------------------------------------------------------------------
(* What happens to the calls.                                              *)

\* The process dies; PostgreSQL aborts what was not committed.
Crash(a) ==
    /\ pc[a] \notin {"idle", "done", "dead"}
    /\ Abort(a)
    /\ Goto(a, "dead")
    /\ UNCHANGED <<redis, standing, req, drawn, reply, receipt>>

Expire(k) ==
    /\ redis[k].st # "absent"
    /\ redis' = [redis EXCEPT ![k] = Absent]
    /\ UNCHANGED <<balance, holder, ledger, standing, spin>>

\* users.status is updated, outside the engine.  The foreign keys of the ledger
\* hold off no update that leaves the key of the users row alone.
ChangeStatus(p) ==
    /\ \E s \in {"ACTIVE", "SUSPENDED"} : standing' = [standing EXCEPT ![p] = s]
    /\ UNCHANGED <<redis, balance, holder, ledger, spin>>

\* ProcessBet commits a bet whose id is that of a bet leg: all its steps at
\* once, since it holds the wallet row lock through them.  The caller's metadata
\* is stored as it comes, and may show any outcome, or none, which is read as 0.
ForeignRow(r, o) ==
    [leg |-> <<r.id, "bet">>, player |-> r.player, lid |-> None, outcome |-> o,
     delta |-> Negated(BetDebits(balance[r.player], r.family, r.bet))]

ForeignBet(r) ==
    \E o \in Outcomes : LET row == ForeignRow(r, o) IN
        /\ holder[r.player] = None
        /\ standing[r.player] = "ACTIVE"
        /\ Valid(r)
        /\ CanBet(balance[r.player], r.family, r.bet)
        /\ row.leg \notin InFlight \union LegsOf(ledger)
        /\ balance' = [balance EXCEPT ![r.player] = Plus(@, row.delta)]
        /\ ledger' = ledger \union {row}
        /\ UNCHANGED <<redis, holder, standing, spin>>

Finished == /\ \A a \in Spins : pc[a] \in {"done", "dead"}
            /\ UNCHANGED vars

-----------------------------------------------------------------------------

Transact(a) == \/ Queue(a) \/ LockWalletAndStatus(a) \/ Draw(a) \/ Refuse(a)
               \/ UpdateRejected(a) \/ SettleSpin(a) \/ DuplicateRound(a) \/ Commit(a)

Conclude(a) == Recover(a) \/ RecoverConflict(a) \/ CacheSpin(a) \/ Release(a)

Fault(a) == BarrierDown(a) \/ Fail(a) \/ CommitUnacknowledged(a) \/ Crash(a)

Next == \/ \E a \in Spins : \/ Arrive(a) \/ Claim(a) \/ Taken(a)
                            \/ Transact(a) \/ Conclude(a) \/ Fault(a)
        \/ \E k \in Ids : Expire(k)
        \/ \E p \in Players : ChangeStatus(p)
        \/ \E r \in Foreign : ForeignBet(r)
        \/ Finished

Spec == Init /\ [][Next]_vars

-----------------------------------------------------------------------------
(* Properties.                                                             *)

RedisEntry == [st: {"absent", "processing", "cached"}, fp: Requests \union {None},
               receipt: Receipt \union {None}]

\* Every variable has its type.
TypeOK ==
    /\ redis \in [Ids -> RedisEntry]
    /\ balance \in [Players -> [Currencies -> 0..MaxBalance]]
    /\ holder \in [Players -> Spins \union {None}]
    /\ ledger \subseteq Row
    /\ standing \in [Players -> {"ACTIVE", "SUSPENDED"}]
    /\ pc \in [Spins -> Places]
    /\ req \in [Spins -> Requests \union {None}]
    /\ status \in [Spins -> {"ACTIVE", "SUSPENDED"}]
    /\ seen \in [Spins -> [Currencies -> 0..MaxBalance]]
    /\ drawn \in [Spins -> Outcomes \union {None}]
    /\ reply \in [Spins -> Replies]
    /\ receipt \in [Spins -> Receipt \union {None}]

BetLegs == {t \in ledger : t.leg[2] = "bet" /\ t.lid # None}
WinLegs == {t \in ledger : t.leg[2] = "win"}

\* The win leg of a round, if it has one.
Partner(t) == {u \in WinLegs : u.leg[1] = t.leg[1] /\ u.lid = t.lid}

\* A round is paid what its stored outcome says: a win leg exists if and only if
\* the payout reaches one unit, and it is the largest amount that does not exceed
\* stake times multiplier ("truncating keeps every credited coin traceable to
\* the paytable").  No win leg stands without its bet leg.
PaidAsDrawn ==
    /\ \A t \in BetLegs :
         LET owed == (0 - Total(t.delta)) * t.outcome
         IN  IF owed < 10 THEN Partner(t) = {}
             ELSE \E u \in Partner(t) : LET paid == 10 * Total(u.delta)
                                        IN  paid <= owed /\ owed < paid + 10
    /\ \A u \in WinLegs : \E t \in BetLegs : u \in Partner(t) /\ u.player = t.player

\* No settled spin is rolled again: whatever a call is told, or a key caches, of
\* an id shows the outcome stored with its bet leg, of the same player.
Shows(n) == \E t \in ledger : /\ t.leg = <<n.id, "bet">> /\ t.player = n.player
                              /\ t.lid = n.betTx /\ t.outcome = n.outcome

NoReroll == /\ \A a \in Spins : receipt[a] # None => Shows(receipt[a])
            /\ \A k \in Ids : redis[k].st = "cached" => Shows(redis[k].receipt)

\* A round is one movement of ExactlyOnce: both legs or none, once per id, and
\* the wallet changes by what they add up to; a bet of ProcessBet that took the
\* id of a bet leg is the movement of that id.
RoundDelta(t) ==
    IF Partner(t) = {} THEN t.delta
    ELSE Plus(t.delta, (CHOOSE u \in Partner(t) : TRUE).delta)

Stakes == {t \in ledger : t.leg[2] = "bet"}

Told == {a \in Spins : pc[a] = "done" /\ reply[a] \in {"processed", "recovered", "cached"}}

Promise == INSTANCE ExactlyOnce WITH
    funds    <- balance,
    settled  <- {[id |-> t.leg[1], player |-> t.player, delta |-> RoundDelta(t)] : t \in Stakes},
    answered <- {Id(a) : a \in Told}

KeepsPromise == Promise!Spec
=============================================================================
