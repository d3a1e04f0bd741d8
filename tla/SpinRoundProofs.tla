--------------------------- MODULE SpinRoundProofs ---------------------------
(***************************************************************************)
(* Theorems about SpinRound, for any sets of spins, ids, players, requests *)
(* and outcomes, and any opening wallets: a round is paid what its stored  *)
(* outcome says, it is never rolled again, and it is one movement of       *)
(* ExactlyOnce.                                                            *)
(***************************************************************************)
EXTENDS SpinRound, MoneyProofs

-----------------------------------------------------------------------------
(* The payout.                                                             *)

\* Truncation: the payout is the largest amount that tenths of the stake cover.
LEMMA WinForIsFloor ==
    ASSUME NEW n \in Nat, NEW o \in Nat
    PROVE  /\ n * o \in Nat
           /\ WinFor(n, o) \in Nat
           /\ 10 * WinFor(n, o) <= n * o
           /\ n * o < 10 * WinFor(n, o) + 10
<1>1. n * o \in Nat OBVIOUS
<1>2. \A x \in Nat : /\ x \div 10 \in Nat
                     /\ 10 * (x \div 10) <= x
                     /\ x < 10 * (x \div 10) + 10
  OBVIOUS
<1> QED BY <1>1, <1>2 DEF WinFor

\* What the two legs of a funded round add to the wallet.
LEMMA LegDeltas ==
    ASSUME NEW w \in [Currencies -> 0..MaxBalance], NEW r \in Request, NEW o \in Nat
    PROVE  /\ Negated(BetDebits(w, r.family, r.bet)) \in Deltas
           /\ WinCredit(r.family, WinFor(r.bet, o)) \in Deltas
           /\ CanBet(w, r.family, r.bet)
                 => 0 - Total(Negated(BetDebits(w, r.family, r.bet))) = r.bet
           /\ Total(WinCredit(r.family, WinFor(r.bet, o))) = WinFor(r.bet, o)
           /\ WinFor(r.bet, o) = 0
                 => \A d \in Deltas : Plus(d, WinCredit(r.family, WinFor(r.bet, o))) = d
<1>1. r.bet \in Nat /\ r.family \in {"GC", "SC", "UNKNOWN"} BY DEF Request
<1>2. w \in Balances /\ w \in Deltas
  BY SpinOpeningAssumption DEF Balances, Deltas
<1>3. BetDebits(w, r.family, r.bet) \in Deltas BY <1>1, <1>2, FlowPlanTypes
<1>4. WinFor(r.bet, o) \in Nat BY <1>1, WinForIsFloor
<1>5. WinCredit(r.family, WinFor(r.bet, o)) \in Deltas
  BY <1>1, <1>2, <1>4, FlowPlanTypes, WalletIsPlan
<1>6. ASSUME CanBet(w, r.family, r.bet)
      PROVE  0 - Total(Negated(BetDebits(w, r.family, r.bet))) = r.bet
  <2>1. Total(BetDebits(w, r.family, r.bet)) = r.bet BY <1>1, <1>2, <1>6, BetPlanIsCovered
  <2> QED BY <1>3, <2>1 DEF Total, Negated, Deltas, Currencies
<1>7. Total(WinCredit(r.family, WinFor(r.bet, o))) = WinFor(r.bet, o)
  BY <1>4 DEF Total, WinCredit, Coins, Currencies
<1>8. ASSUME WinFor(r.bet, o) = 0, NEW d \in Deltas
      PROVE  Plus(d, WinCredit(r.family, WinFor(r.bet, o))) = d
  BY <1>8 DEF Plus, WinCredit, Coins, Currencies, Deltas
<1> QED BY <1>3, <1>5, <1>6, <1>7, <1>8, PlanTypes

-----------------------------------------------------------------------------
(* Types.                                                                  *)

\* A call past its arrival carries a request that is valid until it returns, and
\* reels that have been drawn; what is about to be committed was funded and fits.
CallsInv == \A a \in Spins :
    /\ pc[a] # "idle" => req[a] \in Requests
    /\ pc[a] \notin {"idle", "done", "dead"} => Valid(req[a])
    /\ pc[a] \in {"drawn", "commit"} => drawn[a] \in Outcomes
    /\ pc[a] = "commit" => Funded(a) /\ Within(Post(a))

TypeInv == TypeOK /\ CallsInv

LEMMA CallTypes ==
    ASSUME TypeInv, NEW a \in Spins, pc[a] # "idle"
    PROVE  /\ req[a] \in Requests /\ req[a] \in Request
           /\ Id(a) \in Ids /\ Player(a) \in Players /\ Bet(a) \in Nat
BY SpinRequestsAssumption DEF TypeInv, CallsInv, Request, Id, Player, Bet

LEMMA RoundTypes ==
    ASSUME TypeInv, NEW a \in Spins, pc[a] \in {"drawn", "commit"}
    PROVE  /\ drawn[a] \in Nat /\ Win(a) \in Nat
           /\ BetDelta(a) \in Deltas /\ WinDelta(a) \in Deltas /\ Post(a) \in Deltas
           /\ BetRow(a) \in Row
           /\ WinRow(a) \in Row
           /\ WinRow(a).leg = <<Id(a), "win">> /\ WinRow(a).player = Player(a)
           /\ WinRow(a).lid = a /\ WinRow(a).delta = WinDelta(a)
           /\ Rows(a) \subseteq Row
<1>1. req[a] \in Request /\ Id(a) \in Ids /\ Player(a) \in Players /\ Bet(a) \in Nat
  BY CallTypes
<1>2. drawn[a] \in Outcomes /\ drawn[a] \in Nat
  BY OutcomesAssumption DEF TypeInv, CallsInv
<1>3. seen[a] \in [Currencies -> 0..MaxBalance] BY DEF TypeInv, TypeOK
<1>4. BetDelta(a) \in Deltas /\ WinDelta(a) \in Deltas
  BY <1>1, <1>2, <1>3, LegDeltas DEF BetDelta, WinDelta, Win, Family, Bet
<1>5. seen[a] \in Deltas BY <1>3, SpinOpeningAssumption DEF Deltas
<1>6. Post(a) \in Deltas BY <1>4, <1>5, PlanTypes DEF Post
<1>7. BetRow(a) \in Row BY <1>1, <1>2, <1>4 DEF BetRow, Row, Legs
<1>8. /\ WinRow(a) \in Row
      /\ WinRow(a).leg = <<Id(a), "win">> /\ WinRow(a).player = Player(a)
      /\ WinRow(a).lid = a /\ WinRow(a).delta = WinDelta(a)
  BY <1>1, <1>2, <1>4 DEF WinRow, BetRow, Row, Legs
<1>9. Win(a) \in Nat BY <1>1, <1>2, WinForIsFloor DEF Win
<1> QED BY <1>2, <1>4, <1>6, <1>7, <1>8, <1>9 DEF Rows

LEMMA TypeInit == Init => TypeInv
<1> SUFFICES ASSUME Init PROVE TypeInv OBVIOUS
<1>1. Absent \in RedisEntry BY DEF Absent, RedisEntry
<1>2. Nothing \in [Currencies -> 0..MaxBalance]
  BY SpinOpeningAssumption DEF Nothing, Coins, Currencies
<1> QED BY <1>1, <1>2, SpinOpeningAssumption
        DEF Init, TypeInv, TypeOK, CallsInv, Places, Replies

\* What Within admits is a row of the wallets table.
LEMMA WithinIsColumn ==
    ASSUME NEW w \in Deltas, Within(w)
    PROVE  w \in [Currencies -> 0..MaxBalance]
<1>1. w \in [Currencies -> Int] BY DEF Deltas
<1>2. ASSUME NEW c \in Currencies PROVE w[c] \in 0..MaxBalance
  <2>1. w[c] \in Int BY <1>1
  <2>2. 0 <= w[c] /\ w[c] <= MaxBalance BY DEF Within
  <2> QED BY <2>1, <2>2, SpinOpeningAssumption
<1> QED BY <1>1, <1>2

\* What COMMIT writes has its type.
LEMMA PersistTypes ==
    ASSUME TypeInv, NEW a \in Spins, pc[a] = "commit", Persist(a)
    PROVE  /\ balance' \in [Players -> [Currencies -> 0..MaxBalance]]
           /\ holder' \in [Players -> Spins \union {None}]
           /\ ledger' \subseteq Row
           /\ seen' \in [Spins -> [Currencies -> 0..MaxBalance]]
           /\ status' \in [Spins -> {"ACTIVE", "SUSPENDED"}]
           /\ \A b \in Spins \ {a} : seen'[b] = seen[b]
<1>1. Nothing \in [Currencies -> 0..MaxBalance]
  BY SpinOpeningAssumption DEF Nothing, Coins, Currencies
<1>2. Post(a) \in [Currencies -> 0..MaxBalance]
  <2>1. Post(a) \in Deltas BY RoundTypes
  <2>2. Within(Post(a)) BY DEF TypeInv, CallsInv
  <2> QED BY <2>1, <2>2, WithinIsColumn
<1>3. Rows(a) \subseteq Row BY RoundTypes
<1> QED BY <1>1, <1>2, <1>3 DEF Persist, EndTx, Unlocked, TypeInv, TypeOK

\* A transaction that ends leaves the calls with their types.
LEMMA EndTypes ==
    ASSUME TypeInv, NEW a \in Spins, EndTx(a)
    PROVE  /\ holder' \in [Players -> Spins \union {None}]
           /\ seen' \in [Spins -> [Currencies -> 0..MaxBalance]]
           /\ status' \in [Spins -> {"ACTIVE", "SUSPENDED"}]
           /\ \A b \in Spins \ {a} : seen'[b] = seen[b]
<1>1. Nothing \in [Currencies -> 0..MaxBalance]
  BY SpinOpeningAssumption DEF Nothing, Coins, Currencies
<1> QED BY <1>1 DEF EndTx, Unlocked, TypeInv, TypeOK

\* What is about to be committed depends on the call's own state alone.
LEMMA OwnState ==
    ASSUME NEW b \in Spins, req'[b] = req[b], seen'[b] = seen[b], drawn'[b] = drawn[b]
    PROVE  /\ Funded(b)' <=> Funded(b)
           /\ Within(Post(b))' <=> Within(Post(b))
           /\ Rows(b)' = Rows(b)
           /\ Post(b)' = Post(b) /\ Win(b)' = Win(b)
           /\ Id(b)' = Id(b) /\ Player(b)' = Player(b)
BY DEF Funded, Within, Post, BetDelta, WinDelta, Win, Bet, Family, Rows, BetRow, WinRow, Id, Player

\* A bet of ProcessBet is covered, and so leaves a wallet of the right type.
LEMMA ForeignTypes ==
    ASSUME TypeInv, NEW r \in Foreign, ForeignBet(r)
    PROVE  /\ balance' \in [Players -> [Currencies -> 0..MaxBalance]]
           /\ ledger' \subseteq Row
           /\ \E row \in Row : /\ ledger' = ledger \union {row}
                               /\ balance' = [balance EXCEPT ![r.player] = Plus(@, row.delta)]
                               /\ row.leg = <<r.id, "bet">> /\ row.lid = None
                               /\ row.player = r.player
<1>o. PICK o \in Outcomes : /\ ledger' = ledger \union {ForeignRow(r, o)}
                            /\ balance' = [balance EXCEPT
                                  ![r.player] = Plus(@, ForeignRow(r, o).delta)]
  BY DEF ForeignBet
<1> DEFINE w   == balance[r.player]
           d   == Negated(BetDebits(w, r.family, r.bet))
           row == ForeignRow(r, o)
<1>1. r \in Request BY ForeignAssumption
<1>2. w \in [Currencies -> 0..MaxBalance] /\ w \in Balances /\ w \in Deltas
  BY <1>1, SpinOpeningAssumption DEF TypeInv, TypeOK, Request, Balances, Deltas
<1>3. d \in Deltas BY <1>1, <1>2, LegDeltas
<1>4. CanBet(w, r.family, r.bet) BY DEF ForeignBet
<1>5. BetDebits(w, r.family, r.bet) \in Balances /\ Covers(w, BetDebits(w, r.family, r.bet))
  BY <1>1, <1>2, <1>4, BetPlanIsCovered DEF Request
<1>6. Plus(w, d) \in [Currencies -> 0..MaxBalance]
  BY <1>2, <1>5, SpinOpeningAssumption DEF Plus, Negated, Covers, Balances
<1>7. /\ row \in Row /\ row.delta = d /\ row.leg = <<r.id, "bet">> /\ row.lid = None
      /\ row.player = r.player
  BY <1>1, <1>3 DEF ForeignRow, Row, Legs, Request
<1> HIDE DEF row
<1>8. /\ balance' = [balance EXCEPT ![r.player] = Plus(w, d)]
      /\ ledger' = ledger \union {row}
  BY <1>o, <1>7 DEF row
<1>9. balance' \in [Players -> [Currencies -> 0..MaxBalance]]
  BY <1>6, <1>8 DEF TypeInv, TypeOK
<1> QED BY <1>7, <1>8, <1>9 DEF TypeInv, TypeOK

LEMMA TypeStep == TypeInv /\ [Next]_vars => TypeInv'
<1> SUFFICES ASSUME TypeInv, [Next]_vars PROVE TypeInv' OBVIOUS
<1>t. TypeOK /\ CallsInv BY DEF TypeInv
<1>u. Absent \in RedisEntry BY DEF Absent, RedisEntry
\* A call whose own state is as it was keeps what CallsInv says of it.
<1>own. ASSUME NEW b \in Spins, pc'[b] = pc[b], req'[b] = req[b], seen'[b] = seen[b],
               drawn'[b] = drawn[b]
        PROVE  /\ pc'[b] # "idle" => req'[b] \in Requests
               /\ pc'[b] \notin {"idle", "done", "dead"} => Valid(req[b])'
               /\ pc'[b] \in {"drawn", "commit"} => drawn'[b] \in Outcomes
               /\ pc'[b] = "commit" => Funded(b)' /\ Within(Post(b))'
  <2>1. Valid(req[b])' <=> Valid(req[b]) BY <1>own DEF Valid
  <2> QED BY <1>own, <1>t, <2>1, OwnState DEF CallsInv
<1>1. ASSUME NEW a \in Spins, Arrive(a) PROVE TypeInv'
  <2>0. /\ req' \in [Spins -> Requests \union {None}]
        /\ pc' \in [Spins -> Places] /\ reply' \in [Spins -> Replies]
    <3>1. PICK r \in Requests : /\ req' = [req EXCEPT ![a] = r]
                                /\ IF Valid(r) THEN Goto(a, "arrived") /\ UNCHANGED reply
                                               ELSE Answer(a, "done", "refused")
      BY <1>1 DEF Arrive
    <3>2. CASE Valid(r) BY <1>t, <3>1, <3>2 DEF Goto, TypeOK, Places
    <3>3. CASE ~ Valid(r) BY <1>t, <3>1, <3>3 DEF Goto, Answer, TypeOK, Places, Replies
    <3> QED BY <3>2, <3>3
  <2>1. TypeOK' BY <1>1, <1>t, <2>0 DEF Arrive, TypeOK
  <2>2. CallsInv'
    <3>1. \A b \in Spins \ {a} : /\ pc'[b] = pc[b] /\ req'[b] = req[b]
                                 /\ seen'[b] = seen[b] /\ drawn'[b] = drawn[b]
      BY <1>1, <1>t DEF Arrive, Goto, Answer, TypeOK
    <3>2. /\ req'[a] \in Requests /\ pc'[a] \in {"arrived", "done"}
          /\ pc'[a] = "arrived" => Valid(req[a])'
      BY <1>1, <1>t DEF Arrive, Goto, Answer, TypeOK, Valid
    <3> QED BY <3>1, <3>2, <1>own DEF CallsInv
  <2> QED BY <2>1, <2>2 DEF TypeInv
\* A step of a call that changes neither its request nor its reels, nor brings it to commit.
<1>move. ASSUME NEW a \in Spins, pc[a] # "idle", TypeOK',
                UNCHANGED req,
                \A b \in Spins \ {a} : /\ pc'[b] = pc[b] /\ seen'[b] = seen[b]
                                       /\ drawn'[b] = drawn[b],
                pc'[a] \notin {"idle", "commit"},
                pc'[a] \in {"done", "dead"} \/ pc[a] \notin {"done", "dead"},
                pc'[a] = "drawn" => drawn'[a] \in Outcomes
         PROVE  TypeInv'
  <2>1. /\ req'[a] \in Requests
        /\ pc'[a] \notin {"idle", "done", "dead"} => Valid(req[a])'
    BY <1>move, <1>t DEF CallsInv, Valid
  <2> QED BY <1>move, <1>own, <2>1 DEF TypeInv, CallsInv
<1>2. ASSUME NEW a \in Spins, Claim(a) PROVE TypeInv'
  <2>1. Marker(a) \in RedisEntry
    BY <1>2, CallTypes DEF Claim, Marker, RedisEntry
  <2>2. TypeOK' BY <1>2, <1>t, <2>1 DEF Claim, Goto, TypeOK, Places
  <2> QED BY <1>2, <1>t, <1>move, <2>2 DEF Claim, Goto, TypeOK
<1>3. ASSUME NEW a \in Spins, Taken(a) PROVE TypeInv'
  <2>1. redis[Id(a)].receipt \in Receipt \union {None}
    BY <1>3, <1>t, CallTypes DEF Taken, TypeOK, RedisEntry
  <2>2. TypeOK' BY <1>3, <1>t, <2>1 DEF Taken, Answer, Goto, TypeOK, Places, Replies
  <2> QED BY <1>3, <1>t, <1>move, <2>2 DEF Taken, Answer, Goto, TypeOK
<1>4. ASSUME NEW a \in Spins, BarrierDown(a) PROVE TypeInv'
  <2>1. Marker(a) \in RedisEntry
    BY <1>4, CallTypes DEF BarrierDown, Marker, RedisEntry
  <2>2. redis' \in [Ids -> RedisEntry] BY <1>4, <1>t, <2>1 DEF BarrierDown, TypeOK
  <2>3. TypeOK' BY <1>4, <1>t, <2>2 DEF BarrierDown, Answer, Goto, TypeOK, Places, Replies
  <2> QED BY <1>4, <1>t, <1>move, <2>3 DEF BarrierDown, Answer, Goto, TypeOK
<1>5. ASSUME NEW a \in Spins, Queue(a) PROVE TypeInv'
  <2>1. TypeOK' BY <1>5, <1>t, CallTypes DEF Queue, Goto, TypeOK, Places
  <2> QED BY <1>5, <1>t, <1>move, <2>1 DEF Queue, Goto, TypeOK
<1>6. ASSUME NEW a \in Spins, LockWalletAndStatus(a) PROVE TypeInv'
  <2>1. TypeOK' BY <1>6, <1>t, CallTypes DEF LockWalletAndStatus, Goto, TypeOK, Places
  <2> QED BY <1>6, <1>t, <1>move, <2>1 DEF LockWalletAndStatus, Goto, TypeOK
<1>7. ASSUME NEW a \in Spins, Draw(a) PROVE TypeInv'
  <2>1. TypeOK' BY <1>7, <1>t DEF Draw, Goto, TypeOK, Places
  <2>2. /\ drawn'[a] \in Outcomes
        /\ \A b \in Spins \ {a} : pc'[b] = pc[b] /\ drawn'[b] = drawn[b]
    BY <1>7, <1>t DEF Draw, Goto, TypeOK
  <2> QED BY <1>7, <1>t, <1>move, <2>1, <2>2 DEF Draw, Goto, TypeOK
<1>8. ASSUME NEW a \in Spins, Refuse(a) \/ UpdateRejected(a) \/ Fail(a) PROVE TypeInv'
  <2>1. Abort(a) /\ UNCHANGED <<redis, standing, req, drawn, receipt>>
    BY <1>8 DEF Refuse, UpdateRejected, Fail
  <2>2. Answer(a, "release", "refused") \/ Answer(a, "release", "failed")
    BY <1>8 DEF Refuse, UpdateRejected, Fail
  <2>3. pc[a] \in {"begin", "queued", "locked", "drawn", "commit", "recover"}
    BY <1>8 DEF Refuse, UpdateRejected, Fail
  <2>4. TypeOK'
    BY <1>t, <2>1, <2>2, EndTypes DEF Abort, Answer, Goto, TypeOK, Places, Replies
  <2> QED BY <1>t, <1>move, <2>1, <2>2, <2>3, <2>4, EndTypes DEF Abort, Answer, Goto, TypeOK
<1>9. ASSUME NEW a \in Spins, SettleSpin(a) PROVE TypeInv'
  <2>1. TypeOK' BY <1>9, <1>t DEF SettleSpin, Goto, TypeOK, Places
  <2>2. \A b \in Spins \ {a} : pc'[b] = pc[b] BY <1>9, <1>t DEF SettleSpin, Goto, TypeOK
  <2>3. UNCHANGED <<req, seen, drawn>> BY <1>9 DEF SettleSpin
  <2>4. /\ req'[a] \in Requests /\ Valid(req[a])' /\ drawn'[a] \in Outcomes
        /\ Funded(a)' /\ Within(Post(a))'
    BY <1>9, <1>t, <2>3, OwnState DEF SettleSpin, CallsInv, Valid
  <2> QED BY <1>own, <2>1, <2>2, <2>3, <2>4 DEF TypeInv, CallsInv
<1>10. ASSUME NEW a \in Spins, DuplicateRound(a) PROVE TypeInv'
  <2>1. TypeOK'
    BY <1>10, <1>t, EndTypes DEF DuplicateRound, Abort, Goto, TypeOK, Places
  <2> QED BY <1>10, <1>t, <1>move, <2>1, EndTypes DEF DuplicateRound, Abort, Goto, TypeOK
<1>11. ASSUME NEW a \in Spins, Commit(a) \/ CommitUnacknowledged(a) PROVE TypeInv'
  <2>1. /\ pc[a] = "commit" /\ Persist(a) /\ UNCHANGED <<redis, standing, req, drawn>>
        /\ \/ Answer(a, "store", "processed")
           \/ Answer(a, "release", "failed")
    BY <1>11 DEF Commit, CommitUnacknowledged
  <2>2. receipt' \in [Spins -> Receipt \union {None}]
    <3>1. ASSUME NEW w \in Spins \union {None}
          PROVE  ReceiptOf(a, a, w, drawn[a]) \in Receipt
      <4>1. WinFor(Bet(a), drawn[a]) \in Nat BY <2>1, RoundTypes DEF Win
      <4>2. drawn[a] \in Outcomes BY <1>t, <2>1 DEF CallsInv
      <4> QED BY <2>1, <4>1, <4>2, CallTypes DEF ReceiptOf, Receipt
    <3> DEFINE w == IF Win(a) > 0 THEN a ELSE None
    <3>2. w \in Spins \union {None} OBVIOUS
    <3>3. ReceiptOf(a, a, w, drawn[a]) \in Receipt BY <3>1, <3>2
    <3> QED BY <1>11, <1>t, <3>3 DEF Commit, CommitUnacknowledged, TypeOK
  <2>3. TypeOK'
    BY <1>t, <2>1, <2>2, PersistTypes DEF Answer, Goto, TypeOK, Places, Replies
  <2>4. /\ \A b \in Spins \ {a} : pc'[b] = pc[b] /\ seen'[b] = seen[b] /\ drawn'[b] = drawn[b]
        /\ pc'[a] \in {"store", "release"}
    BY <1>t, <2>1, PersistTypes DEF Answer, Goto, TypeOK
  <2> QED BY <1>move, <2>1, <2>3, <2>4
<1>12. ASSUME NEW a \in Spins, Recover(a) PROVE TypeInv'
  <2>1. ASSUME NEW t \in ledger PROVE ReceiptOf(a, t.lid, None, t.outcome) \in Receipt
    <3>1. t \in Row BY <1>t DEF TypeOK
    <3>2. t.lid \in Spins \union {None} /\ t.outcome \in Outcomes /\ t.outcome \in Nat
      BY <3>1, OutcomesAssumption DEF Row
    <3>3. WinFor(Bet(a), t.outcome) \in Nat BY <1>12, <3>2, CallTypes, WinForIsFloor DEF Recover
    <3> QED BY <1>12, <3>2, <3>3, CallTypes DEF Recover, ReceiptOf, Receipt
  <2>2. TypeOK' BY <1>12, <1>t, <2>1 DEF Recover, Answer, Goto, TypeOK, Places, Replies
  <2> QED BY <1>12, <1>t, <1>move, <2>2 DEF Recover, Answer, Goto, TypeOK
<1>13. ASSUME NEW a \in Spins, RecoverConflict(a) PROVE TypeInv'
  <2>1. TypeOK' BY <1>13, <1>t DEF RecoverConflict, Answer, Goto, TypeOK, Places, Replies
  <2> QED BY <1>13, <1>t, <1>move, <2>1 DEF RecoverConflict, Answer, Goto, TypeOK
<1>14. ASSUME NEW a \in Spins, CacheSpin(a) PROVE TypeInv'
  <2>1. Payload(a) \in RedisEntry
    BY <1>14, <1>t, CallTypes DEF CacheSpin, Payload, RedisEntry, TypeOK
  <2>2. redis' \in [Ids -> RedisEntry] BY <1>14, <1>t, <2>1 DEF CacheSpin, TypeOK
  <2>3. TypeOK' BY <1>14, <1>t, <2>2 DEF CacheSpin, Goto, TypeOK, Places
  <2> QED BY <1>14, <1>t, <1>move, <2>3 DEF CacheSpin, Goto, TypeOK
<1>15. ASSUME NEW a \in Spins, Release(a) PROVE TypeInv'
  <2>1. redis' \in [Ids -> RedisEntry] BY <1>15, <1>t, <1>u DEF Release, TypeOK
  <2>2. TypeOK' BY <1>15, <1>t, <2>1 DEF Release, Goto, TypeOK, Places
  <2> QED BY <1>15, <1>t, <1>move, <2>2 DEF Release, Goto, TypeOK
<1>16. ASSUME NEW a \in Spins, Crash(a) PROVE TypeInv'
  <2>1. TypeOK' BY <1>16, <1>t, EndTypes DEF Crash, Abort, Goto, TypeOK, Places
  <2> QED BY <1>16, <1>t, <1>move, <2>1, EndTypes DEF Crash, Abort, Goto, TypeOK
<1>still. ASSUME UNCHANGED spin, TypeOK' PROVE TypeInv'
  BY <1>still, <1>own DEF spin, TypeInv, CallsInv
<1>17. ASSUME NEW k \in Ids, Expire(k) PROVE TypeInv'
  <2>1. TypeOK' BY <1>17, <1>t, <1>u DEF Expire, TypeOK, spin
  <2> QED BY <1>17, <1>still, <2>1 DEF Expire
<1>18. ASSUME NEW p \in Players, ChangeStatus(p) PROVE TypeInv'
  <2>1. TypeOK' BY <1>18, <1>t DEF ChangeStatus, TypeOK, spin
  <2> QED BY <1>18, <1>still, <2>1 DEF ChangeStatus
<1>19. ASSUME NEW r \in Foreign, ForeignBet(r) PROVE TypeInv'
  <2>0. UNCHANGED <<redis, holder, standing, spin>> BY <1>19 DEF ForeignBet
  <2>1. TypeOK' BY <1>19, <1>t, <2>0, ForeignTypes DEF TypeOK, spin
  <2> QED BY <1>19, <1>still, <2>1 DEF ForeignBet
<1>20. ASSUME UNCHANGED vars PROVE TypeInv'
  <2>1. TypeOK' BY <1>20, <1>t DEF vars, spin, TypeOK
  <2> QED BY <1>20, <1>still, <2>1 DEF vars
<1> QED
  BY <1>1, <1>2, <1>3, <1>4, <1>5, <1>6, <1>7, <1>8, <1>9, <1>10, <1>11, <1>12, <1>13,
     <1>14, <1>15, <1>16, <1>17, <1>18, <1>19, <1>20
  DEF Next, Transact, Conclude, Fault, Finished

\* Every variable keeps its type, and every balance its column's range.
THEOREM TypeCorrect == Spec => []TypeOK
<1>1. TypeInv => TypeOK BY DEF TypeInv
<1> QED BY TypeInit, TypeStep, <1>1, PTL DEF Spec

-----------------------------------------------------------------------------
(* The legs.                                                               *)

\* The rows of a round: the bet leg, the win leg if it pays, and no other.
LEMMA RoundLegs ==
    ASSUME TypeInv, NEW a \in Spins, pc[a] \in {"drawn", "commit"}
    PROVE  /\ BetRow(a) \in Rows(a) /\ BetRow(a).leg = <<Id(a), "bet">>
           /\ Win(a) > 0 => Rows(a) = {BetRow(a), WinRow(a)}
           /\ Win(a) = 0 => Rows(a) = {BetRow(a)}
           /\ <<Id(a), "bet">> \in LegsOf(Rows(a))
<1>1. Win(a) \in Nat BY RoundTypes
<1>2. BetRow(a).leg = <<Id(a), "bet">> BY DEF BetRow
<1> QED BY <1>1, <1>2 DEF Rows, LegsOf

\* No leg of a round about to be committed is in the ledger or in another round.
LegsInv == \A a \in Spins : pc[a] = "commit" =>
    /\ LegsOf(Rows(a)) \intersect LegsOf(ledger) = {}
    /\ \A b \in Spins \ {a} : pc[b] = "commit" =>
          LegsOf(Rows(a)) \intersect LegsOf(Rows(b)) = {}

\* What a step may do to the ledger and to the rounds about to be committed.
Quiet == /\ UNCHANGED <<balance, ledger>>
         /\ \A b \in Spins : pc'[b] = "commit" =>
               pc[b] = "commit" /\ req'[b] = req[b] /\ seen'[b] = seen[b] /\ drawn'[b] = drawn[b]

LEMMA StepKinds ==
    ASSUME TypeInv, [Next]_vars
    PROVE  \/ \E a \in Spins : Commit(a) \/ CommitUnacknowledged(a)
           \/ \E a \in Spins : SettleSpin(a)
           \/ \E r \in Foreign : ForeignBet(r)
           \/ Quiet
<1>t. TypeOK BY DEF TypeInv
<1>1. ASSUME NEW a \in Spins, Arrive(a) PROVE Quiet
  BY <1>1, <1>t DEF Arrive, Goto, Answer, TypeOK, Quiet
<1>2. ASSUME NEW a \in Spins, Claim(a) \/ Taken(a) \/ BarrierDown(a) PROVE Quiet
  BY <1>2, <1>t DEF Claim, Taken, BarrierDown, Goto, Answer, TypeOK, Quiet
<1>3. ASSUME NEW a \in Spins, Queue(a) \/ LockWalletAndStatus(a) PROVE Quiet
  BY <1>3, <1>t DEF Queue, LockWalletAndStatus, Goto, TypeOK, Quiet
<1>4. ASSUME NEW a \in Spins, Draw(a) PROVE Quiet
  BY <1>4, <1>t DEF Draw, Goto, TypeOK, Quiet
<1>5. ASSUME NEW a \in Spins, Refuse(a) \/ UpdateRejected(a) \/ Fail(a) PROVE Quiet
  <2>1. Abort(a) /\ UNCHANGED <<req, drawn>> BY <1>5 DEF Refuse, UpdateRejected, Fail
  <2>2. Answer(a, "release", "refused") \/ Answer(a, "release", "failed")
    BY <1>5 DEF Refuse, UpdateRejected, Fail
  <2> QED BY <1>t, <2>1, <2>2, EndTypes DEF Abort, Answer, Goto, TypeOK, Quiet
<1>6. ASSUME NEW a \in Spins, DuplicateRound(a) \/ Crash(a) PROVE Quiet
  <2>1. Abort(a) /\ UNCHANGED <<req, drawn>> BY <1>6 DEF DuplicateRound, Crash
  <2>2. Goto(a, "recover") \/ Goto(a, "dead") BY <1>6 DEF DuplicateRound, Crash
  <2> QED BY <1>t, <2>1, <2>2, EndTypes DEF Abort, Goto, TypeOK, Quiet
<1>7. ASSUME NEW a \in Spins, Recover(a) \/ RecoverConflict(a) PROVE Quiet
  BY <1>7, <1>t DEF Recover, RecoverConflict, Goto, Answer, TypeOK, Quiet
<1>8. ASSUME NEW a \in Spins, CacheSpin(a) \/ Release(a) PROVE Quiet
  BY <1>8, <1>t DEF CacheSpin, Release, Goto, TypeOK, Quiet
<1>9. ASSUME \/ \E k \in Ids : Expire(k)
             \/ \E p \in Players : ChangeStatus(p)
             \/ UNCHANGED vars
      PROVE  Quiet
  BY <1>9 DEF Expire, ChangeStatus, vars, spin, Quiet
<1> QED BY <1>1, <1>2, <1>3, <1>4, <1>5, <1>6, <1>7, <1>8, <1>9
        DEF Next, Transact, Conclude, Fault, Finished

\* What a COMMIT leaves of the other calls.
LEMMA CommitAlone ==
    ASSUME TypeInv, NEW a \in Spins, Commit(a) \/ CommitUnacknowledged(a)
    PROVE  /\ pc[a] = "commit" /\ pc'[a] \in {"store", "release"} /\ Persist(a)
           /\ ledger' = ledger \union Rows(a)
           /\ UNCHANGED <<req, drawn>>
           /\ \A b \in Spins \ {a} : pc'[b] = pc[b] /\ Rows(b)' = Rows(b)
<1>1. /\ pc[a] = "commit" /\ Persist(a) /\ UNCHANGED <<req, drawn>>
      /\ Goto(a, "store") \/ Goto(a, "release")
  BY DEF Commit, CommitUnacknowledged, Answer
<1>2. /\ pc'[a] \in {"store", "release"}
      /\ \A b \in Spins \ {a} : pc'[b] = pc[b]
  BY <1>1 DEF Goto, TypeInv, TypeOK
<1>3. \A b \in Spins \ {a} : Rows(b)' = Rows(b) BY <1>1, PersistTypes, OwnState
<1> QED BY <1>1, <1>2, <1>3 DEF Persist

LEMMA LegsStep == TypeInv /\ LegsInv /\ [Next]_vars => LegsInv'
<1> SUFFICES ASSUME TypeInv, LegsInv, [Next]_vars PROVE LegsInv' OBVIOUS
<1>1. ASSUME NEW a \in Spins, Commit(a) \/ CommitUnacknowledged(a) PROVE LegsInv'
  <2>1. LegsOf(ledger') = LegsOf(ledger) \union LegsOf(Rows(a))
    BY <1>1, CommitAlone DEF LegsOf
  <2>2. pc[a] = "commit" /\ pc'[a] # "commit" BY <1>1, CommitAlone
  <2>3. ASSUME NEW b \in Spins, pc'[b] = "commit"
        PROVE  /\ pc[b] = "commit" /\ b # a /\ LegsOf(Rows(b)') = LegsOf(Rows(b))
    BY <1>1, <2>2, <2>3, CommitAlone
  <2>4. ASSUME NEW b \in Spins, pc'[b] = "commit"
        PROVE  LegsOf(Rows(b)') \intersect LegsOf(ledger') = {}
    BY <2>1, <2>2, <2>3, <2>4 DEF LegsInv
  <2>5. ASSUME NEW b \in Spins, pc'[b] = "commit", NEW c \in Spins \ {b}, pc'[c] = "commit"
        PROVE  LegsOf(Rows(b)') \intersect LegsOf(Rows(c)') = {}
    BY <2>3, <2>5 DEF LegsInv
  <2>6. \A S : LegsOf(S)' = LegsOf(S') BY DEF LegsOf
  <2> QED BY <2>4, <2>5, <2>6 DEF LegsInv, LegsOf
<1>2. ASSUME NEW a \in Spins, SettleSpin(a) PROVE LegsInv'
  <2>1. /\ UNCHANGED <<ledger, req, seen, drawn>>
        /\ LegsOf(Rows(a)) \intersect (InFlight \union LegsOf(ledger)) = {}
    BY <1>2 DEF SettleSpin
  <2>2. \A b \in Spins \ {a} : pc'[b] = pc[b] BY <1>2 DEF SettleSpin, Goto, TypeInv, TypeOK
  <2>3. \A b \in Spins : LegsOf(Rows(b)') = LegsOf(Rows(b)) BY <2>1, OwnState
  <2>4. \A b \in Spins : pc[b] = "commit" => LegsOf(Rows(b)) \subseteq InFlight
    BY DEF InFlight
  <2> QED BY <2>1, <2>2, <2>3, <2>4 DEF LegsInv, LegsOf
<1>3. ASSUME NEW r \in Foreign, ForeignBet(r) PROVE LegsInv'
  <2>1. /\ UNCHANGED spin
        /\ <<r.id, "bet">> \notin InFlight \union LegsOf(ledger)
    BY <1>3 DEF ForeignBet, ForeignRow
  <2>2. LegsOf(ledger') = LegsOf(ledger) \union {<<r.id, "bet">>}
    <3>1. PICK row \in Row : ledger' = ledger \union {row} /\ row.leg = <<r.id, "bet">>
      BY <1>3, ForeignTypes
    <3> QED BY <3>1 DEF LegsOf
  <2>3. \A b \in Spins : LegsOf(Rows(b)') = LegsOf(Rows(b)) /\ pc'[b] = pc[b]
    BY <2>1, OwnState DEF spin
  <2>4. \A b \in Spins : pc[b] = "commit" => LegsOf(Rows(b)) \subseteq InFlight
    BY DEF InFlight
  <2> SUFFICES ASSUME NEW b \in Spins, pc[b] = "commit"
               PROVE  /\ LegsOf(Rows(b)) \intersect LegsOf(ledger') = {}
                      /\ \A c \in Spins \ {b} : pc[c] = "commit" =>
                            LegsOf(Rows(b)) \intersect LegsOf(Rows(c)) = {}
    <3>1. \A S : LegsOf(S)' = LegsOf(S') BY DEF LegsOf
    <3> QED BY <2>3, <3>1 DEF LegsInv
  <2>5. <<r.id, "bet">> \notin LegsOf(Rows(b)) BY <2>1, <2>4
  <2> QED BY <2>2, <2>5 DEF LegsInv
<1>4. ASSUME Quiet PROVE LegsInv'
  <2>1. ledger' = ledger BY <1>4 DEF Quiet
  <2>2. \A b \in Spins : pc'[b] = "commit" => pc[b] = "commit" /\ LegsOf(Rows(b)') = LegsOf(Rows(b))
    BY <1>4, OwnState DEF Quiet
  <2> QED BY <2>1, <2>2 DEF LegsInv, LegsOf
<1> QED BY <1>1, <1>2, <1>3, <1>4, StepKinds

-----------------------------------------------------------------------------
(* What a round is paid.                                                   *)

\* A COMMIT leaves the rounds in the ledger with the legs they have, and adds one.
LEMMA CommitAddsRound ==
    ASSUME TypeInv, LegsInv, PaidAsDrawn,
           NEW a \in Spins, Commit(a) \/ CommitUnacknowledged(a)
    PROVE  /\ BetRow(a) \notin ledger
           /\ BetLegs' = BetLegs \union {BetRow(a)}
           /\ WinLegs' = WinLegs \union (IF Win(a) > 0 THEN {WinRow(a)} ELSE {})
           /\ \A t \in BetLegs : Partner(t)' = Partner(t)
           /\ \A t \in {BetRow(a)} :
                 Partner(t)' = IF Win(a) > 0 THEN {WinRow(a)} ELSE {}
<1> DEFINE B == BetRow(a)
           W == WinRow(a)
<1>1. pc[a] = "commit" /\ ledger' = ledger \union Rows(a) BY CommitAlone
<1>2. /\ B.leg = <<Id(a), "bet">> /\ B.lid = a
      /\ W.leg = <<Id(a), "win">> /\ W.lid = a
      /\ Win(a) \in Nat
  BY <1>1, RoundTypes DEF BetRow
<1>3. a # None BY SpinNoneAssumption
<1>4. \A t \in ledger : t.leg # <<Id(a), "bet">>
  BY <1>1, RoundLegs DEF LegsInv, LegsOf
<1>5. \A t \in ledger : t.leg = <<t.leg[1], t.leg[2]>>
  <2>1. ASSUME NEW t \in ledger PROVE t.leg \in Ids \X {"bet", "win"}
    BY DEF TypeInv, TypeOK, Row, Legs
  <2> QED BY <2>1
<1>6. \A t \in BetLegs : t.leg[1] # Id(a) BY <1>4, <1>5 DEF BetLegs
<1>7. \A u \in WinLegs : u.leg[1] # Id(a) BY <1>6 DEF PaidAsDrawn, Partner
<1>8. Rows(a) = {B} \union (IF Win(a) > 0 THEN {W} ELSE {}) BY DEF Rows
<1>9. BetLegs' = BetLegs \union {B}
  BY <1>1, <1>2, <1>3, <1>8 DEF BetLegs
<1>10. WinLegs' = WinLegs \union (IF Win(a) > 0 THEN {W} ELSE {})
  BY <1>1, <1>2, <1>8 DEF WinLegs
<1>11. ASSUME NEW t \in BetLegs PROVE Partner(t)' = Partner(t)
  BY <1>2, <1>6, <1>10 DEF Partner
<1>12. ASSUME NEW t \in {B} PROVE Partner(t)' = IF Win(a) > 0 THEN {W} ELSE {}
  <2>1. t.leg[1] = Id(a) /\ t.lid = a BY <1>2
  <2> QED BY <1>2, <1>7, <1>10, <2>1 DEF Partner
<1>13. B \notin ledger BY <1>2, <1>4
<1> QED BY <1>9, <1>10, <1>11, <1>12, <1>13

\* What a COMMIT pays follows from the reels it stores.
LEMMA RoundIsPaid ==
    ASSUME TypeInv, NEW a \in Spins, pc[a] = "commit"
    PROVE  LET owed == (0 - Total(BetRow(a).delta)) * BetRow(a).outcome
           IN  /\ Win(a) = 0 <=> owed < 10
               /\ 10 * Total(WinRow(a).delta) <= owed
               /\ owed < 10 * Total(WinRow(a).delta) + 10
<1> DEFINE n == Bet(a)
           o == drawn[a]
<1>1. n \in Nat /\ o \in Nat /\ req[a] \in Request BY CallTypes, RoundTypes
<1>2. BetRow(a).delta = BetDelta(a) /\ BetRow(a).outcome = o BY DEF BetRow
<1>3. seen[a] \in [Currencies -> 0..MaxBalance] BY DEF TypeInv, TypeOK
<1>4. 0 - Total(BetDelta(a)) = n
  BY <1>1, <1>3, LegDeltas DEF TypeInv, CallsInv, Funded, BetDelta, Family, Bet
<1>5. Total(WinRow(a).delta) = Win(a)
  BY <1>1, <1>3, LegDeltas, RoundTypes DEF WinDelta, Win, Family, Bet
<1>6. /\ Win(a) \in Nat /\ 10 * Win(a) <= n * o /\ n * o < 10 * Win(a) + 10 /\ n * o \in Nat
  BY <1>1, WinForIsFloor DEF Win
<1> HIDE DEF n, o
<1>7. (0 - Total(BetRow(a).delta)) * BetRow(a).outcome = n * o BY <1>2, <1>4
<1> QED BY <1>5, <1>6, <1>7

RoundInv == TypeInv /\ LegsInv /\ PaidAsDrawn

LEMMA PaidStep == RoundInv /\ [Next]_vars => PaidAsDrawn'
<1> SUFFICES ASSUME RoundInv, [Next]_vars PROVE PaidAsDrawn' OBVIOUS
<1>i. TypeInv /\ LegsInv /\ PaidAsDrawn BY DEF RoundInv
<1>1. ASSUME NEW a \in Spins, Commit(a) \/ CommitUnacknowledged(a) PROVE PaidAsDrawn'
  <2> DEFINE B == BetRow(a)
             W == WinRow(a)
             Pays(t) == LET owed == (0 - Total(t.delta)) * t.outcome
                        IN  IF owed < 10 THEN Partner(t) = {}
                            ELSE \E u \in Partner(t) : LET paid == 10 * Total(u.delta)
                                                       IN  paid <= owed /\ owed < paid + 10
  <2>c. pc[a] = "commit" BY <1>i, <1>1, CommitAlone
  <2>1. /\ BetLegs' = BetLegs \union {B}
        /\ WinLegs' = WinLegs \union (IF Win(a) > 0 THEN {W} ELSE {})
        /\ \A t \in BetLegs : Partner(t)' = Partner(t)
        /\ \A t \in {B} : Partner(t)' = IF Win(a) > 0 THEN {W} ELSE {}
    BY <1>i, <1>1, CommitAddsRound
  <2>2. ASSUME NEW t \in BetLegs PROVE Pays(t)'
    <3>1. Pays(t) BY <1>i DEF PaidAsDrawn
    <3> QED BY <2>1, <3>1
  <2>3. ASSUME NEW t \in {B} PROVE Pays(t)'
    <3> DEFINE owed == (0 - Total(t.delta)) * t.outcome
    <3>1. /\ Win(a) = 0 <=> owed < 10
          /\ 10 * Total(W.delta) <= owed
          /\ owed < 10 * Total(W.delta) + 10
      BY <1>i, <2>c, RoundIsPaid
    <3>2. Win(a) \in Nat BY <1>i, <2>c, RoundTypes
    <3>3. Partner(t)' = IF Win(a) > 0 THEN {W} ELSE {} BY <2>1
    <3>4. CASE Win(a) = 0
      <4>1. Partner(t)' = {} BY <3>2, <3>3, <3>4
      <4> QED BY <3>1, <3>4, <4>1
    <3>5. CASE Win(a) > 0
      <4>1. Partner(t)' = {W} BY <3>3, <3>5
      <4>2. ~ (owed < 10) BY <3>1, <3>2, <3>5
      <4> HIDE DEF owed, W
      <4>3. \E u \in Partner(t)' : 10 * Total(u.delta) <= owed /\ owed < 10 * Total(u.delta) + 10
        BY <3>1, <4>1
      <4> USE DEF owed
      <4> QED BY <4>2, <4>3
    <3> QED BY <3>2, <3>4, <3>5
  <2>4. ASSUME NEW u \in WinLegs' PROVE \E t \in BetLegs' : u \in Partner(t)' /\ u.player = t.player
    <3>1. CASE u \in WinLegs
      <4>1. PICK t \in BetLegs : u \in Partner(t) /\ u.player = t.player
        BY <1>i, <3>1 DEF PaidAsDrawn
      <4> QED BY <2>1, <4>1
    <3>2. CASE u = W /\ Win(a) > 0
      <4>1. u.player = B.player BY <1>i, <2>c, <3>2, RoundTypes DEF BetRow
      <4>2. B \in BetLegs' BY <2>1
      <4>3. \A t \in {B} : u \in Partner(t)' BY <2>1, <3>2
      <4>4. \A t : t = B => u \in Partner(t)' /\ u.player = t.player /\ t \in BetLegs'
        BY <4>1, <4>2, <4>3
      <4> HIDE DEF B
      <4> QED BY <4>4
    <3> QED BY <2>1, <3>1, <3>2
  <2>5. \A t \in BetLegs' : Pays(t)' BY <2>1, <2>2, <2>3
  <2> QED BY <2>4, <2>5 DEF PaidAsDrawn
<1>2. ASSUME UNCHANGED <<BetLegs, WinLegs>> PROVE PaidAsDrawn'
  BY <1>i, <1>2 DEF PaidAsDrawn, Partner
<1>3. ASSUME NEW r \in Foreign, ForeignBet(r) PROVE UNCHANGED <<BetLegs, WinLegs>>
  <2>1. PICK row \in Row : /\ ledger' = ledger \union {row}
                           /\ row.leg = <<r.id, "bet">> /\ row.lid = None
    BY <1>i, <1>3, ForeignTypes
  <2>2. row.leg[2] # "win" BY <2>1
  <2> QED BY <2>1, <2>2 DEF BetLegs, WinLegs
<1>4. ASSUME ledger' = ledger PROVE UNCHANGED <<BetLegs, WinLegs>>
  BY <1>4 DEF BetLegs, WinLegs
<1>5. ASSUME NEW a \in Spins, SettleSpin(a) PROVE ledger' = ledger BY <1>5 DEF SettleSpin
<1> QED BY <1>i, <1>1, <1>2, <1>3, <1>4, <1>5, StepKinds DEF Quiet

LEMMA RoundInvariant == Spec => []RoundInv
<1>1. Init => RoundInv
  BY TypeInit DEF Init, RoundInv, LegsInv, PaidAsDrawn, BetLegs, WinLegs
<1>2. RoundInv /\ [Next]_vars => RoundInv'
  BY TypeStep, LegsStep, PaidStep DEF RoundInv
<1> QED BY <1>1, <1>2, PTL DEF Spec

\* However spins are retried, fail and crash, a settled round is paid the truncation
\* of stake times multiplier, by a win leg that stands beside its bet leg.
THEOREM RoundsArePaidAsDrawn == Spec => []PaidAsDrawn
<1>1. RoundInv => PaidAsDrawn BY DEF RoundInv
<1> QED BY RoundInvariant, <1>1, PTL

-----------------------------------------------------------------------------
(* What is told of a round.                                                *)

Good == {"processed", "recovered", "cached"}

\* A receipt is of this id, and the ledger backs it.
Backed(n, k) == Shows(n) /\ n.id = k

\* Whoever holds or caches a receipt, the ledger backs it.
ReceiptInv ==
    /\ \A a \in Spins : /\ pc[a] = "idle" => receipt[a] = None
                        /\ receipt[a] # None => Backed(receipt[a], Id(a))
                        /\ pc[a] \in {"store", "recache"} => Backed(receipt[a], Id(a))
    /\ \A k \in Ids : /\ redis[k].st = "cached" => Backed(redis[k].receipt, k)
                      /\ redis[k].st # "cached" => redis[k].receipt = None

\* Whoever was told of success has been told what the ledger backs.
ReplyInv ==
    \A a \in Spins : /\ pc[a] = "release" => reply[a] \notin Good
                     /\ pc[a] = "done" /\ reply[a] \in Good => Backed(receipt[a], Id(a))

LEMMA LedgerGrows == ASSUME TypeInv, [Next]_vars PROVE ledger \subseteq ledger'
BY StepKinds DEF Commit, CommitUnacknowledged, Persist, SettleSpin, ForeignBet, Quiet

LEMMA BackedStays ==
    ASSUME TypeInv, [Next]_vars
    PROVE  \A n, k : Backed(n, k) => (\E t \in ledger' : /\ t.leg = <<n.id, "bet">>
                                                         /\ t.player = n.player
                                                         /\ t.lid = n.betTx
                                                         /\ t.outcome = n.outcome) /\ n.id = k
BY LedgerGrows DEF Backed, Shows

\* The receipt a step leaves in a call, or in Redis, is backed.
LEMMA ReceiptStep == TypeInv /\ ReceiptInv /\ ReplyInv /\ [Next]_vars => ReceiptInv' /\ ReplyInv'
<1> SUFFICES ASSUME TypeInv, ReceiptInv, ReplyInv, [Next]_vars PROVE ReceiptInv' /\ ReplyInv'
  OBVIOUS
<1> DEFINE Stands(n, k) == /\ \E t \in ledger' : /\ t.leg = <<n.id, "bet">>
                                                 /\ t.player = n.player
                                                 /\ t.lid = n.betTx
                                                 /\ t.outcome = n.outcome
                           /\ n.id = k
           Held(a) == /\ pc'[a] = "idle" => receipt'[a] = None
                      /\ receipt'[a] # None => Stands(receipt'[a], req'[a].id)
                      /\ pc'[a] \in {"store", "recache"} => Stands(receipt'[a], req'[a].id)
                      /\ pc'[a] = "release" => reply'[a] \notin Good
                      /\ pc'[a] = "done" /\ reply'[a] \in Good => Stands(receipt'[a], req'[a].id)
           Cached(k) == /\ redis'[k].st = "cached" => Stands(redis'[k].receipt, k)
                        /\ redis'[k].st # "cached" => redis'[k].receipt = None
<1>t. TypeOK BY DEF TypeInv
<1>s. \A n, k : Backed(n, k) => Stands(n, k) BY BackedStays
<1>b. \A n, k : Stands(n, k) => Backed(n, k)' BY DEF Backed, Shows
<1> HIDE DEF Stands
<1>q. SUFFICES (\A a \in Spins : Held(a)) /\ (\A k \in Ids : Cached(k))
  <2>1. ASSUME NEW a \in Spins, Held(a)
        PROVE  /\ pc'[a] = "idle" => receipt'[a] = None
               /\ receipt'[a] # None => Backed(receipt[a], Id(a))'
               /\ pc'[a] \in {"store", "recache"} => Backed(receipt[a], Id(a))'
               /\ pc'[a] = "release" => reply'[a] \notin Good
               /\ pc'[a] = "done" /\ reply'[a] \in Good => Backed(receipt[a], Id(a))'
    <3>1. Stands(receipt'[a], req'[a].id) => Backed(receipt[a], Id(a))' BY <1>b DEF Id
    <3> QED BY <2>1, <3>1
  <2>2. ASSUME NEW k \in Ids, Cached(k)
        PROVE  /\ redis'[k].st = "cached" => Backed(redis[k].receipt, k)'
               /\ redis'[k].st # "cached" => redis'[k].receipt = None
    <3>1. Stands(redis'[k].receipt, k) => Backed(redis[k].receipt, k)' BY <1>b
    <3> QED BY <2>2, <3>1
  <2> HIDE DEF Held, Cached
  <2> QED BY <2>1, <2>2 DEF ReceiptInv, ReplyInv, Good
<1>same. ASSUME NEW a \in Spins, pc'[a] = pc[a], req'[a] = req[a], receipt'[a] = receipt[a],
                reply'[a] = reply[a]
         PROVE  Held(a)
  <2>1. \A n : Backed(n, Id(a)) => Stands(n, req'[a].id) BY <1>same, <1>s DEF Id
  <2>2. /\ pc'[a] = "idle" => receipt'[a] = None
        /\ receipt'[a] # None => Stands(receipt'[a], req'[a].id)
        /\ pc'[a] \in {"store", "recache"} => Stands(receipt'[a], req'[a].id)
    BY <1>same, <2>1 DEF ReceiptInv
  <2>3. /\ pc'[a] = "release" => reply'[a] \notin Good
        /\ pc'[a] = "done" /\ reply'[a] \in Good => Stands(receipt'[a], req'[a].id)
    BY <1>same, <2>1 DEF ReplyInv
  <2> QED BY <2>2, <2>3
<1>keep. ASSUME NEW k \in Ids, redis'[k] = redis[k] PROVE Cached(k)
  BY <1>keep, <1>s DEF ReceiptInv
<1>1. ASSUME NEW a \in Spins, Arrive(a) PROVE (\A b \in Spins : Held(b)) /\ (\A k \in Ids : Cached(k))
  <2>1. /\ receipt'[a] = None /\ pc'[a] \in {"arrived", "done"} /\ UNCHANGED redis
        /\ pc'[a] = "done" => reply'[a] = "refused"
        /\ \A b \in Spins \ {a} : /\ pc'[b] = pc[b] /\ req'[b] = req[b]
                                  /\ receipt'[b] = receipt[b] /\ reply'[b] = reply[b]
    BY <1>1, <1>t DEF Arrive, Goto, Answer, TypeOK, ReceiptInv
  <2>2. Held(a) BY <2>1 DEF Good
  <2> QED BY <1>same, <1>keep, <2>1, <2>2
\* A step of one call after its arrival.
<1>one. ASSUME NEW a \in Spins, UNCHANGED req,
               \A b \in Spins \ {a} : /\ pc'[b] = pc[b]
                                      /\ receipt'[b] = receipt[b] /\ reply'[b] = reply[b],
               Held(a), \A k \in Ids : redis'[k] = redis[k] \/ Cached(k)
        PROVE  (\A b \in Spins : Held(b)) /\ (\A k \in Ids : Cached(k))
  <2>1. \A b \in Spins \ {a} : Held(b) BY <1>one, <1>same
  <2> QED BY <1>one, <1>keep, <2>1
\* ... that leaves its receipt as it was, and neither caches nor returns.
<1>held. ASSUME NEW a \in Spins, UNCHANGED <<req, receipt>>, pc[a] # "idle",
                pc'[a] \notin {"idle", "store", "recache"},
                pc'[a] \in {"release", "done"} => reply'[a] \notin Good
         PROVE  Held(a)
  BY <1>held, <1>s DEF ReceiptInv, Id
<1>empty. \A k \in Ids : redis'[k].st # "cached" /\ redis'[k].receipt = None => Cached(k)
  OBVIOUS
<1>2. ASSUME NEW a \in Spins, Claim(a) \/ BarrierDown(a)
      PROVE  (\A b \in Spins : Held(b)) /\ (\A k \in Ids : Cached(k))
  <2>1. \A k \in Ids : redis'[k] = redis[k] \/ redis'[k] = Marker(a)
    BY <1>2, <1>t DEF Claim, BarrierDown, TypeOK
  <2>2. \A k \in Ids : redis'[k] = redis[k] \/ Cached(k)
    BY <1>empty, <2>1 DEF Marker
  <2>3. /\ pc[a] = "arrived" /\ UNCHANGED <<req, receipt>>
        /\ pc'[a] \in {"begin", "done"}
        /\ pc'[a] = "done" => reply'[a] = "failed"
        /\ \A b \in Spins \ {a} : pc'[b] = pc[b] /\ reply'[b] = reply[b]
    BY <1>2, <1>t DEF Claim, BarrierDown, Goto, Answer, TypeOK
  <2>4. Held(a) BY <1>held, <2>3 DEF Good
  <2> QED BY <1>one, <2>2, <2>3, <2>4
<1>3. ASSUME NEW a \in Spins, Taken(a)
      PROVE  (\A b \in Spins : Held(b)) /\ (\A k \in Ids : Cached(k))
  <2> DEFINE e == redis[Id(a)]
  <2>1. /\ pc[a] = "arrived" /\ UNCHANGED <<redis, req>> /\ pc'[a] = "done"
        /\ e.st # "absent"
        /\ reply'[a] = IF e.fp # req[a] THEN "mismatch"
                       ELSE IF e.st = "processing" THEN "pending" ELSE "cached"
        /\ receipt'[a] = IF e.fp = req[a] THEN e.receipt ELSE None
        /\ \A b \in Spins \ {a} : /\ pc'[b] = pc[b] /\ receipt'[b] = receipt[b]
                                  /\ reply'[b] = reply[b]
    BY <1>3, <1>t DEF Taken, Goto, Answer, TypeOK
  <2>2. Id(a) \in Ids BY <2>1, CallTypes
  <2>3. e.st \in {"absent", "processing", "cached"} BY <1>t, <2>2 DEF TypeOK, RedisEntry
  <2>4. /\ e.st = "cached" => Stands(e.receipt, Id(a))
        /\ e.st # "cached" => e.receipt = None
    BY <1>s, <2>2 DEF ReceiptInv
  <2>5. Id(a) = req'[a].id BY <2>1 DEF Id
  <2> HIDE DEF e
  <2>6. ASSUME e.fp = req[a], e.st = "cached" PROVE Held(a) BY <2>1, <2>4, <2>5, <2>6
  <2>7. ASSUME e.fp # req[a] \/ e.st = "processing" PROVE Held(a)
    <3>1. receipt'[a] = None /\ reply'[a] \notin Good BY <2>1, <2>4, <2>7 DEF Good
    <3> QED BY <2>1, <3>1
  <2>8. Held(a) BY <2>1, <2>3, <2>6, <2>7
  <2> QED BY <1>one, <2>1, <2>8
<1>4. ASSUME NEW a \in Spins, \/ Queue(a) \/ LockWalletAndStatus(a) \/ Draw(a) \/ SettleSpin(a)
                              \/ DuplicateRound(a) \/ Crash(a)
      PROVE  (\A b \in Spins : Held(b)) /\ (\A k \in Ids : Cached(k))
  <2>1. /\ pc[a] # "idle" /\ UNCHANGED <<redis, req, reply, receipt>>
        /\ \E place \in {"queued", "locked", "drawn", "commit", "recover", "dead"} : Goto(a, place)
    BY <1>4 DEF Queue, LockWalletAndStatus, Draw, SettleSpin, DuplicateRound, Crash
  <2>2. /\ pc'[a] \in {"queued", "locked", "drawn", "commit", "recover", "dead"}
        /\ \A b \in Spins \ {a} : pc'[b] = pc[b]
    BY <1>t, <2>1 DEF Goto, TypeOK
  <2>3. Held(a) BY <1>held, <2>1, <2>2
  <2> QED BY <1>one, <2>1, <2>2, <2>3
<1>5. ASSUME NEW a \in Spins, \/ Refuse(a) \/ UpdateRejected(a) \/ Fail(a)
                              \/ CommitUnacknowledged(a) \/ RecoverConflict(a)
      PROVE  (\A b \in Spins : Held(b)) /\ (\A k \in Ids : Cached(k))
  <2>1. /\ pc[a] # "idle" /\ UNCHANGED <<redis, req, receipt>>
        /\ \E word \in {"refused", "failed", "conflict"} : Answer(a, "release", word)
    BY <1>5 DEF Refuse, UpdateRejected, Fail, CommitUnacknowledged, RecoverConflict
  <2>2. /\ pc'[a] = "release" /\ reply'[a] \in {"refused", "failed", "conflict"}
        /\ \A b \in Spins \ {a} : pc'[b] = pc[b] /\ reply'[b] = reply[b]
    BY <1>t, <2>1 DEF Answer, Goto, TypeOK
  <2>3. Held(a) BY <1>held, <2>1, <2>2 DEF Good
  <2> QED BY <1>one, <2>1, <2>2, <2>3
<1>6. ASSUME NEW a \in Spins, Commit(a) \/ Recover(a)
      PROVE  (\A b \in Spins : Held(b)) /\ (\A k \in Ids : Cached(k))
  <2>1. /\ UNCHANGED <<redis, req>> /\ pc'[a] \in {"store", "recache"}
        /\ \A b \in Spins \ {a} : /\ pc'[b] = pc[b] /\ receipt'[b] = receipt[b]
                                  /\ reply'[b] = reply[b]
    BY <1>6, <1>t DEF Commit, Recover, Answer, Goto, TypeOK
  <2>2. Stands(receipt'[a], req'[a].id)
    <3>1. CASE Commit(a)
      <4> DEFINE n == ReceiptOf(a, a, IF Win(a) > 0 THEN a ELSE None, drawn[a])
      <4>1. receipt'[a] = n BY <1>t, <3>1 DEF Commit, TypeOK
      <4>2. BetRow(a) \in ledger'
        BY <3>1, CommitAlone DEF Rows
      <4>3. /\ n.id = Id(a) /\ n.player = Player(a) /\ n.betTx = a /\ n.outcome = drawn[a]
        BY DEF ReceiptOf
      <4>4. /\ BetRow(a).leg = <<Id(a), "bet">> /\ BetRow(a).player = Player(a)
            /\ BetRow(a).lid = a /\ BetRow(a).outcome = drawn[a]
        BY DEF BetRow
      <4>5. req'[a].id = Id(a) BY <2>1 DEF Id
      <4> HIDE DEF n
      <4> QED BY <4>1, <4>2, <4>3, <4>4, <4>5 DEF Stands
    <3>2. CASE Recover(a)
      <4>1. PICK t \in ledger : Recoverable(t, a)
                                /\ receipt'[a] = ReceiptOf(a, t.lid, None, t.outcome)
        BY <1>t, <3>2 DEF Recover, TypeOK
      <4>2. /\ receipt'[a].id = Id(a) /\ receipt'[a].player = Player(a)
            /\ receipt'[a].betTx = t.lid /\ receipt'[a].outcome = t.outcome
        BY <4>1 DEF ReceiptOf
      <4>3. t.leg = <<Id(a), "bet">> /\ t.player = Player(a) BY <4>1 DEF Recoverable
      <4>4. t \in ledger' BY LedgerGrows
      <4>5. req'[a].id = Id(a) BY <2>1 DEF Id
      <4> QED BY <4>2, <4>3, <4>4, <4>5 DEF Stands
    <3> QED BY <1>6, <3>1, <3>2
  <2>3. Held(a) BY <2>1, <2>2
  <2> QED BY <1>one, <2>1, <2>3
<1>7. ASSUME NEW a \in Spins, CacheSpin(a)
      PROVE  (\A b \in Spins : Held(b)) /\ (\A k \in Ids : Cached(k))
  <2>1. /\ pc[a] \in {"recache", "store"} /\ UNCHANGED <<req, receipt, reply>>
        /\ pc'[a] \in {"store", "done"}
        /\ \A b \in Spins \ {a} : pc'[b] = pc[b]
    BY <1>7, <1>t DEF CacheSpin, Goto, TypeOK
  <2>2. Stands(receipt[a], Id(a)) BY <1>s, <2>1 DEF ReceiptInv
  <2>3. Held(a) BY <2>1, <2>2 DEF Id
  <2>4. Id(a) \in Ids BY <2>1, CallTypes
  <2>5. \A k \in Ids : redis'[k] = redis[k] \/ (k = Id(a) /\ redis'[k] = Payload(a))
    BY <1>7, <1>t DEF CacheSpin, TypeOK
  <2>6. Payload(a).st = "cached" /\ Payload(a).receipt = receipt[a] BY DEF Payload
  <2>7. \A k \in Ids : redis'[k] = redis[k] \/ Cached(k) BY <2>2, <2>5, <2>6
  <2> QED BY <1>one, <2>1, <2>3, <2>7
<1>8. ASSUME NEW a \in Spins, Release(a)
      PROVE  (\A b \in Spins : Held(b)) /\ (\A k \in Ids : Cached(k))
  <2>1. /\ pc[a] = "release" /\ UNCHANGED <<req, receipt, reply>> /\ pc'[a] = "done"
        /\ \A b \in Spins \ {a} : pc'[b] = pc[b]
    BY <1>8, <1>t DEF Release, Goto, TypeOK
  <2>2. reply'[a] \notin Good BY <2>1 DEF ReplyInv
  <2>3. Held(a) BY <1>held, <2>1, <2>2
  <2>4. \A k \in Ids : redis'[k] = redis[k] \/ redis'[k] = Absent
    BY <1>8, <1>t DEF Release, TypeOK
  <2>5. \A k \in Ids : redis'[k] = redis[k] \/ Cached(k) BY <1>empty, <2>4 DEF Absent
  <2> QED BY <1>one, <2>1, <2>3, <2>5
<1>still. ASSUME UNCHANGED spin, \A k \in Ids : redis'[k] = redis[k] \/ redis'[k] = Absent
          PROVE  (\A b \in Spins : Held(b)) /\ (\A k \in Ids : Cached(k))
  <2>1. \A b \in Spins : Held(b) BY <1>still, <1>same DEF spin
  <2> QED BY <1>still, <1>keep, <1>empty, <2>1 DEF Absent
<1>9. ASSUME \/ \E k \in Ids : Expire(k)
             \/ \E p \in Players : ChangeStatus(p)
             \/ \E r \in Foreign : ForeignBet(r)
             \/ UNCHANGED vars
      PROVE  (\A b \in Spins : Held(b)) /\ (\A k \in Ids : Cached(k))
  <2>1. UNCHANGED spin BY <1>9 DEF Expire, ChangeStatus, ForeignBet, vars
  <2>2. \A k \in Ids : redis'[k] = redis[k] \/ redis'[k] = Absent
    BY <1>9, <1>t DEF Expire, ChangeStatus, ForeignBet, vars, TypeOK
  <2> QED BY <1>still, <2>1, <2>2
<1> QED BY <1>1, <1>2, <1>3, <1>4, <1>5, <1>6, <1>7, <1>8, <1>9
        DEF Next, Transact, Conclude, Fault, Finished

TellInv == TypeInv /\ ReceiptInv /\ ReplyInv

LEMMA TellInvariant == Spec => []TellInv
<1>1. Init => TellInv
  BY TypeInit DEF Init, TellInv, ReceiptInv, ReplyInv, Absent
<1>2. TellInv /\ [Next]_vars => TellInv' BY TypeStep, ReceiptStep DEF TellInv
<1> QED BY <1>1, <1>2, PTL DEF Spec

\* No settled round is rolled again: whatever a call is told of an id, or a key
\* caches, are the reels stored with its bet leg, in whatever order calls are lost
\* and retried.
THEOREM NoRoundIsRolledAgain == Spec => []NoReroll
<1>1. TellInv => NoReroll BY DEF TellInv, ReceiptInv, NoReroll, Backed
<1> QED BY TellInvariant, <1>1, PTL

-----------------------------------------------------------------------------
(* A round is one movement of ExactlyOnce.                                 *)

\* Between its lock and its end a transaction's copy of the wallet is the row.
LockInv == \A a \in Spins : pc[a] \in {"locked", "drawn", "commit"} =>
               holder[Player(a)] = a /\ seen[a] = balance[Player(a)]

LEMMA LockStep == TypeInv /\ LockInv /\ [Next]_vars => LockInv'
<1> SUFFICES ASSUME TypeInv, LockInv, [Next]_vars PROVE LockInv' OBVIOUS
<1>t. TypeOK BY DEF TypeInv
<1>n. \A a \in Spins : a # None BY SpinNoneAssumption
<1>own. ASSUME NEW b \in Spins, pc'[b] = pc[b], pc[b] \in {"locked", "drawn", "commit"}
        PROVE  /\ b # None /\ Player(b) \in Players
               /\ holder[Player(b)] = b /\ seen[b] = balance[Player(b)]
  BY <1>own, <1>n, CallTypes DEF LockInv
\* The calls whose own state, lock and wallet row a step leaves alone.
<1>keep. ASSUME NEW b \in Spins,
                pc'[b] \in {"locked", "drawn", "commit"} =>
                   /\ pc[b] \in {"locked", "drawn", "commit"}
                   /\ req'[b] = req[b] /\ seen'[b] = seen[b]
                   /\ holder'[Player(b)] = holder[Player(b)]
                   /\ balance'[Player(b)] = balance[Player(b)]
         PROVE  pc'[b] \in {"locked", "drawn", "commit"} =>
                   holder'[Player(b)'] = b /\ seen'[b] = balance'[Player(b)']
  BY <1>keep DEF LockInv, Player
<1>1. ASSUME NEW a \in Spins, Arrive(a) PROVE LockInv'
  <2>1. /\ pc'[a] \in {"arrived", "done"} /\ UNCHANGED <<holder, balance, seen>>
        /\ \A b \in Spins \ {a} : pc'[b] = pc[b] /\ req'[b] = req[b]
    BY <1>1, <1>t DEF Arrive, Goto, Answer, TypeOK
  <2> QED BY <1>keep, <2>1 DEF LockInv
\* A step of one call that writes no lock and no wallet.
<1>move. ASSUME NEW a \in Spins, UNCHANGED <<req, holder, balance, seen>>,
                \A b \in Spins \ {a} : pc'[b] = pc[b],
                pc'[a] \in {"locked", "drawn", "commit"} => pc[a] \in {"locked", "drawn", "commit"}
         PROVE  LockInv'
  BY <1>move, <1>keep DEF LockInv
\* A step that ends a transaction, and writes no wallet but its own.
<1>end. ASSUME NEW a \in Spins, UNCHANGED req, EndTx(a), pc[a] # "idle",
               \A b \in Spins \ {a} : pc'[b] = pc[b],
               pc'[a] \notin {"locked", "drawn", "commit"},
               \A p \in Players : balance'[p] = balance[p]
                                  \/ (p = Player(a) /\ pc[a] = "commit")
        PROVE  LockInv'
  <2>1. ASSUME NEW b \in Spins \ {a}, pc[b] \in {"locked", "drawn", "commit"}
        PROVE  /\ seen'[b] = seen[b]
               /\ holder'[Player(b)] = holder[Player(b)]
               /\ balance'[Player(b)] = balance[Player(b)]
    <3>1. holder[Player(b)] = b /\ Player(b) \in Players BY <1>end, <1>own, <2>1
    <3>2. pc[a] = "commit" => holder[Player(a)] = a BY DEF LockInv
    <3>3. seen'[b] = seen[b] BY <1>end, EndTypes
    <3>4. holder'[Player(b)] = holder[Player(b)]
      BY <1>end, <3>1 DEF EndTx, Unlocked
    <3> QED BY <1>end, <3>1, <3>2, <3>3, <3>4
  <2> QED BY <1>end, <1>keep, <2>1 DEF LockInv
<1>2. ASSUME NEW a \in Spins, Claim(a) \/ Taken(a) \/ BarrierDown(a) PROVE LockInv'
  BY <1>2, <1>t, <1>move DEF Claim, Taken, BarrierDown, Goto, Answer, TypeOK
<1>3. ASSUME NEW a \in Spins, Queue(a) PROVE LockInv'
  BY <1>3, <1>t, <1>move DEF Queue, Goto, TypeOK
<1>4. ASSUME NEW a \in Spins, LockWalletAndStatus(a) PROVE LockInv'
  <2>1. /\ pc[a] = "queued" /\ holder[Player(a)] = None /\ UNCHANGED <<req, balance>>
        /\ holder' = [holder EXCEPT ![Player(a)] = a]
        /\ seen' = [seen EXCEPT ![a] = balance[Player(a)]]
        /\ \A b \in Spins \ {a} : pc'[b] = pc[b]
    BY <1>4, <1>t DEF LockWalletAndStatus, Goto, TypeOK
  <2>2. Player(a) \in Players BY <2>1, CallTypes
  <2>3. holder'[Player(a)] = a /\ seen'[a] = balance[Player(a)]
    BY <1>t, <2>1, <2>2 DEF TypeOK
  <2>4. Player(a)' = Player(a) BY <2>1 DEF Player
  <2>5. ASSUME NEW b \in Spins \ {a}, pc[b] \in {"locked", "drawn", "commit"}
        PROVE  seen'[b] = seen[b] /\ holder'[Player(b)] = holder[Player(b)]
    BY <1>t, <1>own, <2>1, <2>5 DEF TypeOK
  <2> QED BY <1>keep, <2>1, <2>3, <2>4, <2>5 DEF LockInv
<1>5. ASSUME NEW a \in Spins, Draw(a) \/ SettleSpin(a) PROVE LockInv'
  BY <1>5, <1>t, <1>move DEF Draw, SettleSpin, Goto, TypeOK
<1>6. ASSUME NEW a \in Spins, \/ Refuse(a) \/ UpdateRejected(a) \/ Fail(a)
                              \/ DuplicateRound(a) \/ Crash(a)
      PROVE  LockInv'
  <2>1. Abort(a) /\ pc[a] # "idle" /\ UNCHANGED req
    BY <1>6 DEF Refuse, UpdateRejected, Fail, DuplicateRound, Crash
  <2>2. \E place \in {"release", "recover", "dead"} : Goto(a, place)
    BY <1>6 DEF Refuse, UpdateRejected, Fail, DuplicateRound, Crash, Answer
  <2>3. /\ pc'[a] \in {"release", "recover", "dead"}
        /\ \A b \in Spins \ {a} : pc'[b] = pc[b]
    BY <1>t, <2>2 DEF Goto, TypeOK
  <2> QED BY <1>end, <2>1, <2>3 DEF Abort
<1>7. ASSUME NEW a \in Spins, Commit(a) \/ CommitUnacknowledged(a) PROVE LockInv'
  <2>1. /\ pc[a] = "commit" /\ Persist(a) /\ UNCHANGED req
        /\ pc'[a] \in {"store", "release"}
        /\ \A b \in Spins \ {a} : pc'[b] = pc[b]
    BY <1>7, CommitAlone
  <2>2. \A p \in Players : balance'[p] = balance[p] \/ p = Player(a)
    BY <1>t, <2>1 DEF Persist, TypeOK
  <2> QED BY <1>end, <2>1, <2>2 DEF Persist
<1>8. ASSUME NEW a \in Spins, Recover(a) \/ RecoverConflict(a) PROVE LockInv'
  BY <1>8, <1>t, <1>move DEF Recover, RecoverConflict, Goto, Answer, TypeOK
<1>9. ASSUME NEW a \in Spins, CacheSpin(a) \/ Release(a) PROVE LockInv'
  BY <1>9, <1>t, <1>move DEF CacheSpin, Release, Goto, TypeOK
<1>10. ASSUME NEW r \in Foreign, ForeignBet(r) PROVE LockInv'
  <2>1. /\ UNCHANGED <<holder, spin>> /\ holder[r.player] = None
        /\ \A p \in Players : balance'[p] = balance[p] \/ p = r.player
    BY <1>10, <1>t DEF ForeignBet, TypeOK
  <2> QED BY <1>keep, <1>own, <2>1 DEF LockInv, spin
<1>11. ASSUME \/ \E k \in Ids : Expire(k)
              \/ \E p \in Players : ChangeStatus(p)
              \/ UNCHANGED vars
       PROVE  LockInv'
  <2>1. UNCHANGED <<balance, holder, spin>> BY <1>11 DEF Expire, ChangeStatus, vars, spin
  <2> QED BY <1>keep, <2>1 DEF LockInv, spin
<1> QED BY <1>1, <1>2, <1>3, <1>4, <1>5, <1>6, <1>7, <1>8, <1>9, <1>10, <1>11
        DEF Next, Transact, Conclude, Fault, Finished

\* Who is told of success, and of which id, changes by one call at a time.
Silent == Told' = Told /\ \A b \in Told : Id(b)' = Id(b)
Tells  == \E a \in Spins : Told' = Told \union {a} /\ UNCHANGED <<req, balance, ledger>>

LEMMA TellingStep ==
    ASSUME TellInv, [Next]_vars
    PROVE  Silent \/ Tells
<1>t. TypeOK BY DEF TellInv, TypeInv
<1>1. ASSUME NEW a \in Spins, Arrive(a) PROVE Silent
  <2>1. /\ pc[a] = "idle" /\ pc'[a] \in {"arrived", "done"}
        /\ pc'[a] = "done" => reply'[a] = "refused"
        /\ \A b \in Spins \ {a} : pc'[b] = pc[b] /\ req'[b] = req[b] /\ reply'[b] = reply[b]
    BY <1>1, <1>t DEF Arrive, Goto, Answer, TypeOK
  <2> QED BY <2>1 DEF Silent, Told, Id
\* A call that does not return with success.
<1>move. ASSUME NEW a \in Spins, UNCHANGED req, pc[a] # "done",
                \A b \in Spins \ {a} : pc'[b] = pc[b] /\ reply'[b] = reply[b],
                pc'[a] = "done" => reply'[a] \notin Good
         PROVE  Silent
  BY <1>move DEF Silent, Told, Id, Good
<1>2. ASSUME NEW a \in Spins, Claim(a) \/ BarrierDown(a) PROVE Silent
  <2>1. /\ pc[a] = "arrived" /\ UNCHANGED req
        /\ pc'[a] = "done" => reply'[a] = "failed"
        /\ \A b \in Spins \ {a} : pc'[b] = pc[b] /\ reply'[b] = reply[b]
    BY <1>2, <1>t DEF Claim, BarrierDown, Goto, Answer, TypeOK
  <2> QED BY <1>move, <2>1 DEF Good
<1>3. ASSUME NEW a \in Spins, Taken(a) \/ CacheSpin(a) PROVE Silent \/ Tells
  <2>1. /\ pc[a] # "done" /\ UNCHANGED <<req, balance, ledger>>
        /\ \A b \in Spins \ {a} : pc'[b] = pc[b] /\ reply'[b] = reply[b]
    BY <1>3, <1>t DEF Taken, CacheSpin, Goto, Answer, TypeOK
  <2>2. CASE pc'[a] = "done" /\ reply'[a] \in Good
    <3>1. Told' = Told \union {a} BY <2>1, <2>2 DEF Told, Good
    <3> QED BY <2>1, <3>1 DEF Tells
  <2>3. CASE ~ (pc'[a] = "done" /\ reply'[a] \in Good) BY <1>move, <2>1, <2>3
  <2> QED BY <2>2, <2>3
<1>4. ASSUME NEW a \in Spins, Release(a) PROVE Silent
  <2>1. /\ pc[a] = "release" /\ UNCHANGED <<req, reply>>
        /\ \A b \in Spins \ {a} : pc'[b] = pc[b]
    BY <1>4, <1>t DEF Release, Goto, TypeOK
  <2>2. reply[a] \notin Good BY <2>1 DEF TellInv, ReplyInv
  <2> QED BY <1>move, <2>1, <2>2
<1>5. ASSUME NEW a \in Spins, Transact(a) \/ Recover(a) \/ RecoverConflict(a) \/ Fail(a)
                              \/ CommitUnacknowledged(a) \/ Crash(a)
      PROVE  Silent
  <2>1. /\ pc[a] # "done" /\ UNCHANGED req
        /\ \E place \in Places \ {"done"} :
              \/ Goto(a, place) /\ UNCHANGED reply
              \/ \E word \in Replies : Answer(a, place, word)
    BY <1>5 DEF Transact, Queue, LockWalletAndStatus, Draw, Refuse, UpdateRejected, SettleSpin,
                DuplicateRound, Commit, Recover, RecoverConflict, Fail, CommitUnacknowledged,
                Crash, Places, Replies
  <2>2. /\ pc'[a] # "done"
        /\ \A b \in Spins \ {a} : pc'[b] = pc[b] /\ reply'[b] = reply[b]
    BY <1>t, <2>1 DEF Goto, Answer, TypeOK
  <2> QED BY <1>move, <2>1, <2>2
<1>6. ASSUME \/ \E k \in Ids : Expire(k)
             \/ \E p \in Players : ChangeStatus(p)
             \/ \E r \in Foreign : ForeignBet(r)
             \/ UNCHANGED vars
      PROVE  Silent
  <2>1. UNCHANGED spin BY <1>6 DEF Expire, ChangeStatus, ForeignBet, vars
  <2> QED BY <2>1 DEF Silent, Told, Id, spin
<1> QED BY <1>1, <1>2, <1>3, <1>4, <1>5, <1>6 DEF Next, Conclude, Fault, Finished

SpinInv == RoundInv /\ TellInv /\ LockInv

Moved(t) == [id |-> t.leg[1], player |-> t.player, delta |-> RoundDelta(t)]
Settled  == {Moved(t) : t \in Stakes}
Answered == {Id(a) : a \in Told}

\* A row that takes the bet leg of an id nobody has used settles that id.
LEMMA StakeSettles ==
    ASSUME NEW row, NEW k \in Ids, NEW p \in Players, NEW moved,
           row.leg[1] = k, row.player = p,
           Stakes' = Stakes \union {row},
           \A t \in Stakes : t.leg[1] # k /\ RoundDelta(t)' = RoundDelta(t),
           \A t \in {row} : RoundDelta(t)' = moved
    PROVE  /\ ~ Promise!IsSettled(k)
           /\ Settled' = Settled \union {Promise!Movement(k, p, moved)}
<1>1. ~ Promise!IsSettled(k) BY DEF Promise!IsSettled
<1>2. \A t \in Stakes : Moved(t)' = Moved(t) BY DEF Moved
<1>3. \A t \in {row} : Moved(t)' = Promise!Movement(k, p, moved)
  BY DEF Moved, Promise!Movement
<1>4. Settled' = {Moved(t)' : t \in Stakes'} BY DEF Settled
<1>5. \A x : x \in Settled' <=> \E t \in Stakes' : x = Moved(t)' BY <1>4
<1>6. \A x : x \in Settled <=> \E t \in Stakes : x = Moved(t) BY DEF Settled
<1>7. \A x : x \in Settled' <=> x \in Settled \union {Promise!Movement(k, p, moved)}
  BY <1>2, <1>3, <1>5, <1>6
<1> QED BY <1>1, <1>7

LEMMA PromiseStep ==
    ASSUME SpinInv, SpinInv', [Next]_vars
    PROVE  [Promise!Next]_(Promise!vars)
<1>i. TypeInv /\ LegsInv /\ PaidAsDrawn /\ TellInv /\ LockInv /\ TypeOK
  BY DEF SpinInv, RoundInv, TypeInv
<1>d. UNCHANGED <<balance, Settled, Answered>> => UNCHANGED Promise!vars
  BY DEF Promise!vars, Settled, Answered, Moved
<1>l. \A t \in ledger : /\ t.leg = <<t.leg[1], t.leg[2]>> /\ t.leg[1] \in Ids
                        /\ t.leg[2] \in {"bet", "win"}
  <2>1. ASSUME NEW t \in ledger PROVE t.leg \in Ids \X {"bet", "win"}
    BY <1>i DEF TypeOK, Row, Legs
  <2> QED BY <2>1
<1>f. ASSUME NEW k, \A t \in ledger : t.leg # <<k, "bet">>, NEW t \in Stakes
      PROVE  t.leg[1] # k
  BY <1>f, <1>l DEF Stakes
\* A win leg is a spin's, so a bet of ProcessBet has no partner.
<1>w. \A t : t.lid = None => Partner(t) = {}
  <2>1. \A u \in WinLegs : u.lid # None BY <1>i DEF PaidAsDrawn, Partner, BetLegs
  <2> QED BY <2>1 DEF Partner
<1>b. balance' \in [Players -> Promise!Wallets]
  <2>1. balance' \in [Players -> [Currencies -> 0..MaxBalance]]
    BY DEF SpinInv, RoundInv, TypeInv, TypeOK
  <2> QED BY <2>1 DEF Promise!Wallets, Promise!Currencies, Currencies
<1>m. \A v, w : Promise!Minus(v, w) = Minus(v, w)
  BY DEF Minus, Promise!Minus, Currencies, Promise!Currencies
\* A step that writes the ledger tells nobody.
<1>s. ledger' # ledger => Answered' = Answered
  BY <1>i, TellingStep DEF Tells, Silent, Answered
\* A COMMIT settles the round by what the wallet underwent under its lock.
<1>1. ASSUME NEW a \in Spins, Commit(a) \/ CommitUnacknowledged(a)
      PROVE  [Promise!Next]_(Promise!vars)
  <2> DEFINE B     == BetRow(a)
             W     == WinRow(a)
             moved == Plus(BetDelta(a), WinDelta(a))
  <2>c. pc[a] = "commit" /\ Persist(a) BY <1>i, <1>1, CommitAlone
  <2>1. PICK k \in Ids, p \in Players : k = Id(a) /\ p = Player(a) BY <1>i, <2>c, CallTypes
  <2>2. /\ BetLegs' = BetLegs \union {B}
        /\ \A t \in BetLegs : Partner(t)' = Partner(t)
        /\ \A t \in {B} : Partner(t)' = IF Win(a) > 0 THEN {W} ELSE {}
        /\ WinLegs' = WinLegs \union (IF Win(a) > 0 THEN {W} ELSE {})
        /\ B \notin ledger
    BY <1>i, <1>1, CommitAddsRound
  <2>3. ASSUME NEW t \in Stakes PROVE t.leg[1] # k
    <3>1. \A u \in ledger : u.leg # <<k, "bet">>
      BY <1>i, <2>c, <2>1, RoundLegs DEF LegsInv, LegsOf
    <3> QED BY <1>f, <3>1
  <2>4. Stakes' = Stakes \union {B}
    <3>1. ledger' = ledger \union Rows(a) BY <1>i, <1>1, CommitAlone
    <3>2. B.leg = <<Id(a), "bet">> BY DEF BetRow
    <3>3. W.leg = <<Id(a), "win">> BY <1>i, <2>c, RoundTypes
    <3>4. Rows(a) = {B} \union (IF Win(a) > 0 THEN {W} ELSE {}) BY DEF Rows
    <3> HIDE DEF B, W
    <3> QED BY <3>1, <3>2, <3>3, <3>4 DEF Stakes
  <2>5. balance' = [balance EXCEPT ![p] = Post(a)] BY <2>c, <2>1 DEF Persist
  <2>6. \A q \in Players \ {p} : balance'[q] = balance[q] BY <1>i, <2>5 DEF TypeOK
  <2>7. BetDelta(a) \in Deltas /\ WinDelta(a) \in Deltas BY <1>i, <2>c, RoundTypes
  <2>8. Minus(balance'[p], balance[p]) = moved
    <3>1. seen[a] = balance[p] BY <1>i, <2>c, <2>1 DEF LockInv
    <3>2. balance'[p] = Plus(Plus(balance[p], BetDelta(a)), WinDelta(a))
      BY <1>i, <2>1, <2>5, <3>1 DEF Post, TypeOK
    <3>3. balance[p] \in Deltas BY <1>i, SpinOpeningAssumption DEF TypeOK, Deltas
    <3> QED BY <2>7, <3>2, <3>3 DEF Plus, Minus, Deltas
  <2>9. ASSUME NEW t \in {B} PROVE RoundDelta(t)' = moved
    <3>1. t.delta = BetDelta(a) BY DEF BetRow
    <3>2. Win(a) \in Nat /\ W.delta = WinDelta(a) BY <1>i, <2>c, RoundTypes
    <3>3. CASE Win(a) > 0
      <4>1. Partner(t)' = {W} BY <2>2, <3>3
      <4>2. (CHOOSE u \in {W} : TRUE) = W OBVIOUS
      <4>3. RoundDelta(t)' = Plus(t.delta, W.delta) BY <4>1, <4>2 DEF RoundDelta, Plus
      <4> QED BY <3>1, <3>2, <4>3
    <3>4. CASE Win(a) = 0
      <4>1. Partner(t)' = {} BY <2>2, <3>4
      <4>2. RoundDelta(t)' = t.delta BY <4>1 DEF RoundDelta
      <4>3. drawn[a] \in Nat /\ req[a] \in Request BY <1>i, <2>c, CallTypes, RoundTypes
      <4>4. moved = BetDelta(a)
        BY <1>i, <2>7, <3>4, <4>3, LegDeltas DEF TypeOK, WinDelta, Win, Family, Bet
      <4> QED BY <3>1, <4>2, <4>4
    <3> QED BY <3>2, <3>3, <3>4
  <2>10. ASSUME NEW t \in Stakes PROVE RoundDelta(t)' = RoundDelta(t)
    <3>1. W.lid # None BY <1>i, <2>c, RoundTypes, SpinNoneAssumption
    <3>2. CASE t \in BetLegs BY <2>2, <3>2 DEF RoundDelta, Plus
    <3>3. CASE t.lid = None
      <4> HIDE DEF W
      <4>1. Partner(t) = {} BY <1>w, <3>3
      <4>2. Partner(t)' = {} BY <2>2, <3>1, <3>3, <4>1 DEF Partner
      <4> QED BY <4>1, <4>2 DEF RoundDelta
    <3> QED BY <3>2, <3>3 DEF Stakes, BetLegs
  <2>11. /\ ~ Promise!IsSettled(k)
         /\ Settled' = Settled \union {Promise!Movement(k, p, moved)}
    <3>1. B.leg[1] = k /\ B.player = p BY <2>1 DEF BetRow
    <3> HIDE DEF B, moved
    <3> QED BY <2>3, <2>4, <2>9, <2>10, <3>1, StakeSettles
  <2>12. Answered' = Answered
    <3>1. B \in ledger' BY <2>2 DEF BetLegs
    <3> QED BY <1>s, <2>2, <3>1
  <2>14. Promise!Settle(k, p)
    BY <1>b, <1>m, <2>6, <2>8, <2>11, <2>12 DEF Promise!Settle, Settled, Answered, Moved
  <2> QED BY <2>1, <2>14 DEF Promise!Next
\* A bet of ProcessBet settles the id whose leg it takes.
<1>3. ASSUME NEW r \in Foreign, ForeignBet(r) PROVE [Promise!Next]_(Promise!vars)
  <2>1. PICK row \in Row :
          /\ ledger' = ledger \union {row}
          /\ balance' = [balance EXCEPT ![r.player] = Plus(@, row.delta)]
          /\ row.leg = <<r.id, "bet">> /\ row.lid = None /\ row.player = r.player
    BY <1>i, <1>3, ForeignTypes
  <2>2. PICK k \in Ids, p \in Players : k = r.id /\ p = r.player
    BY ForeignAssumption DEF Request
  <2>3. /\ \A t \in ledger : t.leg # <<k, "bet">>
        /\ row \notin ledger
    BY <1>3, <2>1, <2>2 DEF ForeignBet, ForeignRow, LegsOf
  <2>4. Stakes' = Stakes \union {row} BY <2>1 DEF Stakes
  <2>5. WinLegs' = WinLegs BY <2>1 DEF WinLegs
  <2>6. \A t : Partner(t)' = Partner(t) BY <2>5 DEF Partner
  <2>7. \A t \in Stakes : t.leg[1] # k /\ RoundDelta(t)' = RoundDelta(t)
    BY <1>f, <2>3, <2>6 DEF RoundDelta, Plus
  <2>8. \A t \in {row} : RoundDelta(t)' = row.delta BY <1>w, <2>1, <2>6 DEF RoundDelta
  <2>9. /\ ~ Promise!IsSettled(k)
        /\ Settled' = Settled \union {Promise!Movement(k, p, row.delta)}
    BY <2>1, <2>2, <2>4, <2>7, <2>8, StakeSettles
  <2>10. Answered' = Answered BY <1>s, <2>1, <2>3
  <2>11. /\ balance'[p] = Plus(balance[p], row.delta)
         /\ \A q \in Players \ {p} : balance'[q] = balance[q]
    BY <1>i, <2>1, <2>2 DEF TypeOK
  <2>12. Minus(balance'[p], balance[p]) = row.delta
    <3>1. balance[p] \in Deltas /\ row.delta \in Deltas
      BY <1>i, <2>1, SpinOpeningAssumption DEF TypeOK, Deltas, Row
    <3> QED BY <2>11, <3>1 DEF Plus, Minus, Deltas
  <2>13. Promise!Settle(k, p)
    BY <1>b, <1>m, <2>9, <2>10, <2>11, <2>12 DEF Promise!Settle, Settled, Answered, Moved
  <2> QED BY <2>13 DEF Promise!Next
\* Anything else tells a caller of a settled round, or shows nothing.
<1>2. ASSUME UNCHANGED <<balance, ledger>> PROVE [Promise!Next]_(Promise!vars)
  <2>1. Settled' = Settled
    BY <1>2 DEF Settled, Moved, RoundDelta, Partner, Stakes, WinLegs, Plus
  <2>2. CASE Silent
    <3>1. Answered' = Answered BY <2>2 DEF Silent, Answered
    <3> QED BY <1>2, <1>d, <2>1, <3>1
  <2>3. CASE Tells
    <3>1. PICK a \in Spins : Told' = Told \union {a} /\ req' = req BY <2>3 DEF Tells
    <3>2. a \in Told' /\ \A b \in Spins : Id(b)' = Id(b) BY <3>1 DEF Id
    <3>3. Answered' = Answered \union {Id(a)}
      <4>1. Answered' = {Id(b)' : b \in Told'} BY DEF Answered
      <4>2. Told \subseteq Spins BY DEF Told
      <4>3. Answered' = {Id(b) : b \in Told \union {a}} BY <3>1, <3>2, <4>1, <4>2
      <4> QED BY <4>3 DEF Answered
    <3>4. Backed(receipt[a], Id(a))' BY <3>2 DEF SpinInv, TellInv, ReplyInv, Told, Good
    <3>5. PICK t \in ledger : t.leg = <<Id(a), "bet">>
      BY <1>2, <3>2, <3>4 DEF Backed, Shows
    <3>6. t \in Stakes /\ t.leg[1] = Id(a) /\ Id(a) \in Ids BY <1>l, <3>5 DEF Stakes
    <3>8. Moved(t) \in Settled /\ Moved(t).id = Id(a) BY <3>6 DEF Settled, Moved
    <3>9. Promise!IsSettled(Id(a)) BY <3>8 DEF Promise!IsSettled, Settled, Moved
    <3>10. Promise!Answer(Id(a))
      BY <1>2, <2>1, <3>3, <3>9 DEF Promise!Answer, Settled, Answered, Moved
    <3> QED BY <3>6, <3>10 DEF Promise!Next
  <2> QED BY <1>i, <2>2, <2>3, TellingStep
<1> QED BY <1>i, <1>1, <1>2, <1>3, StepKinds DEF SettleSpin, Quiet

\* Each round is one movement of ExactlyOnce: both legs or none, once per id, and
\* success is told of ids that have moved only.
THEOREM RoundsKeepPromise == Spec => KeepsPromise
<1>1. Init => SpinInv
  BY TypeInit DEF Init, SpinInv, RoundInv, TellInv, LockInv, LegsInv, PaidAsDrawn,
                  BetLegs, WinLegs, ReceiptInv, ReplyInv, Absent
<1>2. SpinInv /\ [Next]_vars => SpinInv'
  BY TypeStep, LegsStep, PaidStep, ReceiptStep, LockStep DEF SpinInv, RoundInv, TellInv
<1>3. Init => Promise!Init
  BY DEF Init, Promise!Init, Stakes, Told
<1>4. SpinInv /\ SpinInv' /\ [Next]_vars => [Promise!Next]_(Promise!vars)
  BY PromiseStep
<1> QED BY <1>1, <1>2, <1>3, <1>4, PTL DEF Spec, KeepsPromise, Promise!Spec
=============================================================================
