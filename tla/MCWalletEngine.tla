--------------------------- MODULE MCWalletEngine ---------------------------
(***************************************************************************)
(* Small instances of WalletEngine for TLC: the requests a run's attempts  *)
(* may carry, and the wallets they start from.  Every set of requests that *)
(* names ledger rows names those of all attempts alike, so the attempts    *)
(* are interchangeable.                                                    *)
(***************************************************************************)
EXTENDS LedgerAudit, TLC

CONSTANTS p1, p2, k1, k2, k3

\* Two calls that differ in their endpoint alone have the same body.
Call(k, kind, p, family, n, sc, ref) ==
    [id |-> k, kind |-> kind, player |-> p, body |-> <<k, p, n, sc, ref>>,
     family |-> family, amount |-> n, sc |-> sc, ref |-> ref]

BodiesOf(calls) == {r.body : r \in calls}

Bet(k, p, n)     == Call(k, "BET", p, "SC", n, 0, None)
Win(k, p, n)     == Call(k, "WIN", p, "SC", n, 0, None)
Buy(k, p, gc, s) == Call(k, "DEPOSIT", p, "UNKNOWN", gc, s, None)
Grant(k, p, s)   == Call(k, "PROMO_CREDIT", p, "UNKNOWN", 0, s, None)
Redeem(k, p, n)  == Call(k, "WITHDRAWAL", p, "UNKNOWN", n, 0, None)
Reverse(k, p)    == {Call(k, "ROLLBACK", p, "UNKNOWN", 0, 0, a) : a \in Attempts}

Purses == [p \in Players |-> Coins(1, 1, 2)]

\* One id retried, used for bets of two players and, with the body of the first,
\* for a win, next to a grant; a win over the ceiling is refused at once.
Reuses == {Bet(k1, p1, 2), Win(k1, p1, 2), Bet(k1, p2, 2), Win(k1, p2, 3), Grant(k2, p1, 2)}

\* Coins bought, won, staked and redeemed, and two rollbacks of the stake.
Cashier == {Bet(k1, p1, 2), Win(k1, p1, 2), Buy(k3, p1, 1, 1), Redeem(k3, p1, 2)}
           \union Reverse(k2, p1) \union Reverse(k3, p1)

\* One bet retried with another amount.
Amended == {Bet(k1, p1, 2), Bet(k1, p1, 1)}

ReusedBodies  == BodiesOf(Reuses)
CashierBodies == BodiesOf(Cashier)
AmendedBodies == BodiesOf(Amended)

Symmetry == Permutations(Attempts)

-----------------------------------------------------------------------------

\* idempotency.go:74-77: "a success receipt that disagreed with the ledger" is what
\* binding a key to its request puts an end to: the amount on a receipt is what
\* the transaction it names has moved.
ReceiptsAgreeWithLedger ==
    \A a \in Attempts : receipt[a] # None =>
        \A t \in ledger : t.lid = receipt[a].lid =>
            receipt[a].amount = IF Total(t.delta) < 0 THEN 0 - Total(t.delta) ELSE Total(t.delta)
=============================================================================
