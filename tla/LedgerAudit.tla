---------------------------- MODULE LedgerAudit -----------------------------
(***************************************************************************)
(* Properties of WalletEngine that add up the ledger, as an auditor does.  *)
(***************************************************************************)
EXTENDS WalletEngine, FiniteSetsExt

Moved(txs, c) == MapThenSumSet(LAMBDA t : t.delta[c], txs)

Of(p) == {t \in ledger : t.player = p}

\* The audit of worker/reconciler.go finds no drift at any moment: each balance
\* is the opening balance plus the sum of the player's ledger entries.
AuditPasses ==
    \A p \in Players, c \in Currencies :
        balance[p][c] = Opening[p][c] + Moved(Of(p), c)

\* Cashable coins come only from play: SC_REDEEMABLE never exceeds what the
\* player opened with and has won, so neither a purchase, nor a grant, nor a
\* bet reversed twice, mints any (domain/casino.go: the plan of a grant "cannot
\* express" a redeemable credit; AllocateBet's split is what a rollback undoes).
RedeemableIsWon ==
    \A p \in Players :
        balance[p]["SC_REDEEMABLE"] <=
            Opening[p]["SC_REDEEMABLE"]
            + Moved({t \in Of(p) : t.kind = "WIN"}, "SC_REDEEMABLE")
=============================================================================
