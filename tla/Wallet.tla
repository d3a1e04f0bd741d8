------------------------------- MODULE Wallet -------------------------------
(***************************************************************************)
(* The pure money rules of internal/domain: how a wager is split over the  *)
(* three balances of a wallet, and what a win, a purchase, a promotional   *)
(* grant and a redemption add or take.  An allocation plan is a function   *)
(* from the currencies to the amount debited (or credited), so a plan of   *)
(* one or two lines in the code is a plan with one or two non-zero values  *)
(* here.  Amounts are counted in the smallest unit, 0.0001 of a coin.      *)
(***************************************************************************)
EXTENDS Integers

Currencies == {"GC", "SC_UNPLAYED", "SC_REDEEMABLE"}
Families   == {"GC", "SC"}

\* A wallet or a plan: one amount per currency.
Balances == [Currencies -> Nat]
Deltas   == [Currencies -> Int]

Coins(gc, unplayed, redeemable) ==
    [c \in Currencies |-> IF c = "GC" THEN gc
                          ELSE IF c = "SC_UNPLAYED" THEN unplayed ELSE redeemable]

Nothing == Coins(0, 0, 0)

Plus(w, d)  == [c \in Currencies |-> w[c] + d[c]]
Minus(w, d) == [c \in Currencies |-> w[c] - d[c]]
Negated(d)  == [c \in Currencies |-> 0 - d[c]]
Total(d)    == d["GC"] + d["SC_UNPLAYED"] + d["SC_REDEEMABLE"]

Covers(w, d) == \A c \in Currencies : d[c] <= w[c]

SCTotal(w) == w["SC_UNPLAYED"] + w["SC_REDEEMABLE"]

MinMoney(m, n) == IF m < n THEN m ELSE n

-----------------------------------------------------------------------------
(* Wagers.                                                                 *)

\* AllocateBet's two error paths: a stake must be positive and covered by the
\* balances its family may draw on.
CanBet(w, family, n) ==
    /\ n > 0
    /\ n <= IF family = "GC" THEN w["GC"] ELSE SCTotal(w)

\* Mutated form of BetDebits: the winnings are spent before the promotional SC.
RedeemableFirst(w, family, n) ==
    LET fromRedeemable == MinMoney(w["SC_REDEEMABLE"], n)
    IN  IF family = "GC" THEN Coins(n, 0, 0)
                         ELSE Coins(0, n - fromRedeemable, fromRedeemable)

\* The debit plan: an SC stake exhausts SC_UNPLAYED before SC_REDEEMABLE.
BetDebits(w, family, n) ==
    LET fromUnplayed == MinMoney(w["SC_UNPLAYED"], n)
    IN  IF family = "GC" THEN Coins(n, 0, 0)
                         ELSE Coins(0, fromUnplayed, n - fromUnplayed)

\* ApplyBet refuses a plan that is not covered before it subtracts anything.
ApplyBet(w, d) == IF Covers(w, d) THEN Minus(w, d) ELSE w

-----------------------------------------------------------------------------
(* Wins, purchases, grants and redemptions.                                *)

\* SC winnings always land in SC_REDEEMABLE.
WinCredit(family, n) == IF family = "GC" THEN Coins(n, 0, 0) ELSE Coins(0, 0, n)

\* A purchase or a grant issues GC and/or promotional SC, at least one of them.
CanIssue(gc, sc) == gc >= 0 /\ sc >= 0 /\ (gc > 0 \/ sc > 0)

\* Mutated form of IssueCredit: promotional SC is minted already redeemable.
IssueRedeemable(gc, sc) == Coins(gc, 0, sc)

IssueCredit(gc, sc) == Coins(gc, sc, 0)

\* Mutated form of CanRedeem: promotional SC counts towards a redemption.
CanRedeemAnySC(w, n) == n > 0 /\ n <= SCTotal(w)

CanRedeem(w, n) == n > 0 /\ n <= w["SC_REDEEMABLE"]

RedeemDebit(n) == Coins(0, 0, n)
=============================================================================
