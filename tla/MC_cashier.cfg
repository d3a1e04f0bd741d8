SPECIFICATION Spec
CONSTANTS
    p1 = p1
    p2 = p2
    k1 = k1
    k2 = k2
    k3 = k3
    None = None
    Attempts = {a1, a2, a3}
    Ids = {k1, k2, k3}
    Players = {p1}
    Bodies <- CashierBodies
    Requests <- Cashier
    Opening <- Purses
    Standings = {"ACTIVE"}
    MaxWin = 2
    MaxBalance = 3
SYMMETRY Symmetry
INVARIANTS TypeOK NeverOverdrawn WinningsAreStakedLast RedeemableIsWon AuditPasses AtMostOneReversal WalletMatchesLedger SnapshotIsCurrent AtMostOnce
