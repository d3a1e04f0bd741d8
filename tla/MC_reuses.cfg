SPECIFICATION FairSpec
CONSTANTS
    p1 = p1
    p2 = p2
    k1 = k1
    k2 = k2
    k3 = k3
    None = None
    Attempts = {a1, a2}
    Ids = {k1, k2}
    Players = {p1, p2}
    Bodies <- ReusedBodies
    Requests <- Reuses
    Opening <- Purses
    Standings = {"ACTIVE", "EXCLUDED", "SUSPENDED"}
    MaxWin = 2
    MaxBalance = 4
INVARIANTS ReceiptIsBacked
PROPERTIES KeepsPromise EveryCallReturns
