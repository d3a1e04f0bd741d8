SPECIFICATION Spec
CONSTANTS
    p1 = p1
    p2 = p2
    k1 = k1
    k2 = k2
    k3 = k3
    None = None
    Attempts = {a1, a2}
    Ids = {k1}
    Players = {p1}
    Bodies <- AmendedBodies
    Requests <- Amended
    Opening <- Purses
    Standings = {"ACTIVE"}
    MaxWin = 2
    MaxBalance = 4
INVARIANTS ReceiptsAgreeWithLedger
