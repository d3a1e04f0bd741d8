SPECIFICATION Spec
CONSTANTS
    p1 = p1
    p2 = p2
    k1 = k1
    k2 = k2
    None = None
    Spins = {a1, a2}
    Ids = {k1, k2}
    Players = {p1, p2}
    Requests <- Rounds
    Outcomes = {0, 5, 20}
    Foreign <- Intruder
    Opening <- Purses
    MaxBalance = 6
SYMMETRY Symmetry
INVARIANTS TypeOK PaidAsDrawn NoReroll
PROPERTIES KeepsPromise
