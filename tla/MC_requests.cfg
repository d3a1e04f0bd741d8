SPECIFICATION Spec
CONSTANTS
    o1 = o1
    o2 = o2
    None = None
    Calls = {c1, c2, c3}
    Nonces = {o1, o2}
    Messages <- SomeMessages
    MaxAge = 1
    ClockSkew = 1
    NonceTTL = 4
    Window = 3
    Limit <- Rates
    Lag = 1
    LastTick = 4
CHECK_DEADLOCK FALSE
INVARIANTS TypeOK MessagePassesOnce WindowNeverOverfull ThrottledKeepsNonce RetryAfterIsHonest
SYMMETRY Symmetry
