SPECIFICATION Spec
CONSTANTS
    Calls = {c1}
    Ids = {k1}
    Replicas = {r1, r2}
    None = None
    TxSpan = 1
    RetryHorizon = 2
    Retention = 3
    BatchSize = 1
    SafetyLag = 2
    LastTick = 5
    DayLength = 3
    Lookahead = 1
    BootDays = 0
INVARIANTS ReplicasCountOnce
