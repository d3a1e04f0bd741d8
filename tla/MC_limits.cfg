SPECIFICATION Spec
CONSTANTS
    v1 = v1
    v2 = v2
    v3 = v3
    v4 = v4
    None = None
    Setters = {s1, s2}
    Plays = {b1, b2, b3}
    Events = {v1, v2, v3, v4}
    Amounts = {1, 2, 3, 5, 6}
    LimitRequests <- SomeLimits
    PlayRequests <- SomePlays
    DayLength = 1
    WeekStarts = {0}
    MonthStarts = {0}
    LastTick = 1
INVARIANTS TypeOK ExclusionOutlastsLifts
PROPERTIES LooseningWaits StakesFitTheLimit RefusalsAreJustified
SYMMETRY Symmetry
