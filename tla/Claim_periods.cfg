SPECIFICATION Spec
CONSTANTS
    v1 = v1
    v2 = v2
    v3 = v3
    v4 = v4
    None = None
    Setters = {s1, s2, s3}
    Plays = {b1, b2, b3, b4}
    Events = {v1, v2, v3, v4}
    Amounts = {1, 2, 3, 4}
    LimitRequests <- TwoPeriods
    PlayRequests <- Bets
    DayLength = 1
    WeekStarts = {0}
    MonthStarts = {0}
    LastTick = 0
PROPERTIES PeriodsKeepTheirCount
SYMMETRY Symmetry
