CONSTANTS
    m = m
    c1 = c1
    c2 = c2
    none = none
    Monitor = m
    Callers <- OneCaller
    NumSymbols = 1
    MaxErrors = 2
    MaxDrawdownPct = 20
    MaxDailyLossPct = 5
    MaxPositions = 1
    Worths <- MCWorths
    Books <- MCBooks
    None = none
SPECIFICATION FairSpec
PROPERTIES
    DrawdownNoticed
