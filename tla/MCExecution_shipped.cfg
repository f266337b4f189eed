\* The values execute() really uses: size 0.0, no stop loss, balance 0.0.
CONSTANTS
    c1 = c1
    c2 = c2
    c3 = c3
    btc = btc
    eth = eth
    Calls <- TwoCalls
    Symbols <- OneSymbol
    ApprovalRequired = FALSE
    OrderSize = 0
    StopLossSet = FALSE
    Balance = 0
    MinSize = 1
    MaxSize = 100000
    RiskPct = 2
    StopPct = 5
    MaxPerMinute = 1
    Window = 2
    MaxRecent = 1
    KeepRecent = 1
    DbFails = FALSE
SPECIFICATION Spec
SYMMETRY Perms2
INVARIANTS
    BuiltOrderIsValid
