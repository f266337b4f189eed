\* Two calls that need approval; the kill switch is set while they wait.
CONSTANTS
    c1 = c1
    c2 = c2
    c3 = c3
    btc = btc
    eth = eth
    Calls <- TwoCalls
    Symbols <- OneSymbol
    ApprovalRequired = TRUE
    OrderSize = 100
    StopLossSet = TRUE
    Balance = 1000
    MinSize = 1
    MaxSize = 100000
    RiskPct = 2
    StopPct = 5
    MaxPerMinute = 1
    Window = 2
    MaxRecent = 1
    KeepRecent = 1
    DbFails = TRUE
SPECIFICATION FairSpec
INVARIANTS
    SentIsGranted
PROPERTIES
    NothingSentUnderKillSwitch
    CallEnds
