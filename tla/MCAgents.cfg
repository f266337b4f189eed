\* Eight components side by side.  The bounds: three signals in an analysis, six
\* samples of the market, two entities with two names, an index of two rows of which
\* a search returns one, five events in two cycles that may overlap, two news of one
\* mood, two timeframes of which two calculations may fail, five candles, one refused
\* order in a day.
CONSTANTS
    Emitted <- EmittedSignals
    MaxSignals = 3

    Tickers <- QuotedTickers
    Minute = 0
    SpikeWindow = 1
    Sigmas = 2
    VolumeLookback = 6
    PriceHistory = 3
    MaxSamples = 6
    MaxNow = 1

    Ids = {i1, i2}
    Names = {n1, n2}
    Kinds = {k1}
    Limit = 1
    MaxRows = 2

    Happenings <- WorldEvents
    Forced <- ForcedPriorities
    Cycles = {c1, c2}
    MaxSeen = 2
    KeptSeen = 1
    MaxRuns = 3

    Symbols <- OneSymbol
    MinNews = 2
    MaxNews = 2
    Views <- ModelViews

    Timeframes <- TwoTimeframes
    Strategies <- ConfiguredStrategies
    Readings <- IndicatorReadings
    Broken = {"raising"}
    MaxLapses = 2
    MtfBoost = 15

    Closes <- ClosingPrices
    MaxCandles = 5
    Lookback = 2
    Capital = 10000
    AllocPct = 95
    FeePm = 1
    SlipBp = 5

    MaxHeld = 2
    PerTrade = 2
    StopLoss = 5
    MaxExposed = 50
    MaxDayLoss = 1
    DrawdownCap = 15
    MinSizePct = 1
    MaxSizePct = 10
    Trail = 2
    Activation = 3
    Balances = {1000, 600}
    Falls = {0, 15}
    Quotes = {100, 104, 97}
    Voices <- GivenVoices
    MaxRefused = 1
SPECIFICATION AgentsSpec
CHECK_DEADLOCK FALSE
INVARIANTS
    AgentsTypeOK
    DecisionFollows
    GraphAnswers
    AlphaIsSound
    ScoreIsGrounded
    SignalsStand
    BacktestIsHonest
    SizingAgrees
PROPERTIES
    DetectorsAgree
