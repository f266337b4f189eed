\* Ten services side by side.  The bounds: three calls of delegate() over three
\* links, three loops in a calendar of four minutes, two pairs and two channels,
\* four spans, three reports, two messages on each of two topics with two
\* listeners of one of them, two pub/sub objects, two requests, three model calls,
\* two askers of one cache key.
CONSTANTS
    alpha = alpha  analyst = analyst  sentiment = sentiment
    scan = scan  digest = digest
    topic = topic  other = other
    ear1 = ear1  ear2 = ear2
    cron = cron  broken = broken  cycle = cycle

    Agents = {alpha, analyst, sentiment}
    Jobs = {scan, digest}
    Routes <- Links
    Rights <- LinkRights
    Calls = {d1, d2, d3}
    NoLink = NoLink

    Crons = {cron, broken}
    Intervals = {cycle}
    Fields <- CronFields
    Period <- Periods
    MinutesPerHour = 2
    HoursPerDay = 2
    Days = 1

    Pairs <- TradedPairs
    Channels <- ActiveChannels

    Callers = {alpha, analyst}
    SpanIds = {s1, s2}
    MaxHistory = 2
    MaxSpans = 4
    NoSpan = NoSpan

    Members = {analyst}
    Reports = {r1, r2, r3}
    MaxFailures = 2
    MaxReports = 2
    KeptReports = 1
    MaxCallbacks = 1

    Subjects = {topic, other}
    Ears = {ear1, ear2}
    SubjectOf <- EarTopics
    MaxSent = 2
    MaxQueues = 3
    MaxObjects = 2

    Requests = {q1, q2}
    MaxRetries = 2

    Feeds = {f1, f2}
    Shared = shared
    Tries = 2
    MaxCalls = 3

    Askers = {a1, a2}
    Keys = {k1}
    Ttl = 1
    Flight = 1
    MaxTries = 2
    MaxTime = 3
SPECIFICATION ServicesSpec
CHECK_DEADLOCK FALSE
INVARIANTS
    ServicesTypeOK
    NothingUsesClosed
    OrdersAreAnnounced
    TraceIsTrue
    BusesDeliver
    ClientIsTrue
    GatewayIsOrderly
    FreshEnough
PROPERTIES
    LimitsAreKept
    LoopsAreKept
    HealthIsTrue
    BusesInOrder
