\* Bounds: two delegations over two links, two loops in a calendar of two
\* minutes, two pairs and a channel, two reports and two callbacks, two model
\* calls, two askers of one cache key, two tasks in two lanes started twice.
CONSTANTS
    alpha = alpha  analyst = analyst  scan = scan
    broken = broken  cycle = cycle

    Agents = {alpha, analyst}
    Jobs = {scan}
    Routes <- Links
    Rights <- LinkRights
    Calls = {d1, d2}
    NoLink = NoLink

    Crons = {broken}
    Intervals = {cycle}
    Fields <- CronFields
    Period <- Periods
    MinutesPerHour = 2
    HoursPerDay = 1
    Days = 1

    Pairs <- TradedPairs
    Channels <- ActiveChannels

    Members = {analyst}
    Reports = {r1, r2}
    MaxFailures = 2
    MaxReports = 2
    KeptReports = 1
    MaxCallbacks = 2

    Feeds = {f1}
    Shared = shared
    Tries = 2
    MaxCalls = 2

    Askers = {a1, a2}
    Keys = {k1}
    Ttl = 1
    Flight = 1
    MaxTries = 2
    MaxTime = 2

    MaxTasks = 2
    NumLanes = 2
    Priorities = {0}
    MaxWorkers = 4
    None = none
    MaxHistory = 1
    KeepHistory = 1
    Limit = 1
SPECIFICATION Spec
CHECK_DEADLOCK FALSE
PROPERTIES
    Progress
