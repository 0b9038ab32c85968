CONSTANTS
    Workers = {w1}
    Rows = {r1, r2}
    Producers = {p1, p2}
    MaxCopies = 2
    Pids = {g1, g2, g3}
    Operator = Operator
    Cron = Cron
    NoSlug = NoSlug
    Tickers = {heartbeat}
    Repeating = {d1}
    MaxTouches = 2
    MaxSilences = 1
    MaxUpsets = 1
    Requests = {e1, e2, e3}
    MaxPrompts = 2
    MaxOutages = 1
    SerialDispatch = TRUE
    NoPrompt = NoPrompt
    MaxConcurrent = 2
    Models = {"profiled", "small", "bare"}
    RotateAt = 2
    RerouteAt = 1
    Capacity = 2
    Growth = 1
    MaxSessions = 2
    MaxBlind = 1
    MaxUpdates = 3
    MaxTroubles = 4
    Pollers = {p1, p2}
    MaxMails = 2
    MaxMissed = 1
    Replies = {m1}
    Editors = {c1, c2}
    MaxSlips = 3
    NoReply = NoReply
    MaxTasks = 3
    PollLimit = 2
    MaxNewPerTick = 1
    MaxRestarts = 1
    FeedTasks = {t1, t2}
    MaxNotes = 3
    MaxBreaks = 2
    MaxKeys = 3
    MaxAdverse = 2
    MaxParts = 3
    MaxPosts = 3
    MaxDeliveries = 2
SPECIFICATION Spec
INVARIANTS ServicesTypeOK ChangeFollowsConsent OrphansSwept ReplayedAll GrowthBounded
    NothingPassedOver SentOnce TasksReached
PROPERTIES LiveRunnerNotReaped WorkersSettle DecisionStands
CHECK_DEADLOCK FALSE
