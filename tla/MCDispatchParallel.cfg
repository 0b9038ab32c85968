CONSTANTS
    Conversations = {c1}
    NoConv = NoConv
    UserIds = {}
    Keys <- MCKeys
    NoKey = NoKey
    MaxRetries = 1
    MaxEvents = 2
    MaxMessages = 2
    MaxClaims = 3
    MaxCrashes = 0
    MaxInterventions = 0
    MaxGranted = 9
    MaxFailures = 9
    Coalesce = FALSE
    MaxConcurrent = 2
    Failures = {"transient"}
    Outsiders = {}
    TransportFaults = {}
SPECIFICATION DispatchSpec
INVARIANTS AnsweredOnce
CHECK_DEADLOCK FALSE
