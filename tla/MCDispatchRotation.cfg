CONSTANTS
    Conversations = {c1}
    NoConv = NoConv
    UserIds = {}
    Keys <- MCKeys
    NoKey = NoKey
    MaxRetries = 3
    MaxEvents = 2
    MaxMessages = 1
    MaxClaims = 3
    MaxCrashes = 0
    MaxInterventions = 0
    MaxGranted = 9
    MaxFailures = 9
    Coalesce = FALSE
    MaxConcurrent = 1
    Failures = {"context_exhausted"}
    Outsiders = {}
    TransportFaults = {}
SPECIFICATION DispatchSpec
INVARIANTS AnsweredOnce
CHECK_DEADLOCK FALSE
