CONSTANTS
    Conversations = {c1}
    NoConv = NoConv
    UserIds = {}
    Keys <- MCKeys
    NoKey = NoKey
    MaxRetries = 1
    MaxEvents = 1
    MaxMessages = 1
    MaxClaims = 2
    MaxCrashes = 0
    MaxInterventions = 0
    MaxGranted = 9
    MaxFailures = 9
    Coalesce = FALSE
    MaxConcurrent = 2
    Failures = {"transient"}
    Outsiders = {}
    TransportFaults = {}
SPECIFICATION DispatchSpec
PROPERTIES StaleWorkerHarmless
CHECK_DEADLOCK FALSE
