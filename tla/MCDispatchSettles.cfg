CONSTANTS
    Conversations = {c1}
    NoConv = NoConv
    UserIds = {}
    Keys <- MCKeys
    NoKey = NoKey
    MaxRetries = 1
    MaxEvents = 2
    MaxMessages = 2
    MaxClaims = 4
    MaxCrashes = 1
    MaxInterventions = 0
    MaxGranted = 9
    MaxFailures = 9
    Coalesce = TRUE
    MaxConcurrent = 1
    Failures = {"transient", "error"}
    Outsiders = {}
    TransportFaults = {}
SPECIFICATION FairDispatchSpec
PROPERTIES EventuallySettled
CHECK_DEADLOCK FALSE
