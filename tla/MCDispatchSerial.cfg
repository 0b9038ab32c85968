CONSTANTS
    Conversations = {c1}
    NoConv = NoConv
    UserIds = {}
    Keys <- MCKeys
    NoKey = NoKey
    MaxRetries = 1
    MaxEvents = 1
    MaxMessages = 1
    MaxClaims = 3
    MaxCrashes = 1
    MaxInterventions = 1
    MaxGranted = 9
    MaxFailures = 9
    Coalesce = FALSE
    MaxConcurrent = 1
    Failures = {"transient", "bad_input", "session_expired", "error", "locked"}
    Outsiders = {"supervisor", "operator"}
    TransportFaults = {}
SPECIFICATION DispatchSpec
INVARIANTS DispatchTypeOK AnsweredOnce
PROPERTIES UsesLedger
CHECK_DEADLOCK FALSE
