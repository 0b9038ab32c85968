CONSTANTS
    Conversations = {c1}
    NoConv = NoConv
    UserIds = {k1}
    Keys <- MCKeys
    NoKey = NoKey
    MaxRetries = 1
    MaxEvents = 4
    MaxMessages = 2
    MaxClaims = 3
    MaxCrashes = 0
    MaxInterventions = 0
    MaxGranted = 4
    MaxFailures = 3
    Coalesce = FALSE
    MaxConcurrent = 1
    Failures = {"session_missing", "transient"}
    Outsiders = {}
    TransportFaults = {}
SPECIFICATION DispatchSpec
INVARIANTS AnsweredOnce CarriedOnce
PROPERTIES UsesQueue DoneIsFinal StaleWorkerHarmless
CHECK_DEADLOCK FALSE
