CONSTANTS
    Conversations = {c1, c2}
    NoConv = NoConv
    Keys = {k1}
    NoKey = NoKey
    MaxRetries = 1
    MaxEvents = 2
    MaxClaims = 3
    MaxGranted = 1
    MaxFailures = 1
    Events = {e1, e2}
    Claims = {t1, t2, t3}
    NoClaim = NoClaim
    NoEvent = NoEvent
    TransportFaults = {}
SPECIFICATION Spec
SYMMETRY Symmetry
INVARIANTS QueueTypeOK OneConversationPerClaim AttemptsBounded AtMostOnce
PROPERTIES StaleTokenNeverReturns LiveLeaseRespected ClearOnlyUndelivered KeepsPromise
CHECK_DEADLOCK FALSE
