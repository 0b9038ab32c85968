CONSTANTS
    Jobs = {j1}
    MaxAttempts = 1
    FinalizeCap = 2
    MaxJobClaims = 2
    MaxCards = 2
    MaxMishaps = 2
    MaxDuties = 2
    MaxMemos = 3
    MaxTurns = 1
    MaxStumbles = 1
    Modes = {"single", "slots"}
    MaxInbound = 2
    MaxTries = 1
    MaxMischief = 1
SPECIFICATION Spec
INVARIANTS WatchedTypeOK NothingForgotten BrainAsDecided
PROPERTIES CardGoes
CHECK_DEADLOCK FALSE
