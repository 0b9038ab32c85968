CONSTANTS
    MaxDuties = 2
    MaxMemos = 3
    MaxTurns = 1
    MaxStumbles = 0
    Modes = {"bundles"}
SPECIFICATION TaskWorkSpec
INVARIANTS AssignedIsWorked
CHECK_DEADLOCK FALSE
