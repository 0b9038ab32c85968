CONSTANTS
    Pids = {g1, g2}
    Operator = Operator
    Cron = Cron
    MaxInWindow = 2
    Window = 2
    Backoff <- MCBackoff
    MaxDisturbed = 1
    Hands = {h1}
    Talks = {m1}
    MaxIncidents = 1
SPECIFICATION Spec
INVARIANTS WatchdogTypeOK RestartBudget
PROPERTIES NothingLeftWaiting
CHECK_DEADLOCK FALSE
