\* Two processes on a shared shadow, one database of another role on it,
\* disturbed at every step.
CONSTANTS
    Proc = {p1, p2}
    TempDb = {t1, t2, t3}
    Foreign = {t3}
    Dedicated = TRUE
    MaxTemps = 2
    MaxSignals = 1
    MaxKills = 1
    MaxFaults = 1
SPECIFICATION LiveSpec
INVARIANT InUseKept
PROPERTIES TeardownReclaims OrphansGo
