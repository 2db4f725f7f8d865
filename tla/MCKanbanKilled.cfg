CONSTANTS
    Threads = {t1, t2}
    Procs = {p1, p2}
    MaxRetries = 0
    HarnessOps = {"complete"}
    UserOps = {"pause"}
    Disciplined = TRUE
    Attentive = FALSE
    MaxUserOps = 1
    MaxFaults = 0
    MaxLate = 0
    MaxStops = 0
    MaxLost = 0
SPECIFICATION Spec
PROPERTY KilledIsNotReported
CHECK_DEADLOCK FALSE
