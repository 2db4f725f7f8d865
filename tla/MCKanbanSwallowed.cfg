CONSTANTS
    Threads = {t1, t2}
    Procs = {p1, p2}
    MaxRetries = 0
    HarnessOps = {"complete"}
    UserOps = {"pause", "resume"}
    Disciplined = TRUE
    Attentive = FALSE
    MaxUserOps = 2
    MaxFaults = 0
    MaxLate = 0
    MaxStops = 0
    MaxLost = 0
SPECIFICATION Spec
PROPERTY FailureIsReported
CHECK_DEADLOCK FALSE
