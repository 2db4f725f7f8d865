CONSTANTS
    Threads = {t1, t2}
    Procs = {p1, p2}
    MaxRetries = 0
    HarnessOps = {"complete"}
    UserOps = {}
    Disciplined = TRUE
    Attentive = FALSE
    MaxUserOps = 0
    MaxFaults = 0
    MaxLate = 0
    MaxStops = 0
    MaxLost = 0
SPECIFICATION Spec
INVARIANT WorkerIsKillable
CHECK_DEADLOCK FALSE
