CONSTANTS
    Threads = {t1, t2}
    Procs = {p1, p2}
    MaxRetries = 1
    HarnessOps = {"complete"}
    UserOps = {"complete"}
    Disciplined = TRUE
    Attentive = FALSE
    MaxUserOps = 1
    MaxFaults = 0
    MaxLate = 0
    MaxStops = 0
    MaxLost = 0
SPECIFICATION Spec
PROPERTY CompletesItsOwnPhase
CHECK_DEADLOCK FALSE
