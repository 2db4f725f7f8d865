CONSTANTS
    Threads = {t1, t2}
    Procs = {p1, p2}
    MaxRetries = 1
    HarnessOps = {"complete"}
    UserOps = {"delete", "restart"}
    Disciplined = TRUE
    Attentive = TRUE
    MaxUserOps = 2
    MaxFaults = 1
    MaxLate = 0
    MaxStops = 1
    MaxLost = 0
SPECIFICATION FairSpec
PROPERTIES FlowEnds DeletedIsQuiet
CHECK_DEADLOCK FALSE
