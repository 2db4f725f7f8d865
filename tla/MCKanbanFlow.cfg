CONSTANTS
    Threads = {t1, t2}
    Procs = {p1, p2}
    MaxRetries = 1
    HarnessOps = {"complete", "reopen"}
    UserOps = {}
    Disciplined = TRUE
    Attentive = FALSE
    MaxUserOps = 0
    MaxFaults = 1
    MaxLate = 1
    MaxStops = 1
    MaxLost = 1
SPECIFICATION Spec
INVARIANTS AgentsAreAccountedFor InterruptedForACause
PROPERTIES LaneOrder FailsWhenExhausted CardSteps
CHECK_DEADLOCK FALSE
SYMMETRY Symmetry
