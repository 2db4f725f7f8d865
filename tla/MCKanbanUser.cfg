CONSTANTS
    Threads = {t1, t2}
    Procs = {p1, p2}
    MaxRetries = 1
    HarnessOps = {"complete", "unnamed"}
    UserOps = {"complete", "reopen", "pause", "resume", "restart", "delete"}
    Disciplined = TRUE
    Attentive = FALSE
    MaxUserOps = 2
    MaxFaults = 0
    MaxLate = 0
    MaxStops = 0
    MaxLost = 0
SPECIFICATION Spec
INVARIANTS PendingIsPickedUp RegistryIsLive InterruptedForACause
INVARIANTS RunningIsKillable KillIsNoFailure CompletedIsHandedOver
CHECK_DEADLOCK FALSE
SYMMETRY Symmetry
