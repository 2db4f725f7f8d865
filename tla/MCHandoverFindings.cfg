CONSTANTS
    Threads = {t1}
    Procs = {p1, p2}
    Summaries = {"nothing"}
    MaxCalls = 2
    MaxMishaps = 0
SPECIFICATION Spec
INVARIANT FindingsReachEveryLane
CHECK_DEADLOCK FALSE
