CONSTANTS
    Threads = {t1}
    Procs = {p1, p2}
    Summaries = {"summary"}
    MaxCalls = 2
    MaxMishaps = 0
SPECIFICATION Spec
INVARIANT FeedbackIsFresh
CHECK_DEADLOCK FALSE
