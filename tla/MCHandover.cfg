CONSTANTS
    Threads = {t1, t2}
    Procs = {p1, p2}
    Summaries = {"nothing"}
    MaxCalls = 2
    MaxMishaps = 1
SPECIFICATION Spec
INVARIANTS ReviewersAreInformed FindingsAreCarried ReadersSeeTheHandover
CHECK_DEADLOCK FALSE
SYMMETRY Symmetry
