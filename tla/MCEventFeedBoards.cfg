CONSTANTS
    Publishers = {p1, p2}
    Viewers = {v1}
    Cap = 2
    MaxCalls = 2
SPECIFICATION Spec
INVARIANT BoardsUpdate
CHECK_DEADLOCK FALSE
