CONSTANTS
    Publishers = {p1, p2}
    Viewers = {v1}
    Cap = 2
    MaxCalls = 2
SPECIFICATION Spec
PROPERTY CauseFirst
CHECK_DEADLOCK FALSE
