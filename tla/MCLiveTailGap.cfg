CONSTANTS
    Viewers = {v1}
    Sources = {stdout, stderr}
    Capacity = 4
    MaxRuns = 1
    MaxChunks = 1
SPECIFICATION Spec
PROPERTY ReplayMeetsTail
CHECK_DEADLOCK FALSE
