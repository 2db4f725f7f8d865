CONSTANTS
    Viewers = {v1}
    Sources = {stdout, stderr}
    Capacity = 1
    MaxRuns = 1
    MaxChunks = 1
SPECIFICATION FairSpec
PROPERTY EndIsSent
CHECK_DEADLOCK FALSE
