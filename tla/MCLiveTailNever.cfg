CONSTANTS
    Viewers = {v1}
    Sources = {stdout, stderr}
    Capacity = 4
    MaxRuns = 1
    MaxChunks = 1
SPECIFICATION FairSpec
PROPERTY NeverRanIsEnded
CHECK_DEADLOCK FALSE
