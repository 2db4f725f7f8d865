CONSTANTS
    Viewers = {v1, v2}
    Sources = {stdout, stderr}
    Capacity = 2
    MaxRuns = 1
    MaxChunks = 2
SPECIFICATION FairSpec
INVARIANTS TypeOK NothingElseIsLost SourceOrder
PROPERTY EndArrives
CHECK_DEADLOCK FALSE
