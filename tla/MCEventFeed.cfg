CONSTANTS
    Publishers = {p1, p2}
    Viewers = {v1}
    Cap = 1
    MaxCalls = 2
SPECIFICATION Spec
INVARIANTS SendsToOpenChannels StaleForACause
PROPERTY PublishersReturn
CHECK_DEADLOCK FALSE
