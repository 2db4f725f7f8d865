CONSTANTS
    Callers = {c1, c2}
    Texts = {blank, x}
    Blank = blank
    SubtaskStatuses = {"pending", "completed"}
    MaxItems = 2
    MaxCalls = 2
SPECIFICATION Spec
PROPERTY OutputIsPreserved
CHECK_DEADLOCK FALSE
