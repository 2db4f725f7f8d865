CONSTANTS
    Callers = {c1, c2}
    Texts = {blank, x}
    Blank = blank
    SubtaskStatuses = {"pending", "completed"}
    MaxItems = 3
    MaxCalls = 3
SYMMETRY Symmetry
SPECIFICATION Spec
INVARIANTS FoundIsCurrent ListIsLatest NoHoles
PROPERTIES OutputSurvives SummaryIsKept
CHECK_DEADLOCK FALSE
