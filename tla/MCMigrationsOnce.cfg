CONSTANTS
    Procs = {serve}
    NumFiles <- MCNumFiles
    Statements <- MCStatements
    Repeatable <- MCRepeatable
    MaxStops = 1
SPECIFICATION Spec
PROPERTY AtMostOnce
CHECK_DEADLOCK FALSE
