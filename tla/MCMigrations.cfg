CONSTANTS
    Procs = {serve, migrate}
    NumFiles <- MCNumFiles
    Statements <- MCStatements
    Repeatable <- MCRepeatable
    MaxStops = 2
SPECIFICATION FairSpec
INVARIANTS AllOrNothing RecordedIsApplied InOrder UpIsMigrated
PROPERTY UpOrTorn
CHECK_DEADLOCK FALSE
