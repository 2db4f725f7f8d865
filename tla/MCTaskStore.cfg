CONSTANTS
    Goroutines = {g1, g2}
    Contents = {c1, c2}
    MaxRetries = 1
    MaxVersion = 4
    Closures <- MCClosures
SPECIFICATION FairSpec
INVARIANTS CopyIsCurrent ConflictsAreCommits
PROPERTIES AtomicUpdates CallsReturn
CHECK_DEADLOCK FALSE
