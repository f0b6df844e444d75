SPECIFICATION LogSpec
CONSTANTS
    s1 = s1
    s2 = s2
    s3 = s3
    Sinks <- MCSinks
    Records <- MCRecords
    Blocks = 2
    Free = Free
INVARIANTS
    RecordsContiguous
    AckedInFull
    OnlyTornRecordsSpoilLines
PROPERTIES
    WritersFinish
CHECK_DEADLOCK FALSE
