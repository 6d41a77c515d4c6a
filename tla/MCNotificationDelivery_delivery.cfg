SPECIFICATION FairSpec
CONSTANTS
    Targets = {t1}
    Dispatchers = {d1, d2}
    MaxAttempts = 2
    MaxManual = 1
    MaxFaults = 1
    MaxReports = 2
    MaxMessages = 6
INVARIANTS
    ProcessedMeansQueued
    DuplicatesNeedFaults
    FailuresAreKept
PROPERTIES
    EventReachesTargets
CHECK_DEADLOCK FALSE
