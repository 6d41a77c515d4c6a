SPECIFICATION MCSpec
CONSTANTS
    b1 = b1
    b2 = b2
    b3 = b3
    Backups = {b1, b2, b3}
    Files = {art}
    Artifact = art
    Tests = {t1, t2}
    Agents = {a1, a2}
    NoBackup = NoBackup
    MaxFaults = 1
    DeletesAtWork = FALSE
    Jobs = {j1}
    Runners = {r1}
    NoJob = NoJob
SYMMETRY MCSymmetry
INVARIANTS IntactBackupRemains EligibleMeansProven RunIsCovered
CHECK_DEADLOCK FALSE
