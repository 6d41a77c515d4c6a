SPECIFICATION FairSpec
CONSTANTS
    Workers = {w1, w2}
    NoWorker = NoWorker
    Rows = {r1}
    MaxFaults = 1
    MaxAttempts = 2
    LostPreview = FALSE
PROPERTIES
    ImplementsLifecycle
    ConfirmedImportSettles
    SourceReclaimed
    OrphanReportsReclaimed
