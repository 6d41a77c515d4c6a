SPECIFICATION Spec
CONSTANTS
    Workers = {w1, w2}
    NoWorker = NoWorker
    Rows = {r1}
    MaxFaults = 2
    MaxAttempts = 2
    LostPreview = FALSE
SYMMETRY Interchangeable
INVARIANTS
    ReportMatchesLedger
    SourceKeptWhileUsable
PROPERTIES
    ReportsTracked
    CompletesAsOwner
