SPECIFICATION Spec
CONSTANTS
    Requests = {q1, q2}
    MaxVersion = 6
SYMMETRY Interchangeable
CHECK_DEADLOCK FALSE
INVARIANTS
    HistoryEndsInStatus
    ClosedWithEvidence
PROPERTIES
    DecisionsAreFresh
    FreshDecisionSucceeds
