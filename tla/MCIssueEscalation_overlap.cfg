SPECIFICATION EscalationFairSpec
CONSTANTS
    urgent = urgent
    ordinary = ordinary
    Rank <- MCRank
    Issues = {urgent, ordinary}
    Sla = {ordinary}
    Scans = {s1, s2}
    NoRow = NoRow
    Batch = 1
INVARIANTS
    LevelsHaveNoGap
PROPERTIES
    OneLevelPerHour
    OverdueReachesTop
