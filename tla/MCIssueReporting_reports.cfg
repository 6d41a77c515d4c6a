SPECIFICATION ReportSpec
CONSTANTS
    u1 = u1
    u2 = u2
    q1 = q1
    q2 = q2
    q3 = q3
    k1 = k1
    k2 = k2
    Users = {u1, u2}
    Reports = {q1, q2, q3}
    UserOf <- MCUserOf
    KeyOf <- MCKeyOf
    MaxIssues = 2
    MaxRetries = 1
INVARIANTS
    AffectedCountExact
    ReportedOncePerKey
    SameAnswer
CHECK_DEADLOCK FALSE
