SPECIFICATION Spec
CONSTANTS
    Students = {s1}
    Codes = {present, absent}
    Requests = {r1, r2}
    Keys = {k1, k2}
    Corrections = {c1, c2}
    MaxVersion = 3
SYMMETRY Interchangeable
INVARIANTS SameAnswer
PROPERTIES HistoryExplains LockHolds EditsAreFresh
CHECK_DEADLOCK FALSE
