SPECIFICATION Spec
CONSTANTS
    s1 = s1
    s2 = s2
    l1 = l1
    c1 = c1
    c2 = c2
    Sessions = {s1, s2}
    Tokens = {1, 2, 3}
    Links = {l1}
    Calls = {c1, c2}
    NoSession = NoSession
    NoToken = 0
SYMMETRY MCSymmetry
INVARIANTS TokenExchangedOnce ReuseMeansReplay LinkUsedOnce
PROPERTIES RotationStopsWithSession SessionsAreRows
CHECK_DEADLOCK FALSE
