SPECIFICATION CacheSpec
CONSTANTS
    s1 = s1
    s2 = s2
    r1 = r1
    r2 = r2
    k1 = k1
    k2 = k2
    Sessions = {s1, s2}
    Tokens = {k1, k2}
    Readers = {r1, r2}
    NoSession = NoSession
    NoToken = NoToken
    Ttl = 2
    MaxAccess = 2
    MaxRoles = 1
INVARIANTS CacheIsCurrent
PROPERTIES StalePermissionsExpire
CHECK_DEADLOCK FALSE
