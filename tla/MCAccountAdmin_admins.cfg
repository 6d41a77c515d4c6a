SPECIFICATION Spec
CONSTANTS
    Users = {u1, u2}
    Requests = {c1, c2}
    SuperAdmin = superAdmin
    ClassRepresentative = representative
    Roles = {superAdmin, representative}
    RoleRank <- MCRank
    NoUser = NoUser
    MaxChanges = 5
SYMMETRY MCSymmetry
INVARIANT EveryoneHasRole
PROPERTY NoRequestEndsTheLastSuper
CHECK_DEADLOCK FALSE
