SPECIFICATION Spec
CONSTANTS
    Identities = {i1}
    Users = {u1}
    Sids = {s1}
    ResetTokens = {k1}
    Requests = {r1, r2}
    IdentityOf <- OneIdentity
    Ops = {"login", "reset"}
    MaxRequests = 2
    NoOne = NoOne
SYMMETRY Symmetry
CHECK_DEADLOCK FALSE
INVARIANT ResetForcesRelogin
