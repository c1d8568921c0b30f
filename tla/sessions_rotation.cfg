SPECIFICATION Spec
CONSTANTS
    Identities = {i1}
    Users = {u1}
    Sids = {s1}
    ResetTokens = {}
    Requests = {r1, r2}
    IdentityOf <- OneIdentity
    Ops = {"login", "refresh"}
    MaxRequests = 3
    NoOne = NoOne
SYMMETRY Symmetry
CHECK_DEADLOCK FALSE
INVARIANT ExchangedOnce
