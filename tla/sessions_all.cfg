SPECIFICATION Spec
CONSTANTS
    Identities = {i1}
    Users = {u1, u2}
    Sids = {s1, s2}
    ResetTokens = {k1}
    Requests = {r1, r2}
    IdentityOf <- OneIdentity
    Ops = {"login", "refresh", "logout", "logoutAll", "switch", "reset", "deactivate", "reactivate"}
    MaxRequests = 4
    NoOne = NoOne
SYMMETRY Symmetry
CHECK_DEADLOCK FALSE
INVARIANTS
    RevocationStalesTokens
    ResetSweepsSessions
    DeactivationSweepsSessions
    ClientHoldsCurrentToken
    LoggedOutTokenIsDead
PROPERTY
    ImplementsVersionedClaims
