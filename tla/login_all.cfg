SPECIFICATION Spec
CONSTANTS
    Requests = {r1, r2}
    Challenges = {c1, c2}
    Devices = {d1, d2}
    Secrets = {s1, s2}
    WrongCode = WrongCode
    LockoutThreshold = 2
    MfaTries = 2
    CodesPerDevice = 2
    MaxRequests = 6
    NoOne = NoOne
SYMMETRY Symmetry
CHECK_DEADLOCK FALSE
INVARIANTS
    TypeOK
    LockKeepsOut
    EnrolledHasDevice
    UnusedCodesStay
    ChallengeIsSpent
