SPECIFICATION Spec
CONSTANTS
    Requests = {r1}
    Challenges = {c1}
    Devices = {d1}
    Secrets = {s1}
    WrongCode = WrongCode
    LockoutThreshold = 3
    MfaTries = 2
    CodesPerDevice = 2
    MaxRequests = 6
    NoOne = NoOne
CHECK_DEADLOCK FALSE
INVARIANTS
    LockNeedsConsecutiveFails
