SPECIFICATION FairSpec
CONSTANTS
    Users = {u1, u2}
    Roles = {r1}
    RoleNames = {n1, n2}
    Teams = {t1}
    Handlers = {h1, h2}
    Signers = {s1}
    Ops = {"assignRole", "removeRole", "updateRole"}
    CrashesAllowed = FALSE
    MaxEdits = 3
    MaxTokens = 1
    NoOne = NoOne
    Missing = Missing
    NotCreated = NotCreated
    Deleted = Deleted
CHECK_DEADLOCK FALSE
INVARIANT AcceptedClaimsCurrent
PROPERTY OwedIncrHappens
