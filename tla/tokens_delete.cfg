SPECIFICATION Spec
CONSTANTS
    Users = {u1}
    Roles = {r1}
    RoleNames = {n1}
    Teams = {t1}
    Handlers = {h1, h2}
    Signers = {s1}
    Ops = {"assignRole", "deleteRole"}
    CrashesAllowed = FALSE
    MaxEdits = 3
    MaxTokens = 1
    NoOne = NoOne
    Missing = Missing
    NotCreated = NotCreated
    Deleted = Deleted
SYMMETRY Symmetry
CHECK_DEADLOCK FALSE
INVARIANT AcceptedClaimsCurrent
