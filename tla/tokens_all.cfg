SPECIFICATION Spec
CONSTANTS
    Users = {u1}
    Roles = {r1}
    RoleNames = {n1, n2}
    Teams = {t1}
    Handlers = {h1, h2}
    Signers = {s1}
    Ops = {"assignRole", "removeRole", "createRole", "updateRole", "deleteRole", "addMember", "removeMember", "updateMemberRole", "incrOnly"}
    CrashesAllowed = TRUE
    MaxEdits = 3
    MaxTokens = 1
    NoOne = NoOne
    Missing = Missing
    NotCreated = NotCreated
    Deleted = Deleted
SYMMETRY Symmetry
CHECK_DEADLOCK FALSE
INVARIANTS
    TypeOK
    ClaimsCurrentOrOwed
PROPERTIES
    StaleForever
    ImplementsVersionedClaims
