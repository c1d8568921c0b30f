SPECIFICATION RecordsSpec
CONSTANTS
    JobIds = {j1, j2}
    Clients = {c1, c2}
    JobCallers = {q1, q2}
    MaxJobCalls = 3
    Keep = Keep
    Applicants = {j1, j2}
    PostedJobs = {v1}
    StageCallers = {q1, q2}
    MaxStageCalls = 4
    NoApplication = NoApplication
    p1 = p1
    p2 = p2
    People = {p1, p2}
    TeamRole <- MCTeamRole
    Scope <- MCScope
    AccessCallers = {q1, q2}
    MaxAccessCalls = 2
    Nobody = Nobody
    TreeTeams = {t1, t2, t3}
    TeamCallers = {q1, q2}
    MaxTeamCalls = 5
    Root = Root
    CandidateIds = {d1, d2, d3}
    ContactIds = {x1, x2, x3}
    Mailboxes = {m1}
    Spellings = {lower, upper}
    CrmCallers = {q1, q2}
    MaxCrmCalls = 4
    NoEmail = NoEmail
    ListIds = {1, 2, 3, 4}
    PageSizes = {1, 2}
    MaxListChanges = 3
    Tenants = {c1, c2}
    Passwords = {w1, w2}
    Unset = Unset
    HistorySize = 1
    RequestLimit = 2
    AccountCallers = {q1, q2}
    MaxAccountCalls = 3
    MaxLinks = 2
    SrcRows = {1, 2}
    TableOf <- MCTableOf
    Parents <- MCParents
    PageLimit = 2
    Runs = {q1, q2}
    MaxSourceChanges = 2
    MaxRuns = 2
    MaxFailures = 1
SYMMETRY Symmetry
CHECK_DEADLOCK FALSE
INVARIANTS
    RecordsTypeOK
    ActiveCountsOpenJobs
    LiveJobHasLiveClient
    CountersMatchRows
    CacheSummarisesLog
    AuditExplainsTable
    ResponsibleMayEdit
    LiveTeamsAreATree
    LiveEmailsDiffer
    OnePrimaryContact
    WalkShowsEachOnce
    MirroredOnce
    CursorLeavesNothingBehind
    RecentPasswordsRefused
    UsersCanGetIn
