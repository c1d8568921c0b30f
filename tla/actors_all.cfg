SPECIFICATION ActorsFairSpec
CONSTANTS
    SrcRows = {1, 2, 3}
    TableOf <- MCSourceTable
    Parents <- MCSourceParents
    PageLimit = 2
    Runs = {w1}
    MaxSourceChanges = 3
    MaxRuns = 1
    MaxFailures = 1
    k1 = k1
    k2 = k2
    s1 = s1
    s2 = s2
    TalonTasks = {k1, k2}
    SiteOf <- MCSiteOf
    Executions = {x1, x2}
    NoTask = NoTask
    Tabs = {b1, b2}
    Accounts = {u1, u2}
    NoAccount = NoAccount
    MaxRequests = 5
CHECK_DEADLOCK FALSE
INVARIANTS
    ActorsTypeOK
    TasksRunOnce
    OwnPromptOnOwnSite
    QuietBrowserAgrees
PROPERTIES
    SyncEndsOrRepeats
