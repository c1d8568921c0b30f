# Cura: a TLA+ verification project

Cura is a multi-tenant recruiting CRM. Its logic is the API (`js/apps/api`: NestJS, Prisma on
Postgres, Redis): first-party authentication, permissions, jobs and the hiring pipeline, and the
migration from a legacy system (Gllue). Beside it stand the web app (`js/apps/web-app`), a home page,
a desktop shell, and Talon (`python/apps/talon`), which runs tasks in a browser.

The API uses no database transaction in the code modelled here: an operation is a sequence of awaited
statements, any two requests interleave between them, and a request may stop after any of them. That
is where its correctness is decided and what these modules describe. Paths below are relative to the
repository; `auth.service.ts` and its like are in `js/apps/api/src/`.

## 1. Inventory

| Component | State | Operations | Correct when |
|---|---|---|---|
| Access token claims (`auth.service.ts` signAccessToken, `jwt-auth.guard.ts`, `redis.service.ts`, the mutations of `user`, `role`, `team`) | rows of roles, user_roles, team_members; Redis `user_ver:<user>`; signed tokens | sign, check; assign, remove, update, delete a role; add, move, remove a member; each followed by INCR (only `invite` writes user_roles without one, `user.service.ts:152`, and is left out here: its user has no token yet) | an admitted token carries the claims of the database, or an INCR is on its way; a refused token stays refused |
| Sessions (`auth.service.ts`, `user.service.ts`) | sessions, reset tokens, password hash, loginable, versions; tokens held by clients | login, refresh, logout, logout-all, switch, reset, deactivate, reactivate | every end of a session stales its tokens; resets and deactivations reach every session that exists; the client keeps a usable token |
| Functional permissions (`permission-cache.service.ts`, `functional-permission.guard.ts`) | in-process map user to (ETag, permissions); stamps of roles and assignments | get (ETag, lookup, fetch, store); the writers of both tables | an answer is what the user was allowed during the call |
| Login, lockout, MFA (`auth.service.ts`, `mfa.service.ts`) | failure counter, lock, enrolment flag, devices with backup codes; Redis challenges and pending enrolments | login, verify a code, enrol | a lock keeps logins out, a challenge opens one session, no unused code is lost, an enrolled identity has a device |
| Password policy and history (`password.service.ts`) | the last hashes of an identity | check reuse, save and trim | a recent password is refused; the history has its size |
| Reset request limit (`redis.service.ts` incrementRateLimit) | one Redis counter per email | INCR, EXPIRE on the first | at most three links an hour, and the window ends |
| Row-level permissions (`permission.service.ts`) | permissions, their audit rows, cascade rules, data scopes | can, grant, revoke, adjust, auto-grants, scopes | the audit trail explains the table; one row per grantee and resource; a level is the greatest that applies |
| Tenant scoping (`tenant.extension.ts`) | none | adds the tenant to each Prisma call | no operation reads or writes another tenant's rows |
| Tenants, users, invitations (`tenant`, `user`) | tenants, identities, users | create, invite, deactivate, reactivate | an invitation leaves a user with a usable link |
| Teams (`team.service.ts`) | the tree of teams, memberships | create, move, delete, expand; members | the tree has no cycle |
| Jobs, applications, clients, contacts | jobs with status and counters, applications with stages, client counters, primary contact | create, update, change status, delete; advance a stage | counters equal what they count, the highest stage is the highest, one primary contact |
| Candidates (`candidate.service.ts`) | candidates | create, update, page | one candidate per email; a page walk misses nobody |
| Migration (`migration.service.ts`) | cursors, mappings, config | sync a table, resolve keys, cut over | every source row arrives once and its changes later; a sync ends |
| Web client (`web-app/src/lib`) | access token in memory, one refresh promise | login, refresh, retry a stale call, logout | after a logout no token is left; a stale call is retried once |
| Talon (`application/executor.py`) | task status, browser session | execute, cancel | a task runs once, ends in a final status, a cancelled one is not completed |
| Activity log, waitlist, health, data loaders, home page, home proxy, seed, infrastructure | single rows or none | single inserts and reads | nothing to interleave |

**Interactions.** Sign-in creates a session and signs a token; the guard checks a token against
`user_ver` and asks the permission cache; each mutation of roles and memberships writes Postgres, then
Redis. The version and the cache are two separate answers to stale rights: the version covers the
claims inside the token, the ETag the permissions outside it. Jobs and applications call the
permission service after their own writes. Talon and the web client share nothing with the API but
its requests.

**Hard behaviours.** Interleaved statements of requests; a value read before an await and written
after it; a request that stops between Postgres and Redis; keys with a time to live, replaced by SET;
stamps that commit out of order; several refreshes of one client. `PROJECT.json` lists each hazard
at its line and the properties that cover it, with the part of it they leave out.

## 2. Plan

| # | Module | Composes, refines | Runs | Theorems | State |
|---|---|---|---|---|---|
| 1 | AccessTokens | refines 5 | tokens_all, tokens_bumps, tokens_delete | types, freshness, refused for ever, currency | done, proved |
| 2 | Sessions | names the same tokens as 1; refines 5 | sessions_all, sessions_rotation, sessions_relogin | types and its five invariants; rows keep their history | done, proved |
| 3 | PermissionCache | read by the guard of 1 | cache_all | types, AnswersMissNothing, AnswersAddNothing | done, proved |
| 4 | Login | ends in the sessions of 2 | login_all, login_streak | types and its four invariants | done, proved |
| 5 | VersionedClaims | refined by 1 and 2 | tokens_all, sessions_all | both refinements, and that they suffice for freshness and for revocation | done, proved |
| 6 | RowAccess | the creations and the assignment of 7 and 8 call it | records_all | the audit trail explains the table; who answers for a row may edit it | done, proved |
| 7 | Jobs, Applications | | records_all | counters, stages, live clients | done, proved |
| 8 | Candidates, RowPages, TeamTree, Accounts | Accounts feeds the resets of 2 | records_all | emails, primary contacts, the walk, the tree, passwords and links | done, proved |
| 9 | GllueSync, Talon, WebClient | | records_all, actors_all, talon_sites | one copy per row, the cursor; tasks and prompts; the quiet browser | done, proved |
| 10 | MCRecords, MCActors | 6 to 9, side by side | records_all, actors_all | types and all invariants of the composed instances | done, proved |

Every invariant, action property and refinement that a passing run checks is also proved (section 5);
only liveness is left to TLC. The models are written to be proved about: constants with named
assumptions, one action per step, invariants as conjunctions of named parts, no RECURSIVE operator.

## 3. Modules and the code

In every module a request is a record with a program counter `pc`; its fields are what the code keeps
in local variables across awaits. An action is the code from one await to the next. The map in
`PROJECT.json` names the lines of each definition. "History" variables exist for properties alone; no
guard reads them. Definitions marked *Mutant* are wrong versions of a mapped definition and are used
by no specification; they show that a property can fail.

### Authentication

**AccessTokens.** `userRoles`, `roleName`, `member` are the tables; `userVer` is Redis, with the value
`Missing` for no key. `handler` runs a mutation (checks, write, holders, INCRs), `signer` runs
signAccessToken (SET NX, GET version, memberships, roles, sign), in that order. `dirty` holds users
whose claims changed since their last INCR. Names stand for permission lists; other token fields are
left out; Redis keeps its keys (a lost key reads as 0, which would admit tokens of version 0 and let
INCR restart at 1).

**VersionedClaims** is what is promised to those who hold access tokens. A subject has a set of claims
that are true; when one ends, the subject is *owed* a revocation; a revocation refuses every token
before it; a new token carries a claim true now, or its subject is owed a revocation. No counter, table
or request is left. Two modules implement it. In AccessTokens a token claims roles and teams: the one
true claim is read off the tables, and `dirty` is the debt. In Sessions a token claims the session and
the login it was signed for: the true claims are the live sessions, and the debt is an INCR that a
request still has ahead.

**Sessions.** `session` has the row of each session and the generation number of the refresh token
whose hash it holds; `refreshTokens` are what clients received. Each operation of the controller is
sent with a token the client holds and runs through its handler's statements. A login waits between
its password check and its session, for one await or for the MFA code. `bornPwd`, `authPwd`, `live`
and their like are history. Expired rows, tokens and reset links are actions of time. There is no
crash action: the specification has no fairness, so a request that stops is one whose next statement
never comes, and the properties speak of a statement that is still ahead.

**PermissionCache.** `role` and `assignedAt` carry the stamps; `cache` is the map of one process. A
writer takes its stamp when it builds the statement and commits later. `reader` runs
getFunctionalPermissions; its fetch is two SELECTs (findMany with include), the assignments into
`rows` and then their roles, and a role that is gone by then fails it. `held` is what each of the
user's roles granted during all of the call, `seen` what the user was allowed during some of it. An
ETag that could not be read is taken to equal no other (two within one millisecond would). One user is enough for a cache with one entry
per user: entries never touch each other, and roles are changed by the writers as they like.

**Login.** `identity`, `device`, `challenge`, `pending` are the rows and keys; `request` runs login,
completeMfaLogin or confirmEnrol. findFirst on devices has no order, so any device answers. Right and
wrong passwords are a Boolean; a TOTP code is the secret it belongs to. A challenge lapses at any moment until it is deleted: its 300 s
start anew with each wrong code. `opened` is recorded when a challenge's session is. A call may stop after any of
its statements (CallFails), which is also how a refused user ends.

**Accounts.** One person, invited to tenants or creating one, asking for a link, choosing a password.
`asked` is the counter `rate:pw_reset:<email>` with or without an expiry; `past` is password_history in
the order of creation, the first `forgot` of it deleted. Inviting goes through user, roles and link in
separate statements and may end after each; so does a reset (history row, trim, password, use of the
link). Hashes are the passwords they are of.

### The CRM's tables

**RowAccess.** One row each of a client, a job of it, a candidate and an application, and people with a
team role and a data scope. `perm` is the permissions table (id and level per grantee and row), `audit`
its trail. `grants` holds the grants a request still has to run: the automatic grants of a creation run
side by side and one that fails does not stop the others. `Can` is effectiveLevel: a direct grant
shadows everything else, then cascade rules and scopes; `ListsJob` and its like are the where clauses
of the lists. The seed's cascade rules are `CascadeRules`.

**Jobs.** `client` with activeJobCount, `job`; create, update, changeStatus and softDelete go through
look-up, check of the client, write, counter; the client's softDelete through the sweep of its jobs and
its own row. `Delta` is computed from the row read first.

**Applications.** `stageLog` has how often each stage was logged, `application` the cached highest
stage and whether it is active, `counter` the job's four counters. advanceStage is read, log, cache,
count.

**Candidates.** The two rules kept by look-up and write: emails up to case (a mailbox in one of its
spellings) against a unique index on the exact string, deleted rows included; one primary contact of
one client, cleared before the insert.

**RowPages.** A walk through a list by cursor, forwards or backwards, in pages of `take`, while rows
are created, updated and deleted. The order is the latest update first, then the id; `InOrder` puts at
place n the row with n - 1 before it; `FindMany` is what Prisma does with a cursor, skip 1 and take. Jobs, clients and candidates page alike.

**TeamTree.** The tree with its four statements per move (team, parent, descendants, write). Names and
memberships are elsewhere or left out.

### Processes

**GllueSync.** `source` is Gllue, `copies` the rows made in Cura, `mapping` and `syncCursor` its tables;
`worker` runs syncTable for one table of one run: cursor, page, then per row the mapping, the parents,
create and link, or update and checksum; then the cursor. Tables of one service run side by side or one
after the other as the service has it. A row whose parent is not mapped is skipped, a row that throws
is counted and passed over, the cursor moves to the time of its statement, a full page repeats.

**Talon.** Each execution is a coroutine of one event loop: fetch, claim, prepare, begin, run, close,
complete or fail. The backend is one object with one `agent` and one `site`. The API behind the task
repository may refuse or lose any transition. Cancel reports and touches nothing else. After a restart
the backend is new and the tasks are as they were left.

**WebClient.** Tabs with an access token and a user in memory, a cookie they share, requests in three
phases (sent, served, arrived), any of which may be lost. Each tab has one refresh at a time
(`_refreshPromise`) beside its other request. What the API answers depends on the state of the refresh
token in the cookie sent, and on where it fails: a login or a rotation may fail after it has made its
token, a tenant switch after it has revoked the session it leaves (`stranded`, history), and the route
treats each failure as it does, by deleting the cookie (refresh) or by keeping it. The middleware decides the page by the cookie alone.

The `MC` modules add symmetry (over model values the specifications treat alike) and the instances of
functions such as `IdentityOf`; runs with liveness use no symmetry. MCRecords and MCActors put models
beside each other that share no variable: a behaviour picks one by `part`
or `actor` and the others stay at their initial state. This explores each of them on its own, which is all there is to explore, since none
reads what another writes; the constants of the code they have in common (callers, clients) get common
values. CHECK_DEADLOCK is FALSE in each configuration, since the bounds on requests stop a behaviour
when its last request has ended.

## 4. Runs

| Run | Checks | Shows |
|---|---|---|
| tokens_all | TypeOK, ClaimsCurrentOrOwed, StaleForever, ImplementsVersionedClaims | all mutations, two at a time, three in all, a racing signer, requests that stop: claims are current or an INCR is owed, a refused token is never admitted again, and nothing beyond VersionedClaims happens |
| tokens_bumps | AcceptedClaimsCurrent, OwedIncrHappens | two users, assignments and renames without stops: the INCR owed is always ahead of a running request, and comes |
| tokens_delete | AcceptedClaimsCurrent, **violated** | role.delete bumps the holders first and deletes the rows afterwards |
| sessions_all | RevocationStalesTokens, ResetSweepsSessions, DeactivationSweepsSessions, ClientHoldsCurrentToken, LoggedOutTokenIsDead, ImplementsVersionedClaims | four requests of any kind, two at a time, on two users of an identity |
| sessions_rotation | ExchangedOnce, **violated** | two refreshes with one token both succeed |
| sessions_relogin | ResetForcesRelogin, **violated** | a login with the old password gets its session after the reset's sweep |
| cache_all | TypeOK, AnswersMissNothing, AnswersAddNothing | two readers, whose fetch is two SELECTs, two writers: an answer misses nothing a role granted throughout and adds nothing, but for late stamps and removals |
| login_all | TypeOK, LockKeepsOut, EnrolledHasDevice, UnusedCodesStay, ChallengeIsSpent | six calls, two at a time: a lock holds, a challenge opens one session at most, codes and devices stay |
| login_streak | LockNeedsConsecutiveFails, **violated** | wrong passwords of an enrolled identity add up across successful logins |
| records_all | RecordsTypeOK and for each table: ActiveCountsOpenJobs, LiveJobHasLiveClient, CountersMatchRows, CacheSummarisesLog, AuditExplainsTable, ResponsibleMayEdit, LiveTeamsAreATree, LiveEmailsDiffer, OnePrimaryContact, WalkShowsEachOnce, MirroredOnce, CursorLeavesNothingBehind, RecentPasswordsRefused, UsersCanGetIn | what rows, counters, logs and cursors owe each other between any two statements of two callers |
| actors_all | ActorsTypeOK, TasksRunOnce, OwnPromptOnOwnSite, QuietBrowserAgrees, SyncEndsOrRepeats | one run of the mirror over two tables, two executions, two tabs with an API that fails halfway |
| talon_sites | SitesShareNoSession, **violated** | an execution runs the agent another opened for another site |

The violated properties are sentences of the repository's own documents or comments; the findings in
`PROJECT.json` quote them.

**Conditional properties.** Most rules of the tables are kept by a look-up and a later write, and two
calls in the wrong order break them for good. Such a property names the rows this happened to with a
history variable and holds for all others; the variable is as narrow as TLC allows:

| History | Left out | What the code does there |
|---|---|---|
| `late`, `removed` | users whose newer stamp committed first, or who lost an assignment (a removal stamps nothing) | the cached permissions stay until the next stamp |
| `shared` | challenges two calls presented at a time | the tries are counted once |
| `miscounted` | clients with overlapping job writes, a job moved between clients, a call that stopped before the counter, a deletion | activeJobCount stays wrong; moving a job adjusts the old client only |
| `orphaned` | jobs written while their client was being deleted | a live job of a deleted client |
| `uncounted`, `uncached` | calls that stopped, or cached a stage lower than one cached since they read | counter or highest stage stays behind the log |
| `torn`, `ungranted` | overlapping or failed grants; owners and assignees named by a new job or an update | no permission row, or a trail with a gap |
| `overtaken` | two moves both checked before one was written | a cycle; expandTeamTree does not end on it (UNION ALL), the model gives the least closed set |
| `beaten`, `twoPrimaries` | an email taken after the look-up; two primary contacts created at a time | two live candidates with one mailbox, two primary contacts |
| `slipped` | a cursor whose row was deleted or updated | rows shown twice or never |
| `twice`, `passed` | rows two runs found unmapped; rows skipped, failed, or changed during their page | a second copy; the row waits for its next change in Gllue |
| `crowded`, `stuck` | overlapping resets; a process that ended between INCR and EXPIRE | a password may come back; no link can be asked for any more |
| `mixed`, `raced` | executions that shared the backend; tasks read READY twice | another task's prompt is run; a task runs twice |
| `crossed`, `elsewhere`, `stranded` | overlapping requests of a browser; a tab whose session another tab replaced; a cookie whose token a tenant switch revoked before it failed | the cookie is lost; a tab shows one user and acts as another; the next refresh ends all sessions of the account |

**Bounds.** `MaxEdits`, `MaxRequests`, `MaxWrites` and the `Max...Calls` bound the calls of a
behaviour, `MaxTokens` the tokens alive at a time, `MaxTime` the clock. Two requests at a time are what
each race found here needs (one reads, the other writes, the first uses what it read); three or four
calls in all let something happen before and after the race. tokens_all has one user because claims of
users do not mix; tokens_bumps has two for the list of holders. The cache starts with stamps of time 1
and has two later instants, so that two writes can be stamped in order, in one instant, or commit in
the wrong order; its permission lists are one string or "*:*", which the fetch treats apart. Login
locks after two failures and takes two tries instead of 5 and 3 and has two of the ten backup codes:
the code compares with constants, and the theorems hold for any.
records_all has two jobs and two clients (a job can move), two applicants of one job, a lead and a
member of one team with the scopes MINE and MY_TEAMS, three teams (a cycle through another team), three
candidates of one mailbox in two spellings, four list rows in pages of one and two with three changes
(enough for a page boundary to fall on either side of each change), one old password kept, and a Gllue
row with one child under two runs. actors_all has three Gllue rows with pages of two, so that a full
page occurs, two tasks of different sites, and five requests of two tabs.

**Fairness.** tokens_bumps assumes weak fairness of the steps of a mutation under way, because Node
resumes a settled await; nothing makes a client send a request. CrashesAllowed is FALSE there, since a
request that stops owes its INCR for ever (ClaimsCurrentOrOwed covers that case). actors_all assumes
weak fairness of each table of a running sync: the database driver answers or fails every statement.
Nothing makes a cron start, a source row change or a row fail; SyncEndsOrRepeats has to hold for all
of them, and says what a sync with a full page does instead of ending.

## 5. Proofs

Theorems hold for every set of users, roles, requests, challenges and so on, and for every bound.

**AccessTokensProofs** (from ConstantsAssumption: the values that mean "nothing" are no members of the
sets they are used with).
- TypeCorrect: `Spec => []TypeOK`, one lemma per group of actions. The foreign key of user_roles is
  part of it.
- AcceptedTokensFresh: `Spec => []ClaimsCurrentOrOwed`. By itself it is not inductive: a signer turns
  its local values into a token. FreshInv adds that no token or signer is ahead of the counter and
  that a signer whose version is still the current one read claims that are still current or owed. The
  argument is in two lemmas: every step leaves the counter or raises it (MonotoneStep), and a step that
  changes claims leaves the user dirty or at a higher version (OwedStep).
- RefusedForEver: StaleForever, from TokensNotAhead and the rising counter.
- AcceptedTokensCurrent: `Spec => []AcceptedClaimsCurrent`, assuming that requests do not stop and that
  role deletion, which bumps first, is not among the operations (WriteThenBump). DirtyIsPending is the
  inductive part.
- TokensKeepThePromise: `Spec => ImplementsVersionedClaims`. A step that leaves tokens and versions
  alone is a Change by OwedStep; an INCR is a Revoke because no token is ahead of the counter; signing
  is a Grant because FreshInv holds of the new token, or nothing if its version is already old; expiry
  is a Lapse.
- PromiseSuffices: `ImplementsVersionedClaims => []ClaimsCurrentOrOwed`. The promise by itself, without
  the statements that keep it, already gives freshness.

**LoginProofs** (from ConstantsAssumption).
- TypeCorrect, and LockHolds, EnrolmentHolds, CodesHold, ChallengesHold for the four invariants of
  login_all. LockKeepsOut is inductive with the types. EnrolledHasDevice needs that a request about to
  set the flag has created its device, UnusedCodesStay that a request about to write a list read one
  that has every unused code, ChallengeIsSpent that a request working on an unshared challenge is alone
  and holds the very number of tries there have been, and that one about to open a session has deleted
  the key before.

**SessionsProofs** (from Sessions' assumption on its constants). What all proofs of it rest on is
`TypeInv`, which says per program counter what a request has found, and `Lineage`: every refresh token
that a client, a request or a logout names is one its session has generated, and the request works on a
row of its own user. TypeCorrect states both with the types.
- RevocationStales: RevocationStalesTokens. ClaimsJustified carries the claim also while it is only in
  the locals of a request about to sign: if the version it has read is still accepted, its session is
  active or the INCR of whoever ended it is ahead.
- ResetSweeps, DeactivationSweeps: inductive with the types and Lineage; a row written with an outdated
  password, or for a user no longer loginable, is what `bornPwd` and `bornLoginable` leave out.
- ClientCanGoOn: CurrentTokenUnderway, the token the row expects is with a client or in the request that
  has just rotated it. LogoutKillsToken: a revoked row stays revoked and its counter only grows.
- SessionsKeepHistory, an action property: no step changes the owner of a session, brings a revoked one
  back or generates a refresh token twice.
- SessionsKeepThePromise: `Spec => ImplementsVersionedClaims`. What ends a session is a Change that
  leaves the INCR ahead; the INCR is a Revoke even where another is still ahead; signing is a Grant
  because of ClaimsJustified. PromiseSuffices: that promise alone implies RevocationStalesTokens.

**PermissionCacheProofs**: TypeCorrect, NothingMissed, NothingAdded. CacheInv speaks of *entries*: those
in the cache and those a reader is about to store. An entry holds all that the rows not newer than its
ETag grant and, while the ETag of the database is still its own, exactly what they grant; a reader with
an ETag in hand can therefore use any entry that equals it. Between its two SELECTs a reader holds rows: every
assignment that its ETag covers and that is still there is among them, and what it reads of their roles
covers whatever one of them granted from the start of the call (RowsGood, PairsGood). TypeCorrect adds
to the types what a call and a writer have at each await (WellFormed). TablesMove says what a writer can do to this
(a stamp grows, or the user is `late` or `removed`), so that each writer needs one lemma and no more.

**CandidatesProofs** (from RowPagesAssumption for the walk): EmailsDiffer, PrimaryIsOne,
WalksShowEachOnce and the type theorems CandidatesKeepType and PagesKeepType, the latter from Stamped:
no row and no cursor is later than the clock. The look-up has to be carried to the write: FreeUntilLate says that what a call found
free stays free until another call takes it and makes it late; ClearedForInsert that between clearing and
inserting there is no primary contact at all. For the walk, WalkKept divides the steady rows by the place
the cursor's row had when it became the cursor, not by where it is now: those up to it were shown once,
those behind it never. Changes touch no steady row; a page shows the next rows of what is ahead, by
their ranks in a finite strict order (OrderedRows).

**RecordsProofs**: the theorems on the models of the tables, a type theorem each among them, from the assumptions each model states on
its constants; the sets of rows and of callers that are counted are finite.
- Jobs: CountersOfClients and JobsKeepClients. A counter and what the running calls still owe it are the
  open jobs; ReadsLive adds that a call about to write has read a live row. OrphansKnown adds that a
  call that gives a client found it live and that a deletion past its sweep left only orphans.
- Applications: CountersOfJobs, CacheIsSummary. CachesFollow: a call about to cache has read a stage not
  above the cached one, and every logged stage is at most the cached one or about to be cached.
- TeamTree: TeamsStayATree. `Tree` says that every set of live teams has one whose parent is outside it;
  MayMove that a checked move still has a set closed under children that holds the team and not its new
  parent. Moving keeps both, and the smallest set of teams without a way out gives the invariant.
- Accounts: AccountsReachable needs only that a count without expiry has a call about to expire it
  (LimitPasses); PasswordsNotReused that the history is what was had before the password of now, by the
  statement a lone reset is at (ResetsInTurn).
- RowAccess: AuditTellsTable, from LogsFollow: the trail is a chain, its last level is the row's unless one
  grant is halfway. ResponsibleEdit, from AnsweredFor: whoever answers for a row has a grant of EDIT or OWNER
  or one on its way.

Sums over finite sets (MapThenSumSet) and closed sets of teams are reached by a minimal counterexample
(WFMin on strict subsets, or on the naturals) instead of induction over an operator.

**ActorsProofs**.
- GllueSync: MirrorOnce, from OneMaker (before the mapping of a row there is at most one worker making
  it, and as many copies as its statement says) and ParentsFirst; CursorSafe, from Current: what a worker
  still has to do for a row is the row's version of now, or the row is mirrored already.
  MirrorNeverGoesBack, an action property: no copy is lost, a mapping stays with its copy, versions and
  cursors do not go back. (The time of a cursor and its write are one step of the model, so the last
  part says nothing of two writes that commit out of order.)
- Talon: TasksOnce, from ClaimedStays and RunsAlone; OwnPrompt, from BackendClean, the state of the shared
  backend at each statement of an execution that is alone.
- WebClient: QuietBrowser, from OneAtATime: while no two requests overlap, the one under way carries the
  cookie, and after an answer that is no new token the cookie's is live or stranded.
- MirrorKeepsType, TalonKeepsType and WebClientKeepsType, from the same invariants; the mirror needs
  RunsCounted beside them.

**ComposedProofs**: the instances records_all and actors_all explore, for every value of the constants.
A step of an instance is a step of one model and a stutter of the others (RecordsStep and its like), so
that a behaviour of the instance is a behaviour of each model (RecordsAreModels, ActorsAreModels) and
inherits its theorems: RecordsKeepType, ActorsKeepType for the type invariants, RecordsKeepPromises,
ActorsKeepPromises for all others at once. Only the accounts begin differently when a behaviour does not
pick them, with nobody in them (NoAccounts), where their invariant holds as well.

**Only model-checked.**
- OwedIncrHappens and SyncEndsOrRepeats are liveness under fairness, which TLAPS does not reach.
- The violated properties of section 4, which are false.

## 6. Where code and documents differ

Besides the findings, which have a run each, the following came up while modelling. The models have
what the code does.

- `redis.service.ts:32` speaks of a sliding window; the window is fixed by the first request.
- `user.service.ts:96-98` says authIdentityId is unique on User; a migration made it unique per tenant.
- `tenant.service.ts:12` makes the caller the first admin; no role is given.
- The technical plan of authentication gives TEAM_TREE a list of its own; the lists treat it like
  MY_TEAMS, and may show a row whose findById is refused. No code sets the scope EXPLICIT.
- Assigning a job to its creator lowers OWNER to EDIT; a direct grant hides a higher cascade or scope.
- The result of a cascade with two matching rules depends on an order the query does not ask for.
- The migration plan retries skipped rows and keeps the cursor after an error; the code moves it on.
  initiateCutover has no caller and running syncs do not look at it; the read-only guard is attached to
  no resolver.
- A cancelled task may be reported COMPLETED; a restart leaves tasks CLAIMED or IN_PROGRESS.
- After a stale answer the web client's retry never delivers: complete() has torn its observable down.
- A fetch of permissions reads the assignments and then their roles. A permission that passes from one
  role of the user to another in between (assigned with one, then taken from the other) may be missing
  from that one answer; the next call reads another ETag and fetches again.
- A right code whose call stops before the delete leaves its challenge live; each wrong code gives a
  challenge 300 s more.
- A tenant switch that fails after the revocation leaves a revoked token in the cookie, and the next
  refresh reads it as reuse and ends all sessions of that user.
- The password of now may be chosen again; the history starts with the one before.

## 7. Not modelled

Tenant scoping (a function of one call's arguments), password complexity, profile and descriptive
fields, closeDate and totalJobCount of jobs, interviews and offers (single inserts and updates of one
row), GraphQL resolvers and DTO validation, generated GraphQL code, hashing, encryption and JWT
signatures (taken to do what they promise), plain reads and single inserts (activity log, waitlist,
health, data loaders), pages of the web app, the home page and the desktop shell, demo rows of the seed
and start-up scripts, and the loss of Redis data. Pages, generated code and the seed are most of the
repository's lines; they keep no state across a call that another actor could meet halfway.
