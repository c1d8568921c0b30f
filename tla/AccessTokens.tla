---------------------------- MODULE AccessTokens ----------------------------
(***************************************************************************)
(* The claims protocol of the API's access tokens.  A JWT carries the role *)
(* names and team memberships of its user and the value of the Redis       *)
(* counter user_ver; the guard accepts it while the counter still has that *)
(* value.  Handlers that change roles or memberships write the database    *)
(* first and then INCR the counter, so that tokens with old claims turn    *)
(* JWT_STALE.  Every await of a handler is a step of its own: signers and  *)
(* mutations of several requests interleave freely.                        *)
(*                                                                         *)
(* What a session does with the tokens is module Sessions; here a signer   *)
(* is any caller of signAccessToken.  JWT expiry is the action Expire.     *)
(* Redis is assumed to keep its keys.                                        *)
(***************************************************************************)
EXTENDS Naturals, FiniteSets

CONSTANTS
    Users, Roles, RoleNames, Teams,
    Handlers,            \* requests that run a mutation
    Signers,             \* requests that run signAccessToken
    Ops,                 \* the mutations the instance allows
    CrashesAllowed,      \* may a request die between two awaits?
    MaxEdits,            \* bound: mutations started in a behaviour
    MaxTokens,           \* bound: unexpired tokens at a time
    NoOne,               \* "no value" of a user, role, team or claim
    Missing,             \* the Redis key does not exist
    NotCreated, Deleted  \* a role row before role.create, after role.delete

AllOps == {"assignRole", "removeRole", "createRole", "updateRole", "deleteRole",
           "addMember", "removeMember", "updateMemberRole", "incrOnly"}

ASSUME ConstantsAssumption ==
    /\ Ops \subseteq AllOps
    /\ CrashesAllowed \in BOOLEAN
    /\ MaxEdits \in Nat
    /\ MaxTokens \in Nat
    /\ NotCreated \notin RoleNames
    /\ Deleted \notin RoleNames
    /\ NotCreated # Deleted
    /\ NoOne \notin AllOps
    /\ Missing \notin Nat
    /\ \A names \in SUBSET RoleNames : names # NoOne
    /\ \A teams \in [Teams -> {"none", "MEMBER", "LEAD"}] : teams # NoOne

VARIABLES
    userRoles,  \* table user_roles: set of <<user, role>>
    roleName,   \* table roles: name of each role row
    member,     \* table team_members: role of each user in each team, or "none"
    userVer,    \* Redis user_ver:<user>
    loggedIn,   \* users with a Session row (only they can refresh)
    handler,    \* the mutation each handler request is running
    signer,     \* the signAccessToken each signer request is running
    tokens,     \* unexpired access tokens handed to clients
    dirty,      \* history: users whose claims changed since their last INCR
    edits       \* mutations started so far (bound only)

db == <<userRoles, roleName, member>>
vars == <<userRoles, roleName, member, userVer, loggedIn, handler, signer,
          tokens, dirty, edits>>

MemberRole == {"MEMBER", "LEAD"}
RoleClaims == SUBSET RoleNames
TeamClaims == [Teams -> {"none"} \cup MemberRole]
Token == [sub : Users, ver : Nat, roles : RoleClaims, teams : TeamClaims]

HandlerPc == {"idle", "write", "holders", "bump", "strip", "drop"}
HandlerRecord ==
    [pc : HandlerPc, op : Ops \cup {NoOne}, user : Users \cup {NoOne},
     role : Roles \cup {NoOne}, team : Teams \cup {NoOne},
     arg : RoleNames \cup MemberRole \cup {NoOne}, targets : SUBSET Users]

(* The parameters each mutation has, and the steps it goes through. *)
WellFormed(x) ==
    /\ x.pc # "idle" => x.op \in Ops
    /\ x.pc \in {"strip", "drop"} => x.op = "deleteRole"
    /\ x.pc = "holders" => x.op \in {"updateRole", "deleteRole"}
    /\ x.op \in {"assignRole", "removeRole"} => x.user \in Users /\ x.role \in Roles
    /\ x.op = "updateRole" => x.role \in Roles /\ x.arg \in RoleNames
    /\ x.op = "deleteRole" => x.role \in Roles
    /\ x.op \in {"addMember", "removeMember", "updateMemberRole"} =>
           x.user \in Users /\ x.team \in Teams
    /\ x.op \in {"addMember", "updateMemberRole"} => x.arg \in MemberRole

Handler == {x \in HandlerRecord : WellFormed(x)}

SignerRecord ==
    [pc : {"idle", "init", "version", "read"}, user : Users \cup {NoOne},
     ver : Nat, roles : RoleClaims \cup {NoOne}, teams : TeamClaims \cup {NoOne}]
Signer == {x \in SignerRecord :
              /\ x.pc # "idle" => x.user \in Users
              /\ x.pc # "read" => x.roles = NoOne /\ x.teams = NoOne}

IdleHandler == [pc |-> "idle", op |-> NoOne, user |-> NoOne, role |-> NoOne,
                team |-> NoOne, arg |-> NoOne, targets |-> {}]
IdleSigner == [pc |-> "idle", user |-> NoOne, ver |-> 0, roles |-> NoOne,
               teams |-> NoOne]

-----------------------------------------------------------------------------
(* What the tables say now. *)

Holders(r) == {u \in Users : <<u, r>> \in userRoles}
Exists(r) == roleName[r] \in RoleNames
RolesOf(u) == {roleName[r] : r \in {q \in Roles : <<u, q>> \in userRoles}}
TeamsOf(u) == [t \in Teams |-> member[<<t, u>>]]

(* RedisService.getUserVer: a missing key reads as version 0. *)
GetUserVer(u) == IF userVer[u] = Missing THEN 0 ELSE userVer[u]

(* JwtAuthGuard.canActivate admits a token whose version is the current one. *)
Accepted(t) == GetUserVer(t.sub) = t.ver

Init ==
    /\ userRoles = {}
    /\ roleName \in [Roles -> RoleNames \cup {NotCreated}]
    /\ \A r, q \in Roles : roleName[r] = roleName[q] /\ Exists(r) => r = q
    /\ member = [tu \in Teams \X Users |-> "none"]
    /\ userVer \in [Users -> {0, Missing}]
    /\ loggedIn = {}
    /\ handler = [h \in Handlers |-> IdleHandler]
    /\ signer = [s \in Signers |-> IdleSigner]
    /\ tokens = {}
    /\ dirty = {}
    /\ edits = 0

-----------------------------------------------------------------------------
(* Mutations.  Begin(...) is a handler up to its first write: the lookups    *)
(* that can reject it.  The write repeats what the database enforces         *)
(* (primary keys, foreign keys, unique names) and the handler dies there if  *)
(* a concurrent request got in first.                                        *)

Begin(h, op, rest) ==
    /\ handler[h].pc = "idle"
    /\ op \in Ops
    /\ edits < MaxEdits
    /\ edits' = edits + 1
    /\ handler' = [handler EXCEPT ![h] = rest]
    /\ UNCHANGED <<db, userVer, loggedIn, signer, tokens, dirty>>

BeginAssignRole(h, u, r) ==
    /\ Exists(r) /\ <<u, r>> \notin userRoles
    /\ Begin(h, "assignRole", [IdleHandler EXCEPT !.pc = "write", !.op = "assignRole",
                                                  !.user = u, !.role = r])

BeginRemoveRole(h, u, r) ==
    /\ <<u, r>> \in userRoles
    /\ Begin(h, "removeRole", [IdleHandler EXCEPT !.pc = "write", !.op = "removeRole",
                                                  !.user = u, !.role = r])

BeginUpdateRole(h, r, n) ==
    /\ Exists(r)
    /\ \A q \in Roles \ {r} : roleName[q] # n
    /\ Begin(h, "updateRole", [IdleHandler EXCEPT !.pc = "write", !.op = "updateRole",
                                                  !.role = r, !.arg = n])

\* delete() bumps first: its next step reads the holders, not a write.
BeginDeleteRole(h, r) ==
    /\ Exists(r)
    /\ Begin(h, "deleteRole", [IdleHandler EXCEPT !.pc = "holders", !.op = "deleteRole",
                                                  !.role = r])

BeginAddMember(h, t, u, m) ==
    /\ member[<<t, u>>] = "none"
    /\ Begin(h, "addMember", [IdleHandler EXCEPT !.pc = "write", !.op = "addMember",
                                                 !.team = t, !.user = u, !.arg = m])

BeginRemoveMember(h, t, u) ==
    /\ member[<<t, u>>] # "none"
    /\ Begin(h, "removeMember", [IdleHandler EXCEPT !.pc = "write", !.op = "removeMember",
                                                    !.team = t, !.user = u])

BeginUpdateMemberRole(h, t, u, m) ==
    /\ member[<<t, u>>] # "none"
    /\ Begin(h, "updateMemberRole",
             [IdleHandler EXCEPT !.pc = "write", !.op = "updateMemberRole",
                                 !.team = t, !.user = u, !.arg = m])

(* RoleService.create: no holders yet, so nobody's claims change. *)
CreateRole(r, n) ==
    /\ "createRole" \in Ops
    /\ edits < MaxEdits
    /\ edits' = edits + 1
    /\ roleName[r] = NotCreated
    /\ \A q \in Roles : roleName[q] # n
    /\ roleName' = [roleName EXCEPT ![r] = n]
    /\ UNCHANGED <<userRoles, member, userVer, loggedIn, handler, signer, tokens, dirty>>

(* The database refused the write: the request fails before its INCR. *)
WriteFails(h) ==
    /\ handler' = [handler EXCEPT ![h] = IdleHandler]
    /\ UNCHANGED <<db, dirty>>

(* The write went through; the INCR of the users in changed is still owed. *)
Written(h, pc, targets, changed) ==
    /\ handler' = [handler EXCEPT ![h].pc = pc, ![h].targets = targets]
    /\ dirty' = dirty \cup changed

WriteAssignRole(h) ==
    LET u == handler[h].user  r == handler[h].role IN
    IF Exists(r) /\ <<u, r>> \notin userRoles
    THEN /\ userRoles' = userRoles \cup {<<u, r>>}
         /\ Written(h, "bump", {u}, {u})
         /\ UNCHANGED <<roleName, member>>
    ELSE WriteFails(h)

(* Mutant of WriteRemoveRole: no INCR follows.                               *)
RemoveRoleOnly(h) ==
    LET u == handler[h].user  r == handler[h].role IN
    IF <<u, r>> \in userRoles
    THEN /\ userRoles' = userRoles \ {<<u, r>>}
         /\ handler' = [handler EXCEPT ![h] = IdleHandler]
         /\ dirty' = dirty \cup {u}
         /\ UNCHANGED <<roleName, member>>
    ELSE WriteFails(h)

WriteRemoveRole(h) ==
    LET u == handler[h].user  r == handler[h].role IN
    IF <<u, r>> \in userRoles
    THEN /\ userRoles' = userRoles \ {<<u, r>>}
         /\ Written(h, "bump", {u}, {u})
         /\ UNCHANGED <<roleName, member>>
    ELSE WriteFails(h)

WriteUpdateRole(h) ==
    LET r == handler[h].role  n == handler[h].arg IN
    IF Exists(r) /\ \A q \in Roles \ {r} : roleName[q] # n
    THEN /\ roleName' = [roleName EXCEPT ![r] = n]
         /\ Written(h, "holders", {}, Holders(r))
         /\ UNCHANGED <<userRoles, member>>
    ELSE WriteFails(h)

WriteMember(h, present, value) ==
    LET tu == <<handler[h].team, handler[h].user>> IN
    IF (member[tu] # "none") = present
    THEN /\ member' = [member EXCEPT ![tu] = value]
         /\ Written(h, "bump", {handler[h].user}, {handler[h].user})
         /\ UNCHANGED <<userRoles, roleName>>
    ELSE WriteFails(h)

Write(h) ==
    /\ handler[h].pc = "write"
    /\ \/ handler[h].op = "assignRole" /\ WriteAssignRole(h)
       \/ handler[h].op = "removeRole" /\ WriteRemoveRole(h)
       \/ handler[h].op = "updateRole" /\ WriteUpdateRole(h)
       \/ handler[h].op = "addMember" /\ WriteMember(h, FALSE, handler[h].arg)
       \/ handler[h].op = "removeMember" /\ WriteMember(h, TRUE, "none")
       \/ handler[h].op = "updateMemberRole" /\ WriteMember(h, TRUE, handler[h].arg)
    /\ UNCHANGED <<userVer, loggedIn, signer, tokens, edits>>

(* Where a handler goes when every INCR it has to do is done. *)
AfterBumps(h) ==
    IF handler[h].op = "deleteRole"
    THEN [handler[h] EXCEPT !.pc = "strip", !.targets = {}]
    ELSE IdleHandler

(* Mutant of ReadHolders: findFirst instead of findMany.                     *)
ReadFirstHolder(h) ==
    LET held == Holders(handler[h].role) IN
    /\ handler[h].pc = "holders"
    /\ handler' = [handler EXCEPT ![h] =
                     IF held = {} THEN AfterBumps(h)
                     ELSE [handler[h] EXCEPT !.pc = "bump",
                                             !.targets = {CHOOSE u \in held : TRUE}]]
    /\ UNCHANGED <<db, userVer, loggedIn, signer, tokens, dirty, edits>>

(* bumpAllHolders reads the holders as they are at this moment. *)
ReadHolders(h) ==
    LET held == Holders(handler[h].role) IN
    /\ handler[h].pc = "holders"
    /\ handler' = [handler EXCEPT ![h] =
                     IF held = {} THEN AfterBumps(h)
                     ELSE [handler[h] EXCEPT !.pc = "bump", !.targets = held]]
    /\ UNCHANGED <<db, userVer, loggedIn, signer, tokens, dirty, edits>>

(* Mutant of Bump: seeds the counter instead of incrementing it.             *)
BumpSeeds(h, u) ==
    /\ handler[h].pc = "bump"
    /\ u \in handler[h].targets
    /\ userVer' = [userVer EXCEPT ![u] = GetUserVer(u)]
    /\ dirty' = dirty \ {u}
    /\ handler' = [handler EXCEPT ![h] =
                     IF handler[h].targets = {u} THEN AfterBumps(h)
                     ELSE [handler[h] EXCEPT !.targets = @ \ {u}]]
    /\ UNCHANGED <<db, loggedIn, signer, tokens, edits>>

(* INCR user_ver:<u>; the INCRs of bumpAllHolders land in any order. *)
Bump(h, u) ==
    /\ handler[h].pc = "bump"
    /\ u \in handler[h].targets
    /\ userVer' = [userVer EXCEPT ![u] = GetUserVer(u) + 1]
    /\ dirty' = dirty \ {u}
    /\ handler' = [handler EXCEPT ![h] =
                     IF handler[h].targets = {u} THEN AfterBumps(h)
                     ELSE [handler[h] EXCEPT !.targets = @ \ {u}]]
    /\ UNCHANGED <<db, loggedIn, signer, tokens, edits>>

(* RoleService.delete after its bumps: userRole.deleteMany ...              *)
StripRole(h) ==
    LET r == handler[h].role IN
    /\ handler[h].pc = "strip"
    /\ userRoles' = {ur \in userRoles : ur[2] # r}
    /\ dirty' = dirty \cup Holders(r)
    /\ handler' = [handler EXCEPT ![h].pc = "drop"]
    /\ UNCHANGED <<roleName, member, userVer, loggedIn, signer, tokens, edits>>

(* Mutant of DropRole: no foreign key protects the assignments.              *)
DropRoleInUse(h) ==
    /\ handler[h].pc = "drop"
    /\ roleName' = [roleName EXCEPT ![handler[h].role] = Deleted]
    /\ handler' = [handler EXCEPT ![h] = IdleHandler]
    /\ UNCHANGED <<userRoles, member, userVer, loggedIn, signer, tokens, dirty, edits>>

(* ... and role.delete, which the foreign key of user_roles refuses if the   *)
(* role was assigned again in between.                                       *)
DropRole(h) ==
    LET r == handler[h].role IN
    /\ handler[h].pc = "drop"
    /\ roleName' = IF Holders(r) = {} THEN [roleName EXCEPT ![r] = Deleted] ELSE roleName
    /\ handler' = [handler EXCEPT ![h] = IdleHandler]
    /\ UNCHANGED <<userRoles, member, userVer, loggedIn, signer, tokens, dirty, edits>>

(* INCRs that follow no claim change: logout, logout-all, tenant switch,     *)
(* password reset, reuse detection, deactivate, reactivate.                  *)
IncrOnly(u) ==
    /\ "incrOnly" \in Ops
    /\ edits < MaxEdits
    /\ edits' = edits + 1
    /\ userVer' = [userVer EXCEPT ![u] = GetUserVer(u) + 1]
    /\ dirty' = dirty \ {u}
    /\ UNCHANGED <<db, loggedIn, handler, signer, tokens>>

-----------------------------------------------------------------------------
(* Signing.  A login seeds the counter (createSession), a refresh does not.  *)

StartLogin(s, u) ==
    /\ signer[s].pc = "idle"
    /\ loggedIn' = loggedIn \cup {u}
    /\ signer' = [signer EXCEPT ![s].pc = "init", ![s].user = u]
    /\ UNCHANGED <<db, userVer, handler, tokens, dirty, edits>>

StartRefresh(s, u) ==
    /\ signer[s].pc = "idle"
    /\ u \in loggedIn
    /\ signer' = [signer EXCEPT ![s].pc = "version", ![s].user = u]
    /\ UNCHANGED <<db, userVer, loggedIn, handler, tokens, dirty, edits>>

(* Mutant of InitUserVer: SET without NX.                                    *)
ResetUserVer(s) ==
    /\ signer[s].pc = "init"
    /\ userVer' = [userVer EXCEPT ![signer[s].user] = 0]
    /\ signer' = [signer EXCEPT ![s].pc = "version"]
    /\ UNCHANGED <<db, loggedIn, handler, tokens, dirty, edits>>

(* SET user_ver:<u> 0 NX *)
InitUserVer(s) ==
    LET u == signer[s].user IN
    /\ signer[s].pc = "init"
    /\ userVer' = [userVer EXCEPT ![u] = IF userVer[u] = Missing THEN 0 ELSE userVer[u]]
    /\ signer' = [signer EXCEPT ![s].pc = "version"]
    /\ UNCHANGED <<db, loggedIn, handler, tokens, dirty, edits>>

ReadVersion(s) ==
    /\ signer[s].pc = "version"
    /\ signer' = [signer EXCEPT ![s].pc = "read", ![s].ver = GetUserVer(signer[s].user)]
    /\ UNCHANGED <<db, userVer, loggedIn, handler, tokens, dirty, edits>>

(* The two queries of Promise.all run on two connections, in any order. *)
ReadTeams(s) ==
    /\ signer[s].pc = "read"
    /\ signer[s].teams = NoOne
    /\ signer' = [signer EXCEPT ![s].teams = TeamsOf(signer[s].user)]
    /\ UNCHANGED <<db, userVer, loggedIn, handler, tokens, dirty, edits>>

ReadRoles(s) ==
    /\ signer[s].pc = "read"
    /\ signer[s].roles = NoOne
    /\ signer' = [signer EXCEPT ![s].roles = RolesOf(signer[s].user)]
    /\ UNCHANGED <<db, userVer, loggedIn, handler, tokens, dirty, edits>>

(* Mutant of Issue: the version is read after the claims.                    *)
IssueVersionLast(s) ==
    /\ signer[s].pc = "read"
    /\ signer[s].teams # NoOne /\ signer[s].roles # NoOne
    /\ Cardinality(tokens) < MaxTokens
    /\ tokens' = tokens \cup {[sub |-> signer[s].user, ver |-> GetUserVer(signer[s].user),
                               roles |-> signer[s].roles, teams |-> signer[s].teams]}
    /\ signer' = [signer EXCEPT ![s] = IdleSigner]
    /\ UNCHANGED <<db, userVer, loggedIn, handler, dirty, edits>>

Issue(s) ==
    /\ signer[s].pc = "read"
    /\ signer[s].teams # NoOne /\ signer[s].roles # NoOne
    /\ Cardinality(tokens) < MaxTokens
    /\ tokens' = tokens \cup {[sub |-> signer[s].user, ver |-> signer[s].ver,
                               roles |-> signer[s].roles, teams |-> signer[s].teams]}
    /\ signer' = [signer EXCEPT ![s] = IdleSigner]
    /\ UNCHANGED <<db, userVer, loggedIn, handler, dirty, edits>>

(* ACCESS_TOKEN_TTL_SECS is over: jwt.verify rejects the token. *)
Expire(t) ==
    /\ t \in tokens
    /\ tokens' = tokens \ {t}
    /\ UNCHANGED <<db, userVer, loggedIn, handler, signer, dirty, edits>>

-----------------------------------------------------------------------------
(* Failures. *)

CrashHandler(h) ==
    /\ CrashesAllowed
    /\ handler[h].pc # "idle"
    /\ handler' = [handler EXCEPT ![h] = IdleHandler]
    /\ UNCHANGED <<db, userVer, loggedIn, signer, tokens, dirty, edits>>

CrashSigner(s) ==
    /\ CrashesAllowed
    /\ signer[s].pc # "idle"
    /\ signer' = [signer EXCEPT ![s] = IdleSigner]
    /\ UNCHANGED <<db, userVer, loggedIn, handler, tokens, dirty, edits>>

-----------------------------------------------------------------------------
BeginMutation(h) ==
    \/ \E u \in Users, r \in Roles : BeginAssignRole(h, u, r) \/ BeginRemoveRole(h, u, r)
    \/ \E r \in Roles, n \in RoleNames : BeginUpdateRole(h, r, n)
    \/ \E r \in Roles : BeginDeleteRole(h, r)
    \/ \E t \in Teams, u \in Users, m \in MemberRole :
          BeginAddMember(h, t, u, m) \/ BeginUpdateMemberRole(h, t, u, m)
    \/ \E t \in Teams, u \in Users : BeginRemoveMember(h, t, u)

(* The steps of a mutation that has begun. *)
RunMutation(h) ==
    \/ Write(h) \/ ReadHolders(h) \/ StripRole(h) \/ DropRole(h)
    \/ \E u \in Users : Bump(h, u)

StartSigning(s) == \E u \in Users : StartLogin(s, u) \/ StartRefresh(s, u)

RunSigner(s) ==
    InitUserVer(s) \/ ReadVersion(s) \/ ReadTeams(s) \/ ReadRoles(s) \/ Issue(s)

Next ==
    \/ \E h \in Handlers : BeginMutation(h) \/ RunMutation(h) \/ CrashHandler(h)
    \/ \E s \in Signers : StartSigning(s) \/ RunSigner(s) \/ CrashSigner(s)
    \/ \E r \in Roles, n \in RoleNames : CreateRole(r, n)
    \/ \E u \in Users : IncrOnly(u)
    \/ \E t \in tokens : Expire(t)

Spec == Init /\ [][Next]_vars

(* A request that started keeps running: Node resumes every settled await.  *)
(* Nothing is assumed of clients, who need never start a request.           *)
Fairness == \A h \in Handlers : WF_vars(RunMutation(h))

FairSpec == Spec /\ Fairness
-----------------------------------------------------------------------------
(* Properties. *)

(* Every variable has the shape the code gives it, and the keys of           *)
(* user_roles refer to existing roles (the foreign key of the schema).       *)
TypeOK ==
    /\ userRoles \subseteq Users \X Roles
    /\ \A ur \in userRoles : Exists(ur[2])
    /\ roleName \in [Roles -> RoleNames \cup {NotCreated, Deleted}]
    /\ member \in [Teams \X Users -> {"none"} \cup MemberRole]
    /\ userVer \in [Users -> Nat \cup {Missing}]
    /\ loggedIn \subseteq Users
    /\ handler \in [Handlers -> Handler]
    /\ signer \in [Signers -> Signer]
    /\ tokens \subseteq Token
    /\ dirty \subseteq Users
    /\ edits \in Nat

Current(t) == t.roles = RolesOf(t.sub) /\ t.teams = TeamsOf(t.sub)

(* A token the guard admits carries the roles and memberships the database   *)
(* holds now, unless they changed and no INCR has followed yet: because      *)
(* signAccessToken reads the version before the claims, one INCR after a     *)
(* write is enough for every signer that raced it, even across crashes.      *)
ClaimsCurrentOrOwed ==
    \A t \in tokens : Accepted(t) => Current(t) \/ t.sub \in dirty

(* The inductive form of ClaimsCurrentOrOwed.  No token or signer is ahead   *)
(* of the counter, and a signer whose version is still current has read      *)
(* claims that are still current: this is what reading the version first     *)
(* buys (signAccessToken).                                                   *)
TokensNotAhead == \A t \in tokens : t.ver <= GetUserVer(t.sub)

SignersNotAhead ==
    \A s \in Signers : signer[s].pc = "read" => signer[s].ver <= GetUserVer(signer[s].user)

SignersCurrentOrOwed ==
    \A s \in Signers :
        LET x == signer[s] IN
        x.pc = "read" /\ x.ver = GetUserVer(x.user) /\ x.user \notin dirty =>
            x.roles \in {NoOne, RolesOf(x.user)} /\ x.teams \in {NoOne, TeamsOf(x.user)}

FreshInv ==
    TokensNotAhead /\ SignersNotAhead /\ SignersCurrentOrOwed /\ ClaimsCurrentOrOwed

(* The mutation h runs still has the INCR of u ahead of it. *)
BumpAhead(h, u) ==
    \/ handler[h].pc = "bump" /\ u \in handler[h].targets
    \/ handler[h].pc = "holders" /\ u \in Holders(handler[h].role)

PendingBump(u) == \E h \in Handlers : BumpAhead(h, u)

(* Claims are dirty only while the mutation that wrote them is running and   *)
(* has not yet sent its INCR: no order of writes, holder lists and INCRs of  *)
(* concurrent mutations forgets a user.                                      *)
DirtyIsPending == \A u \in dirty : PendingBump(u)

(* A token the guard admits carries the current claims, or the mutation that *)
(* changed them is still running and will INCR the version: write first,     *)
(* bump second, in every mutation, whoever else runs (role.service.ts,       *)
(* user.service.ts, team.service.ts).                                        *)
AcceptedClaimsCurrent ==
    \A t \in tokens : Accepted(t) => Current(t) \/ PendingBump(t.sub)

(* Once JWT_STALE, always JWT_STALE: no login, INCR or seed makes the guard  *)
(* admit a token again that it has begun to refuse (SET ... NX, INCR).       *)
StaleForever ==
    [][\A t \in tokens : ~Accepted(t) => GetUserVer(t.sub)' # t.ver]_vars

(* A change of claims is always followed by an INCR: no interleaving of role *)
(* renames, removals and bumps leaves a user behind.                         *)
OwedIncrHappens == \A u \in Users : u \in dirty ~> u \notin dirty

(* To its clients the protocol is VersionedClaims: whatever the requests do  *)
(* between their awaits, a token is only ever admitted with claims that are  *)
(* current or owed an INCR, and an INCR refuses all tokens before it.        *)
ClaimsOf(u) == [roles |-> RolesOf(u), teams |-> TeamsOf(u)]
Admitted == {[sub |-> t.sub, claims |-> [roles |-> t.roles, teams |-> t.teams]] :
                 t \in {x \in tokens : Accepted(x)}}

Promise == INSTANCE VersionedClaims
    WITH Subjects <- Users, ClaimValues <- [roles : RoleClaims, teams : TeamClaims],
         claims <- [u \in Users |-> {ClaimsOf(u)}], owed <- dirty, admitted <- Admitted

ImplementsVersionedClaims == Promise!ClaimsSpec
=============================================================================
