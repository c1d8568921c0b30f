----------------------------- MODULE RowAccess -----------------------------
(***************************************************************************)
(* Row-level permissions (permission.service.ts) and the operations that    *)
(* hand them out: the creation of clients, jobs, applications and           *)
(* candidates, and the assignment of jobs.  One row of each type is enough: *)
(* the job is the client's, the application is the candidate's to the job.  *)
(* A permission and its audit row are written by separate statements; the   *)
(* grants of one call run side by side (Promise.all), and one that fails    *)
(* does not stop the others.                                                *)
(*                                                                         *)
(* No code grants to a role or on an offer or interview, and no caller sets *)
(* an expiry, so these are left out.                                        *)
(***************************************************************************)
EXTENDS Integers, FiniteSets, Sequences

CONSTANTS
    People,
    TeamRole,           \* role of each person in the one team: MEMBER, LEAD or none
    Scope,              \* the widest data scope of each person's roles
    AccessCallers,      \* requests that run an operation of this module
    MaxAccessCalls,     \* bound: operations started in a behaviour
    Nobody

Types == {"Client", "Job", "JobApplication", "Candidate"}
Levels == {"VIEW", "EDIT", "OWNER"}
LevelOrder == [NONE |-> 0, VIEW |-> 1, EDIT |-> 2, OWNER |-> 3]

(* The seeded cascade rules whose source can be granted.                     *)
CascadeRules ==
    {[from |-> "JobApplication", to |-> "Candidate", min |-> "VIEW", grant |-> "VIEW"],
     [from |-> "JobApplication", to |-> "Job", min |-> "VIEW", grant |-> "VIEW"],
     [from |-> "Client", to |-> "Job", min |-> "OWNER", grant |-> "EDIT"]}

Team == "team"
Grantees == People \cup {Team}
Keys == Grantees \X Types       \* unique: one permission per grantee and row

ASSUME RowAccessAssumption ==
    /\ Team \notin People /\ Nobody \notin Grantees
    /\ TeamRole \in [People -> {"none", "MEMBER", "LEAD"}]
    /\ Scope \in [People -> {"MINE", "MY_TEAMS", "TEAM_TREE", "ALL"}]
    /\ MaxAccessCalls \in Nat

VARIABLES
    row,        \* who created, owns (bdUserId for the client) and is assigned each row
    perm,       \* table permissions: [id, level], NONE for no row
    audit,      \* table permission_grants: the rows of each key in order
    grants,     \* per request: the grants and revocations it is running
    torn,       \* history: keys of overlapping calls, or of one that stopped
    ungranted,  \* history: who was put on a row, and which, without a grant
    accessCalls \* operations started so far (bound only)

rowAccessVars == <<row, perm, audit, grants, torn, ungranted, accessCalls>>

Absent == [creator |-> Nobody, owner |-> Nobody, assigned |-> Nobody]
NoPerm == [id |-> 0, level |-> "NONE"]

Exist(x) == row[x] # Absent

-----------------------------------------------------------------------------
(* The operations that grant.  Their rows are those of Jobs, Applications    *)
(* and Candidates; here only the people on them matter.                      *)

Grant(k, level) == [pc |-> "find", op |-> "grant", key |-> k, level |-> level, seen |-> NoPerm]

JobGrants(u, owner, bd) ==
    {Grant(<<u, "Job">>, "OWNER")}
    \cup {Grant(<<v, "Job">>, "EDIT") : v \in {owner} \ {u}}
    \cup {Grant(<<v, "Job">>, "VIEW") : v \in {bd} \ {u, owner}}
CandidateGrants(u) ==
    {Grant(<<u, "Candidate">>, "OWNER")}
    \cup {Grant(<<t, "Candidate">>, "VIEW") :
             t \in IF TeamRole[u] = "none" THEN {} ELSE {Team}}

Persons(u, owner) == [creator |-> u, owner |-> owner, assigned |-> Nobody]

(* The tables are empty, or a client, its job and a candidate are there with *)
(* the grants that creating them left.                                       *)
Holds(rows, given) ==
    LET level(k) == {g.level : g \in {h \in given : h.key = k}} IN
    /\ row = rows
    /\ perm = [k \in Keys |-> IF level(k) = {} THEN NoPerm
                              ELSE [id |-> 1, level |-> CHOOSE l \in level(k) : TRUE]]
    /\ audit = [k \in Keys |-> IF level(k) = {} THEN <<>>
          ELSE <<[action |-> "GRANT", from |-> "NONE", to |-> CHOOSE l \in level(k) : TRUE]>>]
    /\ grants = [q \in AccessCallers |-> {}]
    /\ torn = {} /\ ungranted = {}
    /\ accessCalls = 0

NoRows == Holds([x \in Types |-> Absent], {})
RowAccessInit ==
    \/ NoRows
    \/ \E bd, u, v \in People :
          Holds([Client |-> Persons(bd, bd), Job |-> Persons(u, v), Candidate |-> Persons(u, u),
                 JobApplication |-> Absent],
                {Grant(<<bd, "Client">>, "OWNER")} \cup JobGrants(u, v, bd) \cup CandidateGrants(u))

BeginGrants(q, x, people, todo, ignored) ==
    /\ grants[q] = {}
    /\ accessCalls < MaxAccessCalls
    /\ accessCalls' = accessCalls + 1
    /\ row' = [row EXCEPT ![x] = people]
    /\ grants' = [grants EXCEPT ![q] = todo]
    /\ torn' = torn \cup {g.key : g \in {h \in todo :
                  \E p \in AccessCallers : \E i \in grants[p] : i.key = h.key}}
    /\ ungranted' = ungranted \cup ignored
    /\ UNCHANGED <<perm, audit>>

NewClient(q, u, bd) ==
    /\ ~Exist("Client")
    /\ BeginGrants(q, "Client", Persons(u, bd),
                   {Grant(<<bd, "Client">>, "OWNER")}, {})

(* An assignee given with a new job is not granted anything.                 *)
NewJob(q, u, owner, assigned) ==
    /\ Exist("Client") /\ ~Exist("Job")
    /\ BeginGrants(q, "Job", [Persons(u, owner) EXCEPT !.assigned = assigned],
                   JobGrants(u, owner, row["Client"].owner),
                   {<<assigned, "Job">>} \ {<<Nobody, "Job">>})

NewCandidate(q, u, owner) ==
    /\ ~Exist("Candidate")
    /\ BeginGrants(q, "Candidate", Persons(u, owner),
                   CandidateGrants(u), {})

NewApplication(q, u, owner) ==
    /\ Exist("Job") /\ Exist("Candidate") /\ ~Exist("JobApplication")
    /\ BeginGrants(q, "JobApplication", Persons(u, owner),
                   {Grant(<<owner, "JobApplication">>, "EDIT")}, {})

(* JobService.assign; nobody's grant is taken back.                          *)
AssignJob(q, u) ==
    /\ Exist("Job")
    /\ BeginGrants(q, "Job", [row["Job"] EXCEPT !.assigned = u],
                   {Grant(<<v, "Job">>, "EDIT") : v \in {u} \ {Nobody}}, {})

(* update of a client, job or candidate with a new owner, or of a job with a *)
(* new assignee: no grant.                                                   *)
PutOn(x, u, people) ==
    /\ Exist(x) /\ people # row[x]
    /\ accessCalls < MaxAccessCalls
    /\ accessCalls' = accessCalls + 1
    /\ row' = [row EXCEPT ![x] = people]
    /\ ungranted' = ungranted \cup {<<u, x>>}
    /\ UNCHANGED <<perm, audit, grants, torn>>

ChangeOwner(x, u) == x # "JobApplication" /\ PutOn(x, u, [row[x] EXCEPT !.owner = u])
ChangeAssignee(u) == PutOn("Job", u, [row["Job"] EXCEPT !.assigned = u])

Revoke(q, k) ==
    /\ perm[k].level # "NONE"
    /\ grants[q] = {}
    /\ accessCalls < MaxAccessCalls
    /\ accessCalls' = accessCalls + 1
    /\ grants' = [grants EXCEPT ![q] = {[pc |-> "audit", op |-> "revoke", key |-> k,
                                         level |-> "NONE", seen |-> perm[k]]}]
    /\ UNCHANGED <<row, perm, audit, torn, ungranted>>

-----------------------------------------------------------------------------
(* The steps of one grant or revocation g of request q.                      *)

Becomes(q, g, new) == grants' = [grants EXCEPT ![q] = (@ \ {g}) \cup new]

(* Another call has read the permission of k and is not done with it.        *)
Overlapped(q, g) ==
    \E p \in AccessCallers \ {q} : \E h \in grants[p] : h.key = g.key /\ h.pc # "find"
Tears(q, g) == torn' = IF Overlapped(q, g) THEN torn \cup {g.key} ELSE torn

FindPermissionMutant(q, g) ==
    /\ g.pc = "find"
    /\ Becomes(q, g, IF perm[g.key].level = "NONE" THEN {[g EXCEPT !.pc = "create"]} ELSE {})
    /\ UNCHANGED <<row, perm, audit, torn, ungranted, accessCalls>>
FindPermission(q, g) ==
    LET now == perm[g.key] IN
    /\ g.pc = "find"
    /\ Becomes(q, g, CASE now.level = "NONE"  -> {[g EXCEPT !.pc = "create"]}
                       [] now.level = g.level -> {}
                       [] OTHER               -> {[g EXCEPT !.pc = "reread", !.seen = now]})
    /\ UNCHANGED <<row, perm, audit, torn, ungranted, accessCalls>>

(* adjustLevel reads the row again, by its id.                               *)
RereadPermission(q, g) ==
    LET now == perm[g.key] IN
    /\ g.pc = "reread"
    /\ Becomes(q, g, IF now.id = g.seen.id /\ now.level # "NONE"
                     THEN {[g EXCEPT !.pc = "update", !.seen = now]} ELSE {})
    /\ UNCHANGED <<row, perm, audit, torn, ungranted, accessCalls>>

(* create fails on an existing key, update and delete on a row that is gone. *)
WritePermission(q, g) ==
    LET now == perm[g.key]
        here == now.level # "NONE" /\ now.id = g.seen.id
    IN  /\ CASE g.pc = "create" -> now.level = "NONE"
             [] g.pc \in {"update", "delete"} -> here
             [] OTHER -> FALSE
        /\ perm' = [perm EXCEPT ![g.key] =
              [id |-> IF g.pc = "create" THEN now.id + 1 ELSE now.id, level |-> g.level]]
        /\ Becomes(q, g, IF g.pc = "delete" THEN {} ELSE {[g EXCEPT !.pc = "audit"]})
        /\ Tears(q, g)
        /\ UNCHANGED <<row, audit, ungranted, accessCalls>>

ActionOfMutant(g) == IF g.op = "revoke" THEN "REVOKE"
                     ELSE IF g.seen.level = "NONE" THEN "GRANT" ELSE "UPGRADE"
ActionOf(g) == IF g.op = "revoke" THEN "REVOKE"
               ELSE IF g.seen.level = "NONE" THEN "GRANT"
               ELSE IF LevelOrder[g.level] > LevelOrder[g.seen.level] THEN "UPGRADE"
               ELSE "DOWNGRADE"

WriteAudit(q, g) ==
    /\ g.pc = "audit"
    /\ audit' = [audit EXCEPT ![g.key] =
          Append(@, [action |-> ActionOf(g), from |-> g.seen.level, to |-> g.level])]
    /\ Becomes(q, g, IF g.op = "revoke" THEN {[g EXCEPT !.pc = "delete"]} ELSE {})
    /\ Tears(q, g)
    /\ UNCHANGED <<row, perm, ungranted, accessCalls>>

(* A statement fails: this grant ends, the others of the request go on.      *)
GrantFails(q, g) ==
    /\ Becomes(q, g, {})
    /\ torn' = torn \cup {g.key}
    /\ UNCHANGED <<row, perm, audit, ungranted, accessCalls>>

RowAccessNext ==
    \/ \E q \in AccessCallers, u \in People :
          \E v \in People : \/ NewClient(q, u, v) \/ NewCandidate(q, u, v)
                            \/ NewApplication(q, u, v)
                            \/ \E w \in People \cup {Nobody} : NewJob(q, u, v, w)
    \/ \E q \in AccessCallers, u \in People \cup {Nobody} : AssignJob(q, u)
    \/ \E u \in People : ChangeAssignee(u) \/ \E x \in Types : ChangeOwner(x, u)
    \/ \E q \in AccessCallers, k \in Keys : Revoke(q, k)
    \/ \E q \in AccessCallers : \E g \in grants[q] :
          \/ FindPermission(q, g) \/ RereadPermission(q, g) \/ WritePermission(q, g)
          \/ WriteAudit(q, g) \/ GrantFails(q, g)

RowAccessSpec == RowAccessInit /\ [][RowAccessNext]_rowAccessVars

-----------------------------------------------------------------------------
(* effectiveLevel.  A direct grant, whatever its level, is the answer; the   *)
(* cascade rules come next, the first that matches in the order the database *)
(* returns them, which nothing fixes; data scope ALL comes last.  The result *)
(* is the set of levels the call may return.                                 *)

Capped(u, g, level) == IF g = Team /\ TeamRole[u] = "MEMBER" /\ level = "OWNER"
                       THEN "EDIT" ELSE level
GranteesOf(u) == {u} \cup (IF TeamRole[u] = "none" THEN {} ELSE {Team})
Direct(u, x) == {Capped(u, g, perm[<<g, x>>].level) :
                    g \in {h \in GranteesOf(u) : perm[<<h, x>>].level # "NONE"}}
Highest(S) == CHOOSE l \in S : \A m \in S : LevelOrder[m] <= LevelOrder[l]
AtLeast(l, m) == LevelOrder[l] >= LevelOrder[m]
ScopeLevel(u) == IF Scope[u] = "ALL" THEN "OWNER" ELSE "NONE"

(* The level on a row no rule leads to: the sources of the rules are such.   *)
SourceLevel(u, x) == IF Direct(u, x) # {} THEN Highest(Direct(u, x)) ELSE ScopeLevel(u)
Matching(u, x) ==
    {r \in CascadeRules : r.to = x /\ Exist(r.from) /\ AtLeast(SourceLevel(u, r.from), r.min)}

EffectiveLevels(u, x) ==
    IF Direct(u, x) # {} THEN {Highest(Direct(u, x))}
    ELSE IF Matching(u, x) # {} THEN {r.grant : r \in Matching(u, x)}
    ELSE {ScopeLevel(u)}

Can(u, x, min) == \A l \in EffectiveLevels(u, x) : AtLeast(l, min)

(* What the lists of the services show.  The two team scopes are alike in    *)
(* the code: rows whose owner shares a team with the reader.                 *)
ListedBy(u, x, persons) ==
    \/ Scope[u] = "ALL"
    \/ u \in persons
    \/ Direct(u, x) # {}
    \/ /\ Scope[u] \in {"MY_TEAMS", "TEAM_TREE"} /\ TeamRole[u] # "none"
       /\ row[x].owner # Nobody /\ TeamRole[row[x].owner] # "none"
ListsClient(u) == ListedBy(u, "Client", {row["Client"].owner, row["Client"].creator})
ListsJob(u) ==
    ListedBy(u, "Job", {row["Job"].owner, row["Job"].assigned, row["Job"].creator})
ListsCandidate(u) ==
    ListedBy(u, "Candidate", {row["Candidate"].owner, row["Candidate"].creator})

-----------------------------------------------------------------------------
GrantRecord == [pc : {"find", "create", "reread", "update", "audit", "delete"},
                op : {"grant", "revoke"}, key : Keys, level : Levels \cup {"NONE"},
                seen : [id : Nat, level : Levels \cup {"NONE"}]]
AuditRecord == [action : {"GRANT", "UPGRADE", "DOWNGRADE", "REVOKE"},
                from : Levels \cup {"NONE"}, to : Levels \cup {"NONE"}]

RowAccessTypeOK ==
    /\ row \in [Types -> [creator : People \cup {Nobody}, owner : People \cup {Nobody},
                          assigned : People \cup {Nobody}]]
    /\ perm \in [Keys -> [id : Nat, level : Levels \cup {"NONE"}]]
    /\ \A k \in Keys : \A i \in DOMAIN audit[k] : audit[k][i] \in AuditRecord
    /\ \A q \in AccessCallers : grants[q] \subseteq GrantRecord
    /\ torn \subseteq Keys /\ ungranted \subseteq People \X Types
    /\ accessCalls \in 0..MaxAccessCalls

Writing(k) == \E q \in AccessCallers : \E g \in grants[q] : g.key = k /\ g.pc # "find"

(* The audit rows of a grantee and row tell the history of the permission:   *)
(* each continues from the last, an upgrade raises and a downgrade lowers,   *)
(* and the last one names the level in the table; unless calls overlapped on *)
(* the key or one stopped halfway.                                           *)
AuditExplainsTable ==
    \A k \in Keys \ torn :
        ~Writing(k) =>
            LET log == audit[k]
                levels == <<"NONE">> \o [i \in DOMAIN log |-> log[i].to]
            IN  /\ \A i \in DOMAIN log :
                      /\ log[i].from = levels[i]
                      /\ log[i].action = IF levels[i] = "NONE" THEN "GRANT"
                                          ELSE IF log[i].to = "NONE" THEN "REVOKE"
                                          ELSE IF AtLeast(levels[i], log[i].to) THEN "DOWNGRADE"
                                          ELSE "UPGRADE"
                /\ levels[Len(levels)] = perm[k].level

(* Whoever answers for a row finds it in the lists and may edit it once the  *)
(* grants ran: the creator of a candidate or job, the owner or assignee of a *)
(* job, the business owner of a client, the owner of an application; unless  *)
(* the grant failed or overlapped, was revoked, or there was none to run,    *)
(* as for an owner or assignee that an update or a new job names.            *)
Responsible(x) ==
    CASE x = "Job"       -> {row[x].creator, row[x].owner, row[x].assigned}
      [] x = "Candidate" -> {row[x].creator}
      [] OTHER           -> {row[x].owner}
Settled(u, x) ==
    /\ <<u, x>> \notin torn
    /\ \A q \in AccessCallers : \A g \in grants[q] : g.key # <<u, x>>
    /\ \A i \in DOMAIN audit[<<u, x>>] : audit[<<u, x>>][i].action # "REVOKE"
Lists(u, x) == CASE x = "Client"    -> ListsClient(u)
                 [] x = "Job"       -> ListsJob(u)
                 [] x = "Candidate" -> ListsCandidate(u)
                 [] OTHER           -> TRUE
ResponsibleMayEdit ==
    \A x \in Types : \A u \in Responsible(x) \ {Nobody} :
        <<u, x>> \notin ungranted /\ Settled(u, x) => Lists(u, x) /\ Can(u, x, "EDIT")
=============================================================================
