--------------------------- MODULE PermissionCache ---------------------------
(***************************************************************************)
(* The functional permissions of a request.  JwtAuthGuard asks             *)
(* PermissionCacheService for the permission strings of the user's roles;  *)
(* the service keeps them per user together with an ETag, the newest of    *)
(* the user's assigned_at and the roles' updated_at, and fetches again     *)
(* when the ETag of the database differs.  FunctionalPermissionGuard then  *)
(* looks for the required string or for "*:*".                             *)
(*                                                                         *)
(* Prisma stamps a row when the request is made, the database commits it   *)
(* later: writer requests take their stamp in one step and commit in       *)
(* another, so that stamps may commit out of order (as they do with        *)
(* several API processes whose clocks differ).  Removing an assignment     *)
(* stamps nothing.                                                         *)
(*                                                                         *)
(* One API process, one tenant: each process has a cache of its own, and   *)
(* a role of another tenant is left out by the ETag and the fetch alike.   *)
(***************************************************************************)
EXTENDS Naturals, FiniteSets, FiniteSetsExt

CONSTANTS
    Users, Roles,
    Perms,          \* permission strings, "*:*" left out
    Wildcard,       \* "*:*"
    PermSets,       \* the permission lists a role may have
    Readers,        \* requests that need their permissions
    Writers,        \* requests that assign a role or change one
    MaxTime,        \* bound: ticks of the clock
    MaxWrites,      \* bound: writes in a behaviour
    NoOne,
    ErrorEtag,      \* the ETag of a failed query, error-<now>: taken to equal no other
    NoEtag          \* no cache entry

ASSUME ConstantsAssumption ==
    /\ Wildcard \notin Perms
    /\ PermSets \subseteq SUBSET (Perms \cup {Wildcard})
    /\ NoOne \notin Users \cup Roles
    /\ ErrorEtag \notin Nat /\ NoEtag \notin Nat /\ ErrorEtag # NoEtag
    /\ MaxTime \in Nat
    /\ MaxWrites \in Nat

VARIABLES
    role,       \* table roles: permissions and updated_at; absent once deleted
    assignedAt, \* table user_roles: assigned_at, 0 where there is no row
    cache,      \* PermissionCacheService.cache
    reader,     \* the calls of getFunctionalPermissions
    writer,     \* the calls of assignRole and update under way
    now,        \* the clock, in ticks of a millisecond
    newest,     \* history: the newest ETag each user has ever had
    late,       \* history: users for whom a write committed behind a newer one
    removed,    \* history: users who lost an assignment
    writes      \* writes begun so far (bound only)

vars == <<role, assignedAt, cache, reader, writer, now, newest, late, removed, writes>>

AllPerms == Perms \cup {Wildcard}
NoEntry == [etag |-> NoEtag, perms |-> {}]

(* An ETag is a time, "no-permissions", or error-<now> when the query failed *)
NoPermissions == 0
Etag == Nat \cup {ErrorEtag, NoEtag}

(* rows is what the first SELECT of a fetch returned.  held and seen are     *)
(* history: which role granted what during the whole of the call, and what   *)
(* the user was allowed at some moment of it.  A call that has answered has  *)
(* no more use of its etag.                                                  *)
IdleReader == [pc |-> "idle", user |-> NoOne, etag |-> NoPermissions, rows |-> {},
               perms |-> {}, held |-> {}, seen |-> {}]
IdleWriter == [pc |-> "idle", user |-> NoOne, role |-> NoOne, perms |-> {}, stamp |-> 0]

-----------------------------------------------------------------------------
Greatest(a, b) == IF a >= b THEN a ELSE b

RolesOf(u) == {r \in Roles : assignedAt[<<u, r>>] # 0}

(* SELECT MAX(GREATEST(ur.assigned_at, r.updated_at)) *)
EtagOf(u) ==
    IF RolesOf(u) = {} THEN NoPermissions
    ELSE Max({Greatest(assignedAt[<<u, r>>], role[r].updatedAt) : r \in RolesOf(u)})

(* performFullFetch: "*:*" covers everything else. *)
PermsIn(rows) ==
    LET all == UNION {role[r].perms : r \in rows} IN
    IF Wildcard \in all THEN {Wildcard} ELSE all

PermsOf(u) == PermsIn(RolesOf(u))

(* FunctionalPermissionGuard: the required strings a permission set admits. *)
Admits(perms) == IF Wildcard \in perms THEN AllPerms ELSE perms

(* What the user is allowed, and by which role. *)
GrantsOf(u) ==
    {rp \in Roles \X AllPerms : rp[1] \in RolesOf(u) /\ rp[2] \in Admits(role[rp[1]].perms)}

(* Roles and assignments made before time 2 carry the stamp 1. *)
Init ==
    /\ role \in [Roles -> [exists : {TRUE}, perms : PermSets, updatedAt : {1}]]
    /\ assignedAt \in [Users \X Roles -> {0, 1}]
    /\ cache = [u \in Users |-> NoEntry]
    /\ reader = [q \in Readers |-> IdleReader]
    /\ writer = [w \in Writers |-> IdleWriter]
    /\ now = 2
    /\ newest = [u \in Users |-> EtagOf(u)]
    /\ late = {}
    /\ removed = {}
    /\ writes = 0

-----------------------------------------------------------------------------
(* Writes. *)

(* The calls under way see the new database. *)
Observe ==
    LET allowed == [u \in Users |-> Admits(PermsOf(u))']
        grants == [u \in Users |-> GrantsOf(u)'] IN
    reader' = [q \in Readers |->
                 IF reader[q].pc \in {"idle", "answered"} THEN reader[q]
                 ELSE [reader[q] EXCEPT !.held = @ \cap grants[reader[q].user],
                                        !.seen = @ \cup allowed[reader[q].user]]]

(* The users in us have new rows; those whose ETag did not grow are late.    *)
Stamped(us) ==
    /\ newest' = [u \in Users |-> Greatest(newest[u], EtagOf(u)')]
    /\ late' = late \cup {u \in us : EtagOf(u)' <= newest[u]}

Begin(w, rest) ==
    /\ writer[w].pc = "idle"
    /\ writes < MaxWrites
    /\ writes' = writes + 1
    /\ writer' = [writer EXCEPT ![w] = rest]
    /\ UNCHANGED <<role, assignedAt, cache, reader, now, newest, late, removed>>

BeginAssignRole(w, u, r) ==
    /\ role[r].exists /\ assignedAt[<<u, r>>] = 0
    /\ Begin(w, [IdleWriter EXCEPT !.pc = "assign", !.user = u, !.role = r, !.stamp = now])

BeginUpdateRole(w, r, perms) ==
    /\ role[r].exists
    /\ Begin(w, [IdleWriter EXCEPT !.pc = "update", !.role = r, !.perms = perms,
                                   !.stamp = now])

(* The database refuses the row if another request was first. *)
CommitAssignRole(w) ==
    LET x == writer[w] IN
    /\ x.pc = "assign"
    /\ IF role[x.role].exists /\ assignedAt[<<x.user, x.role>>] = 0
       THEN /\ assignedAt' = [assignedAt EXCEPT ![<<x.user, x.role>>] = x.stamp]
            /\ UNCHANGED role
            /\ Stamped({x.user})
            /\ Observe
       ELSE UNCHANGED <<role, assignedAt, reader, newest, late>>
    /\ writer' = [writer EXCEPT ![w] = IdleWriter]
    /\ UNCHANGED <<cache, now, removed, writes>>

CommitUpdateRole(w) ==
    LET x == writer[w] IN
    /\ x.pc = "update"
    /\ IF role[x.role].exists
       THEN /\ role' = [role EXCEPT ![x.role].perms = x.perms, ![x.role].updatedAt = x.stamp]
            /\ UNCHANGED assignedAt
            /\ Stamped({u \in Users : x.role \in RolesOf(u)})
            /\ Observe
       ELSE UNCHANGED <<role, assignedAt, reader, newest, late>>
    /\ writer' = [writer EXCEPT ![w] = IdleWriter]
    /\ UNCHANGED <<cache, now, removed, writes>>

(* Rows of user_roles go: no stamp, the ETag can only fall.                  *)
Unassign(pairs) ==
    /\ assignedAt' = [ur \in Users \X Roles |-> IF ur \in pairs THEN 0 ELSE assignedAt[ur]]
    /\ removed' = removed \cup {ur[1] : ur \in {p \in pairs : assignedAt[p] # 0}}
    /\ UNCHANGED <<role, newest, late>>
    /\ Observe

RemoveRole(u, r) ==
    /\ writes < MaxWrites
    /\ writes' = writes + 1
    /\ assignedAt[<<u, r>>] # 0
    /\ Unassign({<<u, r>>})
    /\ UNCHANGED <<cache, writer, now>>

BeginDeleteRole(w, r) ==
    /\ role[r].exists
    /\ Begin(w, [IdleWriter EXCEPT !.pc = "strip", !.role = r])

StripRole(w) ==
    /\ writer[w].pc = "strip"
    /\ Unassign(Users \X {writer[w].role})
    /\ writer' = [writer EXCEPT ![w].pc = "drop"]
    /\ UNCHANGED <<cache, now, writes>>

(* Mutant: no foreign key. *)
DropAssignedRole(w) ==
    LET r == writer[w].role IN
    /\ writer[w].pc = "drop"
    /\ role' = [role EXCEPT ![r].exists = FALSE]
    /\ writer' = [writer EXCEPT ![w] = IdleWriter]
    /\ UNCHANGED <<assignedAt, cache, reader, now, newest, late, removed, writes>>

(* The foreign key of user_roles refuses the delete if the role was assigned *)
(* again.                                                                    *)
DropRole(w) ==
    LET r == writer[w].role IN
    /\ writer[w].pc = "drop"
    /\ role' = IF \E u \in Users : r \in RolesOf(u) THEN role
               ELSE [role EXCEPT ![r].exists = FALSE]
    /\ writer' = [writer EXCEPT ![w] = IdleWriter]
    /\ UNCHANGED <<assignedAt, cache, reader, now, newest, late, removed, writes>>

Tick ==
    /\ now < MaxTime
    /\ now' = now + 1
    /\ UNCHANGED <<role, assignedAt, cache, reader, writer, newest, late, removed, writes>>

-----------------------------------------------------------------------------
(* getFunctionalPermissions. *)

(* The query of calculateEtag, which may fail; what the user is allowed is   *)
(* observed from here on.                                                    *)
ReadEtag(q, u) ==
    /\ reader[q].pc = "idle"
    /\ \E etag \in {EtagOf(u), ErrorEtag} :
          reader' = [reader EXCEPT ![q] =
                       [pc |-> "lookup", user |-> u, etag |-> etag, rows |-> {}, perms |-> {},
                        held |-> GrantsOf(u), seen |-> Admits(PermsOf(u))]]
    /\ UNCHANGED <<role, assignedAt, cache, writer, now, newest, late, removed, writes>>

(* Mutant: an entry is good whatever its ETag. *)
LookupAnyEntry(q) ==
    LET entry == cache[reader[q].user] IN
    /\ reader[q].pc = "lookup"
    /\ reader' = [reader EXCEPT ![q] =
                    IF entry.etag # NoEtag
                    THEN [reader[q] EXCEPT !.pc = "answered", !.etag = NoPermissions,
                                           !.perms = entry.perms]
                    ELSE [reader[q] EXCEPT !.pc = "fetch"]]
    /\ UNCHANGED <<role, assignedAt, cache, writer, now, newest, late, removed, writes>>

Lookup(q) ==
    LET entry == cache[reader[q].user] IN
    /\ reader[q].pc = "lookup"
    /\ reader' = [reader EXCEPT ![q] =
                    IF entry.etag = reader[q].etag /\ entry.etag # ErrorEtag
                    THEN [reader[q] EXCEPT !.pc = "answered", !.etag = NoPermissions,
                                           !.perms = entry.perms]
                    ELSE [reader[q] EXCEPT !.pc = "fetch"]]
    /\ UNCHANGED <<role, assignedAt, cache, writer, now, newest, late, removed, writes>>

(* findMany with its include is two SELECTs, in no transaction: the user's   *)
(* rows of user_roles, then the roles of those rows.                         *)
FetchAssignments(q) ==
    LET rows == RolesOf(reader[q].user) IN
    /\ reader[q].pc = "fetch"
    /\ reader' = [reader EXCEPT ![q].pc = "roles", ![q].rows = rows]
    /\ UNCHANGED <<role, assignedAt, cache, writer, now, newest, late, removed, writes>>

FetchRoles(q) ==
    LET perms == PermsIn(reader[q].rows) IN
    /\ reader[q].pc = "roles"
    /\ \A r \in reader[q].rows : role[r].exists
    /\ reader' = [reader EXCEPT ![q].pc = "store", ![q].rows = {}, ![q].perms = perms]
    /\ UNCHANGED <<role, assignedAt, cache, writer, now, newest, late, removed, writes>>

(* A SELECT fails, or a row's role is gone by the second one; the guard lets *)
(* the error through and nothing is stored.                                  *)
FetchFails(q) ==
    /\ reader[q].pc \in {"fetch", "roles"}
    /\ reader' = [reader EXCEPT ![q] = IdleReader]
    /\ UNCHANGED <<role, assignedAt, cache, writer, now, newest, late, removed, writes>>

(* Mutant: the ETag is read again after the fetch. *)
StoreNewEtag(q) ==
    /\ reader[q].pc = "store"
    /\ cache' = [cache EXCEPT ![reader[q].user] =
                   [etag |-> EtagOf(reader[q].user), perms |-> reader[q].perms]]
    /\ reader' = [reader EXCEPT ![q].pc = "answered", ![q].etag = NoPermissions]
    /\ UNCHANGED <<role, assignedAt, writer, now, newest, late, removed, writes>>

(* A fetch that began before another one may store its entry last.           *)
Store(q) ==
    /\ reader[q].pc = "store"
    /\ cache' = [cache EXCEPT ![reader[q].user] =
                   [etag |-> reader[q].etag, perms |-> reader[q].perms]]
    /\ reader' = [reader EXCEPT ![q].pc = "answered", ![q].etag = NoPermissions]
    /\ UNCHANGED <<role, assignedAt, writer, now, newest, late, removed, writes>>

Return(q) ==
    /\ reader[q].pc = "answered"
    /\ reader' = [reader EXCEPT ![q] = IdleReader]
    /\ UNCHANGED <<role, assignedAt, cache, writer, now, newest, late, removed, writes>>

-----------------------------------------------------------------------------
Write(w) ==
    \/ \E u \in Users, r \in Roles : BeginAssignRole(w, u, r)
    \/ \E r \in Roles, perms \in PermSets : BeginUpdateRole(w, r, perms)
    \/ \E r \in Roles : BeginDeleteRole(w, r)
    \/ CommitAssignRole(w) \/ CommitUpdateRole(w) \/ StripRole(w) \/ DropRole(w)

Read(q) ==
    \/ \E u \in Users : ReadEtag(q, u)
    \/ Lookup(q) \/ FetchAssignments(q) \/ FetchRoles(q) \/ FetchFails(q)
    \/ Store(q) \/ Return(q)

Next ==
    \/ \E w \in Writers : Write(w)
    \/ \E u \in Users, r \in Roles : RemoveRole(u, r)
    \/ \E q \in Readers : Read(q)
    \/ Tick

Spec == Init /\ [][Next]_vars
-----------------------------------------------------------------------------
(* Properties. *)

TypeOK ==
    /\ role \in [Roles -> [exists : BOOLEAN, perms : SUBSET AllPerms, updatedAt : Nat \ {0}]]
    /\ assignedAt \in [Users \X Roles -> Nat]
    /\ \A ur \in Users \X Roles : assignedAt[ur] # 0 => role[ur[2]].exists
    /\ cache \in [Users -> [etag : Etag, perms : SUBSET AllPerms]]
    /\ reader \in [Readers -> [pc : {"idle", "lookup", "fetch", "roles", "store", "answered"},
                               user : Users \cup {NoOne}, etag : Etag, rows : SUBSET Roles,
                               perms : SUBSET AllPerms, held : SUBSET (Roles \X AllPerms),
                               seen : SUBSET AllPerms]]
    /\ writer \in [Writers -> [pc : {"idle", "assign", "update", "strip", "drop"},
                               user : Users \cup {NoOne}, role : Roles \cup {NoOne},
                               perms : SUBSET AllPerms, stamp : Nat]]
    /\ now \in Nat \ {0}
    /\ newest \in [Users -> Nat]
    /\ late \subseteq Users
    /\ removed \subseteq Users
    /\ writes \in Nat

(* A request is admitted to everything that one of its user's roles granted  *)
(* during the whole of it, unless a write of the user's roles committed      *)
(* behind a newer stamp: the ETag is read before the permissions, and writes *)
(* between the two SELECTs of a fetch, a fetch that stores an older entry    *)
(* last, or an ETag that comes back after a removal, do no harm.  What       *)
(* passes from one role to another between the two SELECTs is not promised:  *)
(* that one call may miss it.                                                *)
AnswersMissNothing ==
    \A q \in Readers :
        LET x == reader[q] IN
        x.pc = "answered" /\ x.user \notin late =>
            \A rp \in x.held : rp[2] \in Admits(x.perms)

(* A request is admitted only to what its user was allowed at some moment of *)
(* it, unless a stamp was late or the user lost an assignment, which may     *)
(* leave the ETag as it was.                                                 *)
AnswersAddNothing ==
    \A q \in Readers :
        LET x == reader[q] IN
        x.pc = "answered" /\ x.user \notin late \cup removed => Admits(x.perms) \subseteq x.seen
=============================================================================
