------------------------------ MODULE Accounts ------------------------------
(***************************************************************************)
(* How people come to an account and keep one: UserService.invite,          *)
(* TenantService.create, the request of a reset link with its hourly limit, *)
(* and the password a link sets with the history it is checked against      *)
(* (auth.service.ts, password.service.ts, redis.service.ts).  One person;   *)
(* what a reset does to sessions is in Sessions.                            *)
(***************************************************************************)
EXTENDS Integers, Sequences, FiniteSets

CONSTANTS
    Tenants,
    Passwords, Unset,   \* Unset: the random hash of an identity that was invited
    HistorySize,        \* PasswordPolicy.historySize
    RequestLimit,       \* requests of a link in one window (3)
    AccountCallers,     \* requests that run an operation of this module
    MaxAccountCalls, MaxLinks   \* bounds: operations started, links made

ASSUME AccountsAssumption ==
    /\ Unset \notin Passwords /\ Unset \notin Tenants
    /\ HistorySize \in Nat \ {0} /\ RequestLimit \in Nat \ {0}
    /\ MaxAccountCalls \in Nat /\ MaxLinks \in Nat \ {0}

VARIABLES
    tenants,        \* table tenants
    users,          \* tenants that have a user row of the person
    identity,       \* the person's identity: [row, password]
    past, forgot,   \* password_history, oldest first, and how many rows are deleted
    links, usable,  \* links made so far; those neither used nor expired
    asked,          \* Redis: [count, expires] of the person's requests
    accountCall,    \* what each request is doing
    had,            \* history: every password the identity had, in order
    crowded,        \* history: two resets overlapped, or one stopped after its save
    stuck,          \* history: a request ended between INCR and EXPIRE
    accountCalls    \* operations started so far (bound only)

accountsVars == <<tenants, users, identity, past, forgot, links, usable, asked, accountCall,
                  had, crowded, stuck, accountCalls>>
passwordVars == <<past, forgot, had, crowded>>
linkVars == <<links, usable>>
askedVars == <<asked, stuck>>

NoAccountCall == [pc |-> "idle", tenant |-> Unset, link |-> 0,
                  password |-> Unset, seen |-> Unset, cut |-> 0]

AccountTables(ts, known, p) ==
    /\ tenants = ts
    /\ users = IF known THEN ts ELSE {}
    /\ identity = [row |-> known, password |-> p]
    /\ past = <<>> /\ forgot = 0
    /\ links = (IF known THEN 1 ELSE 0) /\ usable = 1..links
    /\ asked = [count |-> links, expires |-> known]
    /\ accountCall = [q \in AccountCallers |-> NoAccountCall]
    /\ had = IF known THEN <<p>> ELSE <<>>
    /\ crowded = FALSE /\ stuck = FALSE
    /\ accountCalls = 0

NoAccounts == AccountTables({}, FALSE, Unset)

(* Nobody has been invited, or the person signs in with a password and has   *)
(* asked for a link within the hour.                                         *)
AccountsInit ==
    \E t \in Tenants :
        \/ AccountTables({t}, FALSE, Unset)
        \/ \E p \in Passwords : AccountTables({t}, TRUE, p)

-----------------------------------------------------------------------------
BeginAccountCall(q, call) ==
    /\ accountCall[q].pc = "idle"
    /\ accountCalls < MaxAccountCalls
    /\ accountCalls' = accountCalls + 1
    /\ accountCall' = [accountCall EXCEPT ![q] = call]
    /\ UNCHANGED <<tenants, users, identity>>

Goes(q, pc) == accountCall' = [accountCall EXCEPT ![q].pc = pc]
Stops(q) == accountCall' = [accountCall EXCEPT ![q] = NoAccountCall]
MakeLink ==
    /\ links < MaxLinks
    /\ links' = links + 1 /\ usable' = usable \cup {links + 1}

(* invite: no user of this email in the tenant, no user of the identity at   *)
(* all, then identity, user, roles and link, a statement each.               *)
Invite(q, t) ==
    /\ t \in tenants /\ t \notin users
    /\ BeginAccountCall(q, [NoAccountCall EXCEPT !.pc = "identify", !.tenant = t])
    /\ UNCHANGED <<passwordVars, linkVars, askedVars>>

FindIdentity(q) ==
    /\ accountCall[q].pc = "identify"
    /\ IF ~identity.row THEN Goes(q, "identity")
       ELSE IF users = {} THEN Goes(q, "user") ELSE Stops(q)
    /\ UNCHANGED <<tenants, users, identity, passwordVars, linkVars, askedVars, accountCalls>>

(* The email is unique: a second identity is refused.                        *)
CreateIdentity(q) ==
    /\ accountCall[q].pc = "identity"
    /\ IF identity.row
       THEN Stops(q) /\ UNCHANGED <<identity, had>>
       ELSE Goes(q, "user") /\ identity' = [row |-> TRUE, password |-> Unset] /\ had' = <<Unset>>
    /\ UNCHANGED <<tenants, users, past, forgot, crowded, linkVars, askedVars, accountCalls>>

(* So is the user in its tenant.                                             *)
CreateUser(q) ==
    LET t == accountCall[q].tenant IN
    /\ accountCall[q].pc = "user"
    /\ IF t \in users THEN Stops(q) /\ UNCHANGED users
                      ELSE Goes(q, "roles") /\ users' = users \cup {t}
    /\ UNCHANGED <<tenants, identity, passwordVars, linkVars, askedVars, accountCalls>>

(* An unknown role is an error now that the user is there.                   *)
GiveRoles(q) ==
    /\ accountCall[q].pc = "roles"
    /\ Goes(q, "link") \/ Stops(q)
    /\ UNCHANGED <<tenants, users, identity, passwordVars, linkVars, askedVars, accountCalls>>

(* The last statement that matters of an invitation and of a request.        *)
CreateLink(q) ==
    /\ accountCall[q].pc = "link"
    /\ MakeLink /\ Stops(q)
    /\ UNCHANGED <<tenants, users, identity, passwordVars, askedVars, accountCalls>>

(* TenantService.create: tenant and user in one transaction; the slug is     *)
(* looked up before and unique anyway.                                       *)
CreateTenant(t) ==
    /\ t \notin tenants /\ users # {}
    /\ accountCalls < MaxAccountCalls /\ accountCalls' = accountCalls + 1
    /\ tenants' = tenants \cup {t} /\ users' = users \cup {t}
    /\ UNCHANGED <<identity, passwordVars, linkVars, askedVars, accountCall>>

-----------------------------------------------------------------------------
(* requestPasswordReset: INCR, EXPIRE by the first, the limit, the identity. *)
(* A count above the limit is not told from a higher one.                    *)
ExpiresMutant(count) == count = RequestLimit + 1
Expires(count) == count = 1

IncrementRateLimit(q) ==
    LET count == asked.count + 1 IN
    /\ asked.count <= RequestLimit
    /\ BeginAccountCall(q, [NoAccountCall EXCEPT
          !.pc = IF Expires(count) THEN "expire"
                 ELSE IF count > RequestLimit THEN "idle" ELSE "lookup"])
    /\ asked' = [asked EXCEPT !.count = count]
    /\ UNCHANGED <<passwordVars, linkVars, stuck>>

SetExpiry(q) ==
    /\ accountCall[q].pc = "expire"
    /\ Goes(q, "lookup")
    /\ asked' = IF asked.count = 0 THEN asked ELSE [asked EXCEPT !.expires = TRUE]
    /\ UNCHANGED <<tenants, users, identity, passwordVars, linkVars, stuck, accountCalls>>

LookUpIdentity(q) ==
    /\ accountCall[q].pc = "lookup"
    /\ IF identity.row THEN Goes(q, "link") ELSE Stops(q)
    /\ UNCHANGED <<tenants, users, identity, passwordVars, linkVars, askedVars, accountCalls>>

WindowEnds ==
    /\ asked.expires
    /\ asked' = [count |-> 0, expires |-> FALSE]
    /\ UNCHANGED <<tenants, users, identity, passwordVars, linkVars, stuck, accountCall,
                   accountCalls>>

LinkExpires(n) ==
    /\ n \in usable
    /\ usable' = usable \ {n}
    /\ UNCHANGED <<tenants, users, identity, passwordVars, links, askedVars, accountCall,
                   accountCalls>>

-----------------------------------------------------------------------------
(* confirmPasswordReset, up to the sweep of the sessions.                    *)
Resetting == {q \in AccountCallers :
                 accountCall[q].pc \in {"read", "check", "save", "overflow", "trim", "set", "use"}}

ConfirmReset(q, n, p) ==
    /\ n \in usable
    /\ BeginAccountCall(q, [NoAccountCall EXCEPT !.pc = "read", !.link = n, !.password = p])
    /\ crowded' = (crowded \/ Resetting # {})
    /\ UNCHANGED <<past, forgot, had, linkVars, askedVars>>

ReadPassword(q) ==
    /\ accountCall[q].pc = "read"
    /\ accountCall' = [accountCall EXCEPT ![q].pc = "check", ![q].seen = identity.password]
    /\ UNCHANGED <<tenants, users, identity, passwordVars, linkVars, askedVars, accountCalls>>

(* isPasswordReused: the newest rows of the history, not the password of now.*)
Newest == {past[i] : i \in {j \in DOMAIN past : j > forgot /\ j > Len(past) - HistorySize}}

CheckHistory(q) ==
    /\ accountCall[q].pc = "check"
    /\ IF accountCall[q].password \in Newest THEN Stops(q) ELSE Goes(q, "save")
    /\ UNCHANGED <<tenants, users, identity, passwordVars, linkVars, askedVars, accountCalls>>

(* saveToHistory: the hash read before, then the rows behind the newest.     *)
SaveToHistoryMutant(q) ==
    /\ accountCall[q].pc = "save"
    /\ past' = Append(past, accountCall[q].password)
    /\ Goes(q, "overflow")
    /\ UNCHANGED <<tenants, users, identity, forgot, had, crowded, linkVars, askedVars,
                   accountCalls>>
SaveToHistory(q) ==
    /\ accountCall[q].pc = "save"
    /\ past' = Append(past, accountCall[q].seen)
    /\ Goes(q, "overflow")
    /\ UNCHANGED <<tenants, users, identity, forgot, had, crowded, linkVars, askedVars,
                   accountCalls>>

FindOverflow(q) ==
    /\ accountCall[q].pc = "overflow"
    /\ accountCall' = [accountCall EXCEPT ![q].pc = "trim", ![q].cut = Len(past) - HistorySize]
    /\ UNCHANGED <<tenants, users, identity, passwordVars, linkVars, askedVars, accountCalls>>

TrimHistory(q) ==
    /\ accountCall[q].pc = "trim"
    /\ forgot' = IF accountCall[q].cut > forgot THEN accountCall[q].cut ELSE forgot
    /\ Goes(q, "set")
    /\ UNCHANGED <<tenants, users, identity, past, had, crowded, linkVars, askedVars, accountCalls>>

SetPassword(q) ==
    /\ accountCall[q].pc = "set"
    /\ identity' = [identity EXCEPT !.password = accountCall[q].password]
    /\ had' = Append(had, accountCall[q].password)
    /\ Goes(q, "use")
    /\ UNCHANGED <<tenants, users, past, forgot, crowded, linkVars, askedVars, accountCalls>>

UseLink(q) ==
    /\ accountCall[q].pc = "use"
    /\ usable' = usable \ {accountCall[q].link}
    /\ Stops(q)
    /\ UNCHANGED <<tenants, users, identity, passwordVars, links, askedVars, accountCalls>>

-----------------------------------------------------------------------------
(* A check refuses, a statement fails or the process ends.                   *)
AccountCallStops(q) ==
    LET pc == accountCall[q].pc IN
    /\ pc # "idle"
    /\ Stops(q)
    /\ crowded' = (crowded \/ pc \in {"overflow", "trim", "set"})
    /\ stuck' = (stuck \/ pc = "expire")
    /\ UNCHANGED <<tenants, users, identity, past, forgot, had, linkVars, asked, accountCalls>>

AccountsNext ==
    \/ \E q \in AccountCallers :
          \/ \E t \in Tenants : Invite(q, t)
          \/ \E n \in 1..MaxLinks, p \in Passwords : ConfirmReset(q, n, p)
          \/ FindIdentity(q) \/ CreateIdentity(q) \/ CreateUser(q) \/ GiveRoles(q)
          \/ CreateLink(q) \/ IncrementRateLimit(q) \/ SetExpiry(q) \/ LookUpIdentity(q)
          \/ ReadPassword(q) \/ CheckHistory(q) \/ SaveToHistory(q) \/ FindOverflow(q)
          \/ TrimHistory(q) \/ SetPassword(q) \/ UseLink(q) \/ AccountCallStops(q)
    \/ \E t \in Tenants : CreateTenant(t)
    \/ WindowEnds \/ \E n \in 1..MaxLinks : LinkExpires(n)

AccountsSpec == AccountsInit /\ [][AccountsNext]_accountsVars

-----------------------------------------------------------------------------
AccountsTypeOK ==
    /\ users \subseteq tenants /\ tenants \subseteq Tenants
    /\ identity \in [row : BOOLEAN, password : Passwords \cup {Unset}]
    /\ past \in Seq(Passwords \cup {Unset}) /\ forgot \in 0..Len(past)
    /\ had \in Seq(Passwords \cup {Unset})
    /\ links \in 0..MaxLinks /\ usable \subseteq 1..links
    /\ asked.count \in 0..RequestLimit + 1 /\ asked.expires \in BOOLEAN
    /\ crowded \in BOOLEAN /\ stuck \in BOOLEAN
    /\ accountCalls \in 0..MaxAccountCalls

(* A password is none of the HistorySize passwords that came before the one  *)
(* it replaced (which itself may be chosen again), and no more rows than     *)
(* those are kept between resets; unless two resets overlapped or one stopped*)
(* between its history row and the password.                                 *)
RecentPasswordsRefused ==
    ~crowded =>
        /\ \A i \in DOMAIN had : \A j \in DOMAIN had :
              j \in i - 1 - HistorySize .. i - 2 => had[j] # had[i]
        /\ Resetting = {} => Len(past) - forgot <= HistorySize

(* Whoever has a user row gets in: with the invitation's link, a password    *)
(* chosen before, or a link asked for, as the hour's limit passes; also when *)
(* the invitation failed behind the user row.  A request that ends between   *)
(* INCR and EXPIRE is the exception: nothing takes its count back.           *)
UsersCanGetIn ==
    users # {} /\ identity.password = Unset /\ usable = {} =>
        \/ \E q \in AccountCallers : accountCall[q].pc \in {"roles", "link", "expire", "lookup"}
        \/ asked.count < RequestLimit \/ asked.expires
        \/ stuck
=============================================================================
