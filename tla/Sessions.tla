------------------------------ MODULE Sessions ------------------------------
(***************************************************************************)
(* Session lifecycle of the API: login, refresh, logout, logout-all,       *)
(* tenant switch, password reset, deactivation and reactivation.  A        *)
(* session row holds the hash of one refresh token; a refresh replaces it  *)
(* and signs a new access token with the user's current user_ver.  Every   *)
(* revocation writes the database first and then INCRs user_ver.  Handlers *)
(* are sequences of awaits; each await is a step, requests interleave.     *)
(*                                                                         *)
(* The pause between two steps of a login also stands for the MFA          *)
(* challenge, which keeps a verified password waiting for up to 300 s.     *)
(* The roles and teams of the tokens are module AccessTokens.              *)
(***************************************************************************)
EXTENDS Naturals, FiniteSets

CONSTANTS
    Identities, Users, Sids, ResetTokens, Requests,
    IdentityOf,          \* the identity of each tenant user
    Ops,                 \* the operations the instance allows
    MaxRequests,         \* bound: requests sent in a behaviour
    NoOne

AllOps == {"login", "refresh", "logout", "logoutAll", "switch", "reset",
           "deactivate", "reactivate"}

ASSUME ConstantsAssumption ==
    /\ IdentityOf \in [Users -> Identities]
    /\ Ops \subseteq AllOps
    /\ MaxRequests \in Nat
    /\ NoOne \notin Users \cup Sids \cup AllOps

VARIABLES
    session,    \* table sessions
    loginable,  \* users.loginable
    password,   \* auth_identities.password_hash, as a generation number
    resetToken, \* table password_reset_tokens
    userVer,    \* Redis user_ver:<user>
    req,        \* the requests in flight
    refreshTokens, \* refresh tokens clients have received
    tokens,     \* unexpired access tokens clients have received
    loggedOut,  \* history: the refresh tokens of answered logouts
    sent        \* requests sent so far (bound only)

vars == <<session, loginable, password, resetToken, userVer, req, refreshTokens,
          tokens, loggedOut, sent>>

(* tok is the refresh token whose hash the row holds, last the newest one    *)
(* generated.  History: authPwd is the password generation the session was   *)
(* authenticated with, bornPwd and bornLoginable what was current when the   *)
(* row was created.                                                          *)
NoSession == [state |-> "none", user |-> NoOne, tok |-> 0, last |-> 0, expired |-> FALSE,
              authPwd |-> 0, bornPwd |-> 0, bornLoginable |-> TRUE]

(* sid, tok: the refresh token presented, later the one generated; from is   *)
(* the presented one.  live: session active and user loginable when the      *)
(* version was read (history).                                               *)
IdleRequest == [op |-> NoOne, pc |-> "idle", user |-> NoOne, sid |-> NoOne, tok |-> 0,
                from |-> 0, target |-> NoOne, ver |-> 0, live |-> FALSE,
                pwd |-> 0, reset |-> NoOne, todo |-> {}]

Active(s) == session[s].state = "active"
UsersOf(i) == {u \in Users : IdentityOf[u] = i}
SessionsOf(u) == {s \in Sids : session[s].state # "none" /\ session[s].user = u}

(* session.findUnique({ refreshTokenHash }) *)
Identifies(s, n) == session[s].state # "none" /\ session[s].tok = n

(* JwtAuthGuard admits a token whose version is the current one. *)
Accepted(t) == t.ver = userVer[t.sub]

Init ==
    /\ session = [s \in Sids |-> NoSession]
    /\ loginable = [u \in Users |-> TRUE]
    /\ password = [i \in Identities |-> 0]
    /\ resetToken = [k \in ResetTokens |-> [state |-> "none", identity |-> NoOne]]
    /\ userVer = [u \in Users |-> 0]
    /\ req = [r \in Requests |-> IdleRequest]
    /\ refreshTokens = {}
    /\ tokens = {}
    /\ loggedOut = {}
    /\ sent = 0

-----------------------------------------------------------------------------
(* A client sends a request.  Nothing is read yet. *)

Send(r, op, first) ==
    /\ req[r].pc = "idle"
    /\ op \in Ops
    /\ sent < MaxRequests
    /\ sent' = sent + 1
    /\ req' = [req EXCEPT ![r] = first]
    /\ UNCHANGED <<session, loginable, password, resetToken, userVer, refreshTokens,
                   tokens, loggedOut>>

SendLogin(r, u) ==
    Send(r, "login", [IdleRequest EXCEPT !.op = "login", !.pc = "verify", !.target = u])

(* Operations that present a refresh token.                                  *)
SendToken(r, op, k, u) ==
    Send(r, op, [IdleRequest EXCEPT !.op = op, !.pc = "find", !.sid = k.sid, !.tok = k.n,
                                    !.from = k.n, !.target = u])

SendReset(r, k) ==
    /\ resetToken[k].state # "none"
    /\ Send(r, "reset", [IdleRequest EXCEPT !.op = "reset", !.pc = "checkReset", !.reset = k])

SendActivation(r, op, u) ==
    /\ op \in {"deactivate", "reactivate"}
    /\ Send(r, op, [IdleRequest EXCEPT !.op = op, !.pc = "load", !.user = u])

-----------------------------------------------------------------------------
(* Building blocks. *)

Goto(r, pc) == req' = [req EXCEPT ![r].pc = pc]
Finish(r) == req' = [req EXCEPT ![r] = IdleRequest]

Revoked(x) == [x EXCEPT !.state = "revoked"]

(* session.updateMany({ where: { userId, revokedAt: null } }) *)
RevokeAllOf(u) ==
    session' = [s \in Sids |-> IF Active(s) /\ session[s].user = u
                               THEN Revoked(session[s]) ELSE session[s]]

Incr(u) == userVer' = [userVer EXCEPT ![u] = @ + 1]

-----------------------------------------------------------------------------
(* Looking up the presented refresh token, and each operation's checks.      *)

FindRefresh(r) ==
    LET x == req[r]  row == session[x.sid] IN
    /\ x.pc = "find" /\ x.op = "refresh"
    /\ IF ~Identifies(x.sid, x.tok) THEN Finish(r)
       ELSE IF row.state = "revoked"
       THEN req' = [req EXCEPT ![r].pc = "revokeAll", ![r].user = row.user]
       ELSE IF row.expired \/ ~loginable[row.user] THEN Finish(r)
       ELSE req' = [req EXCEPT ![r].pc = "rotate", ![r].user = row.user]
    /\ UNCHANGED <<session, loginable, password, resetToken, userVer, refreshTokens,
                   tokens, loggedOut, sent>>

(* Mutant of FindLogout: a logout only INCRs the version.                    *)
FindLogoutIncrOnly(r) ==
    LET x == req[r]  row == session[x.sid] IN
    /\ x.pc = "find" /\ x.op = "logout"
    /\ IF Identifies(x.sid, x.tok) /\ row.state = "active"
       THEN req' = [req EXCEPT ![r].pc = "incr", ![r].user = row.user]
       ELSE Finish(r)
    /\ UNCHANGED <<session, loginable, password, resetToken, userVer, refreshTokens,
                   tokens, loggedOut, sent>>

(* An unknown or revoked token answers a logout at once.                     *)
FindLogout(r) ==
    LET x == req[r]  row == session[x.sid] IN
    /\ x.pc = "find" /\ x.op = "logout"
    /\ IF Identifies(x.sid, x.tok) /\ row.state = "active"
       THEN /\ req' = [req EXCEPT ![r].pc = "revoke", ![r].user = row.user]
            /\ UNCHANGED loggedOut
       ELSE /\ Finish(r)
            /\ loggedOut' = loggedOut \cup {[sid |-> x.sid, n |-> x.tok]}
    /\ UNCHANGED <<session, loginable, password, resetToken, userVer, refreshTokens,
                   tokens, sent>>

FindLogoutAll(r) ==
    LET x == req[r] IN
    /\ x.pc = "find" /\ x.op = "logoutAll"
    /\ IF Identifies(x.sid, x.tok)
       THEN req' = [req EXCEPT ![r].pc = "revokeAll", ![r].user = session[x.sid].user]
       ELSE Finish(r)
    /\ UNCHANGED <<session, loginable, password, resetToken, userVer, refreshTokens,
                   tokens, loggedOut, sent>>

FindSwitch(r) ==
    LET x == req[r]  row == session[x.sid] IN
    /\ x.pc = "find" /\ x.op = "switch"
    /\ IF Identifies(x.sid, x.tok) /\ row.state = "active" /\ ~row.expired
       THEN req' = [req EXCEPT ![r].pc = "resolve", ![r].user = row.user,
                               ![r].pwd = row.authPwd]
       ELSE Finish(r)
    /\ UNCHANGED <<session, loginable, password, resetToken, userVer, refreshTokens,
                   tokens, loggedOut, sent>>

-----------------------------------------------------------------------------
(* Login.  The right password of this moment, or the request is over.        *)

VerifyPassword(r) ==
    /\ req[r].pc = "verify"
    /\ req' = [req EXCEPT ![r].pc = "resolve",
                          ![r].pwd = password[IdentityOf[req[r].target]]]
    /\ UNCHANGED <<session, loginable, password, resetToken, userVer, refreshTokens,
                   tokens, loggedOut, sent>>

(* resolveUser and the deactivation check of login, completeMfaLogin and     *)
(* switchTenant.  A tenant the identity does not belong to is rejected.      *)
ResolveUser(r) ==
    LET x == req[r] IN
    /\ x.pc = "resolve"
    /\ IF \/ ~loginable[x.target]
          \/ x.op = "switch" /\ IdentityOf[x.target] # IdentityOf[x.user]
       THEN Finish(r)
       ELSE Goto(r, IF x.op = "switch" THEN "revoke" ELSE "create")
    /\ UNCHANGED <<session, loginable, password, resetToken, userVer, refreshTokens,
                   tokens, loggedOut, sent>>

CreateSession(r, s) ==
    LET x == req[r] IN
    /\ x.pc = "create"
    /\ session[s].state = "none"
    /\ session' = [session EXCEPT ![s] =
                     [state |-> "active", user |-> x.target, tok |-> 1, last |-> 1,
                      expired |-> FALSE, authPwd |-> x.pwd,
                      bornPwd |-> password[IdentityOf[x.target]],
                      bornLoginable |-> loginable[x.target]]]
    /\ req' = [req EXCEPT ![r].pc = "sign", ![r].user = x.target, ![r].sid = s,
                          ![r].tok = 1, ![r].from = 0]
    /\ UNCHANGED <<loginable, password, resetToken, userVer, refreshTokens, tokens,
                   loggedOut, sent>>

(* Mutant of Rotate: the old refresh token is sent back.                     *)
RotateSendsOldToken(r) ==
    LET s == req[r].sid IN
    /\ req[r].pc = "rotate"
    /\ session' = [session EXCEPT ![s].tok = session[s].last + 1,
                                  ![s].last = session[s].last + 1,
                                  ![s].expired = FALSE]
    /\ Goto(r, "sign")
    /\ UNCHANGED <<loginable, password, resetToken, userVer, refreshTokens, tokens,
                   loggedOut, sent>>

(* refresh(): session.update by id, whatever the row holds by now.           *)
Rotate(r) ==
    LET s == req[r].sid IN
    /\ req[r].pc = "rotate"
    /\ session' = [session EXCEPT ![s].tok = session[s].last + 1,
                                  ![s].last = session[s].last + 1,
                                  ![s].expired = FALSE]
    /\ req' = [req EXCEPT ![r].pc = "sign", ![r].tok = session[s].last + 1]
    /\ UNCHANGED <<loginable, password, resetToken, userVer, refreshTokens, tokens,
                   loggedOut, sent>>

(* signAccessToken: read the version, ...                                    *)
ReadVersion(r) ==
    LET x == req[r] IN
    /\ x.pc = "sign"
    /\ req' = [req EXCEPT ![r].pc = "issue", ![r].ver = userVer[x.user],
                          ![r].live = Active(x.sid) /\ loginable[x.user]]
    /\ UNCHANGED <<session, loginable, password, resetToken, userVer, refreshTokens,
                   tokens, loggedOut, sent>>

(* ... sign, and answer with both tokens.                                    *)
Issue(r) ==
    LET x == req[r] IN
    /\ x.pc = "issue"
    /\ tokens' = tokens \cup {[sub |-> x.user, sid |-> x.sid, ver |-> x.ver,
                               live |-> x.live]}
    /\ refreshTokens' = refreshTokens \cup {[sid |-> x.sid, n |-> x.tok, from |-> x.from]}
    /\ Finish(r)
    /\ UNCHANGED <<session, loginable, password, resetToken, userVer, loggedOut, sent>>

-----------------------------------------------------------------------------
(* Revocations. *)

(* logout and switchTenant: session.update by id. *)
RevokeOne(r) ==
    LET x == req[r] IN
    /\ x.pc = "revoke"
    /\ session' = [session EXCEPT ![x.sid] = Revoked(@)]
    /\ Goto(r, "incr")
    /\ UNCHANGED <<loginable, password, resetToken, userVer, refreshTokens, tokens,
                   loggedOut, sent>>

(* Mutant of RevokeAll: the INCR is forgotten.                               *)
RevokeAllWithoutIncr(r) ==
    /\ req[r].pc = "revokeAll"
    /\ RevokeAllOf(req[r].user)
    /\ Finish(r)
    /\ UNCHANGED <<loginable, password, resetToken, userVer, refreshTokens, tokens,
                   loggedOut, sent>>

(* logoutAll, reuse detection and deactivate. *)
RevokeAll(r) ==
    LET x == req[r] IN
    /\ x.pc = "revokeAll"
    /\ RevokeAllOf(x.user)
    /\ Goto(r, "incr")
    /\ UNCHANGED <<loginable, password, resetToken, userVer, refreshTokens, tokens,
                   loggedOut, sent>>

(* Mutant of IncrVersion: a switch INCRs the user it switches to.            *)
IncrTarget(r) ==
    LET x == req[r] IN
    /\ x.pc = "incr"
    /\ Incr(IF x.op = "switch" THEN x.target ELSE x.user)
    /\ IF x.op = "switch" THEN Goto(r, "create") ELSE Finish(r)
    /\ loggedOut' = IF x.op = "logout" THEN loggedOut \cup {[sid |-> x.sid, n |-> x.tok]}
                    ELSE loggedOut
    /\ UNCHANGED <<session, loginable, password, resetToken, refreshTokens, tokens, sent>>

IncrVersion(r) ==
    LET x == req[r] IN
    /\ x.pc = "incr"
    /\ Incr(x.user)
    /\ IF x.op = "switch" THEN Goto(r, "create") ELSE Finish(r)
    /\ loggedOut' = IF x.op = "logout" THEN loggedOut \cup {[sid |-> x.sid, n |-> x.tok]}
                    ELSE loggedOut
    /\ UNCHANGED <<session, loginable, password, resetToken, refreshTokens, tokens, sent>>

(* UserService.deactivate and reactivate. *)
LoadUser(r) ==
    LET x == req[r] IN
    /\ x.pc = "load"
    /\ IF loginable[x.user] = (x.op = "deactivate") THEN Goto(r, "setLoginable") ELSE Finish(r)
    /\ UNCHANGED <<session, loginable, password, resetToken, userVer, refreshTokens,
                   tokens, loggedOut, sent>>

(* Mutant of SetLoginable: deactivate leaves the sessions alone.             *)
SetLoginableOnly(r) ==
    LET x == req[r] IN
    /\ x.pc = "setLoginable"
    /\ loginable' = [loginable EXCEPT ![x.user] = (x.op = "reactivate")]
    /\ Goto(r, "incr")
    /\ UNCHANGED <<session, password, resetToken, userVer, refreshTokens, tokens,
                   loggedOut, sent>>

SetLoginable(r) ==
    LET x == req[r] IN
    /\ x.pc = "setLoginable"
    /\ loginable' = [loginable EXCEPT ![x.user] = (x.op = "reactivate")]
    /\ Goto(r, IF x.op = "deactivate" THEN "revokeAll" ELSE "incr")
    /\ UNCHANGED <<session, password, resetToken, userVer, refreshTokens, tokens,
                   loggedOut, sent>>

-----------------------------------------------------------------------------
(* Password reset. *)

RequestReset(k, i) ==
    /\ "reset" \in Ops
    /\ resetToken[k].state = "none"
    /\ resetToken' = [resetToken EXCEPT ![k] = [state |-> "valid", identity |-> i]]
    /\ UNCHANGED <<session, loginable, password, userVer, req, refreshTokens, tokens,
                   loggedOut, sent>>

CheckReset(r) ==
    /\ req[r].pc = "checkReset"
    /\ IF resetToken[req[r].reset].state = "valid" THEN Goto(r, "setHash") ELSE Finish(r)
    /\ UNCHANGED <<session, loginable, password, resetToken, userVer, refreshTokens,
                   tokens, loggedOut, sent>>

(* The new password breaks the policy or was used before. *)
RefuseNewPassword(r) ==
    /\ req[r].pc = "setHash"
    /\ Finish(r)
    /\ UNCHANGED <<session, loginable, password, resetToken, userVer, refreshTokens,
                   tokens, loggedOut, sent>>

SetPasswordHash(r) ==
    LET i == resetToken[req[r].reset].identity IN
    /\ req[r].pc = "setHash"
    /\ password' = [password EXCEPT ![i] = @ + 1]
    /\ req' = [req EXCEPT ![r].pc = "markUsed", ![r].todo = UsersOf(i)]
    /\ UNCHANGED <<session, loginable, resetToken, userVer, refreshTokens, tokens,
                   loggedOut, sent>>

MarkUsed(r) ==
    /\ req[r].pc = "markUsed"
    /\ resetToken' = [resetToken EXCEPT ![req[r].reset].state = "used"]
    /\ IF req[r].todo = {} THEN Finish(r) ELSE Goto(r, "sweep")
    /\ UNCHANGED <<session, loginable, password, userVer, refreshTokens, tokens,
                   loggedOut, sent>>

(* One round of the loop over the identity's users: revoke, then INCR.       *)
SweepRevoke(r, u) ==
    /\ req[r].pc = "sweep"
    /\ u \in req[r].todo
    /\ RevokeAllOf(u)
    /\ req' = [req EXCEPT ![r].pc = "sweepIncr", ![r].user = u]
    /\ UNCHANGED <<loginable, password, resetToken, userVer, refreshTokens, tokens,
                   loggedOut, sent>>

(* Mutant of SweepIncr: the loop ends after its first user.                  *)
SweepOneUser(r) ==
    /\ req[r].pc = "sweepIncr"
    /\ Incr(req[r].user)
    /\ Finish(r)
    /\ UNCHANGED <<session, loginable, password, resetToken, refreshTokens, tokens,
                   loggedOut, sent>>

SweepIncr(r) ==
    LET x == req[r] IN
    /\ x.pc = "sweepIncr"
    /\ Incr(x.user)
    /\ req' = [req EXCEPT ![r] = IF x.todo = {x.user} THEN IdleRequest
                                 ELSE [x EXCEPT !.pc = "sweep", !.todo = @ \ {x.user}]]
    /\ UNCHANGED <<session, loginable, password, resetToken, refreshTokens, tokens,
                   loggedOut, sent>>

-----------------------------------------------------------------------------
(* Time. *)

ExpireSession(s) ==
    /\ Active(s) /\ ~session[s].expired
    /\ session' = [session EXCEPT ![s].expired = TRUE]
    /\ UNCHANGED <<loginable, password, resetToken, userVer, req, refreshTokens, tokens,
                   loggedOut, sent>>

ExpireReset(k) ==
    /\ resetToken[k].state = "valid"
    /\ resetToken' = [resetToken EXCEPT ![k].state = "expired"]
    /\ UNCHANGED <<session, loginable, password, userVer, req, refreshTokens, tokens,
                   loggedOut, sent>>

ExpireToken(t) ==
    /\ tokens' = tokens \ {t}
    /\ UNCHANGED <<session, loginable, password, resetToken, userVer, req, refreshTokens,
                   loggedOut, sent>>

-----------------------------------------------------------------------------
SendAny(r) ==
    \/ \E u \in Users : SendLogin(r, u)
    \/ \E k \in refreshTokens, op \in {"refresh", "logout", "logoutAll"} :
          SendToken(r, op, k, NoOne)
    \/ \E k \in refreshTokens, u \in Users : SendToken(r, "switch", k, u)
    \/ \E k \in ResetTokens : SendReset(r, k)
    \/ \E u \in Users, op \in {"deactivate", "reactivate"} : SendActivation(r, op, u)

Run(r) ==
    \/ FindRefresh(r) \/ FindLogout(r) \/ FindLogoutAll(r) \/ FindSwitch(r)
    \/ VerifyPassword(r) \/ ResolveUser(r) \/ \E s \in Sids : CreateSession(r, s)
    \/ Rotate(r) \/ ReadVersion(r) \/ Issue(r)
    \/ RevokeOne(r) \/ RevokeAll(r) \/ IncrVersion(r)
    \/ LoadUser(r) \/ SetLoginable(r)
    \/ CheckReset(r) \/ RefuseNewPassword(r) \/ SetPasswordHash(r) \/ MarkUsed(r)
    \/ (\E u \in Users : SweepRevoke(r, u)) \/ SweepIncr(r)

Next ==
    \/ \E r \in Requests : SendAny(r) \/ Run(r)
    \/ \E k \in ResetTokens, i \in Identities : RequestReset(k, i)
    \/ \E s \in Sids : ExpireSession(s)
    \/ \E k \in ResetTokens : ExpireReset(k)
    \/ \E t \in tokens : ExpireToken(t)

Spec == Init /\ [][Next]_vars
-----------------------------------------------------------------------------
(* Properties. *)

SessionRow == [state : {"none", "active", "revoked"}, user : Users \cup {NoOne}, tok : Nat,
               last : Nat, expired : BOOLEAN, authPwd : Nat, bornPwd : Nat,
               bornLoginable : BOOLEAN]
Pc == {"idle", "verify", "find", "checkReset", "load", "resolve", "create", "rotate", "sign",
       "issue", "revoke", "revokeAll", "incr", "setLoginable", "setHash", "markUsed", "sweep",
       "sweepIncr"}
Request == [op : AllOps \cup {NoOne}, pc : Pc, user : Users \cup {NoOne},
            sid : Sids \cup {NoOne}, tok : Nat, from : Nat,
            target : Users \cup {NoOne}, ver : Nat, live : BOOLEAN, pwd : Nat,
            reset : ResetTokens \cup {NoOne}, todo : SUBSET Users]

TypeOK ==
    /\ session \in [Sids -> SessionRow]
    /\ loginable \in [Users -> BOOLEAN]
    /\ password \in [Identities -> Nat]
    /\ resetToken \in [ResetTokens -> [state : {"none", "valid", "used", "expired"},
                                       identity : Identities \cup {NoOne}]]
    /\ userVer \in [Users -> Nat]
    /\ req \in [Requests -> Request]
    /\ refreshTokens \subseteq [sid : Sids, n : Nat, from : Nat]
    /\ tokens \subseteq [sub : Users, sid : Sids, ver : Nat, live : BOOLEAN]
    /\ loggedOut \subseteq [sid : Sids, n : Nat]
    /\ sent \in Nat

(* A request that revoked a session or a user still has its INCR ahead.      *)
PendingIncr(u) ==
    \E r \in Requests :
        /\ req[r].user = u
        /\ \/ req[r].pc \in {"incr", "sweepIncr"}
           \/ req[r].pc = "revokeAll" /\ req[r].op = "deactivate"

(* A password reset still has to revoke the sessions of u. *)
SweepAhead(u) ==
    \E r \in Requests :
        /\ u \in req[r].todo
        /\ \/ req[r].pc \in {"markUsed", "sweep"}
           \/ req[r].pc = "sweepIncr" /\ req[r].user # u

(* A deactivation still has to revoke the sessions of u. *)
DeactivationAhead(u) ==
    \E r \in Requests :
        req[r].op = "deactivate" /\ req[r].pc = "revokeAll" /\ req[r].user = u

(* Every way to end a session (logout, logout-all, switch, reuse detection,  *)
(* reset, deactivation) stales the access tokens signed while it was alive:  *)
(* an accepted one belongs to a live session of a loginable user, or the     *)
(* INCR is on its way.                                                       *)
RevocationStalesTokens ==
    \A t \in tokens :
        Accepted(t) /\ t.live =>
            (Active(t.sid) /\ loginable[t.sub]) \/ PendingIncr(t.sub)

(* To its clients the lifecycle is VersionedClaims: a token claims that its  *)
(* session is alive.  Whoever ends a session owes an INCR from that moment,  *)
(* an INCR refuses every token of the user before it, and a token signed for *)
(* a live session is only admitted while that is true or the INCR is owed.   *)
Alive(u) == {s \in Sids : Active(s) /\ session[s].user = u /\ loginable[u]}
OwedIncr == {u \in Users : PendingIncr(u)}
Admitted == {[sub |-> t.sub, claims |-> t.sid] :
                 t \in {x \in tokens : Accepted(x) /\ x.live}}

Promise == INSTANCE VersionedClaims
    WITH Subjects <- Users, ClaimValues <- Sids,
         claims <- [u \in Users |-> Alive(u)], owed <- OwedIncr, admitted <- Admitted

ImplementsVersionedClaims == Promise!ClaimsSpec

(* After a password reset no session authenticated with an older password is *)
(* left, except one whose row was created when its password was already      *)
(* outdated (confirmPasswordReset sweeps what exists).                       *)
ResetSweepsSessions ==
    \A s \in Sids :
        Active(s) =>
            LET x == session[s] IN
            \/ x.authPwd = password[IdentityOf[x.user]]
            \/ x.bornPwd # x.authPwd
            \/ SweepAhead(x.user)

(* A deactivated user has no active session, except one created for a login  *)
(* that had passed the loginable check before (deactivate sweeps what        *)
(* exists).                                                                  *)
DeactivationSweepsSessions ==
    \A s \in Sids :
        Active(s) => \/ loginable[session[s].user]
                    \/ ~session[s].bornLoginable
                    \/ DeactivationAhead(session[s].user)

(* The client can always go on: when no request is working on an active      *)
(* session, the refresh token its row expects has reached a client, however  *)
(* many refreshes of the session raced.                                      *)
ClientHoldsCurrentToken ==
    \A s \in Sids :
        /\ Active(s)
        /\ \A r \in Requests : req[r].pc # "idle" => req[r].sid # s
        => \E k \in refreshTokens : k.sid = s /\ k.n = session[s].tok

(* A refresh token whose logout was answered opens nothing any more, however *)
(* refreshes of its session raced the logout (auth.service.ts, logout).      *)
LoggedOutTokenIsDead ==
    \A k \in loggedOut : ~(Active(k.sid) /\ session[k.sid].tok = k.n)

(* docs/authn-authz-technical-plan.md 2.3, auth.service.ts "Atomic rotation": *)
(* a refresh token is exchanged for one new token, once.                     *)
ExchangedOnce ==
    \A a, b \in refreshTokens : a.sid = b.sid /\ a.from = b.from => a = b

(* auth.service.ts, confirmPasswordReset: force re-login.                    *)
ResetForcesRelogin ==
    \A s \in Sids :
        Active(s) => session[s].authPwd = password[IdentityOf[session[s].user]]
                     \/ \E r \in Requests : req[r].op = "reset" /\ req[r].pc # "idle"
=============================================================================
