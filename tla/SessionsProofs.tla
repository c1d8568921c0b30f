--------------------------- MODULE SessionsProofs ---------------------------
(* Proofs about Sessions for every number of identities, users, sessions,    *)
(* reset tokens and requests, and every choice of operations.                *)
EXTENDS Sessions, TLAPS

-----------------------------------------------------------------------------
(* The inductive invariants. *)

TokenOps == {"refresh", "logout", "logoutAll", "switch"}
LoginOps == {"login", "switch"}

(* What a request has found out by the time it stands at each await.         *)
WellFormed(x) ==
    /\ x.pc \in {"verify", "resolve", "create"} => x.target \in Users
    /\ x.pc = "verify" => x.op = "login"
    /\ x.pc \in {"resolve", "create"} => x.op \in LoginOps
    /\ x.op = "switch" => x.target \in Users
    /\ x.pc \in {"find", "rotate", "sign", "issue", "revoke"} => x.sid \in Sids
    /\ x.op \in {"switch", "logout"} => x.sid \in Sids
    /\ x.pc \in {"load", "rotate", "sign", "issue", "revoke", "revokeAll", "incr",
                 "setLoginable", "sweepIncr"} => x.user \in Users
    /\ x.pc = "resolve" /\ x.op = "switch" => x.user \in Users
    /\ x.pc = "revoke" => x.op \in {"logout", "switch"}
    /\ x.pc = "revokeAll" => x.op \in {"refresh", "logoutAll", "deactivate"}
    /\ x.pc \in {"load", "setLoginable"} => x.op \in {"deactivate", "reactivate"}
    /\ x.pc \in {"checkReset", "setHash", "markUsed"} => x.reset \in ResetTokens
    /\ x.pc = "sweep" => x.todo # {}
    /\ x.pc = "sweepIncr" => x.user \in x.todo

RequestsWellFormed == \A r \in Requests : WellFormed(req[r])

(* A row that exists has an owner. *)
RowsOwned ==
    /\ \A s \in Sids : session[s].state # "none" => session[s].user \in Users
    /\ \A k \in ResetTokens : resetToken[k].state # "none" =>
                                 resetToken[k].identity \in Identities

TypeInv == TypeOK /\ RequestsWellFormed /\ RowsOwned

(* Refresh token n of session s was generated. *)
Generated(s, n) == session[s].state # "none" /\ n <= session[s].last

Owns(u, s) == session[s].state # "none" /\ session[s].user = u

(* What a request knows about the row it works on. *)
RequestKnows(x) ==
    /\ x.pc \in {"find", "sign", "issue", "revoke"} => Generated(x.sid, x.tok)
    /\ x.op = "logout" /\ x.pc = "incr" =>
          Generated(x.sid, x.tok) /\ session[x.sid].state = "revoked"
    /\ x.pc \in {"rotate", "sign", "issue", "revoke"} => Owns(x.user, x.sid)
    /\ x.pc = "resolve" /\ x.op = "switch" => Owns(x.user, x.sid) /\ Generated(x.sid, x.tok)
    /\ x.pc \in {"checkReset", "setHash", "markUsed"} => resetToken[x.reset].state # "none"

(* Every refresh token anybody holds is one its session has generated.       *)
Lineage ==
    /\ \A k \in refreshTokens \cup loggedOut : Generated(k.sid, k.n)
    /\ \A r \in Requests : RequestKnows(req[r])

ClaimOf(x) == [sub |-> x.user, sid |-> x.sid, ver |-> x.ver, live |-> x.live]

(* What makes a signed claim, or one about to be signed, harmless.           *)
Justified(t) ==
    /\ Owns(t.sub, t.sid)
    /\ t.ver <= userVer[t.sub]
    /\ Accepted(t) /\ t.live =>
          (Active(t.sid) /\ loginable[t.sub]) \/ PendingIncr(t.sub)

ClaimsJustified ==
    /\ \A t \in tokens : Justified(t)
    /\ \A r \in Requests : req[r].pc = "issue" => Justified(ClaimOf(req[r]))

(* The token an active row expects is with a client or about to be sent.     *)
TokenUnderway(s) ==
    \/ \E k \in refreshTokens : k.sid = s /\ k.n = session[s].tok
    \/ \E r \in Requests : /\ req[r].pc \in {"sign", "issue"}
                           /\ req[r].sid = s /\ req[r].tok = session[s].tok

CurrentTokenUnderway == \A s \in Sids : Active(s) => TokenUnderway(s)

-----------------------------------------------------------------------------
(* Types.  A step of a request replaces its record by a well-formed one. *)

LEMMA IdleType == IdleRequest \in Request /\ WellFormed(IdleRequest)
BY ConstantsAssumption
   DEF IdleRequest, Request, WellFormed, Pc, AllOps, LoginOps

LEMMA RequestType ==
    ASSUME TypeInv, NEW r \in Requests
    PROVE  req[r] \in Request /\ WellFormed(req[r])
BY DEF TypeInv, TypeOK, RequestsWellFormed

LEMMA StepType ==
    ASSUME TypeInv, NEW r \in Requests, NEW y \in Request, WellFormed(y),
           req' = [req EXCEPT ![r] = y]
    PROVE  req' \in [Requests -> Request] /\ RequestsWellFormed'
<1>1. req \in [Requests -> Request]
  BY DEF TypeInv, TypeOK
<1>2. \A q \in Requests : req'[q] = IF q = r THEN y ELSE req[q]
  BY <1>1
<1>3. \A q \in Requests : WellFormed(req'[q])
  BY <1>2, RequestType
<1>4. req' \in [Requests -> Request]
  BY <1>1
<1>5. QED BY <1>3, <1>4 DEF RequestsWellFormed

LEMMA FinishType ==
    ASSUME TypeInv, NEW r \in Requests, Finish(r)
    PROVE  req' \in [Requests -> Request] /\ RequestsWellFormed'
BY StepType, IdleType DEF Finish

(* A step that writes only the request. *)
LEMMA RequestOnlyType ==
    ASSUME TypeInv, req' \in [Requests -> Request], RequestsWellFormed',
           UNCHANGED <<session, loginable, password, resetToken, userVer, refreshTokens,
                       tokens, loggedOut, sent>>
    PROVE  TypeInv'
BY DEF TypeInv, TypeOK, RowsOwned, RequestsWellFormed

LEMMA SendType ==
    ASSUME TypeInv, NEW r \in Requests, SendAny(r) PROVE TypeInv'
<1>1. ASSUME NEW op \in AllOps, NEW y \in Request, WellFormed(y), Send(r, op, y)
      PROVE  TypeInv'
  <2>1. req' \in [Requests -> Request] /\ RequestsWellFormed'
    BY <1>1, StepType DEF Send
  <2>2. sent' \in Nat /\ UNCHANGED <<session, loginable, password, resetToken, userVer,
                                     refreshTokens, tokens, loggedOut>>
    BY <1>1 DEF Send, TypeInv, TypeOK
  <2>3. QED BY <2>1, <2>2 DEF TypeInv, TypeOK, RowsOwned, RequestsWellFormed
<1>2. ASSUME NEW u \in Users, SendLogin(r, u) PROVE TypeInv'
  <2>1. LET y == [IdleRequest EXCEPT !.op = "login", !.pc = "verify", !.target = u]
        IN  y \in Request /\ WellFormed(y)
    BY IdleType DEF IdleRequest, Request, WellFormed, Pc, AllOps, LoginOps
  <2>2. QED BY <1>1, <1>2, <2>1 DEF SendLogin, AllOps
<1>3. ASSUME NEW op \in TokenOps, NEW k \in refreshTokens, NEW u \in Users \cup {NoOne},
             op = "switch" => u \in Users, SendToken(r, op, k, u)
      PROVE TypeInv'
  <2>. DEFINE y == [IdleRequest EXCEPT !.op = op, !.pc = "find", !.sid = k.sid, !.tok = k.n,
                                       !.from = k.n, !.target = u]
  <2>1. k.sid \in Sids /\ k.n \in Nat
    BY DEF TypeInv, TypeOK
  <2>. HIDE DEF y
  <2>2. y \in Request
    BY <2>1, IdleType DEF Request, Pc, AllOps, TokenOps, y
  <2>3. y.op = op /\ y.pc = "find" /\ y.sid = k.sid /\ y.target = u
    BY IdleType DEF Request, y
  <2>4. op = "switch" => u \in Users
    BY <1>3
  <2>5. WellFormed(y)
    BY <2>1, <2>3, <2>4 DEF WellFormed, TokenOps
  <2>6. QED BY <1>1, <1>3, <2>2, <2>5 DEF SendToken, AllOps, TokenOps, y
<1>4. ASSUME NEW k \in ResetTokens, SendReset(r, k) PROVE TypeInv'
  <2>1. LET y == [IdleRequest EXCEPT !.op = "reset", !.pc = "checkReset", !.reset = k]
        IN  y \in Request /\ WellFormed(y)
    BY IdleType DEF IdleRequest, Request, WellFormed, Pc, AllOps, LoginOps
  <2>2. QED BY <1>1, <1>4, <2>1 DEF SendReset, AllOps
<1>5. ASSUME NEW u \in Users, NEW op \in {"deactivate", "reactivate"},
             SendActivation(r, op, u)
      PROVE  TypeInv'
  <2>. DEFINE y == [IdleRequest EXCEPT !.op = op, !.pc = "load", !.user = u]
  <2>1. y \in Request
    BY IdleType DEF Request, Pc, AllOps
  <2>2. y.op = op /\ y.pc = "load" /\ y.user = u
    BY IdleType DEF Request
  <2>. HIDE DEF y
  <2>3. WellFormed(y)
    BY <2>2 DEF WellFormed
  <2>4. QED BY <1>1, <1>5, <2>1, <2>3 DEF SendActivation, AllOps, y
<1>6. QED BY <1>2, <1>3, <1>4, <1>5 DEF SendAny, TokenOps

FindStep(r) == FindRefresh(r) \/ FindLogout(r) \/ FindLogoutAll(r) \/ FindSwitch(r)

LoginStep(r) ==
    VerifyPassword(r) \/ ResolveUser(r) \/ (\E s \in Sids : CreateSession(r, s))
    \/ Rotate(r) \/ ReadVersion(r) \/ Issue(r)

RevokeStep(r) == RevokeOne(r) \/ RevokeAll(r) \/ IncrVersion(r) \/ LoadUser(r) \/ SetLoginable(r)

ResetStep(r) ==
    CheckReset(r) \/ RefuseNewPassword(r) \/ SetPasswordHash(r) \/ MarkUsed(r)
    \/ (\E u \in Users : SweepRevoke(r, u)) \/ SweepIncr(r)

(* The presented token identifies a row, so the row has an owner. *)
LEMMA FoundOwner ==
    ASSUME TypeInv, NEW r \in Requests, req[r].pc = "find",
           Identifies(req[r].sid, req[r].tok)
    PROVE  /\ req[r].sid \in Sids
           /\ session[req[r].sid] \in SessionRow
           /\ session[req[r].sid].user \in Users
BY RequestType DEF Identifies, WellFormed, TypeInv, TypeOK, RowsOwned

LEMMA FindType ==
    ASSUME TypeInv, NEW r \in Requests, FindStep(r) PROVE TypeInv'
<1>. DEFINE owner == session[req[r].sid].user
<1>0. req[r] \in Request /\ WellFormed(req[r])
  BY RequestType
<1>1. CASE FindRefresh(r)
  <2>1. CASE Finish(r)
    BY <1>1, <2>1, FinishType, RequestOnlyType DEF FindRefresh
  <2>2. CASE ~Finish(r)
    <3>1. PICK pc \in {"revokeAll", "rotate"} :
             req' = [req EXCEPT ![r] = [req[r] EXCEPT !.pc = pc, !.user = owner]]
      BY <1>1, <2>2 DEF FindRefresh
    <3>2. owner \in Users /\ req[r].sid \in Sids
      BY <1>1, <2>2, FoundOwner DEF FindRefresh
    <3>3. LET y == [req[r] EXCEPT !.pc = pc, !.user = owner] IN y \in Request /\ WellFormed(y)
      BY <1>0, <1>1, <3>2 DEF FindRefresh, Request, WellFormed, Pc
    <3>4. QED BY <1>1, <3>1, <3>3, StepType, RequestOnlyType DEF FindRefresh
  <2>3. QED BY <2>1, <2>2
<1>2. CASE FindLogout(r)
  <2>1. CASE Finish(r)
    <3>1. req[r].sid \in Sids /\ req[r].tok \in Nat
      BY <1>0, <1>2 DEF FindLogout, WellFormed, Request
    <3>2. req' \in [Requests -> Request] /\ RequestsWellFormed'
      BY <2>1, FinishType
    <3>3. loggedOut' \subseteq [sid : Sids, n : Nat]
      BY <1>2, <3>1 DEF FindLogout, TypeInv, TypeOK
    <3>4. QED BY <1>2, <3>2, <3>3
              DEF FindLogout, TypeInv, TypeOK, RowsOwned, RequestsWellFormed
  <2>2. CASE ~Finish(r)
    <3>1. req' = [req EXCEPT ![r] = [req[r] EXCEPT !.pc = "revoke", !.user = owner]]
          /\ UNCHANGED loggedOut
      BY <1>2, <2>2 DEF FindLogout
    <3>2. owner \in Users /\ req[r].sid \in Sids
      BY <1>2, <2>2, FoundOwner DEF FindLogout
    <3>3. LET y == [req[r] EXCEPT !.pc = "revoke", !.user = owner]
          IN  y \in Request /\ WellFormed(y)
      BY <1>0, <1>2, <3>2 DEF FindLogout, Request, WellFormed, Pc
    <3>4. QED BY <1>2, <3>1, <3>3, StepType, RequestOnlyType DEF FindLogout
  <2>3. QED BY <2>1, <2>2
<1>3. CASE FindLogoutAll(r)
  <2>1. CASE Finish(r)
    BY <1>3, <2>1, FinishType, RequestOnlyType DEF FindLogoutAll
  <2>2. CASE ~Finish(r)
    <3>1. req' = [req EXCEPT ![r] = [req[r] EXCEPT !.pc = "revokeAll", !.user = owner]]
      BY <1>3, <2>2 DEF FindLogoutAll
    <3>2. owner \in Users
      BY <1>3, <2>2, FoundOwner DEF FindLogoutAll
    <3>3. LET y == [req[r] EXCEPT !.pc = "revokeAll", !.user = owner]
          IN  y \in Request /\ WellFormed(y)
      BY <1>0, <1>3, <3>2 DEF FindLogoutAll, Request, WellFormed, Pc
    <3>4. QED BY <1>3, <3>1, <3>3, StepType, RequestOnlyType DEF FindLogoutAll
  <2>3. QED BY <2>1, <2>2
<1>4. CASE FindSwitch(r)
  <2>1. CASE Finish(r)
    BY <1>4, <2>1, FinishType, RequestOnlyType DEF FindSwitch
  <2>2. CASE ~Finish(r)
    <3>. DEFINE y == [req[r] EXCEPT !.pc = "resolve", !.user = owner,
                                    !.pwd = session[req[r].sid].authPwd]
    <3>1. req' = [req EXCEPT ![r] = y]
      BY <1>4, <2>2 DEF FindSwitch
    <3>2. owner \in Users /\ session[req[r].sid] \in SessionRow
      BY <1>4, <2>2, FoundOwner DEF FindSwitch
    <3>3. session[req[r].sid].authPwd \in Nat
      BY <3>2 DEF SessionRow
    <3>4. y \in Request /\ WellFormed(y)
      BY <1>0, <1>4, <3>2, <3>3 DEF FindSwitch, Request, WellFormed, Pc, LoginOps
    <3>5. QED BY <1>4, <3>1, <3>4, StepType, RequestOnlyType DEF FindSwitch
  <2>3. QED BY <2>1, <2>2
<1>5. QED BY <1>1, <1>2, <1>3, <1>4 DEF FindStep

LEMMA SessionsType ==
    ASSUME TypeInv, req' \in [Requests -> Request], RequestsWellFormed',
           session' \in [Sids -> SessionRow],
           \A s \in Sids : session'[s].state # "none" => session'[s].user \in Users,
           loginable' \in [Users -> BOOLEAN],
           UNCHANGED <<password, resetToken, userVer, refreshTokens, tokens, loggedOut, sent>>
    PROVE  TypeInv'
BY DEF TypeInv, TypeOK, RowsOwned, RequestsWellFormed

LEMMA RevokedType ==
    ASSUME NEW x \in SessionRow, x.state # "none" => x.user \in Users
    PROVE  /\ Revoked(x) \in SessionRow
           /\ Revoked(x).state = "revoked"
           /\ Revoked(x).user = x.user /\ Revoked(x).tok = x.tok /\ Revoked(x).last = x.last
BY DEF SessionRow, Revoked

LEMMA RowType ==
    ASSUME TypeInv, NEW s \in Sids
    PROVE  session[s] \in SessionRow /\ (session[s].state # "none" => session[s].user \in Users)
BY DEF TypeInv, TypeOK, RowsOwned

LEMMA RevokeAllType ==
    ASSUME TypeInv, NEW u, RevokeAllOf(u)
    PROVE  /\ session' \in [Sids -> SessionRow]
           /\ \A s \in Sids : session'[s].state # "none" => session'[s].user \in Users
<1>1. \A s \in Sids : session'[s] = IF Active(s) /\ session[s].user = u
                                    THEN Revoked(session[s]) ELSE session[s]
  BY DEF RevokeAllOf
<1>2. \A s \in Sids : session'[s] \in SessionRow
                      /\ (session'[s].state # "none" => session'[s].user \in Users)
  BY <1>1, RowType, RevokedType DEF Active
<1>3. session' = [s \in Sids |-> session'[s]]
  BY DEF RevokeAllOf
<1>4. QED BY <1>2, <1>3

LEMMA IncrType ==
    ASSUME TypeInv, NEW u \in Users, Incr(u) PROVE userVer' \in [Users -> Nat]
BY DEF TypeInv, TypeOK, Incr

LEMMA LoginType ==
    ASSUME TypeInv, NEW r \in Requests, LoginStep(r) PROVE TypeInv'
<1>. DEFINE x == req[r]
<1>0. x \in Request /\ WellFormed(x)
  BY RequestType
<1>1. ASSUME VerifyPassword(r) PROVE TypeInv'
  <2>. DEFINE y == [x EXCEPT !.pc = "resolve", !.pwd = password[IdentityOf[x.target]]]
  <2>1. password[IdentityOf[x.target]] \in Nat
    BY <1>0, <1>1, ConstantsAssumption DEF VerifyPassword, WellFormed, TypeInv, TypeOK
  <2>2. y \in Request
    BY <1>0, <2>1 DEF Request, Pc
  <2>3. y.pc = "resolve" /\ y.op = x.op /\ y.target = x.target /\ y.sid = x.sid
        /\ y.user = x.user
    BY <1>0 DEF Request
  <2>4. WellFormed(y)
    BY <1>0, <1>1, <2>3 DEF VerifyPassword, WellFormed, LoginOps
  <2>5. QED BY <1>1, <2>2, <2>4, StepType, RequestOnlyType DEF VerifyPassword
<1>2. ASSUME ResolveUser(r) PROVE TypeInv'
  <2>1. CASE Finish(r)
    BY <1>2, <2>1, FinishType, RequestOnlyType DEF ResolveUser
  <2>2. CASE ~Finish(r)
    <3>1. PICK pc \in {"revoke", "create"} :
             /\ req' = [req EXCEPT ![r] = [x EXCEPT !.pc = pc]]
             /\ pc = "revoke" => x.op = "switch"
      BY <1>2, <2>2 DEF ResolveUser, Goto
    <3>2. LET y == [x EXCEPT !.pc = pc] IN y \in Request /\ WellFormed(y)
      BY <1>0, <1>2, <3>1 DEF ResolveUser, Request, WellFormed, Pc, LoginOps
    <3>3. QED BY <1>2, <3>1, <3>2, StepType, RequestOnlyType DEF ResolveUser
  <2>3. QED BY <2>1, <2>2
<1>3. ASSUME NEW s \in Sids, CreateSession(r, s) PROVE TypeInv'
  <2>. DEFINE y == [x EXCEPT !.pc = "sign", !.user = x.target, !.sid = s, !.tok = 1, !.from = 0]
  <2>1. x.target \in Users /\ x.pwd \in Nat
    BY <1>0, <1>3 DEF CreateSession, WellFormed, Request
  <2>2. y \in Request
    BY <1>0, <2>1 DEF Request, Pc
  <2>3. y.pc = "sign" /\ y.op = x.op /\ y.target = x.target /\ y.sid = s /\ y.user = x.target
    BY <1>0 DEF Request
  <2>4. WellFormed(y)
    BY <1>0, <2>1, <2>3 DEF WellFormed, LoginOps
  <2>5. req' = [req EXCEPT ![r] = y]
    BY <1>3 DEF CreateSession
  <2>6. password[IdentityOf[x.target]] \in Nat /\ loginable[x.target] \in BOOLEAN
    BY <2>1, ConstantsAssumption DEF TypeInv, TypeOK
  <2>. DEFINE z == [state |-> "active", user |-> x.target, tok |-> 1, last |-> 1,
                    expired |-> FALSE, authPwd |-> x.pwd,
                    bornPwd |-> password[IdentityOf[x.target]],
                    bornLoginable |-> loginable[x.target]]
  <2>7. z \in SessionRow /\ session' = [session EXCEPT ![s] = z] /\ z.user = x.target
    BY <1>3, <2>1, <2>6 DEF CreateSession, SessionRow
  <2>. HIDE DEF z
  <2>8. session' \in [Sids -> SessionRow]
        /\ \A q \in Sids : session'[q].state # "none" => session'[q].user \in Users
    BY <2>1, <2>7, RowType DEF TypeInv, TypeOK
  <2>9. req' \in [Requests -> Request] /\ RequestsWellFormed'
    BY <2>2, <2>4, <2>5, StepType
  <2>10. QED BY <1>3, <2>8, <2>9, SessionsType DEF CreateSession, TypeInv, TypeOK
<1>4. ASSUME Rotate(r) PROVE TypeInv'
  <2>. DEFINE s == x.sid
              n == session[s].last + 1
              y == [x EXCEPT !.pc = "sign", !.tok = n]
  <2>1. s \in Sids
    BY <1>0, <1>4 DEF Rotate, WellFormed
  <2>2. session[s] \in SessionRow /\ n \in Nat
    BY <2>1, RowType DEF SessionRow
  <2>. HIDE DEF n
  <2>3. y \in Request
    BY <1>0, <2>2 DEF Request, Pc
  <2>4. y.pc = "sign" /\ y.op = x.op /\ y.target = x.target /\ y.sid = s /\ y.user = x.user
    BY <1>0 DEF Request
  <2>5. WellFormed(y)
    BY <1>0, <1>4, <2>4 DEF Rotate, WellFormed, LoginOps
  <2>6. req' \in [Requests -> Request] /\ RequestsWellFormed'
    BY <1>4, <2>3, <2>5, StepType DEF Rotate, n
  <2>7. [session[s] EXCEPT !.tok = n, !.last = n, !.expired = FALSE] \in SessionRow
    BY <2>2 DEF SessionRow
  <2>8. session' = [session EXCEPT ![s] = [session[s] EXCEPT !.tok = n, !.last = n,
                                                             !.expired = FALSE]]
    BY <1>4, <2>1 DEF Rotate, TypeInv, TypeOK, n
  <2>9. [session[s] EXCEPT !.tok = n, !.last = n, !.expired = FALSE].state
           = session[s].state
        /\ [session[s] EXCEPT !.tok = n, !.last = n, !.expired = FALSE].user
           = session[s].user
    BY <2>2 DEF SessionRow
  <2>10. session' \in [Sids -> SessionRow]
         /\ \A q \in Sids : session'[q].state # "none" => session'[q].user \in Users
    BY <2>1, <2>7, <2>8, <2>9, RowType DEF TypeInv, TypeOK
  <2>11. QED BY <1>4, <2>6, <2>10, SessionsType DEF Rotate, TypeInv, TypeOK
<1>5. ASSUME ReadVersion(r) PROVE TypeInv'
  <2>. DEFINE y == [x EXCEPT !.pc = "issue", !.ver = userVer[x.user],
                             !.live = Active(x.sid) /\ loginable[x.user]]
  <2>1. userVer[x.user] \in Nat /\ loginable[x.user] \in BOOLEAN
    BY <1>0, <1>5 DEF ReadVersion, WellFormed, TypeInv, TypeOK
  <2>2. y \in Request
    BY <1>0, <2>1 DEF Request, Pc
  <2>3. y.pc = "issue" /\ y.op = x.op /\ y.target = x.target /\ y.sid = x.sid
        /\ y.user = x.user
    BY <1>0 DEF Request
  <2>4. WellFormed(y)
    BY <1>0, <1>5, <2>3 DEF ReadVersion, WellFormed, LoginOps
  <2>5. QED BY <1>5, <2>2, <2>4, StepType, RequestOnlyType DEF ReadVersion
<1>6. ASSUME Issue(r) PROVE TypeInv'
  <2>1. x.user \in Users /\ x.sid \in Sids /\ x.ver \in Nat /\ x.live \in BOOLEAN
        /\ x.tok \in Nat /\ x.from \in Nat
    BY <1>0, <1>6 DEF Issue, WellFormed, Request
  <2>2. req' \in [Requests -> Request] /\ RequestsWellFormed'
    BY <1>6, FinishType DEF Issue
  <2>3. tokens' \subseteq [sub : Users, sid : Sids, ver : Nat, live : BOOLEAN]
    BY <1>6, <2>1 DEF Issue, TypeInv, TypeOK
  <2>4. refreshTokens' \subseteq [sid : Sids, n : Nat, from : Nat]
    BY <1>6, <2>1 DEF Issue, TypeInv, TypeOK
  <2>5. QED BY <1>6, <2>2, <2>3, <2>4
            DEF Issue, TypeInv, TypeOK, RowsOwned, RequestsWellFormed
<1>7. QED BY <1>1, <1>2, <1>3, <1>4, <1>5, <1>6 DEF LoginStep

LEMMA GotoType ==
    ASSUME TypeInv, NEW r \in Requests, NEW pc \in Pc, Goto(r, pc),
           WellFormed([req[r] EXCEPT !.pc = pc])
    PROVE  req' \in [Requests -> Request] /\ RequestsWellFormed'
<1>1. [req[r] EXCEPT !.pc = pc] \in Request
  BY RequestType DEF Request
<1>2. req' = [req EXCEPT ![r] = [req[r] EXCEPT !.pc = pc]]
  BY DEF Goto
<1>3. QED BY <1>1, <1>2, StepType

LEMMA RevokeType ==
    ASSUME TypeInv, Lineage, NEW r \in Requests, RevokeStep(r) PROVE TypeInv'
<1>. DEFINE x == req[r]
<1>0. x \in Request /\ WellFormed(x)
  BY RequestType
<1>a. ASSUME NEW pc \in Pc
      PROVE  LET y == [x EXCEPT !.pc = pc] IN
             y.pc = pc /\ y.op = x.op /\ y.target = x.target /\ y.sid = x.sid
             /\ y.user = x.user /\ y.reset = x.reset /\ y.todo = x.todo
  BY <1>0 DEF Request
<1>1. ASSUME RevokeOne(r) PROVE TypeInv'
  <2>0. x.sid \in Sids /\ RequestKnows(x)
    BY <1>0, <1>1 DEF RevokeOne, WellFormed, Lineage
  <2>1. x.sid \in Sids /\ session[x.sid] \in SessionRow
        /\ session[x.sid].state # "none" /\ session[x.sid].user \in Users
    BY <1>1, <2>0, RowType DEF RevokeOne, RequestKnows, Owns
  <2>2. WellFormed([x EXCEPT !.pc = "incr"])
    BY <1>0, <1>1, <1>a DEF RevokeOne, WellFormed, Pc
  <2>3. req' \in [Requests -> Request] /\ RequestsWellFormed'
    BY <1>1, <2>2, GotoType DEF RevokeOne, Pc
  <2>4. session' = [session EXCEPT ![x.sid] = Revoked(session[x.sid])]
    BY <1>1 DEF RevokeOne
  <2>5. session' \in [Sids -> SessionRow]
    BY <2>1, <2>4, RevokedType DEF TypeInv, TypeOK
  <2>6. \A s \in Sids : session'[s].state # "none" => session'[s].user \in Users
    <3>1. ASSUME NEW s \in Sids, session'[s].state # "none" PROVE session'[s].user \in Users
      <4>1. CASE s = x.sid
        <5>1. session'[s] = Revoked(session[x.sid])
          BY <2>1, <2>4, <4>1 DEF TypeInv, TypeOK
        <5>2. QED BY <2>1, <5>1, RevokedType
      <4>2. CASE s # x.sid
        BY <2>4, <3>1, <4>2, RowType DEF TypeInv, TypeOK
      <4>3. QED BY <4>1, <4>2
    <3>2. QED BY <3>1
  <2>7. QED BY <1>1, <2>3, <2>5, <2>6, SessionsType DEF RevokeOne, TypeInv, TypeOK
<1>2. ASSUME RevokeAll(r) PROVE TypeInv'
  <2>1. WellFormed([x EXCEPT !.pc = "incr"])
    BY <1>0, <1>2, <1>a DEF RevokeAll, WellFormed, Pc
  <2>2. req' \in [Requests -> Request] /\ RequestsWellFormed'
    BY <1>2, <2>1, GotoType DEF RevokeAll, Pc
  <2>3. QED BY <1>2, <2>2, RevokeAllType, SessionsType DEF RevokeAll, TypeInv, TypeOK
<1>3. ASSUME IncrVersion(r) PROVE TypeInv'
  <2>1. req' \in [Requests -> Request] /\ RequestsWellFormed'
    <3>1. CASE x.op = "switch"
      <4>1. WellFormed([x EXCEPT !.pc = "create"])
        BY <1>0, <1>3, <1>a, <3>1 DEF WellFormed, Pc, LoginOps
      <4>2. QED BY <1>3, <3>1, <4>1, GotoType DEF IncrVersion, Pc
    <3>2. CASE x.op # "switch"
      BY <1>3, <3>2, FinishType DEF IncrVersion
    <3>3. QED BY <3>1, <3>2
  <2>2. x.user \in Users /\ userVer' \in [Users -> Nat]
    BY <1>0, <1>3, IncrType DEF IncrVersion, WellFormed
  <2>3. loggedOut' \subseteq [sid : Sids, n : Nat]
    BY <1>0, <1>3 DEF IncrVersion, WellFormed, TypeInv, TypeOK, Request
  <2>4. QED BY <1>3, <2>1, <2>2, <2>3
            DEF IncrVersion, TypeInv, TypeOK, RowsOwned, RequestsWellFormed
<1>4. ASSUME LoadUser(r) PROVE TypeInv'
  <2>1. WellFormed([x EXCEPT !.pc = "setLoginable"])
    BY <1>0, <1>4, <1>a DEF LoadUser, WellFormed, Pc
  <2>2. req' \in [Requests -> Request] /\ RequestsWellFormed'
    BY <1>4, <2>1, GotoType, FinishType DEF LoadUser, Pc
  <2>3. QED BY <1>4, <2>2, RequestOnlyType DEF LoadUser
<1>5. ASSUME SetLoginable(r) PROVE TypeInv'
  <2>1. PICK pc \in {"revokeAll", "incr"} :
           Goto(r, pc) /\ (pc = "revokeAll" => x.op = "deactivate")
    BY <1>5 DEF SetLoginable
  <2>2. WellFormed([x EXCEPT !.pc = pc])
    BY <1>0, <1>5, <1>a, <2>1 DEF SetLoginable, WellFormed, Pc
  <2>3. req' \in [Requests -> Request] /\ RequestsWellFormed'
    BY <2>1, <2>2, GotoType DEF Pc
  <2>4. loginable' \in [Users -> BOOLEAN]
    BY <1>5 DEF SetLoginable, TypeInv, TypeOK
  <2>5. QED BY <1>5, <2>3, <2>4
            DEF SetLoginable, TypeInv, TypeOK, RowsOwned, RequestsWellFormed
<1>6. QED BY <1>1, <1>2, <1>3, <1>4, <1>5 DEF RevokeStep

LEMMA ResetType ==
    ASSUME TypeInv, Lineage, NEW r \in Requests, ResetStep(r) PROVE TypeInv'
<1>. DEFINE x == req[r]
<1>0. x \in Request /\ WellFormed(x)
  BY RequestType
<1>a. ASSUME NEW pc \in Pc
      PROVE  LET y == [x EXCEPT !.pc = pc] IN
             y.pc = pc /\ y.op = x.op /\ y.target = x.target /\ y.sid = x.sid
             /\ y.user = x.user /\ y.reset = x.reset /\ y.todo = x.todo
  BY <1>0 DEF Request
<1>1. ASSUME CheckReset(r) PROVE TypeInv'
  <2>1. WellFormed([x EXCEPT !.pc = "setHash"])
    BY <1>0, <1>1, <1>a DEF CheckReset, WellFormed, Pc
  <2>2. req' \in [Requests -> Request] /\ RequestsWellFormed'
    BY <1>1, <2>1, GotoType, FinishType DEF CheckReset, Pc
  <2>3. QED BY <1>1, <2>2, RequestOnlyType DEF CheckReset
<1>2. ASSUME RefuseNewPassword(r) PROVE TypeInv'
  BY <1>2, FinishType, RequestOnlyType DEF RefuseNewPassword
<1>3. ASSUME SetPasswordHash(r) PROVE TypeInv'
  <2>. DEFINE i == resetToken[x.reset].identity
              y == [x EXCEPT !.pc = "markUsed", !.todo = UsersOf(i)]
  <2>1. y \in Request
    BY <1>0 DEF Request, Pc, UsersOf
  <2>2. y.pc = "markUsed" /\ y.op = x.op /\ y.target = x.target /\ y.sid = x.sid
        /\ y.reset = x.reset
    BY <1>0 DEF Request
  <2>3. WellFormed(y)
    BY <1>0, <1>3, <2>2 DEF SetPasswordHash, WellFormed
  <2>4. req' \in [Requests -> Request] /\ RequestsWellFormed'
    BY <1>3, <2>1, <2>3, StepType DEF SetPasswordHash
  <2>5. password' \in [Identities -> Nat]
    <3>1. password' = [password EXCEPT ![i] = password[i] + 1]
      BY <1>3 DEF SetPasswordHash
    <3>2. password \in [Identities -> Nat]
      BY DEF TypeInv, TypeOK
    <3>3. \A j \in Identities : password'[j] \in Nat
      BY <3>1, <3>2
    <3>4. QED BY <3>1, <3>2, <3>3
  <2>6. QED BY <1>3, <2>4, <2>5
            DEF SetPasswordHash, TypeInv, TypeOK, RowsOwned, RequestsWellFormed
<1>4. ASSUME MarkUsed(r) PROVE TypeInv'
  <2>1. req' \in [Requests -> Request] /\ RequestsWellFormed'
    <3>1. CASE x.todo = {}
      BY <1>4, <3>1, FinishType DEF MarkUsed
    <3>2. CASE x.todo # {}
      <4>1. WellFormed([x EXCEPT !.pc = "sweep"])
        BY <1>0, <1>4, <1>a, <3>2 DEF MarkUsed, WellFormed, Pc
      <4>2. QED BY <1>4, <3>2, <4>1, GotoType DEF MarkUsed, Pc
    <3>3. QED BY <3>1, <3>2
  <2>2. x.reset \in ResetTokens
    BY <1>0, <1>4 DEF MarkUsed, WellFormed
  <2>. DEFINE z == [resetToken[x.reset] EXCEPT !.state = "used"]
  <2>3. z \in [state : {"none", "valid", "used", "expired"}, identity : Identities \cup {NoOne}]
        /\ z.identity \in Identities
    BY <1>0, <1>4, <2>2 DEF MarkUsed, TypeInv, TypeOK, RowsOwned, Lineage, RequestKnows
  <2>4. resetToken' = [resetToken EXCEPT ![x.reset] = z]
    BY <1>4 DEF MarkUsed
  <2>. HIDE DEF z
  <2>5. resetToken' \in [ResetTokens -> [state : {"none", "valid", "used", "expired"},
                                         identity : Identities \cup {NoOne}]]
        /\ \A k \in ResetTokens : resetToken'[k].state # "none" =>
                                     resetToken'[k].identity \in Identities
    BY <2>3, <2>4 DEF TypeInv, TypeOK, RowsOwned
  <2>6. QED BY <1>4, <2>1, <2>5
            DEF MarkUsed, TypeInv, TypeOK, RowsOwned, RequestsWellFormed
<1>5. ASSUME NEW u \in Users, SweepRevoke(r, u) PROVE TypeInv'
  <2>. DEFINE y == [x EXCEPT !.pc = "sweepIncr", !.user = u]
  <2>1. y \in Request
    BY <1>0 DEF Request, Pc
  <2>2. y.pc = "sweepIncr" /\ y.op = x.op /\ y.target = x.target /\ y.sid = x.sid
        /\ y.todo = x.todo /\ y.user = u
    BY <1>0 DEF Request
  <2>3. WellFormed(y)
    BY <1>0, <1>5, <2>2 DEF SweepRevoke, WellFormed
  <2>4. req' \in [Requests -> Request] /\ RequestsWellFormed'
    BY <1>5, <2>1, <2>3, StepType DEF SweepRevoke
  <2>5. QED BY <1>5, <2>4, RevokeAllType, SessionsType DEF SweepRevoke, TypeInv, TypeOK
<1>6. ASSUME SweepIncr(r) PROVE TypeInv'
  <2>1. x.user \in Users /\ userVer' \in [Users -> Nat]
    BY <1>0, <1>6, IncrType DEF SweepIncr, WellFormed
  <2>2. req' \in [Requests -> Request] /\ RequestsWellFormed'
    <3>1. CASE x.todo = {x.user}
      BY <1>6, <3>1, StepType, IdleType DEF SweepIncr
    <3>2. CASE x.todo # {x.user}
      <4>. DEFINE y == [x EXCEPT !.pc = "sweep", !.todo = x.todo \ {x.user}]
      <4>1. y \in Request
        BY <1>0 DEF Request, Pc
      <4>2. y.pc = "sweep" /\ y.op = x.op /\ y.target = x.target /\ y.sid = x.sid
            /\ y.todo = x.todo \ {x.user}
        BY <1>0 DEF Request
      <4>3. y.todo # {}
        BY <1>0, <1>6, <3>2, <4>2 DEF SweepIncr, WellFormed
      <4>4. WellFormed(y)
        BY <1>0, <1>6, <4>2, <4>3 DEF WellFormed
      <4>5. req' = [req EXCEPT ![r] = y]
        BY <1>6, <3>2 DEF SweepIncr
      <4>6. QED BY <4>1, <4>4, <4>5, StepType
    <3>3. QED BY <3>1, <3>2
  <2>3. QED BY <1>6, <2>1, <2>2
            DEF SweepIncr, TypeInv, TypeOK, RowsOwned, RequestsWellFormed
<1>7. QED BY <1>1, <1>2, <1>3, <1>4, <1>5, <1>6 DEF ResetStep

(* A reset token is requested or expires; a session or a token expires.      *)
TimeStep ==
    \/ \E k \in ResetTokens, i \in Identities : RequestReset(k, i)
    \/ \E s \in Sids : ExpireSession(s)
    \/ \E k \in ResetTokens : ExpireReset(k)
    \/ \E t \in tokens : ExpireToken(t)

LEMMA TimeType ==
    ASSUME TypeInv, TimeStep PROVE TypeInv'
<1>1. ASSUME NEW k \in ResetTokens, NEW i \in Identities, RequestReset(k, i) PROVE TypeInv'
  BY <1>1 DEF RequestReset, TypeInv, TypeOK, RowsOwned, RequestsWellFormed
<1>2. ASSUME NEW s \in Sids, ExpireSession(s) PROVE TypeInv'
  <2>. DEFINE z == [session[s] EXCEPT !.expired = TRUE]
  <2>1. z \in SessionRow /\ z.state = session[s].state /\ z.user = session[s].user
    BY RowType DEF SessionRow
  <2>2. session' = [session EXCEPT ![s] = z]
    BY <1>2 DEF ExpireSession
  <2>. HIDE DEF z
  <2>3. session' \in [Sids -> SessionRow]
        /\ \A q \in Sids : session'[q].state # "none" => session'[q].user \in Users
    BY <2>1, <2>2, RowType DEF TypeInv, TypeOK
  <2>4. req' \in [Requests -> Request] /\ RequestsWellFormed'
    BY <1>2 DEF ExpireSession, TypeInv, TypeOK, RequestsWellFormed
  <2>5. QED BY <1>2, <2>3, <2>4, SessionsType DEF ExpireSession, TypeInv, TypeOK
<1>3. ASSUME NEW k \in ResetTokens, ExpireReset(k) PROVE TypeInv'
  BY <1>3 DEF ExpireReset, TypeInv, TypeOK, RowsOwned, RequestsWellFormed
<1>4. ASSUME NEW t \in tokens, ExpireToken(t) PROVE TypeInv'
  BY <1>4 DEF ExpireToken, TypeInv, TypeOK, RowsOwned, RequestsWellFormed
<1>5. QED BY <1>1, <1>2, <1>3, <1>4 DEF TimeStep

(* Next, with its steps grouped. *)
LEMMA NextSteps ==
    ASSUME Next
    PROVE  \/ \E r \in Requests : \/ SendAny(r) \/ FindStep(r) \/ LoginStep(r)
                                  \/ RevokeStep(r) \/ ResetStep(r)
           \/ TimeStep
<1>1. ASSUME NEW r \in Requests, Run(r)
      PROVE  FindStep(r) \/ LoginStep(r) \/ RevokeStep(r) \/ ResetStep(r)
  BY <1>1 DEF Run, FindStep, LoginStep, RevokeStep, ResetStep
<1>2. QED BY <1>1 DEF Next, TimeStep

(* What no step does to a row that exists: it keeps its owner and its history, *)
(* its newest token only grows, and a revoked one stays revoked.             *)
RowKept(s) ==
    session[s].state # "none" =>
        LET x == session[s]  y == session'[s] IN
        /\ y.state # "none" /\ (x.state = "revoked" => y.state = "revoked")
        /\ y.user = x.user /\ y.authPwd = x.authPwd
        /\ y.bornPwd = x.bornPwd /\ y.bornLoginable = x.bornLoginable
        /\ y.last \in Nat /\ y.last >= x.last
        /\ y.tok = x.tok \/ y.tok = x.last + 1

RowsKept == \A s \in Sids : RowKept(s)

LEMMA UnchangedRows ==
    ASSUME TypeInv, UNCHANGED session PROVE RowsKept
BY RowType DEF RowsKept, RowKept, SessionRow

LEMMA RevokedRowKept ==
    ASSUME TypeInv, NEW s \in Sids,
           session'[s] = session[s] \/ session'[s] = Revoked(session[s])
    PROVE  RowKept(s)
BY RowType DEF RowKept, SessionRow, Revoked

LEMMA RowsKeptStep ==
    ASSUME TypeInv, [Next]_vars PROVE RowsKept
<1>1. ASSUME NEW r \in Requests, SendAny(r) PROVE UNCHANGED session
  BY <1>1 DEF SendAny, SendLogin, SendToken, SendReset, SendActivation, Send
<1>2. ASSUME NEW r \in Requests, FindStep(r) PROVE UNCHANGED session
  BY <1>2 DEF FindStep, FindRefresh, FindLogout, FindLogoutAll, FindSwitch
<1>3. ASSUME NEW r \in Requests, LoginStep(r) PROVE RowsKept
  <2>1. ASSUME NEW s \in Sids, CreateSession(r, s) PROVE RowsKept
    <3>1. \A q \in Sids : q # s => session'[q] = session[q]
      BY <2>1 DEF CreateSession, TypeInv, TypeOK
    <3>2. session[s].state = "none"
      BY <2>1 DEF CreateSession
    <3>3. QED BY <3>1, <3>2, RevokedRowKept DEF RowsKept, RowKept
  <2>2. ASSUME Rotate(r) PROVE RowsKept
    <3>. DEFINE s == req[r].sid
    <3>1. s \in Sids
      BY <2>2, RequestType DEF Rotate, WellFormed
    <3>2. \A q \in Sids : q # s => session'[q] = session[q]
      BY <2>2 DEF Rotate, TypeInv, TypeOK
    <3>3. session'[s] = [session[s] EXCEPT !.tok = session[s].last + 1,
                                           !.last = session[s].last + 1, !.expired = FALSE]
      BY <2>2, <3>1 DEF Rotate, TypeInv, TypeOK
    <3>4. RowKept(s)
      BY <3>1, <3>3, RowType DEF RowKept, SessionRow
    <3>5. QED BY <3>1, <3>2, <3>4, RevokedRowKept DEF RowsKept
  <2>3. VerifyPassword(r) \/ ResolveUser(r) \/ ReadVersion(r) \/ Issue(r)
        => UNCHANGED session
    BY DEF VerifyPassword, ResolveUser, ReadVersion, Issue
  <2>4. QED BY <1>3, <2>1, <2>2, <2>3, UnchangedRows DEF LoginStep
<1>4. ASSUME NEW u, RevokeAllOf(u) PROVE RowsKept
  <2>1. \A s \in Sids : session'[s] = session[s] \/ session'[s] = Revoked(session[s])
    BY <1>4 DEF RevokeAllOf
  <2>2. QED BY <2>1, RevokedRowKept DEF RowsKept
<1>5. ASSUME NEW r \in Requests, RevokeStep(r) PROVE RowsKept
  <2>1. ASSUME RevokeOne(r) PROVE RowsKept
    <3>1. \A s \in Sids : session'[s] = session[s] \/ session'[s] = Revoked(session[s])
      BY <2>1 DEF RevokeOne, TypeInv, TypeOK
    <3>2. QED BY <3>1, RevokedRowKept DEF RowsKept
  <2>2. IncrVersion(r) \/ LoadUser(r) \/ SetLoginable(r) => UNCHANGED session
    BY DEF IncrVersion, LoadUser, SetLoginable
  <2>3. QED BY <1>4, <1>5, <2>1, <2>2, UnchangedRows DEF RevokeStep, RevokeAll
<1>6. ASSUME NEW r \in Requests, ResetStep(r) PROVE RowsKept
  <2>1. CheckReset(r) \/ RefuseNewPassword(r) \/ SetPasswordHash(r) \/ MarkUsed(r)
        \/ SweepIncr(r) => UNCHANGED session
    BY DEF CheckReset, RefuseNewPassword, SetPasswordHash, MarkUsed, SweepIncr
  <2>2. QED BY <1>4, <1>6, <2>1, UnchangedRows DEF ResetStep, SweepRevoke
<1>7. ASSUME TimeStep PROVE RowsKept
  <2>1. ASSUME NEW s \in Sids, ExpireSession(s) PROVE RowsKept
    <3>1. \A q \in Sids : q # s => session'[q] = session[q]
      BY <2>1 DEF ExpireSession, TypeInv, TypeOK
    <3>2. session'[s] = [session[s] EXCEPT !.expired = TRUE]
      BY <2>1 DEF ExpireSession, TypeInv, TypeOK
    <3>3. RowKept(s)
      BY <3>2, RowType DEF RowKept, SessionRow
    <3>4. QED BY <3>1, <3>3, RevokedRowKept DEF RowsKept
  <2>2. (\E k \in ResetTokens, i \in Identities : RequestReset(k, i))
        \/ (\E k \in ResetTokens : ExpireReset(k)) \/ (\E t \in tokens : ExpireToken(t))
        => UNCHANGED session
    BY DEF RequestReset, ExpireReset, ExpireToken
  <2>3. QED BY <1>7, <2>1, <2>2, UnchangedRows DEF TimeStep
<1>8. UNCHANGED vars => UNCHANGED session
  BY DEF vars
<1>9. QED BY <1>1, <1>2, <1>3, <1>5, <1>6, <1>7, <1>8, NextSteps, UnchangedRows

LEMMA InitType == Init => TypeInv
<1>1. ASSUME Init PROVE TypeOK
  <2>1. NoSession \in SessionRow
    BY DEF NoSession, SessionRow
  <2>2. QED BY <1>1, <2>1, IdleType DEF Init, TypeOK
<1>2. ASSUME Init PROVE RequestsWellFormed
  BY <1>2, IdleType DEF Init, RequestsWellFormed
<1>3. ASSUME Init PROVE RowsOwned
  BY <1>3 DEF Init, RowsOwned, NoSession
<1>4. QED BY <1>1, <1>2, <1>3 DEF TypeInv

LEMMA StutterType == TypeInv /\ UNCHANGED vars => TypeInv'
BY DEF vars, TypeInv, TypeOK, RowsOwned, RequestsWellFormed

LEMMA TypeStep == TypeInv /\ Lineage /\ [Next]_vars => TypeInv'
BY StutterType, NextSteps, SendType, FindType, LoginType, RevokeType, ResetType, TimeType

-----------------------------------------------------------------------------
(* Where the refresh tokens in circulation come from. *)

(* A reset token that was created stays, for the same identity. *)
ResetsKept ==
    \A k \in ResetTokens : resetToken[k].state # "none" =>
        resetToken'[k].state # "none" /\ resetToken'[k].identity = resetToken[k].identity

LEMMA ResetsKeptStep ==
    ASSUME TypeInv, [Next]_vars PROVE ResetsKept
<1>1. ASSUME NEW r \in Requests, SendAny(r) \/ FindStep(r) \/ LoginStep(r) \/ RevokeStep(r)
      PROVE  UNCHANGED resetToken
  BY <1>1 DEF SendAny, SendLogin, SendToken, SendReset, SendActivation, Send, FindStep,
              FindRefresh, FindLogout, FindLogoutAll, FindSwitch, LoginStep, VerifyPassword,
              ResolveUser, CreateSession, Rotate, ReadVersion, Issue, RevokeStep, RevokeOne,
              RevokeAll, IncrVersion, LoadUser, SetLoginable
<1>2. ASSUME NEW r \in Requests, MarkUsed(r) PROVE ResetsKept
  BY <1>2 DEF MarkUsed, ResetsKept, TypeInv, TypeOK
<1>3. ASSUME NEW r \in Requests, ResetStep(r), ~MarkUsed(r) PROVE UNCHANGED resetToken
  BY <1>3 DEF ResetStep, CheckReset, RefuseNewPassword, SetPasswordHash, SweepRevoke, SweepIncr
<1>4. ASSUME TimeStep PROVE ResetsKept
  BY <1>4 DEF TimeStep, RequestReset, ExpireSession, ExpireReset, ExpireToken, ResetsKept,
              TypeInv, TypeOK
<1>5. UNCHANGED resetToken => ResetsKept
  BY DEF ResetsKept
<1>6. UNCHANGED vars => UNCHANGED resetToken
  BY DEF vars
<1>7. QED BY <1>1, <1>2, <1>3, <1>4, <1>5, <1>6, NextSteps

LEMMA GeneratedKept ==
    ASSUME TypeInv, RowsKept, NEW s \in Sids, NEW n \in Nat, Generated(s, n)
    PROVE  Generated(s, n)'
<1>1. session[s].last \in Nat
  BY RowType DEF SessionRow
<1>2. session[s].state # "none" /\ n <= session[s].last
  BY DEF Generated
<1>3. session'[s].state # "none" /\ session'[s].last \in Nat
      /\ session'[s].last >= session[s].last
  BY <1>2 DEF RowsKept, RowKept
<1>4. QED BY <1>1, <1>2, <1>3 DEF Generated

LEMMA OwnsKept ==
    ASSUME RowsKept, NEW s \in Sids, NEW u, Owns(u, s) PROVE Owns(u, s)'
BY DEF RowsKept, RowKept, Owns

LEMMA KnowsKept ==
    ASSUME TypeInv, Lineage, RowsKept, ResetsKept, NEW q \in Requests, req'[q] = req[q]
    PROVE  RequestKnows(req[q])'
<1>. PICK x \in Request : x = req[q]
  BY RequestType
<1>1. req[q]' = x /\ WellFormed(x) /\ RequestKnows(x)
  BY RequestType DEF Lineage
<1>2. x.tok \in Nat
  BY DEF Request
<1>3. RequestKnows(x)'
  <2>1. x.pc \in {"find", "sign", "issue", "revoke"} => Generated(x.sid, x.tok)'
    BY <1>1, <1>2, GeneratedKept DEF RequestKnows, WellFormed
  <2>2. x.op = "logout" /\ x.pc = "incr" =>
           Generated(x.sid, x.tok)' /\ session'[x.sid].state = "revoked"
    <3>1. SUFFICES ASSUME x.op = "logout", x.pc = "incr"
                   PROVE  Generated(x.sid, x.tok)' /\ session'[x.sid].state = "revoked"
      OBVIOUS
    <3>2. x.sid \in Sids /\ Generated(x.sid, x.tok) /\ session[x.sid].state = "revoked"
      BY <1>1, <3>1 DEF RequestKnows, WellFormed
    <3>3. QED BY <1>2, <3>2, GeneratedKept DEF RowsKept, RowKept
  <2>3. x.pc \in {"rotate", "sign", "issue", "revoke"} => Owns(x.user, x.sid)'
    BY <1>1, OwnsKept DEF RequestKnows, WellFormed
  <2>4. x.pc = "resolve" /\ x.op = "switch" =>
           Owns(x.user, x.sid)' /\ Generated(x.sid, x.tok)'
    BY <1>1, <1>2, OwnsKept, GeneratedKept DEF RequestKnows, WellFormed
  <2>5. x.pc \in {"checkReset", "setHash", "markUsed"} => resetToken'[x.reset].state # "none"
    BY <1>1 DEF RequestKnows, WellFormed, ResetsKept
  <2>6. QED BY <2>1, <2>2, <2>3, <2>4, <2>5 DEF RequestKnows
<1>4. QED BY <1>1, <1>3

LEMMA LineageStep ==
    ASSUME TypeInv, Lineage, RowsKept, ResetsKept, NEW r \in Requests,
           \A q \in Requests : q # r => req'[q] = req[q],
           RequestKnows(req[r])',
           \A k \in refreshTokens' \cup loggedOut' :
               k \in refreshTokens \cup loggedOut \/ Generated(k.sid, k.n)'
    PROVE  Lineage'
<1>1. \A q \in Requests : RequestKnows(req[q])'
  <2>1. TAKE q \in Requests
  <2>2. CASE q = r
    BY <2>2
  <2>3. CASE q # r
    BY <2>3, KnowsKept
  <2>4. QED BY <2>2, <2>3
<1>2. ASSUME NEW k \in refreshTokens' \cup loggedOut' PROVE Generated(k.sid, k.n)'
  <2>1. CASE k \in refreshTokens \cup loggedOut
    <3>1. k.sid \in Sids /\ k.n \in Nat /\ Generated(k.sid, k.n)
      BY <2>1 DEF Lineage, TypeInv, TypeOK
    <3>2. QED BY <3>1, GeneratedKept
  <2>2. QED BY <1>2, <2>1
<1>3. QED BY <1>1, <1>2 DEF Lineage

(* A step that replaces the record of r leaves the others. *)
LEMMA OthersKept ==
    ASSUME TypeInv, NEW r \in Requests, NEW y, req' = [req EXCEPT ![r] = y]
    PROVE  req'[r] = y /\ \A q \in Requests : q # r => req'[q] = req[q]
BY DEF TypeInv, TypeOK

LEMMA IdleKnows ==
    ASSUME TypeInv, NEW r \in Requests, req' = [req EXCEPT ![r] = IdleRequest]
    PROVE  RequestKnows(req[r])' /\ \A q \in Requests : q # r => req'[q] = req[q]
<1>1. req'[r] = IdleRequest /\ \A q \in Requests : q # r => req'[q] = req[q]
  BY OthersKept
<1>2. IdleRequest.pc = "idle"
  BY DEF IdleRequest
<1>3. QED BY <1>1, <1>2 DEF RequestKnows

LEMMA SendLineage ==
    ASSUME TypeInv, Lineage, RowsKept, ResetsKept, NEW r \in Requests, SendAny(r)
    PROVE  Lineage'
<1>1. UNCHANGED <<session, resetToken, refreshTokens, loggedOut>>
  BY DEF SendAny, SendLogin, SendToken, SendReset, SendActivation, Send
<1>2. PICK y \in Request : req' = [req EXCEPT ![r] = y]
  <2>1. TypeOK'
    BY SendType DEF TypeInv
  <2>2. \E y : req' = [req EXCEPT ![r] = y]
    BY DEF SendAny, SendLogin, SendToken, SendReset, SendActivation, Send
  <2>3. QED BY <2>1, <2>2 DEF TypeInv, TypeOK
<1>3. req'[r] = y /\ \A q \in Requests : q # r => req'[q] = req[q]
  BY <1>2, OthersKept
<1>4. \/ y.pc = "verify" \/ y.pc = "load"
      \/ y.pc = "find" /\ \E k \in refreshTokens : y.sid = k.sid /\ y.tok = k.n
      \/ y.pc = "checkReset" /\ resetToken[y.reset].state # "none"
  <2>1. ASSUME NEW u \in Users, SendLogin(r, u) PROVE y.pc = "verify"
    BY <1>3, <2>1, IdleType DEF SendLogin, Send, TypeInv, TypeOK, Request
  <2>2. ASSUME NEW k \in refreshTokens, NEW op, NEW u, SendToken(r, op, k, u)
        PROVE  y.pc = "find" /\ y.sid = k.sid /\ y.tok = k.n
    BY <1>3, <2>2, IdleType DEF SendToken, Send, TypeInv, TypeOK, Request
  <2>3. ASSUME NEW k \in ResetTokens, SendReset(r, k)
        PROVE  y.pc = "checkReset" /\ resetToken[y.reset].state # "none"
    BY <1>3, <2>3, IdleType DEF SendReset, Send, TypeInv, TypeOK, Request
  <2>4. ASSUME NEW u \in Users, NEW op, SendActivation(r, op, u) PROVE y.pc = "load"
    BY <1>3, <2>4, IdleType DEF SendActivation, Send, TypeInv, TypeOK, Request
  <2>5. QED BY <2>1, <2>2, <2>3, <2>4 DEF SendAny
<1>5. y.pc = "find" => Generated(y.sid, y.tok)
  BY <1>4 DEF Lineage
<1>6. RequestKnows(req[r])'
  BY <1>1, <1>3, <1>4, <1>5 DEF RequestKnows, Generated
<1>7. QED BY <1>1, <1>3, <1>6, LineageStep

LEMMA FindLineage ==
    ASSUME TypeInv, Lineage, RowsKept, ResetsKept, NEW r \in Requests, FindStep(r)
    PROVE  Lineage'
<1>. DEFINE x == req[r]
            owner == session[x.sid].user
<1>0. x \in Request /\ WellFormed(x) /\ RequestKnows(x)
  BY RequestType DEF Lineage
<1>1. UNCHANGED <<session, resetToken, refreshTokens>>
  BY DEF FindStep, FindRefresh, FindLogout, FindLogoutAll, FindSwitch
<1>2. x.sid \in Sids /\ x.tok \in Nat /\ Generated(x.sid, x.tok) /\ Owns(owner, x.sid)
  BY <1>0 DEF FindStep, FindRefresh, FindLogout, FindLogoutAll, FindSwitch, WellFormed,
              RequestKnows, Request, Generated, Owns
<1>3. \A k \in loggedOut' : k \in loggedOut \/ Generated(k.sid, k.n)'
  <2>1. loggedOut' \subseteq loggedOut \cup {[sid |-> x.sid, n |-> x.tok]}
    BY DEF FindStep, FindRefresh, FindLogout, FindLogoutAll, FindSwitch
  <2>2. QED BY <1>1, <1>2, <2>1 DEF Generated
<1>4. RequestKnows(req[r])' /\ \A q \in Requests : q # r => req'[q] = req[q]
  <2>1. CASE Finish(r)
    BY <2>1, IdleKnows DEF Finish
  <2>2. CASE ~Finish(r)
    <3>1. PICK pc \in {"revokeAll", "rotate", "revoke", "resolve"}, n \in Nat :
             req' = [req EXCEPT ![r] = [x EXCEPT !.pc = pc, !.user = owner, !.pwd = n]]
      <4>1. session[x.sid].authPwd \in Nat /\ x.pwd \in Nat
        BY <1>0, <1>2, RowType DEF SessionRow, Request
      <4>2. ASSUME NEW pc
            PROVE  [x EXCEPT !.pc = pc, !.user = owner]
                     = [x EXCEPT !.pc = pc, !.user = owner, !.pwd = x.pwd]
        BY <1>0 DEF Request
      <4>3. FindRefresh(r) => \E pc \in {"revokeAll", "rotate"} :
               req' = [req EXCEPT ![r] = [x EXCEPT !.pc = pc, !.user = owner]]
        BY <2>2 DEF FindRefresh
      <4>4. FindLogout(r) => req' = [req EXCEPT ![r] = [x EXCEPT !.pc = "revoke",
                                                               !.user = owner]]
        BY <2>2 DEF FindLogout
      <4>5. FindLogoutAll(r) => req' = [req EXCEPT ![r] = [x EXCEPT !.pc = "revokeAll",
                                                                  !.user = owner]]
        BY <2>2 DEF FindLogoutAll
      <4>6. FindSwitch(r) => req' = [req EXCEPT ![r] =
               [x EXCEPT !.pc = "resolve", !.user = owner, !.pwd = session[x.sid].authPwd]]
        BY <2>2 DEF FindSwitch
      <4>7. QED BY <4>1, <4>2, <4>3, <4>4, <4>5, <4>6 DEF FindStep
    <3>. DEFINE y == [x EXCEPT !.pc = pc, !.user = owner, !.pwd = n]
    <3>2. y.pc = pc /\ y.user = owner /\ y.sid = x.sid /\ y.tok = x.tok
      BY <1>0 DEF Request
    <3>3. req'[r] = y /\ \A q \in Requests : q # r => req'[q] = req[q]
      BY <3>1, OthersKept
    <3>. HIDE DEF y
    <3>4. QED BY <1>1, <1>2, <3>2, <3>3 DEF RequestKnows, Generated, Owns
  <2>3. QED BY <2>1, <2>2
<1>5. QED BY <1>1, <1>3, <1>4, LineageStep

(* What the steps of a login, a switch and a refresh leave in the request.   *)
LEMMA GotoFields ==
    ASSUME TypeInv, NEW r \in Requests, NEW pc, Goto(r, pc)
    PROVE  /\ req'[r] = [req[r] EXCEPT !.pc = pc]
           /\ req'[r].pc = pc /\ req'[r].op = req[r].op
           /\ req'[r].user = req[r].user /\ req'[r].sid = req[r].sid
           /\ req'[r].tok = req[r].tok /\ req'[r].reset = req[r].reset
           /\ req'[r].todo = req[r].todo
           /\ \A q \in Requests : q # r => req'[q] = req[q]
<1>1. req' = [req EXCEPT ![r] = [req[r] EXCEPT !.pc = pc]]
  BY DEF Goto
<1>2. req'[r] = [req[r] EXCEPT !.pc = pc] /\ \A q \in Requests : q # r => req'[q] = req[q]
  BY <1>1, OthersKept
<1>3. QED BY <1>2, RequestType DEF Request

LEMMA LoginLineage ==
    ASSUME TypeInv, Lineage, RowsKept, ResetsKept, NEW r \in Requests, LoginStep(r)
    PROVE  Lineage'
<1>. DEFINE x == req[r]
<1>0. x \in Request /\ WellFormed(x) /\ RequestKnows(x)
  BY RequestType DEF Lineage
<1>1. ASSUME VerifyPassword(r) PROVE Lineage'
  <2>. DEFINE y == [x EXCEPT !.pc = "resolve", !.pwd = password[IdentityOf[x.target]]]
  <2>1. y.pc = "resolve" /\ y.op = x.op
    BY <1>0 DEF Request
  <2>0. req' = [req EXCEPT ![r] = y]
    BY <1>1 DEF VerifyPassword
  <2>2. req'[r] = y /\ \A q \in Requests : q # r => req'[q] = req[q]
    BY <2>0, OthersKept
  <2>3. x.op = "login"
    BY <1>0, <1>1 DEF VerifyPassword, WellFormed
  <2>4. RequestKnows(req[r])'
    BY <2>1, <2>2, <2>3 DEF RequestKnows
  <2>5. QED BY <1>1, <2>2, <2>4, LineageStep DEF VerifyPassword
<1>2. ASSUME ResolveUser(r) PROVE Lineage'
  <2>1. CASE Finish(r)
    BY <1>2, <2>1, IdleKnows, LineageStep DEF ResolveUser, Finish
  <2>2. CASE ~Finish(r)
    <3>1. PICK pc \in {"revoke", "create"} :
             Goto(r, pc) /\ (pc = "revoke" => x.op = "switch")
      BY <1>2, <2>2 DEF ResolveUser
    <3>2. req'[r].pc = pc /\ req'[r].user = x.user /\ req'[r].sid = x.sid
          /\ req'[r].tok = x.tok /\ \A q \in Requests : q # r => req'[q] = req[q]
      BY <3>1, GotoFields
    <3>3. x.op = "switch" => Owns(x.user, x.sid) /\ Generated(x.sid, x.tok)
      BY <1>0, <1>2 DEF ResolveUser, RequestKnows
    <3>4. UNCHANGED <<session, resetToken, refreshTokens, loggedOut>>
      BY <1>2 DEF ResolveUser
    <3>5. RequestKnows(req[r])'
      BY <3>1, <3>2, <3>3, <3>4 DEF RequestKnows, Owns, Generated
    <3>6. QED BY <3>2, <3>4, <3>5, LineageStep
  <2>3. QED BY <2>1, <2>2
<1>3. ASSUME NEW s \in Sids, CreateSession(r, s) PROVE Lineage'
  <2>. DEFINE y == [x EXCEPT !.pc = "sign", !.user = x.target, !.sid = s, !.tok = 1,
                             !.from = 0]
  <2>1. y.pc = "sign" /\ y.user = x.target /\ y.sid = s /\ y.tok = 1
    BY <1>0 DEF Request
  <2>0. req' = [req EXCEPT ![r] = y]
    BY <1>3 DEF CreateSession
  <2>2. req'[r] = y /\ \A q \in Requests : q # r => req'[q] = req[q]
    BY <2>0, OthersKept
  <2>3. session'[s].state = "active" /\ session'[s].user = x.target /\ session'[s].last = 1
    BY <1>3 DEF CreateSession, TypeInv, TypeOK
  <2>. HIDE DEF y
  <2>4. RequestKnows(req[r])'
    BY <2>1, <2>2, <2>3 DEF RequestKnows, Owns, Generated
  <2>5. QED BY <1>3, <2>2, <2>4, LineageStep DEF CreateSession
<1>4. ASSUME Rotate(r) PROVE Lineage'
  <2>. DEFINE n == session[x.sid].last + 1
              y == [x EXCEPT !.pc = "sign", !.tok = n]
  <2>1. y.pc = "sign" /\ y.user = x.user /\ y.sid = x.sid /\ y.tok = n
    BY <1>0 DEF Request
  <2>0. req' = [req EXCEPT ![r] = y]
    BY <1>4 DEF Rotate
  <2>2. req'[r] = y /\ \A q \in Requests : q # r => req'[q] = req[q]
    BY <2>0, OthersKept
  <2>3. x.sid \in Sids /\ Owns(x.user, x.sid)
    BY <1>0, <1>4 DEF Rotate, WellFormed, RequestKnows
  <2>4. session'[x.sid].last = n
    BY <1>4, <2>3, RowType DEF Rotate, SessionRow, TypeInv, TypeOK
  <2>5. session'[x.sid].state # "none" /\ session'[x.sid].user = x.user
    BY <2>3 DEF RowsKept, RowKept, Owns
  <2>. HIDE DEF y
  <2>6. n \in Nat
    BY <2>3, RowType DEF SessionRow
  <2>. HIDE DEF n
  <2>7. RequestKnows(req[r])'
    BY <2>1, <2>2, <2>4, <2>5, <2>6 DEF RequestKnows, Owns, Generated
  <2>8. QED BY <1>4, <2>2, <2>7, LineageStep DEF Rotate
<1>5. ASSUME ReadVersion(r) PROVE Lineage'
  <2>. DEFINE y == [x EXCEPT !.pc = "issue", !.ver = userVer[x.user],
                             !.live = Active(x.sid) /\ loginable[x.user]]
  <2>1. y.pc = "issue" /\ y.user = x.user /\ y.sid = x.sid /\ y.tok = x.tok
    BY <1>0 DEF Request
  <2>0. req' = [req EXCEPT ![r] = y]
    BY <1>5 DEF ReadVersion
  <2>2. req'[r] = y /\ \A q \in Requests : q # r => req'[q] = req[q]
    BY <2>0, OthersKept
  <2>3. Owns(x.user, x.sid) /\ Generated(x.sid, x.tok)
    BY <1>0, <1>5 DEF ReadVersion, RequestKnows
  <2>4. UNCHANGED <<session, resetToken, refreshTokens, loggedOut>>
    BY <1>5 DEF ReadVersion
  <2>. HIDE DEF y
  <2>5. RequestKnows(req[r])'
    BY <2>1, <2>2, <2>3, <2>4 DEF RequestKnows, Owns, Generated
  <2>6. QED BY <2>2, <2>4, <2>5, LineageStep
<1>6. ASSUME Issue(r) PROVE Lineage'
  <2>1. UNCHANGED <<session, loggedOut>>
        /\ refreshTokens' = refreshTokens \cup {[sid |-> x.sid, n |-> x.tok, from |-> x.from]}
    BY <1>6 DEF Issue
  <2>2. Generated(x.sid, x.tok)
    BY <1>0, <1>6 DEF Issue, RequestKnows
  <2>3. \A k \in refreshTokens' \cup loggedOut' :
           k \in refreshTokens \cup loggedOut \/ Generated(k.sid, k.n)'
    BY <2>1, <2>2 DEF Generated
  <2>4. QED BY <1>6, <2>3, IdleKnows, LineageStep DEF Issue, Finish
<1>7. QED BY <1>1, <1>2, <1>3, <1>4, <1>5, <1>6 DEF LoginStep

LEMMA RevokeLineage ==
    ASSUME TypeInv, Lineage, RowsKept, ResetsKept, NEW r \in Requests, RevokeStep(r)
    PROVE  Lineage'
<1>. DEFINE x == req[r]
<1>0. x \in Request /\ WellFormed(x) /\ RequestKnows(x)
  BY RequestType DEF Lineage
<1>1. ASSUME RevokeOne(r) PROVE Lineage'
  <2>1. req'[r].pc = "incr" /\ req'[r].sid = x.sid /\ req'[r].tok = x.tok
        /\ \A q \in Requests : q # r => req'[q] = req[q]
    BY <1>1, GotoFields DEF RevokeOne
  <2>2. x.sid \in Sids /\ x.tok \in Nat /\ Generated(x.sid, x.tok)
    BY <1>0, <1>1 DEF RevokeOne, WellFormed, RequestKnows, Request
  <2>3. session'[x.sid].state = "revoked"
    BY <1>1, <2>2, RowType DEF RevokeOne, Revoked, SessionRow, TypeInv, TypeOK
  <2>4. x.tok <= session'[x.sid].last
    <3>1. session[x.sid].last \in Nat /\ x.tok <= session[x.sid].last
      BY <2>2, RowType DEF SessionRow, Generated
    <3>2. session'[x.sid].last \in Nat /\ session'[x.sid].last >= session[x.sid].last
      BY <2>2 DEF RowsKept, RowKept, Generated
    <3>3. QED BY <2>2, <3>1, <3>2
  <2>5. RequestKnows(req[r])'
    BY <2>1, <2>3, <2>4 DEF RequestKnows, Generated
  <2>6. QED BY <1>1, <2>1, <2>5, LineageStep DEF RevokeOne
<1>2. ASSUME RevokeAll(r) PROVE Lineage'
  <2>1. req'[r].pc = "incr" /\ req'[r].op = x.op
        /\ \A q \in Requests : q # r => req'[q] = req[q]
    BY <1>2, GotoFields DEF RevokeAll
  <2>2. x.op # "logout"
    BY <1>0, <1>2 DEF RevokeAll, WellFormed
  <2>3. RequestKnows(req[r])'
    BY <2>1, <2>2 DEF RequestKnows
  <2>4. QED BY <1>2, <2>1, <2>3, LineageStep DEF RevokeAll
<1>3. ASSUME IncrVersion(r) PROVE Lineage'
  <2>1. UNCHANGED <<session, refreshTokens>>
        /\ loggedOut' \subseteq loggedOut \cup
              (IF x.op = "logout" THEN {[sid |-> x.sid, n |-> x.tok]} ELSE {})
    BY <1>3 DEF IncrVersion
  <2>2. x.op = "logout" => Generated(x.sid, x.tok)
    BY <1>0, <1>3 DEF IncrVersion, RequestKnows
  <2>3. \A k \in refreshTokens' \cup loggedOut' :
           k \in refreshTokens \cup loggedOut \/ Generated(k.sid, k.n)'
    BY <2>1, <2>2 DEF Generated
  <2>4. CASE Goto(r, "create")
    <3>1. req'[r].pc = "create" /\ \A q \in Requests : q # r => req'[q] = req[q]
      BY <2>4, GotoFields
    <3>2. QED BY <2>3, <3>1, LineageStep DEF RequestKnows
  <2>5. CASE Finish(r)
    BY <2>3, <2>5, IdleKnows, LineageStep DEF Finish
  <2>6. QED BY <1>3, <2>4, <2>5 DEF IncrVersion
<1>4. ASSUME LoadUser(r) PROVE Lineage'
  <2>1. CASE Goto(r, "setLoginable")
    <3>1. req'[r].pc = "setLoginable" /\ \A q \in Requests : q # r => req'[q] = req[q]
      BY <2>1, GotoFields
    <3>2. QED BY <1>4, <3>1, LineageStep DEF LoadUser, RequestKnows
  <2>2. CASE Finish(r)
    BY <1>4, <2>2, IdleKnows, LineageStep DEF LoadUser, Finish
  <2>3. QED BY <1>4, <2>1, <2>2 DEF LoadUser
<1>5. ASSUME SetLoginable(r) PROVE Lineage'
  <2>1. PICK pc \in {"revokeAll", "incr"} : Goto(r, pc)
    BY <1>5 DEF SetLoginable
  <2>2. req'[r].pc = pc /\ req'[r].op = x.op
        /\ \A q \in Requests : q # r => req'[q] = req[q]
    BY <2>1, GotoFields
  <2>3. x.op # "logout"
    BY <1>0, <1>5 DEF SetLoginable, WellFormed
  <2>4. QED BY <1>5, <2>2, <2>3, LineageStep DEF SetLoginable, RequestKnows
<1>6. QED BY <1>1, <1>2, <1>3, <1>4, <1>5 DEF RevokeStep

LEMMA ResetLineage ==
    ASSUME TypeInv, Lineage, RowsKept, ResetsKept, NEW r \in Requests, ResetStep(r)
    PROVE  Lineage'
<1>. DEFINE x == req[r]
<1>0. x \in Request /\ WellFormed(x) /\ RequestKnows(x)
  BY RequestType DEF Lineage
<1>1. UNCHANGED <<refreshTokens, loggedOut>>
  BY DEF ResetStep, CheckReset, RefuseNewPassword, SetPasswordHash, MarkUsed, SweepRevoke,
         SweepIncr
<1>2. ASSUME Finish(r) PROVE Lineage'
  BY <1>1, <1>2, IdleKnows, LineageStep DEF Finish
<1>3. ASSUME CheckReset(r), ~Finish(r) PROVE Lineage'
  <2>1. req'[r].pc = "setHash" /\ req'[r].reset = x.reset
        /\ \A q \in Requests : q # r => req'[q] = req[q]
    BY <1>3, GotoFields DEF CheckReset
  <2>2. resetToken[x.reset].state # "none" /\ UNCHANGED resetToken
    BY <1>0, <1>3 DEF CheckReset, RequestKnows
  <2>3. QED BY <1>1, <2>1, <2>2, LineageStep DEF RequestKnows
<1>4. ASSUME SetPasswordHash(r) PROVE Lineage'
  <2>. DEFINE y == [x EXCEPT !.pc = "markUsed",
                             !.todo = UsersOf(resetToken[x.reset].identity)]
  <2>1. y.pc = "markUsed" /\ y.reset = x.reset
    BY <1>0 DEF Request
  <2>0. req' = [req EXCEPT ![r] = y]
    BY <1>4 DEF SetPasswordHash
  <2>2. req'[r] = y /\ \A q \in Requests : q # r => req'[q] = req[q]
    BY <2>0, OthersKept
  <2>3. resetToken[x.reset].state # "none" /\ UNCHANGED resetToken
    BY <1>0, <1>4 DEF SetPasswordHash, RequestKnows
  <2>. HIDE DEF y
  <2>4. QED BY <1>1, <2>1, <2>2, <2>3, LineageStep DEF RequestKnows
<1>5. ASSUME MarkUsed(r), ~Finish(r) PROVE Lineage'
  <2>1. req'[r].pc = "sweep" /\ \A q \in Requests : q # r => req'[q] = req[q]
    BY <1>5, GotoFields DEF MarkUsed
  <2>2. QED BY <1>1, <2>1, LineageStep DEF RequestKnows
<1>6. ASSUME NEW u \in Users, SweepRevoke(r, u) PROVE Lineage'
  <2>1. req'[r].pc = "sweepIncr" /\ \A q \in Requests : q # r => req'[q] = req[q]
    <3>1. [x EXCEPT !.pc = "sweepIncr", !.user = u].pc = "sweepIncr"
      BY <1>0 DEF Request
    <3>2. req' = [req EXCEPT ![r] = [x EXCEPT !.pc = "sweepIncr", !.user = u]]
      BY <1>6 DEF SweepRevoke
    <3>3. QED BY <3>1, <3>2, OthersKept
  <2>2. QED BY <1>1, <2>1, LineageStep DEF RequestKnows
<1>7. ASSUME SweepIncr(r), ~Finish(r) PROVE Lineage'
  <2>1. req'[r].pc = "sweep" /\ \A q \in Requests : q # r => req'[q] = req[q]
    <3>1. [x EXCEPT !.pc = "sweep", !.todo = x.todo \ {x.user}].pc = "sweep"
      BY <1>0 DEF Request
    <3>2. req' = [req EXCEPT ![r] = [x EXCEPT !.pc = "sweep", !.todo = x.todo \ {x.user}]]
      BY <1>7 DEF SweepIncr, Finish
    <3>3. QED BY <3>1, <3>2, OthersKept
  <2>2. QED BY <1>1, <2>1, LineageStep DEF RequestKnows
<1>8. RefuseNewPassword(r) => Finish(r)
  BY DEF RefuseNewPassword
<1>9. QED BY <1>2, <1>3, <1>4, <1>5, <1>6, <1>7, <1>8 DEF ResetStep

(* No request moves: what each of them knows is kept. *)
LEMMA StillLineage ==
    ASSUME TypeInv, Lineage, RowsKept, ResetsKept,
           UNCHANGED <<req, refreshTokens, loggedOut>>
    PROVE  Lineage'
<1>1. \A q \in Requests : RequestKnows(req[q])'
  BY KnowsKept
<1>2. \A k \in refreshTokens \cup loggedOut : Generated(k.sid, k.n)'
  BY GeneratedKept DEF Lineage, TypeInv, TypeOK
<1>3. QED BY <1>1, <1>2 DEF Lineage

LEMMA LineageKept == TypeInv /\ Lineage /\ [Next]_vars => Lineage'
<1>. SUFFICES ASSUME TypeInv, Lineage, [Next]_vars PROVE Lineage'
  OBVIOUS
<1>1. RowsKept /\ ResetsKept
  BY RowsKeptStep, ResetsKeptStep
<1>2. TimeStep => UNCHANGED <<req, refreshTokens, loggedOut>>
  BY DEF TimeStep, RequestReset, ExpireSession, ExpireReset, ExpireToken
<1>3. UNCHANGED vars => UNCHANGED <<req, refreshTokens, loggedOut>>
  BY DEF vars
<1>4. QED BY <1>1, <1>2, <1>3, NextSteps, SendLineage, FindLineage, LoginLineage,
             RevokeLineage, ResetLineage, StillLineage

LEMMA InitLineage == Init => Lineage
BY DEF Init, Lineage, RequestKnows, IdleRequest

LEMMA TypeAlways == Spec => [](TypeInv /\ Lineage)
<1>1. Init => TypeInv /\ Lineage
  BY InitType, InitLineage
<1>2. TypeInv /\ Lineage /\ [Next]_vars => (TypeInv /\ Lineage)'
  BY TypeStep, LineageKept
<1>3. QED BY <1>1, <1>2, PTL DEF Spec

(* Every variable of the session lifecycle keeps its type; at each await of  *)
(* its handler a request has found the user, session or reset token it uses  *)
(* next (WellFormed), every row has an owner, and every refresh token anybody*)
(* holds is one its session has generated (auth.service.ts, user.service.ts).*)
THEOREM TypeCorrect == Spec => [](TypeOK /\ RequestsWellFormed /\ RowsOwned /\ Lineage)
<1>1. TypeInv /\ Lineage => TypeOK /\ RequestsWellFormed /\ RowsOwned /\ Lineage
  BY DEF TypeInv
<1>2. QED BY <1>1, TypeAlways, PTL

-----------------------------------------------------------------------------
(* Logout. *)

LoggedOutInv == TypeInv /\ Lineage /\ LoggedOutTokenIsDead

(* Whoever adds an answered logout has seen its token dead. *)
LEMMA AnsweredLogout ==
    ASSUME TypeInv, Lineage, [Next]_vars, NEW k \in loggedOut', k \notin loggedOut
    PROVE  UNCHANGED session /\ ~(Active(k.sid) /\ session[k.sid].tok = k.n)
<1>1. ASSUME NEW r \in Requests, FindLogout(r)
      PROVE  UNCHANGED session /\ ~(Active(k.sid) /\ session[k.sid].tok = k.n)
  BY <1>1 DEF FindLogout, Identifies, Active
<1>2. ASSUME NEW r \in Requests, IncrVersion(r)
      PROVE  UNCHANGED session /\ ~(Active(k.sid) /\ session[k.sid].tok = k.n)
  <2>1. req[r].op = "logout" /\ req[r].pc = "incr" /\ k.sid = req[r].sid
        /\ UNCHANGED session
    BY <1>2 DEF IncrVersion
  <2>2. session[req[r].sid].state = "revoked"
    BY <2>1 DEF Lineage, RequestKnows
  <2>3. QED BY <2>1, <2>2 DEF Active
<1>3. ASSUME NEW r \in Requests, SendAny(r) PROVE UNCHANGED loggedOut
  BY <1>3 DEF SendAny, SendLogin, SendToken, SendReset, SendActivation, Send
<1>4. ASSUME NEW r \in Requests, FindStep(r), ~FindLogout(r) PROVE UNCHANGED loggedOut
  BY <1>4 DEF FindStep, FindRefresh, FindLogoutAll, FindSwitch
<1>5. ASSUME NEW r \in Requests, LoginStep(r) PROVE UNCHANGED loggedOut
  BY <1>5 DEF LoginStep, VerifyPassword, ResolveUser, CreateSession, Rotate, ReadVersion, Issue
<1>6. ASSUME NEW r \in Requests, RevokeStep(r), ~IncrVersion(r) PROVE UNCHANGED loggedOut
  BY <1>6 DEF RevokeStep, RevokeOne, RevokeAll, LoadUser, SetLoginable
<1>7. ASSUME NEW r \in Requests, ResetStep(r) PROVE UNCHANGED loggedOut
  BY <1>7 DEF ResetStep, CheckReset, RefuseNewPassword, SetPasswordHash, MarkUsed,
              SweepRevoke, SweepIncr
<1>8. TimeStep \/ UNCHANGED vars => UNCHANGED loggedOut
  BY DEF TimeStep, RequestReset, ExpireSession, ExpireReset, ExpireToken, vars
<1>9. QED BY <1>1, <1>2, <1>3, <1>4, <1>5, <1>6, <1>7, <1>8, NextSteps

LEMMA LoggedOutStep == LoggedOutInv /\ [Next]_vars => LoggedOutInv'
<1>. SUFFICES ASSUME TypeInv, Lineage, LoggedOutTokenIsDead, [Next]_vars PROVE LoggedOutInv'
  BY DEF LoggedOutInv
<1>1. TypeInv' /\ Lineage'
  BY TypeStep, LineageKept
<1>2. ASSUME NEW k \in loggedOut' PROVE ~(Active(k.sid) /\ session[k.sid].tok = k.n)'
  <2>1. CASE k \notin loggedOut
    BY <2>1, AnsweredLogout DEF Active
  <2>2. CASE k \in loggedOut
    <3>1. k.sid \in Sids /\ k.n \in Nat /\ Generated(k.sid, k.n)
      BY <2>2 DEF Lineage, TypeInv, TypeOK
    <3>2. session[k.sid].state \in {"active", "revoked"} /\ session[k.sid].last \in Nat
          /\ k.n <= session[k.sid].last
      BY <3>1, RowType DEF SessionRow, Generated
    <3>3. /\ session[k.sid].state = "revoked" => session'[k.sid].state = "revoked"
          /\ session'[k.sid].tok = session[k.sid].tok
             \/ session'[k.sid].tok = session[k.sid].last + 1
      BY <3>1, <3>2, RowsKeptStep DEF RowsKept, RowKept
    <3>4. session[k.sid].state = "active" => session[k.sid].tok # k.n
      BY <2>2 DEF LoggedOutTokenIsDead, Active
    <3>5. session[k.sid].last + 1 # k.n
      BY <3>1, <3>2
    <3>6. QED BY <3>2, <3>3, <3>4, <3>5 DEF Active
  <2>3. QED BY <2>1, <2>2
<1>3. LoggedOutTokenIsDead'
  BY <1>2 DEF LoggedOutTokenIsDead
<1>4. QED BY <1>1, <1>3 DEF LoggedOutInv

(* Once a logout is answered its refresh token opens nothing, whatever        *)
(* refreshes of the same session were in flight: auth.service.ts, logout.     *)
THEOREM LogoutKillsToken == Spec => []LoggedOutTokenIsDead
<1>1. Init => LoggedOutInv
  BY InitType, InitLineage DEF LoggedOutInv, Init, LoggedOutTokenIsDead
<1>2. LoggedOutInv => LoggedOutTokenIsDead
  BY DEF LoggedOutInv
<1>3. QED BY <1>1, <1>2, LoggedOutStep, PTL DEF Spec

-----------------------------------------------------------------------------
(* What the steps do to the rows and to the promises in flight. *)

LEMMA OthersStay ==
    ASSUME TypeInv, NEW r \in Requests,
           SendAny(r) \/ FindStep(r) \/ LoginStep(r) \/ RevokeStep(r) \/ ResetStep(r)
    PROVE  \A q \in Requests : q # r => req'[q] = req[q]
<1>1. ASSUME SendAny(r) PROVE \E y : req' = [req EXCEPT ![r] = y]
  BY <1>1 DEF SendAny, SendLogin, SendToken, SendReset, SendActivation, Send
<1>2. ASSUME FindStep(r) PROVE \E y : req' = [req EXCEPT ![r] = y]
  BY <1>2 DEF FindStep, FindRefresh, FindLogout, FindLogoutAll, FindSwitch, Finish
<1>3. ASSUME LoginStep(r) PROVE \E y : req' = [req EXCEPT ![r] = y]
  BY <1>3 DEF LoginStep, VerifyPassword, ResolveUser, CreateSession, Rotate, ReadVersion,
              Issue, Finish, Goto
<1>4. ASSUME RevokeStep(r) PROVE \E y : req' = [req EXCEPT ![r] = y]
  BY <1>4 DEF RevokeStep, RevokeOne, RevokeAll, IncrVersion, LoadUser, SetLoginable, Finish,
              Goto
<1>5. ASSUME ResetStep(r) PROVE \E y : req' = [req EXCEPT ![r] = y]
  BY <1>5 DEF ResetStep, CheckReset, RefuseNewPassword, SetPasswordHash, MarkUsed, SweepRevoke,
              SweepIncr, Finish, Goto
<1>6. QED BY <1>1, <1>2, <1>3, <1>4, <1>5, OthersKept

(* Where the request of a step stands before it. *)
LEMMA StandsAt ==
    ASSUME NEW r \in Requests
    PROVE  /\ SendAny(r) => req[r].pc = "idle"
           /\ FindStep(r) => req[r].pc = "find"
           /\ LoginStep(r) => req[r].pc \in {"verify", "resolve", "create", "rotate", "sign",
                                             "issue"}
           /\ RevokeStep(r) => req[r].pc \in {"revoke", "revokeAll", "incr", "load",
                                              "setLoginable"}
           /\ ResetStep(r) => req[r].pc \in {"checkReset", "setHash", "markUsed", "sweep",
                                             "sweepIncr"}
<1>1. SendAny(r) => req[r].pc = "idle"
  BY DEF SendAny, SendLogin, SendToken, SendReset, SendActivation, Send
<1>2. FindStep(r) => req[r].pc = "find"
  BY DEF FindStep, FindRefresh, FindLogout, FindLogoutAll, FindSwitch
<1>3. LoginStep(r) => req[r].pc \in {"verify", "resolve", "create", "rotate", "sign", "issue"}
  BY DEF LoginStep, VerifyPassword, ResolveUser, CreateSession, Rotate, ReadVersion, Issue
<1>4. RevokeStep(r) =>
         req[r].pc \in {"revoke", "revokeAll", "incr", "load", "setLoginable"}
  BY DEF RevokeStep, RevokeOne, RevokeAll, IncrVersion, LoadUser, SetLoginable
<1>5. ResetStep(r) =>
         req[r].pc \in {"checkReset", "setHash", "markUsed", "sweep", "sweepIncr"}
  BY DEF ResetStep, CheckReset, RefuseNewPassword, SetPasswordHash, MarkUsed, SweepRevoke,
         SweepIncr
<1>6. QED BY <1>1, <1>2, <1>3, <1>4, <1>5

(* A row comes to life only by CreateSession, with the state of the moment.  *)
LEMMA Born ==
    ASSUME TypeInv, Lineage, [Next]_vars, NEW s \in Sids, session[s].state = "none",
           session'[s].state = "active"
    PROVE  \E r \in Requests : CreateSession(r, s)
<1>. DEFINE created == \E r \in Requests : CreateSession(r, s)
<1>1. \A r \in Requests : SendAny(r) \/ FindStep(r) => UNCHANGED session
  BY DEF SendAny, SendLogin, SendToken, SendReset, SendActivation, Send, FindStep, FindRefresh,
         FindLogout, FindLogoutAll, FindSwitch
<1>2. ASSUME NEW r \in Requests, LoginStep(r) PROVE created
  <2>1. ASSUME NEW q \in Sids, CreateSession(r, q) PROVE q = s
    BY <2>1 DEF CreateSession, TypeInv, TypeOK
  <2>2. ASSUME Rotate(r) PROVE FALSE
    <3>1. req[r].sid \in Sids /\ session[req[r].sid].state # "none"
      BY <2>2, RequestType DEF Rotate, WellFormed, Lineage, RequestKnows, Owns
    <3>2. session'[s] = session[s]
      BY <2>2, <3>1 DEF Rotate, TypeInv, TypeOK
    <3>3. QED BY <3>2
  <2>3. VerifyPassword(r) \/ ResolveUser(r) \/ ReadVersion(r) \/ Issue(r)
        => UNCHANGED session
    BY DEF VerifyPassword, ResolveUser, ReadVersion, Issue
  <2>4. QED BY <1>2, <2>1, <2>2, <2>3 DEF LoginStep
<1>3. ASSUME NEW u, RevokeAllOf(u) PROVE FALSE
  BY <1>3 DEF RevokeAllOf, Active
<1>4. ASSUME NEW r \in Requests, RevokeStep(r) PROVE FALSE
  <2>1. ASSUME RevokeOne(r) PROVE FALSE
    <3>1. session'[s] = session[s] \/ session'[s] = Revoked(session[s])
      BY <2>1 DEF RevokeOne, TypeInv, TypeOK
    <3>2. QED BY <3>1, RowType DEF Revoked, SessionRow
  <2>2. IncrVersion(r) \/ LoadUser(r) \/ SetLoginable(r) => UNCHANGED session
    BY DEF IncrVersion, LoadUser, SetLoginable
  <2>3. QED BY <1>3, <1>4, <2>1, <2>2 DEF RevokeStep, RevokeAll
<1>5. ASSUME NEW r \in Requests, ResetStep(r) PROVE FALSE
  <2>1. CheckReset(r) \/ RefuseNewPassword(r) \/ SetPasswordHash(r) \/ MarkUsed(r)
        \/ SweepIncr(r) => UNCHANGED session
    BY DEF CheckReset, RefuseNewPassword, SetPasswordHash, MarkUsed, SweepIncr
  <2>2. QED BY <1>3, <1>5, <2>1 DEF ResetStep, SweepRevoke
<1>6. ASSUME TimeStep PROVE FALSE
  <2>1. ASSUME NEW q \in Sids, ExpireSession(q) PROVE session'[s] = session[s]
    BY <2>1 DEF ExpireSession, Active, TypeInv, TypeOK
  <2>2. QED BY <1>6, <2>1 DEF TimeStep, RequestReset, ExpireReset, ExpireToken
<1>7. QED BY <1>1, <1>2, <1>4, <1>5, <1>6, NextSteps DEF vars

(* A row that is active and existed before was active before. *)
LEMMA WasActive ==
    ASSUME TypeInv, RowsKept, NEW s \in Sids, session[s].state # "none", Active(s)'
    PROVE  Active(s)
BY RowType DEF RowsKept, RowKept, Active, SessionRow

-----------------------------------------------------------------------------
(* Password reset. *)

AheadOf(x, u) ==
    /\ u \in x.todo
    /\ \/ x.pc \in {"markUsed", "sweep"}
       \/ x.pc = "sweepIncr" /\ x.user # u

(* Only the sweep itself takes a user off its list. *)
LEMMA SweepKept ==
    ASSUME TypeInv, [Next]_vars, NEW u, SweepAhead(u),
           ~(\E r \in Requests : SweepRevoke(r, u))
    PROVE  SweepAhead(u)'
<1>1. PICK q \in Requests : AheadOf(req[q], u)
  BY DEF SweepAhead, AheadOf
<1>2. req[q].pc \in {"markUsed", "sweep", "sweepIncr"}
  BY <1>1 DEF AheadOf
<1>3. CASE req'[q] = req[q]
  BY <1>1, <1>3 DEF SweepAhead, AheadOf
<1>4. CASE req'[q] # req[q]
  <2>1. ~TimeStep /\ ~UNCHANGED vars
    BY <1>4 DEF TimeStep, RequestReset, ExpireSession, ExpireReset, ExpireToken, vars
  <2>2. ResetStep(q)
    BY <1>2, <1>4, <2>1, NextSteps, OthersStay, StandsAt
  <2>3. CASE MarkUsed(q)
    <3>1. Goto(q, "sweep")
      BY <1>1, <2>3 DEF MarkUsed, AheadOf
    <3>2. req'[q].pc = "sweep" /\ req'[q].todo = req[q].todo
      BY <3>1, GotoFields
    <3>3. QED BY <1>1, <3>2 DEF SweepAhead, AheadOf
  <2>4. ASSUME NEW w \in Users, SweepRevoke(q, w) PROVE SweepAhead(u)'
    <3>1. w # u
      BY <2>4
    <3>2. req'[q] = [req[q] EXCEPT !.pc = "sweepIncr", !.user = w]
      BY <2>4 DEF SweepRevoke, TypeInv, TypeOK
    <3>3. req'[q].pc = "sweepIncr" /\ req'[q].user = w /\ req'[q].todo = req[q].todo
      BY <3>2, RequestType DEF Request
    <3>4. QED BY <1>1, <3>1, <3>3 DEF SweepAhead, AheadOf
  <2>5. CASE SweepIncr(q)
    <3>1. req[q].user # u /\ u \in req[q].todo /\ req[q].todo # {req[q].user}
      BY <1>1, <2>5 DEF AheadOf, SweepIncr
    <3>2. req'[q] = [req[q] EXCEPT !.pc = "sweep", !.todo = req[q].todo \ {req[q].user}]
      BY <2>5, <3>1 DEF SweepIncr, TypeInv, TypeOK
    <3>3. req'[q].pc = "sweep" /\ req'[q].todo = req[q].todo \ {req[q].user}
      BY <3>2, RequestType DEF Request
    <3>4. QED BY <3>1, <3>3 DEF SweepAhead, AheadOf
  <2>6. QED BY <1>2, <2>2, <2>3, <2>4, <2>5
            DEF ResetStep, CheckReset, RefuseNewPassword, SetPasswordHash
<1>5. QED BY <1>3, <1>4

(* A new password hash puts every user of the identity on the list. *)
LEMMA PasswordKept ==
    ASSUME TypeInv, Lineage, [Next]_vars, NEW u \in Users,
           password'[IdentityOf[u]] # password[IdentityOf[u]]
    PROVE  UNCHANGED session /\ SweepAhead(u)'
<1>1. ASSUME NEW r \in Requests, SendAny(r) \/ FindStep(r) \/ LoginStep(r) \/ RevokeStep(r)
      PROVE  UNCHANGED password
  <2>1. SendAny(r) => UNCHANGED password
    BY DEF SendAny, SendLogin, SendToken, SendReset, SendActivation, Send
  <2>2. FindStep(r) => UNCHANGED password
    BY DEF FindStep, FindRefresh, FindLogout, FindLogoutAll, FindSwitch
  <2>3. LoginStep(r) => UNCHANGED password
    BY DEF LoginStep, VerifyPassword, ResolveUser, CreateSession, Rotate, ReadVersion, Issue
  <2>4. RevokeStep(r) => UNCHANGED password
    BY DEF RevokeStep, RevokeOne, RevokeAll, IncrVersion, LoadUser, SetLoginable
  <2>5. QED BY <1>1, <2>1, <2>2, <2>3, <2>4
<1>2. \A r \in Requests : ResetStep(r) /\ ~SetPasswordHash(r) => UNCHANGED password
  BY DEF ResetStep, CheckReset, RefuseNewPassword, MarkUsed, SweepRevoke, SweepIncr
<1>3. TimeStep \/ UNCHANGED vars => UNCHANGED password
  BY DEF TimeStep, RequestReset, ExpireSession, ExpireReset, ExpireToken, vars
<1>4. PICK r \in Requests : SetPasswordHash(r)
  BY <1>1, <1>2, <1>3, NextSteps
<1>. DEFINE i == resetToken[req[r].reset].identity
<1>5. IdentityOf[u] = i
  BY <1>4, ConstantsAssumption DEF SetPasswordHash, TypeInv, TypeOK
<1>6. req'[r] = [req[r] EXCEPT !.pc = "markUsed", !.todo = UsersOf(i)]
  BY <1>4 DEF SetPasswordHash, TypeInv, TypeOK
<1>7. req'[r].pc = "markUsed" /\ req'[r].todo = UsersOf(i)
  BY <1>6, RequestType DEF Request
<1>8. u \in req'[r].todo
  BY <1>5, <1>7 DEF UsersOf
<1>9. QED BY <1>4, <1>7, <1>8 DEF SweepAhead, SetPasswordHash

ResetInv == TypeInv /\ Lineage /\ ResetSweepsSessions

LEMMA ResetInvStep == ResetInv /\ [Next]_vars => ResetInv'
<1>. SUFFICES ASSUME TypeInv, Lineage, ResetSweepsSessions, [Next]_vars PROVE ResetInv'
  BY DEF ResetInv
<1>1. TypeInv' /\ Lineage' /\ RowsKept
  BY TypeStep, LineageKept, RowsKeptStep
<1>2. ASSUME NEW s \in Sids, Active(s)'
      PROVE  \/ session'[s].authPwd = password'[IdentityOf[session'[s].user]]
             \/ session'[s].bornPwd # session'[s].authPwd
             \/ SweepAhead(session[s].user)'
  <2>1. CASE session[s].state = "none"
    <3>1. PICK r \in Requests : CreateSession(r, s)
      BY <1>2, <2>1, Born DEF Active
    <3>2. session'[s].user = req[r].target
          /\ session'[s].bornPwd = password[IdentityOf[req[r].target]]
          /\ UNCHANGED password
      BY <3>1 DEF CreateSession, TypeInv, TypeOK
    <3>3. QED BY <3>2
  <2>2. CASE session[s].state # "none"
    <3>. DEFINE u == session[s].user
    <3>1. Active(s) /\ u \in Users
      BY <1>1, <1>2, <2>2, WasActive, RowType
    <3>2. session'[s].user = u /\ session'[s].authPwd = session[s].authPwd
          /\ session'[s].bornPwd = session[s].bornPwd
      BY <1>1, <2>2 DEF RowsKept, RowKept
    <3>3. PICK w \in Users : w = session[s].user
      BY <3>1
    <3>4. \/ session[s].authPwd = password[IdentityOf[w]]
          \/ session[s].bornPwd # session[s].authPwd
          \/ SweepAhead(w)
      BY <3>1, <3>3 DEF ResetSweepsSessions
    <3>5. CASE SweepAhead(w)
      <4>1. ASSUME NEW r \in Requests, SweepRevoke(r, w) PROVE FALSE
        <5>1. session'[s] = Revoked(session[s])
          BY <3>1, <3>3, <4>1 DEF SweepRevoke, RevokeAllOf
        <5>2. session'[s].state = "revoked"
          BY <5>1, RowType DEF Revoked, SessionRow
        <5>3. QED BY <1>2, <5>2 DEF Active
      <4>2. SweepAhead(w)'
        BY <3>5, <4>1, SweepKept
      <4>3. QED BY <3>2, <3>3, <4>2
    <3>6. CASE password'[IdentityOf[w]] # password[IdentityOf[w]]
      BY <3>2, <3>3, <3>6, PasswordKept
    <3>7. QED BY <3>2, <3>3, <3>4, <3>5, <3>6
  <2>3. QED BY <2>1, <2>2
<1>3. ResetSweepsSessions'
  BY <1>2 DEF ResetSweepsSessions
<1>4. QED BY <1>1, <1>3 DEF ResetInv

(* A password reset leaves no session that an older password opened, but for *)
(* a row written when its password was already outdated:                     *)
(* auth.service.ts, confirmPasswordReset.                                    *)
THEOREM ResetSweeps == Spec => []ResetSweepsSessions
<1>1. Init => ResetInv
  BY InitType, InitLineage DEF ResetInv, Init, ResetSweepsSessions, Active, NoSession
<1>2. ResetInv => ResetSweepsSessions
  BY DEF ResetInv
<1>3. QED BY <1>1, <1>2, ResetInvStep, PTL DEF Spec

-----------------------------------------------------------------------------
(* Deactivation. *)

LEMMA DeactivationKept ==
    ASSUME TypeInv, [Next]_vars, NEW u, DeactivationAhead(u),
           ~(\E r \in Requests : req[r].user = u /\ RevokeAll(r))
    PROVE  DeactivationAhead(u)'
<1>1. PICK q \in Requests :
         req[q].op = "deactivate" /\ req[q].pc = "revokeAll" /\ req[q].user = u
  BY DEF DeactivationAhead
<1>2. CASE req'[q] = req[q]
  BY <1>1, <1>2 DEF DeactivationAhead
<1>3. CASE req'[q] # req[q]
  <2>1. ~TimeStep /\ ~UNCHANGED vars
    BY <1>3 DEF TimeStep, RequestReset, ExpireSession, ExpireReset, ExpireToken, vars
  <2>2. RevokeStep(q)
    BY <1>1, <1>3, <2>1, NextSteps, OthersStay, StandsAt
  <2>3. RevokeAll(q)
    BY <1>1, <2>2 DEF RevokeStep, RevokeOne, IncrVersion, LoadUser, SetLoginable
  <2>4. QED BY <1>1, <2>3
<1>4. QED BY <1>2, <1>3

(* Who writes users.loginable. *)
LEMMA LoginableWritten ==
    ASSUME [Next]_vars, loginable' # loginable
    PROVE  \E r \in Requests : SetLoginable(r)
<1>1. ASSUME NEW r \in Requests, SendAny(r) \/ FindStep(r) \/ LoginStep(r) \/ ResetStep(r)
      PROVE  UNCHANGED loginable
  <2>1. SendAny(r) => UNCHANGED loginable
    BY DEF SendAny, SendLogin, SendToken, SendReset, SendActivation, Send
  <2>2. FindStep(r) => UNCHANGED loginable
    BY DEF FindStep, FindRefresh, FindLogout, FindLogoutAll, FindSwitch
  <2>3. LoginStep(r) => UNCHANGED loginable
    BY DEF LoginStep, VerifyPassword, ResolveUser, CreateSession, Rotate, ReadVersion, Issue
  <2>4. ResetStep(r) => UNCHANGED loginable
    BY DEF ResetStep, CheckReset, RefuseNewPassword, SetPasswordHash, MarkUsed, SweepRevoke,
           SweepIncr
  <2>5. QED BY <1>1, <2>1, <2>2, <2>3, <2>4
<1>2. \A r \in Requests : RevokeStep(r) /\ ~SetLoginable(r) => UNCHANGED loginable
  BY DEF RevokeStep, RevokeOne, RevokeAll, IncrVersion, LoadUser
<1>3. TimeStep \/ UNCHANGED vars => UNCHANGED loginable
  BY DEF TimeStep, RequestReset, ExpireSession, ExpireReset, ExpireToken, vars
<1>4. QED BY <1>1, <1>2, <1>3, NextSteps

(* A deactivation writes loginable first and has the sweep still ahead. *)
LEMMA LoginableLost ==
    ASSUME TypeInv, [Next]_vars, NEW u \in Users, loginable[u], ~loginable'[u]
    PROVE  UNCHANGED session /\ DeactivationAhead(u)' /\ PendingIncr(u)'
<1>1. PICK r \in Requests : SetLoginable(r)
  BY LoginableWritten
<1>2. req[r].user = u /\ req[r].op = "deactivate" /\ Goto(r, "revokeAll") /\ UNCHANGED session
  <2>1. req[r].op \in {"deactivate", "reactivate"}
    BY <1>1, RequestType DEF SetLoginable, WellFormed
  <2>2. loginable' = [loginable EXCEPT ![req[r].user] = (req[r].op = "reactivate")]
    BY <1>1 DEF SetLoginable
  <2>3. req[r].user = u /\ req[r].op # "reactivate"
    BY <2>2 DEF TypeInv, TypeOK
  <2>4. QED BY <1>1, <2>1, <2>3 DEF SetLoginable
<1>3. req'[r].pc = "revokeAll" /\ req'[r].user = u /\ req'[r].op = "deactivate"
  BY <1>2, GotoFields
<1>4. QED BY <1>2, <1>3 DEF DeactivationAhead, PendingIncr

DeactivationInv == TypeInv /\ Lineage /\ DeactivationSweepsSessions

LEMMA DeactivationInvStep == DeactivationInv /\ [Next]_vars => DeactivationInv'
<1>. SUFFICES ASSUME TypeInv, Lineage, DeactivationSweepsSessions, [Next]_vars
              PROVE  DeactivationInv'
  BY DEF DeactivationInv
<1>1. TypeInv' /\ Lineage' /\ RowsKept
  BY TypeStep, LineageKept, RowsKeptStep
<1>2. ASSUME NEW s \in Sids, Active(s)'
      PROVE  \/ loginable'[session'[s].user]
             \/ ~session'[s].bornLoginable
             \/ DeactivationAhead(session[s].user)'
  <2>1. CASE session[s].state = "none"
    <3>1. PICK r \in Requests : CreateSession(r, s)
      BY <1>2, <2>1, Born DEF Active
    <3>2. session'[s].user = req[r].target
          /\ session'[s].bornLoginable = loginable[req[r].target] /\ UNCHANGED loginable
      BY <3>1 DEF CreateSession, TypeInv, TypeOK
    <3>3. QED BY <3>2
  <2>2. CASE session[s].state # "none"
    <3>1. PICK u \in Users : u = session[s].user
      BY <2>2, RowType
    <3>2. Active(s)
      BY <1>1, <1>2, <2>2, WasActive
    <3>3. session'[s].user = u /\ session'[s].bornLoginable = session[s].bornLoginable
      BY <1>1, <2>2, <3>1 DEF RowsKept, RowKept
    <3>4. loginable[u] \/ ~session[s].bornLoginable \/ DeactivationAhead(u)
      BY <3>1, <3>2 DEF DeactivationSweepsSessions
    <3>5. CASE DeactivationAhead(u)
      <4>1. ASSUME NEW r \in Requests, req[r].user = u, RevokeAll(r) PROVE FALSE
        <5>1. session'[s] = Revoked(session[s])
          BY <3>1, <3>2, <4>1 DEF RevokeAll, RevokeAllOf
        <5>2. session'[s].state = "revoked"
          BY <5>1, RowType DEF Revoked, SessionRow
        <5>3. QED BY <1>2, <5>2 DEF Active
      <4>2. DeactivationAhead(u)'
        BY <3>5, <4>1, DeactivationKept
      <4>3. QED BY <3>3, <4>2
    <3>6. CASE loginable[u] /\ ~loginable'[u]
      BY <3>3, <3>6, LoginableLost
    <3>7. QED BY <3>3, <3>4, <3>5, <3>6
  <2>3. QED BY <2>1, <2>2
<1>3. DeactivationSweepsSessions'
  BY <1>2 DEF DeactivationSweepsSessions
<1>4. QED BY <1>1, <1>3 DEF DeactivationInv

(* A deactivated user keeps no session, but for one written for a login that *)
(* had passed the loginable check: user.service.ts, deactivate.              *)
THEOREM DeactivationSweeps == Spec => []DeactivationSweepsSessions
<1>1. Init => DeactivationInv
  BY InitType, InitLineage
     DEF DeactivationInv, Init, DeactivationSweepsSessions, Active, NoSession
<1>2. DeactivationInv => DeactivationSweepsSessions
  BY DEF DeactivationInv
<1>3. QED BY <1>1, <1>2, DeactivationInvStep, PTL DEF Spec

-----------------------------------------------------------------------------
(* The client of an active session can go on. *)

(* A step that generates a refresh token is about to send it. *)
LEMMA TokenReplaced ==
    ASSUME TypeInv, Lineage, [Next]_vars, NEW s \in Sids, session[s].state # "none",
           session'[s].tok # session[s].tok
    PROVE  TokenUnderway(s)'
<1>1. \A r \in Requests : SendAny(r) \/ FindStep(r) => UNCHANGED session
  BY DEF SendAny, SendLogin, SendToken, SendReset, SendActivation, Send, FindStep, FindRefresh,
         FindLogout, FindLogoutAll, FindSwitch
<1>2. ASSUME NEW r \in Requests, LoginStep(r) PROVE Rotate(r) /\ req[r].sid = s
  <2>1. ASSUME NEW q \in Sids, CreateSession(r, q) PROVE FALSE
    BY <2>1 DEF CreateSession, TypeInv, TypeOK
  <2>2. ASSUME Rotate(r) PROVE req[r].sid = s
    BY <2>2 DEF Rotate, TypeInv, TypeOK
  <2>3. VerifyPassword(r) \/ ResolveUser(r) \/ ReadVersion(r) \/ Issue(r)
        => UNCHANGED session
    BY DEF VerifyPassword, ResolveUser, ReadVersion, Issue
  <2>4. QED BY <1>2, <2>1, <2>2, <2>3 DEF LoginStep
<1>3. Revoked(session[s]).tok = session[s].tok
  BY RowType DEF Revoked, SessionRow
<1>4. ASSUME NEW r \in Requests, RevokeStep(r) PROVE FALSE
  <2>1. ASSUME RevokeOne(r) \/ RevokeAll(r) PROVE FALSE
    BY <1>3, <2>1 DEF RevokeOne, RevokeAll, RevokeAllOf, TypeInv, TypeOK
  <2>2. IncrVersion(r) \/ LoadUser(r) \/ SetLoginable(r) => UNCHANGED session
    BY DEF IncrVersion, LoadUser, SetLoginable
  <2>3. QED BY <1>4, <2>1, <2>2 DEF RevokeStep
<1>5. ASSUME NEW r \in Requests, ResetStep(r) PROVE FALSE
  <2>1. CheckReset(r) \/ RefuseNewPassword(r) \/ SetPasswordHash(r) \/ MarkUsed(r)
        \/ SweepIncr(r) => UNCHANGED session
    BY DEF CheckReset, RefuseNewPassword, SetPasswordHash, MarkUsed, SweepIncr
  <2>2. QED BY <1>3, <1>5, <2>1 DEF ResetStep, SweepRevoke, RevokeAllOf
<1>6. ASSUME TimeStep PROVE FALSE
  <2>1. ASSUME NEW q \in Sids, ExpireSession(q) PROVE session'[s].tok = session[s].tok
    BY <2>1, RowType DEF ExpireSession, TypeInv, TypeOK, SessionRow
  <2>2. QED BY <1>6, <2>1 DEF TimeStep, RequestReset, ExpireReset, ExpireToken
<1>7. PICK r \in Requests : Rotate(r) /\ req[r].sid = s
  BY <1>1, <1>2, <1>4, <1>5, <1>6, NextSteps DEF vars
<1>8. session'[s].tok = session[s].last + 1
  BY <1>7, RowType DEF Rotate, SessionRow, TypeInv, TypeOK
<1>. DEFINE y == [req[r] EXCEPT !.pc = "sign", !.tok = session[s].last + 1]
<1>9. req'[r] = y
  BY <1>7 DEF Rotate, TypeInv, TypeOK
<1>10. y.pc = "sign" /\ y.sid = s /\ y.tok = session[s].last + 1
  BY <1>7, RequestType DEF Request
<1>11. QED BY <1>8, <1>9, <1>10 DEF TokenUnderway

(* A token about to be sent is sent. *)
LEMMA TokenSent ==
    ASSUME TypeInv, [Next]_vars, NEW s \in Sids, TokenUnderway(s),
           session'[s].tok = session[s].tok
    PROVE  TokenUnderway(s)'
<1>1. refreshTokens \subseteq refreshTokens'
  <2>1. ASSUME NEW r \in Requests, SendAny(r) \/ FindStep(r) \/ RevokeStep(r) \/ ResetStep(r)
        PROVE  UNCHANGED refreshTokens
    <3>1. SendAny(r) => UNCHANGED refreshTokens
      BY DEF SendAny, SendLogin, SendToken, SendReset, SendActivation, Send
    <3>2. FindStep(r) => UNCHANGED refreshTokens
      BY DEF FindStep, FindRefresh, FindLogout, FindLogoutAll, FindSwitch
    <3>3. RevokeStep(r) => UNCHANGED refreshTokens
      BY DEF RevokeStep, RevokeOne, RevokeAll, IncrVersion, LoadUser, SetLoginable
    <3>4. ResetStep(r) => UNCHANGED refreshTokens
      BY DEF ResetStep, CheckReset, RefuseNewPassword, SetPasswordHash, MarkUsed, SweepRevoke,
             SweepIncr
    <3>5. QED BY <2>1, <3>1, <3>2, <3>3, <3>4
  <2>2. \A r \in Requests : LoginStep(r) => refreshTokens \subseteq refreshTokens'
    BY DEF LoginStep, VerifyPassword, ResolveUser, CreateSession, Rotate, ReadVersion, Issue
  <2>3. TimeStep \/ UNCHANGED vars => UNCHANGED refreshTokens
    BY DEF TimeStep, RequestReset, ExpireSession, ExpireReset, ExpireToken, vars
  <2>4. QED BY <2>1, <2>2, <2>3, NextSteps
<1>2. CASE \E k \in refreshTokens : k.sid = s /\ k.n = session[s].tok
  BY <1>1, <1>2 DEF TokenUnderway
<1>3. ASSUME NEW q \in Requests, req[q].pc \in {"sign", "issue"}, req[q].sid = s,
             req[q].tok = session[s].tok
      PROVE  TokenUnderway(s)'
  <2>1. CASE req'[q] = req[q]
    BY <1>3, <2>1 DEF TokenUnderway
  <2>2. CASE req'[q] # req[q]
    <3>1. ~TimeStep /\ ~UNCHANGED vars
      BY <2>2 DEF TimeStep, RequestReset, ExpireSession, ExpireReset, ExpireToken, vars
    <3>2. LoginStep(q)
      BY <1>3, <2>2, <3>1, NextSteps, OthersStay, StandsAt
    <3>3. CASE ReadVersion(q)
      <4>. DEFINE y == [req[q] EXCEPT !.pc = "issue", !.ver = userVer[req[q].user],
                                      !.live = Active(s) /\ loginable[req[q].user]]
      <4>1. req'[q] = y
        BY <1>3, <3>3 DEF ReadVersion, TypeInv, TypeOK
      <4>2. y.pc = "issue" /\ y.sid = s /\ y.tok = session[s].tok
        BY <1>3, RequestType DEF Request
      <4>3. QED BY <4>1, <4>2 DEF TokenUnderway
    <3>4. CASE Issue(q)
      <4>1. [sid |-> s, n |-> session[s].tok, from |-> req[q].from] \in refreshTokens'
        BY <1>3, <3>4 DEF Issue
      <4>2. QED BY <4>1 DEF TokenUnderway
    <3>5. QED BY <1>3, <3>2, <3>3, <3>4
              DEF LoginStep, VerifyPassword, ResolveUser, CreateSession, Rotate
  <2>3. QED BY <2>1, <2>2
<1>4. QED BY <1>2, <1>3 DEF TokenUnderway

CurrentTokenInv == TypeInv /\ Lineage /\ CurrentTokenUnderway

LEMMA CurrentTokenStep == CurrentTokenInv /\ [Next]_vars => CurrentTokenInv'
<1>. SUFFICES ASSUME TypeInv, Lineage, CurrentTokenUnderway, [Next]_vars
              PROVE  CurrentTokenInv'
  BY DEF CurrentTokenInv
<1>1. TypeInv' /\ Lineage' /\ RowsKept
  BY TypeStep, LineageKept, RowsKeptStep
<1>2. ASSUME NEW s \in Sids, Active(s)' PROVE TokenUnderway(s)'
  <2>1. CASE session[s].state = "none"
    <3>1. PICK r \in Requests : CreateSession(r, s)
      BY <1>2, <2>1, Born DEF Active
    <3>. DEFINE y == [req[r] EXCEPT !.pc = "sign", !.user = req[r].target, !.sid = s,
                                    !.tok = 1, !.from = 0]
    <3>2. session'[s].tok = 1 /\ req'[r] = y
      BY <3>1 DEF CreateSession, TypeInv, TypeOK
    <3>3. y.pc = "sign" /\ y.sid = s /\ y.tok = 1
      BY RequestType DEF Request
    <3>4. QED BY <3>2, <3>3 DEF TokenUnderway
  <2>2. CASE session[s].state # "none"
    <3>1. TokenUnderway(s)
      BY <1>1, <1>2, <2>2, WasActive DEF CurrentTokenUnderway
    <3>2. QED BY <2>2, <3>1, TokenReplaced, TokenSent
  <2>3. QED BY <2>1, <2>2
<1>3. CurrentTokenUnderway'
  BY <1>2 DEF CurrentTokenUnderway
<1>4. QED BY <1>1, <1>3 DEF CurrentTokenInv

(* However many refreshes of a session race, once nobody works on it some    *)
(* client holds the refresh token its row expects: auth.service.ts, refresh. *)
THEOREM ClientCanGoOn == Spec => []ClientHoldsCurrentToken
<1>1. Init => CurrentTokenInv
  BY InitType, InitLineage DEF CurrentTokenInv, Init, CurrentTokenUnderway, Active, NoSession
<1>2. CurrentTokenInv => ClientHoldsCurrentToken
  BY DEF CurrentTokenInv, CurrentTokenUnderway, TokenUnderway, ClientHoldsCurrentToken
<1>3. QED BY <1>1, <1>2, CurrentTokenStep, PTL DEF Spec

-----------------------------------------------------------------------------
(* Revocation and versions. *)

(* The version of a user never falls, and a step that takes an INCR off the  *)
(* way performs it.                                                          *)
LEMMA VersionStep ==
    ASSUME TypeInv, [Next]_vars, NEW u \in Users
    PROVE  /\ userVer'[u] \in Nat /\ userVer'[u] >= userVer[u]
           /\ (\E r \in Requests : (IncrVersion(r) \/ SweepIncr(r)) /\ req[r].user = u)
                 => userVer'[u] > userVer[u]
<1>1. userVer[u] \in Nat
  BY DEF TypeInv, TypeOK
<1>2. ASSUME NEW r \in Requests, IncrVersion(r) \/ SweepIncr(r)
      PROVE  userVer'[u] = IF u = req[r].user THEN userVer[u] + 1 ELSE userVer[u]
  BY <1>2 DEF IncrVersion, SweepIncr, Incr, TypeInv, TypeOK
<1>3. ASSUME NEW r \in Requests, ~(IncrVersion(r) \/ SweepIncr(r)),
             SendAny(r) \/ FindStep(r) \/ LoginStep(r) \/ RevokeStep(r) \/ ResetStep(r)
      PROVE  UNCHANGED userVer
  <2>1. SendAny(r) => UNCHANGED userVer
    BY DEF SendAny, SendLogin, SendToken, SendReset, SendActivation, Send
  <2>2. FindStep(r) => UNCHANGED userVer
    BY DEF FindStep, FindRefresh, FindLogout, FindLogoutAll, FindSwitch
  <2>3. LoginStep(r) => UNCHANGED userVer
    BY DEF LoginStep, VerifyPassword, ResolveUser, CreateSession, Rotate, ReadVersion, Issue
  <2>4. RevokeStep(r) => UNCHANGED userVer
    BY <1>3 DEF RevokeStep, RevokeOne, RevokeAll, LoadUser, SetLoginable
  <2>5. ResetStep(r) => UNCHANGED userVer
    BY <1>3 DEF ResetStep, CheckReset, RefuseNewPassword, SetPasswordHash, MarkUsed, SweepRevoke
  <2>6. QED BY <1>3, <2>1, <2>2, <2>3, <2>4, <2>5
<1>4. TimeStep \/ UNCHANGED vars => UNCHANGED userVer
  BY DEF TimeStep, RequestReset, ExpireSession, ExpireReset, ExpireToken, vars
<1>5. QED BY <1>1, <1>2, <1>3, <1>4, NextSteps

LEMMA PendingKept ==
    ASSUME TypeInv, [Next]_vars, NEW u, PendingIncr(u),
           ~(\E r \in Requests : (IncrVersion(r) \/ SweepIncr(r)) /\ req[r].user = u)
    PROVE  PendingIncr(u)'
<1>1. PICK q \in Requests :
         /\ req[q].user = u
         /\ \/ req[q].pc \in {"incr", "sweepIncr"}
            \/ req[q].pc = "revokeAll" /\ req[q].op = "deactivate"
  BY DEF PendingIncr
<1>2. CASE req'[q] = req[q]
  BY <1>1, <1>2 DEF PendingIncr
<1>3. CASE req'[q] # req[q]
  <2>1. ~TimeStep /\ ~UNCHANGED vars
    BY <1>3 DEF TimeStep, RequestReset, ExpireSession, ExpireReset, ExpireToken, vars
  <2>2. RevokeStep(q) \/ ResetStep(q)
    BY <1>1, <1>3, <2>1, NextSteps, OthersStay, StandsAt
  <2>3. RevokeAll(q)
    BY <1>1, <2>2 DEF RevokeStep, RevokeOne, LoadUser, SetLoginable, ResetStep, CheckReset,
                      RefuseNewPassword, SetPasswordHash, MarkUsed, SweepRevoke
  <2>4. req'[q].pc = "incr" /\ req'[q].user = u
    BY <1>1, <2>3, GotoFields DEF RevokeAll
  <2>5. QED BY <2>4 DEF PendingIncr
<1>4. QED BY <1>2, <1>3

(* Whoever ends a session has the INCR of its user still ahead. *)
LEMMA RevocationAnnounced ==
    ASSUME TypeInv, Lineage, [Next]_vars, NEW s \in Sids, Active(s), ~Active(s)'
    PROVE  PendingIncr(session[s].user)' /\ session'[s].user = session[s].user
<1>. PICK u \in Users : u = session[s].user
  BY RowType DEF Active
<1>1. \A r \in Requests : SendAny(r) \/ FindStep(r) => UNCHANGED session
  BY DEF SendAny, SendLogin, SendToken, SendReset, SendActivation, Send, FindStep, FindRefresh,
         FindLogout, FindLogoutAll, FindSwitch
<1>2. ASSUME NEW r \in Requests, LoginStep(r) PROVE FALSE
  <2>1. ASSUME NEW q \in Sids, CreateSession(r, q) PROVE FALSE
    BY <2>1 DEF CreateSession, Active, TypeInv, TypeOK
  <2>2. ASSUME Rotate(r) PROVE FALSE
    <3>1. session'[s].state = session[s].state
      BY <2>2, RowType DEF Rotate, SessionRow, TypeInv, TypeOK
    <3>2. QED BY <3>1 DEF Active
  <2>3. VerifyPassword(r) \/ ResolveUser(r) \/ ReadVersion(r) \/ Issue(r)
        => UNCHANGED session
    BY DEF VerifyPassword, ResolveUser, ReadVersion, Issue
  <2>4. QED BY <1>2, <2>1, <2>2, <2>3 DEF LoginStep, Active
<1>3. ASSUME NEW r \in Requests, RevokeStep(r) PROVE PendingIncr(u)'
  <2>1. CASE RevokeOne(r)
    <3>1. req[r].sid = s
      BY <2>1 DEF RevokeOne, Active, TypeInv, TypeOK
    <3>2. req[r].user = u
      BY <2>1, <3>1 DEF RevokeOne, Lineage, RequestKnows, Owns
    <3>3. req'[r].pc = "incr" /\ req'[r].user = u
      BY <2>1, <3>2, GotoFields DEF RevokeOne
    <3>4. QED BY <3>3 DEF PendingIncr
  <2>2. CASE RevokeAll(r)
    <3>1. req[r].user = u
      BY <2>2 DEF RevokeAll, RevokeAllOf, Active
    <3>2. req'[r].pc = "incr" /\ req'[r].user = u
      BY <2>2, <3>1, GotoFields DEF RevokeAll
    <3>3. QED BY <3>2 DEF PendingIncr
  <2>3. IncrVersion(r) \/ LoadUser(r) \/ SetLoginable(r) => UNCHANGED session
    BY DEF IncrVersion, LoadUser, SetLoginable
  <2>4. QED BY <1>3, <2>1, <2>2, <2>3 DEF RevokeStep, Active
<1>4. ASSUME NEW r \in Requests, ResetStep(r) PROVE PendingIncr(u)'
  <2>1. CheckReset(r) \/ RefuseNewPassword(r) \/ SetPasswordHash(r) \/ MarkUsed(r)
        \/ SweepIncr(r) => UNCHANGED session
    BY DEF CheckReset, RefuseNewPassword, SetPasswordHash, MarkUsed, SweepIncr
  <2>2. ASSUME NEW w \in Users, SweepRevoke(r, w) PROVE PendingIncr(u)'
    <3>1. w = u
      BY <2>2 DEF SweepRevoke, RevokeAllOf, Active
    <3>2. req'[r] = [req[r] EXCEPT !.pc = "sweepIncr", !.user = u]
      BY <2>2, <3>1 DEF SweepRevoke, TypeInv, TypeOK
    <3>3. req'[r].pc = "sweepIncr" /\ req'[r].user = u
      BY <3>2, RequestType DEF Request
    <3>4. QED BY <3>3 DEF PendingIncr
  <2>3. QED BY <1>4, <2>1, <2>2 DEF ResetStep, Active
<1>5. ASSUME TimeStep PROVE FALSE
  <2>1. ASSUME NEW q \in Sids, ExpireSession(q) PROVE session'[s].state = session[s].state
    BY <2>1, RowType DEF ExpireSession, TypeInv, TypeOK, SessionRow
  <2>2. QED BY <1>5, <2>1 DEF TimeStep, RequestReset, ExpireReset, ExpireToken, Active
<1>6. PendingIncr(u)'
  BY <1>1, <1>2, <1>3, <1>4, <1>5, NextSteps DEF vars, Active
<1>7. session'[s].user = u
  BY RowsKeptStep DEF RowsKept, RowKept, Active
<1>8. QED BY <1>6, <1>7

Claim == [sub : Users, sid : Sids, ver : Nat, live : BOOLEAN]

LEMMA JustifiedKept ==
    ASSUME TypeInv, Lineage, [Next]_vars, NEW t \in Claim, Justified(t)
    PROVE  Justified(t)'
<1>1. t.sub \in Users /\ t.sid \in Sids /\ t.ver \in Nat
  BY DEF Claim
<1>2. Owns(t.sub, t.sid)'
  BY <1>1, RowsKeptStep, OwnsKept DEF Justified
<1>3. /\ t.ver <= userVer[t.sub] /\ userVer[t.sub] \in Nat /\ userVer'[t.sub] \in Nat
      /\ userVer'[t.sub] >= userVer[t.sub]
  BY <1>1, VersionStep DEF Justified, TypeInv, TypeOK
<1>4. ASSUME userVer'[t.sub] = t.ver, t.live
      PROVE  (Active(t.sid)' /\ loginable'[t.sub]) \/ PendingIncr(t.sub)'
  <2>1. userVer[t.sub] = t.ver
    BY <1>1, <1>3, <1>4
  <2>2. (Active(t.sid) /\ loginable[t.sub]) \/ PendingIncr(t.sub)
    BY <1>4, <2>1 DEF Justified, Accepted
  <2>3. CASE PendingIncr(t.sub)
    <3>1. ~(\E r \in Requests : (IncrVersion(r) \/ SweepIncr(r)) /\ req[r].user = t.sub)
      BY <1>1, <1>3, <1>4, <2>1, VersionStep
    <3>2. QED BY <2>3, <3>1, PendingKept
  <2>4. CASE Active(t.sid) /\ ~Active(t.sid)'
    <3>1. session[t.sid].user = t.sub
      BY DEF Justified, Owns
    <3>2. PendingIncr(session[t.sid].user)' /\ session'[t.sid].user = session[t.sid].user
      BY <1>1, <2>4, RevocationAnnounced
    <3>3. session'[t.sid].user = t.sub
      BY <3>1, <3>2
    <3>4. QED BY <3>2, <3>3
  <2>5. CASE loginable[t.sub] /\ ~loginable'[t.sub]
    BY <1>1, <2>5, LoginableLost
  <2>6. QED BY <2>2, <2>3, <2>4, <2>5
<1>5. QED BY <1>1, <1>2, <1>3, <1>4 DEF Justified, Accepted

LEMMA ClaimType ==
    ASSUME TypeInv, NEW r \in Requests, req[r].pc = "issue"
    PROVE  ClaimOf(req[r]) \in Claim
BY RequestType DEF ClaimOf, Claim, Request, WellFormed

(* A claim is new only when the version has just been read. *)
LEMMA NewClaim ==
    ASSUME TypeInv, Lineage, [Next]_vars, NEW r \in Requests, req'[r].pc = "issue",
           req'[r] # req[r]
    PROVE  Justified(ClaimOf(req[r]))'
<1>1. ~TimeStep /\ ~UNCHANGED vars
  BY DEF TimeStep, RequestReset, ExpireSession, ExpireReset, ExpireToken, vars
<1>2. SendAny(r) \/ FindStep(r) \/ LoginStep(r) \/ RevokeStep(r) \/ ResetStep(r)
  BY <1>1, NextSteps, OthersStay
<1>3. IdleRequest.pc = "idle"
  BY DEF IdleRequest
<1>4. ASSUME NEW y, req' = [req EXCEPT ![r] = y] PROVE y.pc = "issue"
  BY <1>4, OthersKept
<1>5. ~SendAny(r)
  <2>1. ASSUME NEW u \in Users, SendLogin(r, u) PROVE FALSE
    BY <1>4, <2>1, IdleType DEF SendLogin, Send, Request
  <2>2. ASSUME NEW k, NEW op, NEW u, SendToken(r, op, k, u) PROVE FALSE
    BY <1>4, <2>2, IdleType DEF SendToken, Send, Request
  <2>3. ASSUME NEW k \in ResetTokens, SendReset(r, k) PROVE FALSE
    BY <1>4, <2>3, IdleType DEF SendReset, Send, Request
  <2>4. ASSUME NEW u \in Users, NEW op, SendActivation(r, op, u) PROVE FALSE
    BY <1>4, <2>4, IdleType DEF SendActivation, Send, Request
  <2>5. QED BY <2>1, <2>2, <2>3, <2>4 DEF SendAny
<1>6. ~Finish(r)
  BY <1>3, <1>4 DEF Finish
<1>7. \A pc : Goto(r, pc) => pc = "issue"
  BY GotoFields
<1>8. ReadVersion(r)
  <2>1. ~FindStep(r)
    <3>1. ASSUME NEW pc \in {"revokeAll", "rotate", "revoke"}, NEW u,
                 req' = [req EXCEPT ![r] = [req[r] EXCEPT !.pc = pc, !.user = u]]
          PROVE  FALSE
      BY <1>4, <3>1, RequestType DEF Request
    <3>2. ASSUME NEW u, NEW n,
                 req' = [req EXCEPT ![r] = [req[r] EXCEPT !.pc = "resolve", !.user = u,
                                                          !.pwd = n]]
          PROVE  FALSE
      BY <1>4, <3>2, RequestType DEF Request
    <3>. DEFINE owner == session[req[r].sid].user
    <3>3. ~FindRefresh(r) /\ ~FindLogout(r) /\ ~FindLogoutAll(r)
      <4>1. FindRefresh(r) => \E pc \in {"revokeAll", "rotate"} :
               req' = [req EXCEPT ![r] = [req[r] EXCEPT !.pc = pc, !.user = owner]]
        BY <1>6 DEF FindRefresh
      <4>2. FindLogout(r) =>
               req' = [req EXCEPT ![r] = [req[r] EXCEPT !.pc = "revoke", !.user = owner]]
        BY <1>6 DEF FindLogout
      <4>3. FindLogoutAll(r) =>
               req' = [req EXCEPT ![r] = [req[r] EXCEPT !.pc = "revokeAll", !.user = owner]]
        BY <1>6 DEF FindLogoutAll
      <4>4. QED BY <3>1, <4>1, <4>2, <4>3
    <3>4. ~FindSwitch(r)
      <4>1. FindSwitch(r) => req' = [req EXCEPT ![r] =
               [req[r] EXCEPT !.pc = "resolve", !.user = owner,
                              !.pwd = session[req[r].sid].authPwd]]
        BY <1>6 DEF FindSwitch
      <4>2. QED BY <3>2, <4>1
    <3>5. QED BY <3>3, <3>4 DEF FindStep
  <2>2. ~RevokeStep(r)
    BY <1>6, <1>7 DEF RevokeStep, RevokeOne, RevokeAll, IncrVersion, LoadUser, SetLoginable
  <2>3. ~ResetStep(r)
    <3>1. ~CheckReset(r) /\ ~RefuseNewPassword(r) /\ ~MarkUsed(r)
      BY <1>6, <1>7 DEF CheckReset, RefuseNewPassword, MarkUsed
    <3>2. ~SetPasswordHash(r)
      BY <1>4, RequestType DEF SetPasswordHash, Request
    <3>3. \A u \in Users : ~SweepRevoke(r, u)
      BY <1>4, RequestType DEF SweepRevoke, Request
    <3>4. ~SweepIncr(r)
      <4>1. [req[r] EXCEPT !.pc = "sweep", !.todo = req[r].todo \ {req[r].user}].pc = "sweep"
        BY RequestType DEF Request
      <4>2. QED BY <1>3, <1>4, <4>1 DEF SweepIncr
    <3>5. QED BY <3>1, <3>2, <3>3, <3>4 DEF ResetStep
  <2>4. ~VerifyPassword(r) /\ ~ResolveUser(r) /\ ~Issue(r)
    <3>1. ~VerifyPassword(r)
      BY <1>4, RequestType DEF VerifyPassword, Request
    <3>2. QED BY <1>6, <1>7, <3>1 DEF ResolveUser, Issue
  <2>5. ~Rotate(r) /\ \A s \in Sids : ~CreateSession(r, s)
    <3>1. ~Rotate(r)
      BY <1>4, RequestType DEF Rotate, Request
    <3>2. ASSUME NEW s \in Sids, CreateSession(r, s) PROVE FALSE
      <4>. DEFINE y == [req[r] EXCEPT !.pc = "sign", !.user = req[r].target, !.sid = s,
                                      !.tok = 1, !.from = 0]
      <4>1. y.pc = "sign"
        BY RequestType DEF Request
      <4>2. req' = [req EXCEPT ![r] = y]
        BY <3>2 DEF CreateSession
      <4>3. QED BY <1>4, <4>1, <4>2
    <3>3. QED BY <3>1, <3>2
  <2>6. QED BY <1>2, <1>5, <2>1, <2>2, <2>3, <2>4, <2>5 DEF LoginStep
<1>. PICK x \in Request : x = req[r]
  BY RequestType
<1>. DEFINE y == [x EXCEPT !.pc = "issue", !.ver = userVer[x.user],
                           !.live = Active(x.sid) /\ loginable[x.user]]
<1>9. req'[r] = y /\ UNCHANGED <<session, loginable, userVer>>
  BY <1>8 DEF ReadVersion, TypeInv, TypeOK
<1>10. x.user \in Users /\ x.sid \in Sids /\ Owns(x.user, x.sid)
  BY <1>8, RequestType DEF ReadVersion, WellFormed, Lineage, RequestKnows
<1>11. /\ y.user = x.user /\ y.sid = x.sid /\ y.ver = userVer[x.user]
       /\ y.live = (Active(x.sid) /\ loginable[x.user])
  BY DEF Request
<1>12. userVer[x.user] \in Nat
  BY <1>10 DEF TypeInv, TypeOK
<1>. PICK c : c = ClaimOf(req[r])'
  OBVIOUS
<1>13. /\ c.sub = x.user /\ c.sid = x.sid /\ c.ver = userVer[x.user]
       /\ c.live = (Active(x.sid) /\ loginable[x.user])
  BY <1>9, <1>11 DEF ClaimOf
<1>14. Justified(c)'
  <2>1. Owns(c.sub, c.sid)' /\ c.ver <= userVer'[c.sub]
    BY <1>9, <1>10, <1>12, <1>13 DEF Owns
  <2>2. c.live => Active(x.sid) /\ loginable[x.user]
    BY <1>13
  <2>3. c.live => Active(c.sid)' /\ loginable'[c.sub]
    BY <1>9, <1>13, <2>2 DEF Active
  <2>4. QED BY <2>1, <2>3 DEF Justified
<1>15. QED BY <1>14

VersionInv == TypeInv /\ Lineage /\ ClaimsJustified

LEMMA VersionInvStep == VersionInv /\ [Next]_vars => VersionInv'
<1>. SUFFICES ASSUME TypeInv, Lineage, ClaimsJustified, [Next]_vars PROVE VersionInv'
  BY DEF VersionInv
<1>1. TypeInv' /\ Lineage'
  BY TypeStep, LineageKept
<1>2. \A t \in tokens : t \in Claim
  BY DEF TypeInv, TypeOK, Claim
<1>3. ASSUME NEW t \in tokens' PROVE Justified(t)'
  <2>1. CASE t \in tokens
    BY <1>2, <2>1, JustifiedKept DEF ClaimsJustified
  <2>2. CASE t \notin tokens
    <3>1. PICK r \in Requests : Issue(r)
      <4>1. ASSUME NEW r \in Requests,
                   SendAny(r) \/ FindStep(r) \/ RevokeStep(r) \/ ResetStep(r)
            PROVE  UNCHANGED tokens
        <5>1. SendAny(r) => UNCHANGED tokens
          BY DEF SendAny, SendLogin, SendToken, SendReset, SendActivation, Send
        <5>2. FindStep(r) => UNCHANGED tokens
          BY DEF FindStep, FindRefresh, FindLogout, FindLogoutAll, FindSwitch
        <5>3. RevokeStep(r) => UNCHANGED tokens
          BY DEF RevokeStep, RevokeOne, RevokeAll, IncrVersion, LoadUser, SetLoginable
        <5>4. ResetStep(r) => UNCHANGED tokens
          BY DEF ResetStep, CheckReset, RefuseNewPassword, SetPasswordHash, MarkUsed,
                 SweepRevoke, SweepIncr
        <5>5. QED BY <4>1, <5>1, <5>2, <5>3, <5>4
      <4>2. \A r \in Requests : LoginStep(r) /\ ~Issue(r) => UNCHANGED tokens
        BY DEF LoginStep, VerifyPassword, ResolveUser, CreateSession, Rotate, ReadVersion
      <4>3. TimeStep \/ UNCHANGED vars => tokens' \subseteq tokens
        BY DEF TimeStep, RequestReset, ExpireSession, ExpireReset, ExpireToken, vars
      <4>4. QED BY <2>2, <4>1, <4>2, <4>3, NextSteps
    <3>2. t = ClaimOf(req[r]) /\ req[r].pc = "issue"
      BY <2>2, <3>1 DEF Issue, ClaimOf
    <3>3. t \in Claim /\ Justified(t)
      BY <3>2, ClaimType DEF ClaimsJustified
    <3>4. QED BY <3>3, JustifiedKept
  <2>3. QED BY <2>1, <2>2
<1>4. ASSUME NEW r \in Requests, req'[r].pc = "issue" PROVE Justified(ClaimOf(req[r]))'
  <2>1. CASE req'[r] # req[r]
    BY <1>4, <2>1, NewClaim
  <2>2. CASE req'[r] = req[r]
    <3>1. PICK t \in Claim : t = ClaimOf(req[r])
      BY <1>4, <2>2, ClaimType
    <3>2. Justified(t)
      BY <1>4, <2>2, <3>1 DEF ClaimsJustified
    <3>3. Justified(t)'
      BY <3>2, JustifiedKept
    <3>4. ClaimOf(req[r])' = t
      BY <2>2, <3>1 DEF ClaimOf
    <3>5. QED BY <3>3, <3>4
  <2>3. QED BY <2>1, <2>2
<1>5. ClaimsJustified'
  BY <1>3, <1>4 DEF ClaimsJustified
<1>6. QED BY <1>1, <1>5 DEF VersionInv

(* Every way to end a session stales the access tokens signed while it was   *)
(* alive: auth.service.ts, user.service.ts.                                  *)
THEOREM RevocationStales == Spec => []RevocationStalesTokens
<1>1. Init => VersionInv
  BY InitType, InitLineage DEF VersionInv, Init, ClaimsJustified, IdleRequest
<1>2. VersionInv => RevocationStalesTokens
  BY DEF VersionInv, ClaimsJustified, Justified, RevocationStalesTokens
<1>3. QED BY <1>1, <1>2, VersionInvStep, PTL DEF Spec

-----------------------------------------------------------------------------
(* Sessions implements VersionedClaims: each step of a request is one step   *)
(* of the abstract specification or leaves what it shows alone.              *)

LEMMA PromiseInit == ASSUME Init PROVE Promise!ClaimsInit
<1>1. \A u \in Users : Alive(u) \in SUBSET Sids
  BY DEF Alive
<1>2. OwedIncr = {}
  BY DEF Init, OwedIncr, PendingIncr, IdleRequest
<1>3. Admitted = {}
  BY DEF Init, Admitted
<1>4. QED BY <1>1, <1>2, <1>3 DEF Promise!ClaimsInit

(* Between two INCRs users can only come to be owed one.                     *)
LEMMA OwedStay ==
    ASSUME TypeInv, [Next]_vars, NEW u \in Users, u \in OwedIncr, userVer'[u] = userVer[u]
    PROVE  u \in OwedIncr'
<1>1. userVer[u] \in Nat /\ PendingIncr(u)
  BY DEF TypeInv, TypeOK, OwedIncr
<1>2. ~(\E r \in Requests : (IncrVersion(r) \/ SweepIncr(r)) /\ req[r].user = u)
  BY <1>1, VersionStep
<1>3. QED BY <1>1, <1>2, PendingKept DEF OwedIncr

(* A session ends, or its user is deactivated, with an INCR announced.       *)
LEMMA EndIsOwed ==
    ASSUME TypeInv, Lineage, [Next]_vars, NEW u \in Users, ~(Alive(u) \subseteq Alive(u)')
    PROVE  u \in OwedIncr'
<1>1. PICK s \in Alive(u) : s \notin Alive(u)'
  OBVIOUS
<1>2. s \in Sids /\ Active(s) /\ session[s].user = u /\ loginable[u]
  BY <1>1 DEF Alive
<1>3. session'[s].user = u
  BY <1>2, RowsKeptStep DEF RowsKept, RowKept, Active
<1>4. CASE ~loginable'[u]
  BY <1>2, <1>4, LoginableLost DEF OwedIncr
<1>5. CASE ~Active(s)'
  <2>1. PendingIncr(session[s].user)'
    BY <1>2, <1>5, RevocationAnnounced
  <2>2. PendingIncr(u)'
    BY <1>2, <1>3, <2>1
  <2>3. QED BY <2>2 DEF OwedIncr
<1>6. QED BY <1>1, <1>2, <1>3, <1>4, <1>5 DEF Alive

LEMMA PromiseChange ==
    ASSUME TypeInv, Lineage, [Next]_vars, UNCHANGED <<tokens, userVer>>
    PROVE  Promise!Change
<1>1. \A u \in Users : Alive(u)' \in SUBSET Sids
  BY DEF Alive
<1>2. OwedIncr \subseteq OwedIncr'
  BY OwedStay DEF OwedIncr
<1>3. OwedIncr' \subseteq Users
  BY DEF OwedIncr
<1>4. Admitted' = Admitted
  BY DEF Admitted, Accepted
<1>5. \A u \in Users : ~(Alive(u) \subseteq Alive(u)') => u \in OwedIncr'
  BY EndIsOwed
<1>6. QED BY <1>1, <1>2, <1>3, <1>4, <1>5 DEF Promise!Change

(* An INCR refuses every token of its user and touches no other's.           *)
LEMMA PromiseRevoke ==
    ASSUME VersionInv, [Next]_vars, NEW r \in Requests, IncrVersion(r) \/ SweepIncr(r)
    PROVE  Promise!Revoke(req[r].user) /\ req[r].user \in Users
<1>. DEFINE v == req[r].user
<1>0. TypeInv /\ Lineage /\ ClaimsJustified
  BY DEF VersionInv
<1>1. v \in Users /\ req[r].pc \in {"incr", "sweepIncr"}
  BY <1>0, RequestType DEF WellFormed, IncrVersion, SweepIncr
<1>2. /\ UNCHANGED <<session, loginable, tokens>>
      /\ userVer[v] \in Nat /\ userVer'[v] = userVer[v] + 1
      /\ \A u \in Users \ {v} : userVer'[u] = userVer[u]
  BY <1>0, <1>1 DEF IncrVersion, SweepIncr, Incr, TypeInv, TypeOK
<1>3. [u \in Users |-> Alive(u)]' = [u \in Users |-> Alive(u)]
  BY <1>2 DEF Alive, Active
<1>4. OwedIncr \ {v} \subseteq OwedIncr'
  BY <1>0, <1>2, OwedStay DEF OwedIncr
<1>5. OwedIncr' \subseteq OwedIncr
  <2>1. /\ req'[r].pc \notin {"incr", "sweepIncr", "revokeAll"}
        /\ \A q \in Requests : q # r => req'[q] = req[q]
    <3>1. PICK y : /\ req' = [req EXCEPT ![r] = y]
                   /\ y.pc \notin {"incr", "sweepIncr", "revokeAll"}
      <4>1. IdleRequest.pc = "idle"
        BY DEF IdleRequest
      <4>2. [req[r] EXCEPT !.pc = "create"].pc = "create"
        BY <1>0, RequestType DEF Request
      <4>3. [req[r] EXCEPT !.pc = "sweep", !.todo = @ \ {v}].pc = "sweep"
        BY <1>0, RequestType DEF Request
      <4>4. CASE Finish(r)
        BY <4>1, <4>4 DEF Finish
      <4>5. CASE Goto(r, "create")
        BY <4>2, <4>5 DEF Goto
      <4>6. CASE req' = [req EXCEPT ![r] = [req[r] EXCEPT !.pc = "sweep", !.todo = @ \ {v}]]
        BY <4>3, <4>6
      <4>7. QED BY <4>4, <4>5, <4>6 DEF IncrVersion, SweepIncr, Finish
    <3>2. QED BY <1>0, <3>1, OthersKept
  <2>2. QED BY <2>1 DEF OwedIncr, PendingIncr
<1>6. \A t \in tokens : Accepted(t)' <=> Accepted(t) /\ t.sub # v
  <2>1. ASSUME NEW t \in tokens PROVE Accepted(t)' <=> Accepted(t) /\ t.sub # v
    <3>1. t.sub \in Users /\ t.ver \in Nat /\ t.ver <= userVer[t.sub]
      BY <1>0 DEF TypeInv, TypeOK, ClaimsJustified, Justified
    <3>2. QED BY <1>2, <3>1 DEF Accepted
  <2>2. QED BY <2>1
<1>7. Admitted' = {a \in Admitted : a.sub # v}
  BY <1>2, <1>6 DEF Admitted
<1>8. QED BY <1>1, <1>3, <1>4, <1>5, <1>7 DEF Promise!Revoke

(* A signed token that the guard admits, signed for a live session, claims   *)
(* what is true or owed.                                                     *)
LEMMA PromiseGrant ==
    ASSUME VersionInv, NEW r \in Requests, Issue(r)
    PROVE  Promise!ClaimsNext \/ UNCHANGED Promise!claimsVars
<1>. DEFINE new == ClaimOf(req[r])
<1>0. TypeInv /\ ClaimsJustified /\ req[r].pc = "issue"
  BY DEF VersionInv, Issue
<1>1. tokens' = tokens \cup {new} /\ UNCHANGED <<session, loginable, userVer>>
  BY DEF Issue, ClaimOf
<1>2. new.sub \in Users /\ new.sid \in Sids /\ Justified(new)
  <2>1. PICK t \in Claim : t = new
    BY <1>0, ClaimType
  <2>2. Justified(new)
    BY <1>0 DEF ClaimsJustified
  <2>3. QED BY <2>1, <2>2 DEF Claim
<1>3. [u \in Users |-> Alive(u)]' = [u \in Users |-> Alive(u)]
  BY <1>1 DEF Alive, Active
<1>4. OwedIncr' = OwedIncr
  <2>1. \A q \in Requests : q # r => req'[q] = req[q]
    BY <1>0, IdleKnows DEF Issue, Finish
  <2>2. req'[r].pc = "idle"
    <3>1. req'[r] = IdleRequest
      BY <1>0, OthersKept DEF Issue, Finish
    <3>2. QED BY <3>1 DEF IdleRequest
  <2>3. \A u \in Users : PendingIncr(u)' <=> PendingIncr(u)
    BY <1>0, <2>1, <2>2 DEF PendingIncr
  <2>4. QED BY <2>3 DEF OwedIncr
<1>5. \A t : Accepted(t)' = Accepted(t)
  BY <1>1 DEF Accepted
<1>6. CASE Accepted(new) /\ new.live
  <2>1. Admitted' = Admitted \cup {[sub |-> new.sub, claims |-> new.sid]}
    BY <1>1, <1>5, <1>6 DEF Admitted
  <2>2. new.sid \in Alive(new.sub) \/ new.sub \in OwedIncr
    BY <1>2, <1>6 DEF Justified, Owns, Alive, OwedIncr
  <2>3. Promise!Grant(new.sub, new.sid)
    BY <1>2, <1>3, <1>4, <2>1, <2>2 DEF Promise!Grant
  <2>4. QED BY <1>2, <2>3 DEF Promise!ClaimsNext
<1>7. CASE ~(Accepted(new) /\ new.live)
  <2>1. Admitted' = Admitted
    BY <1>1, <1>5, <1>7 DEF Admitted
  <2>2. QED BY <1>3, <1>4, <2>1 DEF Promise!claimsVars
<1>8. QED BY <1>6, <1>7

LEMMA PromiseLapse == ASSUME NEW t \in tokens, ExpireToken(t) PROVE Promise!Lapse
<1>1. tokens' \subseteq tokens /\ UNCHANGED <<session, loginable, userVer, req>>
  BY DEF ExpireToken
<1>2. [u \in Users |-> Alive(u)]' = [u \in Users |-> Alive(u)] /\ OwedIncr' = OwedIncr
  BY <1>1 DEF Alive, Active, OwedIncr, PendingIncr
<1>3. Admitted' \subseteq Admitted
  BY <1>1 DEF Admitted, Accepted
<1>4. QED BY <1>2, <1>3 DEF Promise!Lapse

LEMMA PromiseStep ==
    ASSUME VersionInv, [Next]_vars PROVE [Promise!ClaimsNext]_Promise!claimsVars
<1>0. TypeInv /\ Lineage
  BY DEF VersionInv
<1>1. ASSUME UNCHANGED <<tokens, userVer>> PROVE Promise!ClaimsNext
  BY <1>0, <1>1, PromiseChange DEF Promise!ClaimsNext
<1>2. ASSUME NEW r \in Requests, SendAny(r) \/ FindStep(r)
      PROVE  Promise!ClaimsNext
  <2>1. SendAny(r) => UNCHANGED <<tokens, userVer>>
    <3>1. ASSUME NEW op, NEW y, Send(r, op, y) PROVE UNCHANGED <<tokens, userVer>>
      BY <3>1 DEF Send
    <3>2. ASSUME NEW k, NEW op, NEW u, SendToken(r, op, k, u)
          PROVE  UNCHANGED <<tokens, userVer>>
      BY <3>1, <3>2 DEF SendToken
    <3>3. ASSUME NEW k, SendReset(r, k) PROVE UNCHANGED <<tokens, userVer>>
      BY <3>1, <3>3 DEF SendReset
    <3>4. ASSUME NEW u, NEW op, SendLogin(r, u) \/ SendActivation(r, op, u)
          PROVE  UNCHANGED <<tokens, userVer>>
      BY <3>1, <3>4 DEF SendLogin, SendActivation
    <3>5. QED BY <3>2, <3>3, <3>4 DEF SendAny
  <2>2. FindStep(r) => UNCHANGED <<tokens, userVer>>
    BY DEF FindStep, FindRefresh, FindLogout, FindLogoutAll, FindSwitch
  <2>3. QED BY <1>1, <1>2, <2>1, <2>2
<1>3. ASSUME NEW r \in Requests, LoginStep(r)
      PROVE  Promise!ClaimsNext \/ UNCHANGED Promise!claimsVars
  <2>1. LoginStep(r) /\ ~Issue(r) => UNCHANGED <<tokens, userVer>>
    <3>1. VerifyPassword(r) \/ ResolveUser(r) => UNCHANGED <<tokens, userVer>>
      BY DEF VerifyPassword, ResolveUser
    <3>2. \A s \in Sids : CreateSession(r, s) => UNCHANGED <<tokens, userVer>>
      BY DEF CreateSession
    <3>3. Rotate(r) \/ ReadVersion(r) => UNCHANGED <<tokens, userVer>>
      BY DEF Rotate, ReadVersion
    <3>4. QED BY <3>1, <3>2, <3>3 DEF LoginStep
  <2>2. QED BY <1>1, <1>3, <2>1, PromiseGrant
<1>4. ASSUME NEW r \in Requests, RevokeStep(r) \/ ResetStep(r) PROVE Promise!ClaimsNext
  <2>1. CASE IncrVersion(r) \/ SweepIncr(r)
    BY <2>1, PromiseRevoke DEF Promise!ClaimsNext
  <2>2. CASE ~(IncrVersion(r) \/ SweepIncr(r))
    BY <1>1, <1>4, <2>2 DEF RevokeStep, RevokeOne, RevokeAll, LoadUser, SetLoginable,
       ResetStep, CheckReset, RefuseNewPassword, SetPasswordHash, MarkUsed, SweepRevoke
  <2>3. QED BY <2>1, <2>2
<1>5. ASSUME TimeStep PROVE Promise!ClaimsNext
  <2>1. ASSUME NEW t \in tokens, ExpireToken(t) PROVE Promise!ClaimsNext
    BY <2>1, PromiseLapse DEF Promise!ClaimsNext
  <2>2. QED BY <1>1, <1>5, <2>1 DEF TimeStep, RequestReset, ExpireSession, ExpireReset
<1>6. CASE UNCHANGED vars
  BY <1>1, <1>6 DEF vars
<1>7. QED BY <1>2, <1>3, <1>4, <1>5, <1>6, NextSteps

(* Seen by those who hold its tokens, the session lifecycle is               *)
(* VersionedClaims: whatever ends a session owes an INCR from that moment,    *)
(* the INCR refuses every token before it, and a token signed for a live      *)
(* session is admitted only while the session lives or the INCR is owed:      *)
(* auth.service.ts, user.service.ts, jwt-auth.guard.ts.                       *)
THEOREM SessionsKeepThePromise == Spec => ImplementsVersionedClaims
<1>1. Init => VersionInv /\ Promise!ClaimsInit
  BY InitType, InitLineage, PromiseInit
     DEF VersionInv, Init, ClaimsJustified, IdleRequest
<1>2. VersionInv /\ [Next]_vars => [Promise!ClaimsNext]_Promise!claimsVars
  BY PromiseStep
<1>3. QED
  BY <1>1, <1>2, VersionInvStep, PTL
     DEF Spec, ImplementsVersionedClaims, Promise!ClaimsSpec

(* What VersionedClaims gives the clients: the session of an admitted token  *)
(* is alive, or the INCR is owed.                                            *)
AdmittedTrue ==
    \A t \in Admitted : t.sub \in Users /\ (t.claims \in Alive(t.sub) \/ t.sub \in OwedIncr)

LEMMA AdmittedTrueStays ==
    ASSUME AdmittedTrue, [Promise!ClaimsNext]_Promise!claimsVars PROVE AdmittedTrue'
<1>1. CASE UNCHANGED Promise!claimsVars
  <2>1. /\ \A u \in Users : Alive(u)' = Alive(u)
        /\ OwedIncr' = OwedIncr /\ Admitted' = Admitted
    BY <1>1 DEF Promise!claimsVars
  <2>2. QED BY <2>1 DEF AdmittedTrue
<1>2. CASE Promise!Change
  <2>1. /\ \A u \in Users : ~(Alive(u) \subseteq Alive(u)') => u \in OwedIncr'
        /\ OwedIncr \subseteq OwedIncr' /\ Admitted' = Admitted
    BY <1>2 DEF Promise!Change
  <2>2. QED BY <2>1 DEF AdmittedTrue
<1>3. ASSUME NEW u \in Users, Promise!Revoke(u) PROVE AdmittedTrue'
  <2>1. /\ OwedIncr \ {u} \subseteq OwedIncr' /\ Admitted' = {t \in Admitted : t.sub # u}
        /\ \A v \in Users : Alive(v)' = Alive(v)
    BY <1>3 DEF Promise!Revoke
  <2>2. QED BY <2>1 DEF AdmittedTrue
<1>4. ASSUME NEW u \in Users, NEW s \in Sids, Promise!Grant(u, s) PROVE AdmittedTrue'
  <2>1. /\ s \in Alive(u) \/ u \in OwedIncr
        /\ Admitted' = Admitted \cup {[sub |-> u, claims |-> s]}
        /\ OwedIncr' = OwedIncr /\ \A v \in Users : Alive(v)' = Alive(v)
    BY <1>4 DEF Promise!Grant
  <2>2. QED BY <2>1 DEF AdmittedTrue
<1>5. CASE Promise!Lapse
  <2>1. /\ Admitted' \subseteq Admitted /\ OwedIncr' = OwedIncr
        /\ \A v \in Users : Alive(v)' = Alive(v)
    BY <1>5 DEF Promise!Lapse
  <2>2. QED BY <2>1 DEF AdmittedTrue
<1>6. QED BY <1>1, <1>2, <1>3, <1>4, <1>5 DEF Promise!ClaimsNext

(* The abstraction is strong enough: where no more than VersionedClaims      *)
(* happens, no ended session leaves an access token that the guard admits    *)
(* and no INCR is going to refuse (jwt-auth.guard.ts).                       *)
THEOREM PromiseSuffices == ImplementsVersionedClaims => []RevocationStalesTokens
<1>1. Promise!ClaimsInit => AdmittedTrue
  BY DEF Promise!ClaimsInit, AdmittedTrue
<1>2. AdmittedTrue => RevocationStalesTokens
  <2> SUFFICES ASSUME AdmittedTrue, NEW t \in tokens, Accepted(t), t.live
               PROVE  (Active(t.sid) /\ loginable[t.sub]) \/ PendingIncr(t.sub)
    BY DEF RevocationStalesTokens
  <2>1. PICK a : a = [sub |-> t.sub, claims |-> t.sid]
    OBVIOUS
  <2>2. a \in Admitted
    BY <2>1 DEF Admitted
  <2>3. t.sid \in Alive(t.sub) \/ t.sub \in OwedIncr
    BY <2>1, <2>2 DEF AdmittedTrue
  <2>4. QED BY <2>3 DEF Alive, OwedIncr
<1>3. QED
  BY <1>1, <1>2, AdmittedTrueStays, PTL DEF ImplementsVersionedClaims, Promise!ClaimsSpec

-----------------------------------------------------------------------------
(* A session row keeps its owner and the history of its birth, generates      *)
(* ever newer refresh tokens, and never comes back from a revocation.         *)
THEOREM SessionsKeepHistory == Spec => [][RowsKept]_vars
<1>1. TypeInv /\ Lineage /\ [Next]_vars => [RowsKept]_vars
  BY RowsKeptStep
<1>2. QED BY <1>1, TypeAlways, PTL DEF Spec
=============================================================================
