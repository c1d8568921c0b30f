------------------------- MODULE AccessTokensProofs -------------------------
(* Proofs about AccessTokens for every set of users, roles, teams and       *)
(* requests, every number of mutations and every number of tokens.          *)
EXTENDS AccessTokens, TLAPS

-----------------------------------------------------------------------------
(* Type correctness. *)

LEMMA IdleTypes == IdleHandler \in Handler /\ IdleSigner \in Signer
BY ConstantsAssumption
   DEF IdleHandler, Handler, HandlerRecord, HandlerPc, WellFormed, AllOps, IdleSigner,
       Signer, SignerRecord

LEMMA InitType == Init => TypeOK
<1>1. ASSUME Init PROVE TypeOK
  BY <1>1, IdleTypes DEF Init, TypeOK, Exists
<1>2. QED BY <1>1

LEMMA BeginKeepsType ==
    ASSUME TypeOK, NEW h \in Handlers, NEW op, NEW rest \in Handler, Begin(h, op, rest)
    PROVE  TypeOK'
BY DEF Begin, TypeOK, db, Exists

LEMMA BeginType == ASSUME TypeOK, NEW h \in Handlers, BeginMutation(h) PROVE TypeOK'
<1>. USE ConstantsAssumption DEF Handler, HandlerRecord, HandlerPc, WellFormed, IdleHandler, AllOps
<1>1. ASSUME NEW u \in Users, NEW r \in Roles, BeginAssignRole(h, u, r) PROVE TypeOK'
  <2>1. [IdleHandler EXCEPT !.pc = "write", !.op = "assignRole", !.user = u, !.role = r]
            \in Handler
    BY <1>1 DEF BeginAssignRole, Begin
  <2>2. QED BY <1>1, <2>1, BeginKeepsType DEF BeginAssignRole
<1>2. ASSUME NEW u \in Users, NEW r \in Roles, BeginRemoveRole(h, u, r) PROVE TypeOK'
  <2>1. [IdleHandler EXCEPT !.pc = "write", !.op = "removeRole", !.user = u, !.role = r]
            \in Handler
    BY <1>2 DEF BeginRemoveRole, Begin
  <2>2. QED BY <1>2, <2>1, BeginKeepsType DEF BeginRemoveRole
<1>3. ASSUME NEW r \in Roles, NEW n \in RoleNames, BeginUpdateRole(h, r, n) PROVE TypeOK'
  <2>1. [IdleHandler EXCEPT !.pc = "write", !.op = "updateRole", !.role = r, !.arg = n]
            \in Handler
    BY <1>3 DEF BeginUpdateRole, Begin
  <2>2. QED BY <1>3, <2>1, BeginKeepsType DEF BeginUpdateRole
<1>4. ASSUME NEW r \in Roles, BeginDeleteRole(h, r) PROVE TypeOK'
  <2>1. [IdleHandler EXCEPT !.pc = "holders", !.op = "deleteRole", !.role = r] \in Handler
    BY <1>4 DEF BeginDeleteRole, Begin
  <2>2. QED BY <1>4, <2>1, BeginKeepsType DEF BeginDeleteRole
<1>5. ASSUME NEW t \in Teams, NEW u \in Users, NEW m \in MemberRole, BeginAddMember(h, t, u, m)
      PROVE TypeOK'
  <2>1. [IdleHandler EXCEPT !.pc = "write", !.op = "addMember", !.team = t, !.user = u,
                            !.arg = m] \in Handler
    BY <1>5 DEF BeginAddMember, Begin
  <2>2. QED BY <1>5, <2>1, BeginKeepsType DEF BeginAddMember
<1>6. ASSUME NEW t \in Teams, NEW u \in Users, NEW m \in MemberRole,
             BeginUpdateMemberRole(h, t, u, m)
      PROVE TypeOK'
  <2>1. [IdleHandler EXCEPT !.pc = "write", !.op = "updateMemberRole", !.team = t,
                            !.user = u, !.arg = m] \in Handler
    BY <1>6 DEF BeginUpdateMemberRole, Begin
  <2>2. QED BY <1>6, <2>1, BeginKeepsType DEF BeginUpdateMemberRole
<1>7. ASSUME NEW t \in Teams, NEW u \in Users, BeginRemoveMember(h, t, u) PROVE TypeOK'
  <2>1. [IdleHandler EXCEPT !.pc = "write", !.op = "removeMember", !.team = t, !.user = u]
            \in Handler
    BY <1>7 DEF BeginRemoveMember, Begin
  <2>2. QED BY <1>7, <2>1, BeginKeepsType DEF BeginRemoveMember
<1>8. QED BY <1>1, <1>2, <1>3, <1>4, <1>5, <1>6, <1>7 DEF BeginMutation

(* The two outcomes of a write leave a well-typed handler table. *)
LEMMA OutcomeType ==
    ASSUME TypeOK, NEW h \in Handlers, handler[h].pc = "write",
           NEW pc \in {"holders", "bump"},
           pc = "holders" => handler[h].op \in {"updateRole", "deleteRole"},
           NEW targets \in SUBSET Users, NEW changed \in SUBSET Users
    PROVE  /\ Written(h, pc, targets, changed) =>
                  handler' \in [Handlers -> Handler] /\ dirty' \subseteq Users
           /\ WriteFails(h) => handler' \in [Handlers -> Handler]
<1>1. [handler[h] EXCEPT !.pc = pc, !.targets = targets] \in Handler
  BY DEF TypeOK, Handler, HandlerRecord, HandlerPc, WellFormed
<1>2. [handler EXCEPT ![h].pc = pc, ![h].targets = targets]
        = [handler EXCEPT ![h] = [handler[h] EXCEPT !.pc = pc, !.targets = targets]]
  BY DEF TypeOK, Handler, HandlerRecord
<1>3. QED BY <1>1, <1>2, IdleTypes DEF TypeOK, Written, WriteFails

LEMMA WriteType == ASSUME TypeOK, NEW h \in Handlers, Write(h) PROVE TypeOK'
<1>. DEFINE x == handler[h]
            Rest == UNCHANGED <<userVer, loggedIn, signer, tokens, edits>>
<1>0. x \in Handler /\ x.pc = "write" /\ Rest
  BY DEF TypeOK, Write
<1>. USE <1>0
<1>1. CASE WriteFails(h)
  BY <1>1, OutcomeType DEF TypeOK, WriteFails, db, Exists
<1>2. CASE x.op = "assignRole" /\ WriteAssignRole(h)
  <2>1. x.user \in Users /\ x.role \in Roles
    BY <1>2 DEF Handler, WellFormed
  <2>2. CASE Exists(x.role) /\ <<x.user, x.role>> \notin userRoles
    <3>1. /\ userRoles' = userRoles \cup {<<x.user, x.role>>}
          /\ Written(h, "bump", {x.user}, {x.user})
          /\ UNCHANGED <<roleName, member>>
      BY <1>2, <2>2 DEF WriteAssignRole
    <3>2. handler' \in [Handlers -> Handler] /\ dirty' \subseteq Users
      BY <2>1, <3>1, OutcomeType
    <3>3. QED BY <2>1, <2>2, <3>1, <3>2 DEF TypeOK, Exists
  <2>3. CASE ~(Exists(x.role) /\ <<x.user, x.role>> \notin userRoles)
    BY <1>1, <1>2, <2>3 DEF WriteAssignRole
  <2>4. QED BY <2>2, <2>3
<1>3. CASE x.op = "removeRole" /\ WriteRemoveRole(h)
  <2>1. x.user \in Users /\ x.role \in Roles
    BY <1>3 DEF Handler, WellFormed
  <2>2. QED BY <1>1, <1>3, <2>1, OutcomeType DEF TypeOK, WriteRemoveRole, Exists
<1>4. CASE x.op = "updateRole" /\ WriteUpdateRole(h)
  <2>1. x.role \in Roles /\ x.arg \in RoleNames
    BY <1>4 DEF Handler, WellFormed
  <2>2. Holders(x.role) \subseteq Users
    BY DEF Holders
  <2>3. CASE Exists(x.role) /\ \A q \in Roles \ {x.role} : roleName[q] # x.arg
    <3>1. /\ roleName' = [roleName EXCEPT ![x.role] = x.arg]
          /\ Written(h, "holders", {}, Holders(x.role))
          /\ UNCHANGED <<userRoles, member>>
      BY <1>4, <2>3 DEF WriteUpdateRole
    <3>2. handler' \in [Handlers -> Handler] /\ dirty' \subseteq Users
      BY <1>4, <2>2, <3>1, OutcomeType
    <3>3. QED BY <2>1, <3>1, <3>2 DEF TypeOK, Exists
  <2>4. CASE ~(Exists(x.role) /\ \A q \in Roles \ {x.role} : roleName[q] # x.arg)
    BY <1>1, <1>4, <2>4 DEF WriteUpdateRole
  <2>5. QED BY <2>3, <2>4
<1>5. ASSUME NEW present, NEW value \in {"none"} \cup MemberRole,
             WriteMember(h, present, value),
             x.op \in {"addMember", "removeMember", "updateMemberRole"}
      PROVE  TypeOK'
  <2>1. x.user \in Users /\ x.team \in Teams
    BY <1>5 DEF Handler, WellFormed
  <2>2. QED BY <1>1, <1>5, <2>1, OutcomeType DEF TypeOK, WriteMember, Exists
<1>6. x.op \in {"addMember", "updateMemberRole"} => x.arg \in MemberRole
  BY DEF Handler, WellFormed
<1>7. QED BY <1>2, <1>3, <1>4, <1>5, <1>6 DEF Write

LEMMA AfterBumpsType ==
    ASSUME TypeOK, NEW h \in Handlers PROVE AfterBumps(h) \in Handler
BY IdleTypes, ConstantsAssumption
   DEF TypeOK, AfterBumps, Handler, HandlerRecord, HandlerPc, WellFormed, AllOps

LEMMA BumpStepsType ==
    ASSUME TypeOK, NEW h \in Handlers, ReadHolders(h) \/ \E u \in Users : Bump(h, u)
    PROVE  TypeOK'
<1>. DEFINE x == handler[h]
<1>0. x \in Handler /\ AfterBumps(h) \in Handler
  BY AfterBumpsType DEF TypeOK
<1>1. CASE ReadHolders(h)
  <2>1. [x EXCEPT !.pc = "bump", !.targets = Holders(x.role)] \in Handler
    BY <1>0, <1>1 DEF ReadHolders, Handler, HandlerRecord, HandlerPc, WellFormed, Holders
  <2>2. handler' \in [Handlers -> Handler]
    BY <1>0, <1>1, <2>1 DEF TypeOK, ReadHolders
  <2>3. QED BY <1>1, <2>2 DEF TypeOK, ReadHolders, db, Exists
<1>2. ASSUME NEW u \in Users, Bump(h, u) PROVE TypeOK'
  <2>1. [x EXCEPT !.targets = @ \ {u}] \in Handler
    BY <1>0 DEF Handler, HandlerRecord, WellFormed
  <2>2. handler' \in [Handlers -> Handler]
    BY <1>0, <1>2, <2>1 DEF TypeOK, Bump
  <2>3. GetUserVer(u) + 1 \in Nat
    BY DEF TypeOK, GetUserVer
  <2>4. QED BY <1>2, <2>2, <2>3 DEF TypeOK, Bump, db, Exists
<1>3. QED BY <1>1, <1>2

LEMMA DeleteType ==
    ASSUME TypeOK, NEW h \in Handlers, StripRole(h) \/ DropRole(h) PROVE TypeOK'
<1>. DEFINE x == handler[h]
<1>0. x \in Handler
  BY DEF TypeOK
<1>1. CASE StripRole(h)
  <2>1. [x EXCEPT !.pc = "drop"] \in Handler
    BY <1>0, <1>1 DEF StripRole, Handler, HandlerRecord, HandlerPc, WellFormed
  <2>2. handler' \in [Handlers -> Handler]
    BY <1>1, <2>1 DEF TypeOK, StripRole
  <2>3. QED BY <1>1, <2>2 DEF TypeOK, StripRole, Holders, Exists
<1>2. CASE DropRole(h)
  <2>1. x.role \in Roles
    BY <1>0, <1>2 DEF DropRole, Handler, HandlerRecord, WellFormed
  <2>2. ASSUME NEW ur \in userRoles PROVE Exists(ur[2])'
    <3>1. ur[1] \in Users /\ ur[2] \in Roles /\ Exists(ur[2]) /\ ur = <<ur[1], ur[2]>>
      BY DEF TypeOK
    <3>2. Holders(x.role) = {} => ur[2] # x.role
      BY <3>1 DEF Holders
    <3>3. QED BY <1>2, <2>1, <3>1, <3>2 DEF TypeOK, DropRole, Exists
  <2>3. roleName' \in [Roles -> RoleNames \cup {NotCreated, Deleted}]
    BY <1>2 DEF TypeOK, DropRole
  <2>4. handler' \in [Handlers -> Handler]
    BY <1>2, IdleTypes DEF TypeOK, DropRole
  <2>5. QED BY <1>2, <2>2, <2>3, <2>4 DEF TypeOK, DropRole
<1>3. QED BY <1>1, <1>2

LEMMA SigningType ==
    ASSUME TypeOK, NEW s \in Signers, StartSigning(s) \/ RunSigner(s) \/ CrashSigner(s)
    PROVE  TypeOK'
<1>. DEFINE x == signer[s]
<1>. USE DEF db, Exists
<1>0. x \in Signer
  BY DEF TypeOK
<1>1. ASSUME NEW u \in Users, StartLogin(s, u) \/ StartRefresh(s, u) PROVE TypeOK'
  <2>1. ASSUME NEW pc \in {"init", "version"}
        PROVE  [x EXCEPT !.pc = pc, !.user = u] \in Signer
    BY <1>0, <1>1 DEF StartLogin, StartRefresh, Signer, SignerRecord
  <2>2. signer' \in [Signers -> Signer]
    BY <1>1, <2>1 DEF TypeOK, StartLogin, StartRefresh
  <2>3. QED BY <1>1, <2>2 DEF TypeOK, StartLogin, StartRefresh
<1>2. CASE InitUserVer(s)
  <2>1. [x EXCEPT !.pc = "version"] \in Signer /\ x.user \in Users
    BY <1>0, <1>2 DEF InitUserVer, Signer, SignerRecord
  <2>2. QED BY <1>2, <2>1 DEF TypeOK, InitUserVer
<1>3. CASE ReadVersion(s)
  <2>1. x.user \in Users
    BY <1>0, <1>3 DEF ReadVersion, Signer
  <2>2. GetUserVer(x.user) \in Nat
    BY <2>1 DEF TypeOK, GetUserVer
  <2>3. [x EXCEPT !.pc = "read", !.ver = GetUserVer(x.user)] \in Signer
    BY <1>0, <2>1, <2>2 DEF Signer, SignerRecord
  <2>4. QED BY <1>3, <2>3 DEF TypeOK, ReadVersion
<1>4. CASE ReadTeams(s)
  <2>1. x.user \in Users
    BY <1>0, <1>4 DEF ReadTeams, Signer
  <2>2. TeamsOf(x.user) \in TeamClaims
    BY <2>1 DEF TypeOK, TeamsOf, TeamClaims
  <2>3. [x EXCEPT !.teams = TeamsOf(x.user)] \in Signer
    BY <1>0, <1>4, <2>2 DEF ReadTeams, Signer, SignerRecord
  <2>4. QED BY <1>4, <2>3 DEF TypeOK, ReadTeams
<1>5. CASE ReadRoles(s)
  <2>1. x.user \in Users
    BY <1>0, <1>5 DEF ReadRoles, Signer
  <2>2. RolesOf(x.user) \in RoleClaims
    BY <2>1 DEF TypeOK, RolesOf, RoleClaims, Exists
  <2>3. [x EXCEPT !.roles = RolesOf(x.user)] \in Signer
    BY <1>0, <1>5, <2>2 DEF ReadRoles, Signer, SignerRecord
  <2>4. QED BY <1>5, <2>3 DEF TypeOK, ReadRoles
<1>6. CASE Issue(s)
  <2>1. [sub |-> x.user, ver |-> x.ver, roles |-> x.roles, teams |-> x.teams] \in Token
    BY <1>0, <1>6 DEF Issue, Signer, SignerRecord, Token
  <2>2. QED BY <1>6, <2>1, IdleTypes DEF TypeOK, Issue
<1>7. CASE CrashSigner(s)
  BY <1>7, IdleTypes DEF TypeOK, CrashSigner
<1>8. QED BY <1>1, <1>2, <1>3, <1>4, <1>5, <1>6, <1>7 DEF StartSigning, RunSigner

LEMMA StepType == TypeOK /\ [Next]_vars => TypeOK'
<1>. SUFFICES ASSUME TypeOK, [Next]_vars PROVE TypeOK'
  OBVIOUS
<1>. USE DEF db, Exists
<1>1. ASSUME NEW h \in Handlers, RunMutation(h) PROVE TypeOK'
  BY <1>1, WriteType, BumpStepsType, DeleteType DEF RunMutation
<1>2. ASSUME NEW h \in Handlers, CrashHandler(h) PROVE TypeOK'
  BY <1>2, IdleTypes DEF TypeOK, CrashHandler
<1>3. ASSUME NEW r \in Roles, NEW n \in RoleNames, CreateRole(r, n) PROVE TypeOK'
  BY <1>3 DEF TypeOK, CreateRole
<1>4. ASSUME NEW u \in Users, IncrOnly(u) PROVE TypeOK'
  <2>1. GetUserVer(u) + 1 \in Nat
    BY DEF TypeOK, GetUserVer
  <2>2. QED BY <1>4, <2>1 DEF TypeOK, IncrOnly
<1>5. ASSUME NEW t \in tokens, Expire(t) PROVE TypeOK'
  BY <1>5 DEF TypeOK, Expire
<1>6. CASE UNCHANGED vars
  BY <1>6 DEF TypeOK, vars
<1>7. QED BY <1>1, <1>2, <1>3, <1>4, <1>5, <1>6, BeginType, SigningType DEF Next

(* Every reachable state is well typed, whatever the constants are. *)
THEOREM TypeCorrect == Spec => []TypeOK
BY InitType, StepType, PTL DEF Spec
-----------------------------------------------------------------------------
(* Freshness.  A step that is not a signer's either leaves the claims of a   *)
(* user alone or leaves the user dirty or at a higher version.               *)

MonotoneStep == \A u \in Users : GetUserVer(u) <= GetUserVer(u)'

OwedStep ==
    \A u \in Users : GetUserVer(u)' = GetUserVer(u) /\ u \notin dirty' =>
        u \notin dirty /\ RolesOf(u)' = RolesOf(u) /\ TeamsOf(u)' = TeamsOf(u)

LEMMA VersionIsNat == ASSUME TypeOK, NEW u \in Users PROVE GetUserVer(u) \in Nat
BY DEF TypeOK, GetUserVer

LEMMA MutationStepKeepsFresh ==
    ASSUME TypeOK, TypeOK', FreshInv, MonotoneStep, OwedStep,
           tokens' \subseteq tokens, signer' = signer
    PROVE  FreshInv'
<1>1. ASSUME NEW t \in tokens'
      PROVE  /\ t.ver <= GetUserVer(t.sub)'
             /\ Accepted(t)' => (Current(t) \/ t.sub \in dirty)'
  <2>1. t \in tokens /\ t.sub \in Users /\ t.ver \in Nat
    BY <1>1 DEF TypeOK, Token
  <2>2. GetUserVer(t.sub) \in Nat /\ GetUserVer(t.sub)' \in Nat
    BY <2>1, VersionIsNat DEF TypeOK, GetUserVer
  <2>3. t.ver <= GetUserVer(t.sub) /\ GetUserVer(t.sub) <= GetUserVer(t.sub)'
    BY <2>1 DEF FreshInv, TokensNotAhead, SignersNotAhead, MonotoneStep
  <2>4. ASSUME Accepted(t)', t.sub \notin dirty' PROVE Current(t)'
    <3>1. GetUserVer(t.sub)' = GetUserVer(t.sub) /\ Accepted(t)
      BY <2>1, <2>2, <2>3, <2>4 DEF Accepted
    <3>2. t.sub \notin dirty /\ RolesOf(t.sub)' = RolesOf(t.sub)
          /\ TeamsOf(t.sub)' = TeamsOf(t.sub)
      BY <2>1, <2>4, <3>1 DEF OwedStep
    <3>3. Current(t)
      BY <2>1, <3>1, <3>2 DEF FreshInv, ClaimsCurrentOrOwed
    <3>4. QED BY <3>2, <3>3 DEF Current
  <2>5. QED BY <2>1, <2>2, <2>3, <2>4
<1>2. ASSUME NEW s \in Signers, signer[s].pc = "read"
      PROVE  LET x == signer[s] IN
             /\ x.ver <= GetUserVer(x.user)'
             /\ x.ver = GetUserVer(x.user)' /\ x.user \notin dirty' =>
                  x.roles \in {NoOne, RolesOf(x.user)'} /\ x.teams \in {NoOne, TeamsOf(x.user)'}
  <2>. DEFINE x == signer[s]
  <2>1. x.user \in Users /\ x.ver \in Nat
    BY <1>2 DEF TypeOK, Signer, SignerRecord
  <2>2. GetUserVer(x.user) \in Nat /\ GetUserVer(x.user)' \in Nat
    BY <2>1, VersionIsNat DEF TypeOK, GetUserVer
  <2>3. x.ver <= GetUserVer(x.user) /\ GetUserVer(x.user) <= GetUserVer(x.user)'
    BY <1>2, <2>1 DEF FreshInv, TokensNotAhead, SignersNotAhead, MonotoneStep
  <2>4. ASSUME x.ver = GetUserVer(x.user)', x.user \notin dirty'
        PROVE  x.roles \in {NoOne, RolesOf(x.user)'} /\ x.teams \in {NoOne, TeamsOf(x.user)'}
    <3>1. GetUserVer(x.user)' = GetUserVer(x.user) /\ x.ver = GetUserVer(x.user)
      BY <2>1, <2>2, <2>3, <2>4
    <3>2. x.user \notin dirty /\ RolesOf(x.user)' = RolesOf(x.user)
          /\ TeamsOf(x.user)' = TeamsOf(x.user)
      BY <2>1, <2>4, <3>1 DEF OwedStep
    <3>3. QED BY <1>2, <3>1, <3>2 DEF FreshInv, SignersCurrentOrOwed
  <2>5. QED BY <2>1, <2>2, <2>3, <2>4
<1>3. ClaimsCurrentOrOwed'
  BY <1>1 DEF ClaimsCurrentOrOwed
<1>4. TokensNotAhead' /\ SignersNotAhead' /\ SignersCurrentOrOwed'
  BY <1>1, <1>2 DEF TokensNotAhead, SignersNotAhead, SignersCurrentOrOwed, GetUserVer,
      RolesOf, TeamsOf
<1>5. QED BY <1>3, <1>4 DEF FreshInv

(* Steps that change neither tables nor versions nor dirty marks. *)
LEMMA QuietStep ==
    ASSUME TypeOK, UNCHANGED <<db, userVer, dirty>> PROVE MonotoneStep /\ OwedStep
<1>1. \A u \in Users : GetUserVer(u)' = GetUserVer(u) /\ GetUserVer(u) \in Nat
  BY VersionIsNat DEF GetUserVer
<1>2. QED BY <1>1 DEF db, MonotoneStep, OwedStep, RolesOf, TeamsOf

(* A write marks every user whose claims it changes. *)
LEMMA WriteOwed ==
    ASSUME TypeOK, NEW h \in Handlers, Write(h) PROVE MonotoneStep /\ OwedStep
<1>. DEFINE x == handler[h]
<1>0. /\ x \in Handler
      /\ userVer' = userVer
  BY DEF TypeOK, Write
<1>1. MonotoneStep
  BY <1>0, VersionIsNat DEF MonotoneStep, GetUserVer
<1>2. ASSUME WriteFails(h) PROVE OwedStep
  BY <1>0, <1>2 DEF WriteFails, OwedStep, db, RolesOf, TeamsOf
<1>3. ASSUME WriteAssignRole(h) PROVE OwedStep
  <2>1. CASE WriteFails(h)
    BY <1>2, <2>1
  <2>2. CASE /\ userRoles' = userRoles \cup {<<x.user, x.role>>}
             /\ dirty' = dirty \cup {x.user}
             /\ UNCHANGED <<roleName, member>>
    BY <2>2 DEF OwedStep, RolesOf, TeamsOf
  <2>3. QED BY <1>3, <2>1, <2>2 DEF WriteAssignRole, Written
<1>4. ASSUME WriteRemoveRole(h) PROVE OwedStep
  <2>1. CASE WriteFails(h)
    BY <1>2, <2>1
  <2>2. CASE /\ userRoles' = userRoles \ {<<x.user, x.role>>}
             /\ dirty' = dirty \cup {x.user}
             /\ UNCHANGED <<roleName, member>>
    BY <2>2 DEF OwedStep, RolesOf, TeamsOf
  <2>3. QED BY <1>4, <2>1, <2>2 DEF WriteRemoveRole, Written
<1>5. ASSUME WriteUpdateRole(h) PROVE OwedStep
  <2>1. CASE WriteFails(h)
    BY <1>2, <2>1
  <2>2. CASE /\ roleName' = [roleName EXCEPT ![x.role] = x.arg]
             /\ dirty' = dirty \cup Holders(x.role)
             /\ UNCHANGED <<userRoles, member>>
    <3>1. ASSUME NEW u \in Users, u \notin Holders(x.role)
          PROVE  RolesOf(u)' = RolesOf(u) /\ TeamsOf(u)' = TeamsOf(u)
      <4>1. \A r \in Roles : <<u, r>> \in userRoles => roleName'[r] = roleName[r]
        BY <2>2, <3>1 DEF TypeOK, Holders
      <4>2. QED BY <2>2, <4>1 DEF RolesOf, TeamsOf
    <3>2. QED BY <2>2, <3>1 DEF OwedStep
  <2>3. QED BY <1>5, <2>1, <2>2 DEF WriteUpdateRole, Written
<1>6. ASSUME NEW present, NEW value, WriteMember(h, present, value) PROVE OwedStep
  <2>1. CASE WriteFails(h)
    BY <1>2, <2>1
  <2>2. CASE /\ member' = [member EXCEPT ![<<x.team, x.user>>] = value]
             /\ dirty' = dirty \cup {x.user}
             /\ UNCHANGED <<userRoles, roleName>>
    <3>1. ASSUME NEW u \in Users, u # x.user
          PROVE  RolesOf(u)' = RolesOf(u) /\ TeamsOf(u)' = TeamsOf(u)
      BY <2>2, <3>1 DEF TypeOK, RolesOf, TeamsOf
    <3>2. QED BY <2>2, <3>1 DEF OwedStep
  <2>3. QED BY <1>6, <2>1, <2>2 DEF WriteMember, Written
<1>7. QED BY <1>1, <1>3, <1>4, <1>5, <1>6 DEF Write

(* An INCR clears a mark and raises the version of the same user. *)
LEMMA IncrOwed ==
    ASSUME TypeOK, NEW v \in Users, UNCHANGED db, dirty' = dirty \ {v},
           userVer' = [userVer EXCEPT ![v] = GetUserVer(v) + 1]
    PROVE  MonotoneStep /\ OwedStep
<1>1. GetUserVer(v) \in Nat
  BY VersionIsNat
<1>2. GetUserVer(v)' = GetUserVer(v) + 1
  BY <1>1, ConstantsAssumption DEF TypeOK, GetUserVer
<1>3. \A u \in Users \ {v} : GetUserVer(u)' = GetUserVer(u) /\ GetUserVer(u) \in Nat
  BY VersionIsNat DEF TypeOK, GetUserVer
<1>4. \A u \in Users : RolesOf(u)' = RolesOf(u) /\ TeamsOf(u)' = TeamsOf(u)
  BY DEF db, RolesOf, TeamsOf
<1>5. GetUserVer(v) <= GetUserVer(v)' /\ GetUserVer(v)' # GetUserVer(v)
  BY <1>1, <1>2
<1>6. MonotoneStep
  BY <1>3, <1>5 DEF MonotoneStep
<1>7. QED BY <1>3, <1>4, <1>5, <1>6 DEF OwedStep

(* Deleting a role: its holders are marked when their rows go, and the row   *)
(* of the role goes only when nobody holds it.                               *)
LEMMA DeleteOwed ==
    ASSUME TypeOK, NEW h \in Handlers, StripRole(h) \/ DropRole(h)
    PROVE  MonotoneStep /\ OwedStep
<1>. DEFINE r == handler[h].role
<1>0. userVer' = userVer /\ member' = member
  BY DEF StripRole, DropRole
<1>1. MonotoneStep
  BY <1>0, VersionIsNat DEF MonotoneStep, GetUserVer
<1>2. CASE StripRole(h)
  <2>1. ASSUME NEW u \in Users, u \notin Holders(r)
        PROVE  RolesOf(u)' = RolesOf(u) /\ TeamsOf(u)' = TeamsOf(u)
    <3>1. \A q \in Roles : <<u, q>> \in userRoles' <=> <<u, q>> \in userRoles
      BY <1>2, <2>1 DEF StripRole, Holders
    <3>2. QED BY <1>0, <1>2, <3>1 DEF StripRole, RolesOf, TeamsOf
  <2>2. QED BY <1>1, <1>2, <2>1 DEF OwedStep, StripRole
<1>3. CASE DropRole(h)
  <2>1. ASSUME NEW u \in Users
        PROVE  RolesOf(u)' = RolesOf(u) /\ TeamsOf(u)' = TeamsOf(u)
    <3>1. \A q \in Roles : <<u, q>> \in userRoles => roleName'[q] = roleName[q]
      BY <1>3 DEF TypeOK, DropRole, Holders
    <3>2. QED BY <1>0, <1>3, <3>1 DEF DropRole, RolesOf, TeamsOf
  <2>2. QED BY <1>1, <1>3, <2>1 DEF OwedStep, DropRole
<1>4. QED BY <1>2, <1>3

LEMMA CreateOwed ==
    ASSUME TypeOK, NEW r \in Roles, NEW n \in RoleNames, CreateRole(r, n)
    PROVE  MonotoneStep /\ OwedStep
<1>1. MonotoneStep
  BY VersionIsNat DEF CreateRole, MonotoneStep, GetUserVer
<1>2. ASSUME NEW u \in Users
      PROVE  RolesOf(u)' = RolesOf(u) /\ TeamsOf(u)' = TeamsOf(u)
  <2>1. \A q \in Roles : <<u, q>> \in userRoles => roleName'[q] = roleName[q]
    BY ConstantsAssumption DEF TypeOK, CreateRole, Exists
  <2>2. QED BY <2>1 DEF CreateRole, RolesOf, TeamsOf
<1>3. QED BY <1>1, <1>2 DEF OwedStep, CreateRole

(* Versions only grow, and claims change only together with a dirty mark or  *)
(* a new version.                                                            *)
LEMMA StepOwed ==
    ASSUME TypeOK, [Next]_vars PROVE MonotoneStep /\ OwedStep
<1>1. ASSUME NEW h \in Handlers, BeginMutation(h) PROVE UNCHANGED <<db, userVer, dirty>>
  BY <1>1 DEF BeginMutation, BeginAssignRole, BeginRemoveRole, BeginUpdateRole,
              BeginDeleteRole, BeginAddMember, BeginUpdateMemberRole, BeginRemoveMember, Begin
<1>2. ASSUME NEW h \in Handlers, RunMutation(h) PROVE MonotoneStep /\ OwedStep
  <2>1. CASE ReadHolders(h)
    BY <2>1, QuietStep DEF ReadHolders
  <2>2. ASSUME NEW u \in Users, Bump(h, u) PROVE MonotoneStep /\ OwedStep
    BY <2>2, IncrOwed DEF Bump
  <2>3. QED BY <1>2, <2>1, <2>2, WriteOwed, DeleteOwed DEF RunMutation
<1>3. ASSUME NEW s \in Signers, StartSigning(s) \/ ReadVersion(s) \/ ReadTeams(s)
                                \/ ReadRoles(s) \/ Issue(s) \/ CrashSigner(s)
      PROVE  UNCHANGED <<db, userVer, dirty>>
  BY <1>3 DEF StartSigning, StartLogin, StartRefresh, ReadVersion, ReadTeams, ReadRoles,
              Issue, CrashSigner
<1>4. ASSUME NEW s \in Signers, InitUserVer(s) PROVE MonotoneStep /\ OwedStep
  <2>1. \A u \in Users : GetUserVer(u)' = GetUserVer(u) /\ GetUserVer(u) \in Nat
    BY <1>4, VersionIsNat, ConstantsAssumption DEF TypeOK, InitUserVer, GetUserVer
  <2>2. QED BY <1>4, <2>1 DEF InitUserVer, db, MonotoneStep, OwedStep, RolesOf, TeamsOf
<1>5. ASSUME NEW u \in Users, IncrOnly(u) PROVE MonotoneStep /\ OwedStep
  BY <1>5, IncrOwed DEF IncrOnly
<1>6. ASSUME \/ \E h \in Handlers : CrashHandler(h)
             \/ \E t \in tokens : Expire(t)
             \/ UNCHANGED vars
      PROVE  UNCHANGED <<db, userVer, dirty>>
  BY <1>6 DEF CrashHandler, Expire, vars, db
<1>7. QED
  BY <1>1, <1>2, <1>3, <1>4, <1>5, <1>6, QuietStep, CreateOwed DEF Next, RunSigner

(* A signer that reads its claims while its version is current reads claims  *)
(* that stay current until the version moves: the version is read first.     *)
LEMMA SignerStepKeepsFresh ==
    ASSUME TypeOK, FreshInv, NEW s \in Signers,
           StartSigning(s) \/ RunSigner(s) \/ CrashSigner(s)
    PROVE  FreshInv'
<1>. DEFINE x == signer[s]
            Same == /\ \A u \in Users : /\ GetUserVer(u)' = GetUserVer(u)
                                        /\ RolesOf(u)' = RolesOf(u)
                                        /\ TeamsOf(u)' = TeamsOf(u)
                    /\ dirty' = dirty
            \* what FreshInv asks of one signer
            Good(y) == y.pc = "read" =>
                         /\ y.ver <= GetUserVer(y.user)
                         /\ y.ver = GetUserVer(y.user) /\ y.user \notin dirty =>
                               y.roles \in {NoOne, RolesOf(y.user)}
                               /\ y.teams \in {NoOne, TeamsOf(y.user)}
<1>1. Same
  <2>1. CASE InitUserVer(s)
    <3>1. \A u \in Users : GetUserVer(u)' = GetUserVer(u)
      BY <2>1, ConstantsAssumption DEF TypeOK, InitUserVer, GetUserVer
    <3>2. QED BY <2>1, <3>1 DEF InitUserVer, db, RolesOf, TeamsOf
  <2>2. CASE UNCHANGED <<db, userVer, dirty>>
    BY <2>2 DEF db, GetUserVer, RolesOf, TeamsOf
  <2>3. QED
    BY <2>1, <2>2 DEF StartSigning, RunSigner, StartLogin, StartRefresh, ReadVersion,
                      ReadTeams, ReadRoles, Issue, CrashSigner
<1>2. x \in Signer /\ \A q \in Signers : signer[q] \in Signer
  BY DEF TypeOK
<1>3. \A q \in Signers : Good(signer[q])
  BY DEF FreshInv, TokensNotAhead, SignersNotAhead, SignersCurrentOrOwed
<1>4. PICK y : /\ Good(y)
               /\ signer' = [signer EXCEPT ![s] = y]
               /\ y.pc = "read" => y.user \in Users /\ y.ver \in Nat
  <2>1. CASE ReadTeams(s)
    <3>. DEFINE y0 == [x EXCEPT !.teams = TeamsOf(x.user)]
    <3>1. x.pc = "read" /\ x.user \in Users /\ x.ver \in Nat
      BY <1>2, <2>1 DEF ReadTeams, Signer, SignerRecord
    <3>2. /\ y0.pc = x.pc /\ y0.user = x.user /\ y0.ver = x.ver /\ y0.roles = x.roles
          /\ y0.teams = TeamsOf(x.user)
      BY <1>2 DEF Signer, SignerRecord
    <3>3. signer' = [signer EXCEPT ![s] = y0]
      BY <1>2, <2>1 DEF TypeOK, ReadTeams, Signer, SignerRecord
    <3>4. Good(y0)
      BY <1>3, <3>1, <3>2
    <3>5. QED BY <3>1, <3>2, <3>3, <3>4
  <2>2. CASE ReadRoles(s)
    <3>. DEFINE y0 == [x EXCEPT !.roles = RolesOf(x.user)]
    <3>1. x.pc = "read" /\ x.user \in Users /\ x.ver \in Nat
      BY <1>2, <2>2 DEF ReadRoles, Signer, SignerRecord
    <3>2. /\ y0.pc = x.pc /\ y0.user = x.user /\ y0.ver = x.ver /\ y0.teams = x.teams
          /\ y0.roles = RolesOf(x.user)
      BY <1>2 DEF Signer, SignerRecord
    <3>3. signer' = [signer EXCEPT ![s] = y0]
      BY <1>2, <2>2 DEF TypeOK, ReadRoles, Signer, SignerRecord
    <3>4. Good(y0)
      BY <1>3, <3>1, <3>2
    <3>5. QED BY <3>1, <3>2, <3>3, <3>4
  <2>3. CASE ReadVersion(s)
    <3>1. x.user \in Users /\ x.pc = "version" /\ x.roles = NoOne /\ x.teams = NoOne
      BY <1>2, <2>3 DEF ReadVersion, Signer
    <3>2. GetUserVer(x.user) \in Nat
      BY <3>1, VersionIsNat
    <3>3. signer' = [signer EXCEPT ![s] = [x EXCEPT !.pc = "read", !.ver = GetUserVer(x.user)]]
      BY <1>2, <2>3 DEF TypeOK, ReadVersion, Signer, SignerRecord
    <3>. DEFINE y0 == [x EXCEPT !.pc = "read", !.ver = GetUserVer(x.user)]
    <3>4. /\ y0.ver = GetUserVer(y0.user) /\ y0.user = x.user
          /\ y0.roles = NoOne /\ y0.teams = NoOne
      BY <1>2, <3>1 DEF Signer, SignerRecord
    <3>5. Good(y0) /\ y0.user \in Users /\ y0.ver \in Nat
      BY <3>1, <3>2, <3>4
    <3>6. QED BY <3>3, <3>5
  <2>4. ASSUME StartSigning(s) \/ InitUserVer(s) \/ Issue(s) \/ CrashSigner(s)
        PROVE  \E y : y.pc # "read" /\ signer' = [signer EXCEPT ![s] = y]
    <3>1. ASSUME NEW u \in Users, NEW pc \in {"init", "version"},
                 signer' = [signer EXCEPT ![s].pc = pc, ![s].user = u]
          PROVE  signer' = [signer EXCEPT ![s] = [x EXCEPT !.pc = pc, !.user = u]]
      BY <1>2, <3>1 DEF TypeOK, Signer, SignerRecord
    <3>2. ASSUME InitUserVer(s)
          PROVE  signer' = [signer EXCEPT ![s] = [x EXCEPT !.pc = "version"]]
      BY <1>2, <3>2 DEF TypeOK, InitUserVer, Signer, SignerRecord
    <3>3. /\ IdleSigner.pc # "read" /\ [x EXCEPT !.pc = "version"].pc # "read"
          /\ \A u \in Users, pc \in {"init", "version"} :
                [x EXCEPT !.pc = pc, !.user = u].pc # "read"
      BY <1>2 DEF IdleSigner, Signer, SignerRecord
    <3>4. CASE StartSigning(s)
      <4>1. PICK u \in Users, pc \in {"init", "version"} :
                signer' = [signer EXCEPT ![s].pc = pc, ![s].user = u]
        BY <3>4 DEF StartSigning, StartLogin, StartRefresh
      <4>2. QED BY <3>1, <3>3, <4>1
    <3>5. CASE Issue(s) \/ CrashSigner(s)
      BY <3>3, <3>5 DEF Issue, CrashSigner
    <3>6. QED BY <2>4, <3>2, <3>3, <3>4, <3>5
  <2>5. QED BY <2>1, <2>2, <2>3, <2>4 DEF RunSigner
<1>5. \A q \in Signers : signer'[q] = IF q = s THEN y ELSE signer[q]
  BY <1>4 DEF TypeOK
<1>6. \A q \in Signers : Good(signer'[q])
  BY <1>3, <1>4, <1>5
<1>7. \A q \in Signers : signer'[q].pc = "read" => signer'[q].user \in Users
  BY <1>2, <1>4, <1>5 DEF Signer
<1>8. SignersCurrentOrOwed' /\ SignersNotAhead'
  <2>1. ASSUME NEW q \in Signers, NEW z, z = signer'[q], z.pc = "read"
        PROVE  /\ z.ver <= GetUserVer(z.user)'
               /\ z.ver = GetUserVer(z.user)' /\ z.user \notin dirty' =>
                    z.roles \in {NoOne, RolesOf(z.user)'}
                    /\ z.teams \in {NoOne, TeamsOf(z.user)'}
    BY <1>1, <1>6, <1>7, <2>1
  <2>2. SignersNotAhead'
    BY <2>1 DEF SignersNotAhead, GetUserVer
  <2>3. SignersCurrentOrOwed'
    BY <2>1 DEF SignersCurrentOrOwed, GetUserVer, RolesOf, TeamsOf
  <2>4. QED BY <2>2, <2>3
<1>9. ASSUME NEW t \in tokens'
      PROVE  /\ t.ver <= GetUserVer(t.sub)'
             /\ Accepted(t)' => (Current(t) \/ t.sub \in dirty)'
  <2>1. CASE t \in tokens
    <3>1. t.sub \in Users
      BY <2>1 DEF TypeOK, Token
    <3>2. QED
      BY <1>1, <2>1, <3>1
      DEF FreshInv, TokensNotAhead, SignersNotAhead, ClaimsCurrentOrOwed, Accepted, Current
  <2>2. CASE t \notin tokens
    <3>1. Issue(s)
      BY <2>2 DEF StartSigning, RunSigner, StartLogin, StartRefresh, InitUserVer, ReadVersion,
                  ReadTeams, ReadRoles, CrashSigner
    <3>2. t = [sub |-> x.user, ver |-> x.ver, roles |-> x.roles, teams |-> x.teams]
      BY <2>2, <3>1 DEF Issue
    <3>3. x.pc = "read" /\ x.user \in Users /\ x.roles # NoOne /\ x.teams # NoOne
      BY <1>2, <3>1 DEF Issue, Signer
    <3>4. QED BY <1>1, <1>3, <3>2, <3>3 DEF Accepted, Current
  <2>3. QED BY <2>1, <2>2
<1>10. TokensNotAhead'
  BY <1>9 DEF TokensNotAhead, GetUserVer
<1>11. ClaimsCurrentOrOwed'
  BY <1>9 DEF ClaimsCurrentOrOwed
<1>12. QED BY <1>8, <1>10, <1>11 DEF FreshInv

LEMMA InitFresh == Init => FreshInv
BY DEF Init, FreshInv, TokensNotAhead, SignersNotAhead, SignersCurrentOrOwed,
       ClaimsCurrentOrOwed, IdleSigner

LEMMA StepFresh ==
    ASSUME TypeOK, TypeOK', FreshInv, [Next]_vars PROVE FreshInv'
<1>1. ASSUME NEW s \in Signers, StartSigning(s) \/ RunSigner(s) \/ CrashSigner(s)
      PROVE  FreshInv'
  BY <1>1, SignerStepKeepsFresh
<1>2. ASSUME NEW h \in Handlers, BeginMutation(h) \/ RunMutation(h) \/ CrashHandler(h)
      PROVE  UNCHANGED <<signer, tokens>>
  BY <1>2 DEF BeginMutation, BeginAssignRole, BeginRemoveRole, BeginUpdateRole,
              BeginDeleteRole, BeginAddMember, BeginUpdateMemberRole, BeginRemoveMember, Begin,
              RunMutation, Write, ReadHolders, StripRole, DropRole, Bump, CrashHandler
<1>3. ASSUME \/ \E r \in Roles, n \in RoleNames : CreateRole(r, n)
             \/ \E u \in Users : IncrOnly(u)
             \/ \E t \in tokens : Expire(t)
             \/ UNCHANGED vars
      PROVE  signer' = signer /\ tokens' \subseteq tokens
  BY <1>3 DEF CreateRole, IncrOnly, Expire, vars
<1>4. QED BY <1>1, <1>2, <1>3, StepOwed, MutationStepKeepsFresh DEF Next

(* An accepted token is current or its user still owed an INCR, crashes and  *)
(* role deletions included.                                                  *)
THEOREM AcceptedTokensFresh == Spec => []ClaimsCurrentOrOwed
<1>1. Init => TypeOK /\ FreshInv
  BY InitType, InitFresh
<1>2. TypeOK /\ FreshInv /\ [Next]_vars => (TypeOK /\ FreshInv)'
  BY StepType, StepFresh
<1>3. FreshInv => ClaimsCurrentOrOwed
  BY DEF FreshInv
<1>4. QED BY <1>1, <1>2, <1>3, PTL DEF Spec

(* A token once refused is refused for ever. *)
THEOREM RefusedForEver == Spec => StaleForever
<1>1. TypeOK /\ FreshInv /\ [Next]_vars =>
        [\A t \in tokens : ~Accepted(t) => GetUserVer(t.sub)' # t.ver]_vars
  <2>1. ASSUME TypeOK, TypeOK', FreshInv, [Next]_vars, NEW t \in tokens, ~Accepted(t)
        PROVE  GetUserVer(t.sub)' # t.ver
    <3>1. t.sub \in Users /\ t.ver \in Nat
      BY <2>1 DEF TypeOK, Token
    <3>2. GetUserVer(t.sub) \in Nat /\ GetUserVer(t.sub)' \in Nat
      BY <2>1, <3>1, VersionIsNat DEF TypeOK, GetUserVer
    <3>3. t.ver <= GetUserVer(t.sub) /\ t.ver # GetUserVer(t.sub)
      BY <2>1 DEF FreshInv, TokensNotAhead, SignersNotAhead, Accepted
    <3>4. GetUserVer(t.sub) <= GetUserVer(t.sub)'
      BY <2>1, <3>1, StepOwed DEF MonotoneStep
    <3>5. QED BY <3>1, <3>2, <3>3, <3>4
  <2>2. QED BY <2>1, StepType
<1>2. Init => TypeOK /\ FreshInv
  BY InitType, InitFresh
<1>3. TypeOK /\ FreshInv /\ [Next]_vars => (TypeOK /\ FreshInv)'
  BY StepType, StepFresh
<1>4. QED BY <1>1, <1>2, <1>3, PTL DEF Spec, StaleForever
-----------------------------------------------------------------------------
(* The INCR is never forgotten.  role.delete is left out: it sends its INCRs *)
(* before its writes and leaves the holders dirty; a crash loses the INCR.   *)

WriteThenBump == "deleteRole" \notin Ops /\ ~CrashesAllowed

(* One handler moved: the users it marked, listed or un-listed are pending.  *)
LEMMA OthersKeepPending ==
    ASSUME TypeOK, DirtyIsPending, NEW h \in Handlers,
           \A g \in Handlers \ {h} : handler'[g] = handler[g],
           \A u \in dirty' : u \notin dirty \/ BumpAhead(h, u) => BumpAhead(h, u)',
           \A u \in dirty', r \in Roles :
               u \in Holders(r) /\ u \notin Holders(r)' => BumpAhead(h, u)'
    PROVE  DirtyIsPending'
<1>1. ASSUME NEW u \in dirty' PROVE PendingBump(u)'
  <2>1. CASE u \notin dirty
    BY <2>1 DEF PendingBump
  <2>2. CASE u \in dirty
    <3>1. PICK g \in Handlers : BumpAhead(g, u)
      BY <2>2 DEF DirtyIsPending, PendingBump
    <3>2. CASE g = h
      BY <1>1, <3>1, <3>2 DEF PendingBump
    <3>3. CASE g # h /\ handler[g].pc = "bump"
      BY <3>1, <3>3 DEF PendingBump, BumpAhead
    <3>4. CASE g # h /\ handler[g].pc = "holders"
      <4>. DEFINE r == handler[g].role
      <4>1. r \in Roles /\ u \in Holders(r)
        BY <3>1, <3>4 DEF TypeOK, Handler, WellFormed, BumpAhead
      <4>2. handler'[g] = handler[g]
        BY <3>4
      <4>3. CASE BumpAhead(h, u)'
        BY <4>3 DEF PendingBump
      <4>4. CASE ~BumpAhead(h, u)'
        <5>1. PICK q \in Roles : q = r
          BY <4>1
        <5>2. u \in Holders(q)'
          BY <1>1, <4>1, <4>4, <5>1
        <5>3. BumpAhead(g, u)'
          BY <3>4, <4>2, <5>1, <5>2 DEF BumpAhead, Holders
        <5>4. QED BY <5>3 DEF PendingBump
      <4>5. QED BY <4>3, <4>4
    <3>5. QED BY <3>1, <3>2, <3>3, <3>4 DEF BumpAhead
  <2>3. QED BY <2>1, <2>2
<1>2. QED BY <1>1 DEF DirtyIsPending

LEMMA WriteKeepsPending ==
    ASSUME TypeOK, DirtyIsPending, NEW h \in Handlers, Write(h) PROVE DirtyIsPending'
<1>. DEFINE x == handler[h]
<1>0. x \in Handler /\ x.pc = "write" /\ \A u \in Users : ~BumpAhead(h, u)
  BY DEF TypeOK, Write, BumpAhead
<1>1. ASSUME NEW u0 \in Users, UNCHANGED roleName, Written(h, "bump", {u0}, {u0}),
             \A u \in Users, r \in Roles : u \in Holders(r) /\ u \notin Holders(r)' => u = u0
      PROVE  DirtyIsPending'
  <2>1. /\ \A g \in Handlers \ {h} : handler'[g] = handler[g]
        /\ handler'[h].pc = "bump" /\ handler'[h].targets = {u0}
        /\ dirty' = dirty \cup {u0}
    BY <1>1 DEF TypeOK, Written, Handler, HandlerRecord
  <2>2. BumpAhead(h, u0)'
    BY <2>1 DEF BumpAhead
  <2>3. \A u \in dirty' : u \in Users
    BY <2>1 DEF TypeOK
  <2>4. QED BY <1>0, <1>1, <2>1, <2>2, <2>3, OthersKeepPending
<1>2. ASSUME WriteFails(h) PROVE DirtyIsPending'
  <2>1. /\ \A g \in Handlers \ {h} : handler'[g] = handler[g]
        /\ dirty' = dirty /\ \A r \in Roles : Holders(r)' = Holders(r)
    BY <1>2 DEF TypeOK, WriteFails, db, Holders
  <2>2. \A u \in dirty' : u \in Users
    BY <2>1 DEF TypeOK
  <2>3. QED BY <1>0, <2>1, <2>2, OthersKeepPending
<1>3. ASSUME WriteAssignRole(h) \/ WriteRemoveRole(h),
             x.op \in {"assignRole", "removeRole"}
      PROVE  DirtyIsPending'
  <2>1. x.user \in Users
    BY <1>0, <1>3 DEF Handler, WellFormed
  <2>2. CASE WriteFails(h)
    BY <1>2, <2>2
  <2>3. CASE ~WriteFails(h)
    BY <1>1, <1>3, <2>1, <2>3 DEF WriteAssignRole, WriteRemoveRole, Holders
  <2>4. QED BY <2>2, <2>3
<1>4. ASSUME WriteUpdateRole(h) PROVE DirtyIsPending'
  <2>1. CASE WriteFails(h)
    BY <1>2, <2>1
  <2>2. CASE Written(h, "holders", {}, Holders(x.role)) /\ UNCHANGED userRoles
    <3>1. /\ \A g \in Handlers \ {h} : handler'[g] = handler[g]
          /\ handler'[h].pc = "holders" /\ handler'[h].role = x.role
          /\ dirty' = dirty \cup Holders(x.role)
      BY <2>2 DEF TypeOK, Written, Handler, HandlerRecord
    <3>2. \A r : Holders(r)' = Holders(r)
      BY <2>2 DEF Holders
    <3>3. \A u \in Holders(x.role) : BumpAhead(h, u)'
      BY <2>2, <3>1 DEF BumpAhead, Holders
    <3>4. \A u \in dirty' : u \in Users
      BY <3>1 DEF TypeOK, Holders
    <3>5. QED BY <1>0, <3>1, <3>2, <3>3, <3>4, OthersKeepPending
  <2>3. QED BY <1>4, <2>1, <2>2 DEF WriteUpdateRole
<1>5. ASSUME NEW present, NEW value, WriteMember(h, present, value),
             x.op \in {"addMember", "removeMember", "updateMemberRole"}
      PROVE  DirtyIsPending'
  <2>1. x.user \in Users
    BY <1>0, <1>5 DEF Handler, WellFormed
  <2>2. CASE WriteFails(h)
    BY <1>2, <2>2
  <2>3. CASE ~WriteFails(h)
    BY <1>1, <1>5, <2>1, <2>3 DEF WriteMember, Holders
  <2>4. QED BY <2>2, <2>3
<1>6. QED BY <1>3, <1>4, <1>5 DEF Write

LEMMA BumpKeepsPending ==
    ASSUME TypeOK, DirtyIsPending, WriteThenBump, NEW h \in Handlers,
           ReadHolders(h) \/ \E u \in Users : Bump(h, u)
    PROVE  DirtyIsPending'
<1>. DEFINE x == handler[h]
<1>0. x \in Handler /\ x.op # "deleteRole"
  BY DEF TypeOK, ReadHolders, Bump, WriteThenBump, Handler, WellFormed
<1>1. CASE ReadHolders(h)
  <2>1. /\ \A g \in Handlers \ {h} : handler'[g] = handler[g]
        /\ dirty' = dirty /\ \A r : Holders(r)' = Holders(r)
    BY <1>1 DEF TypeOK, ReadHolders, db, Holders
  <2>2. ASSUME NEW u, BumpAhead(h, u) PROVE BumpAhead(h, u)'
    BY <1>0, <1>1, <2>2 DEF TypeOK, ReadHolders, BumpAhead, Handler, HandlerRecord
  <2>3. QED BY <2>1, <2>2, OthersKeepPending
<1>2. ASSUME NEW v \in Users, Bump(h, v) PROVE DirtyIsPending'
  <2>1. /\ \A g \in Handlers \ {h} : handler'[g] = handler[g]
        /\ dirty' = dirty \ {v} /\ \A r : Holders(r)' = Holders(r)
    BY <1>2 DEF TypeOK, Bump, db, Holders
  <2>2. ASSUME NEW u \in dirty', BumpAhead(h, u) PROVE BumpAhead(h, u)'
    <3>1. u # v /\ u \in x.targets /\ x.targets # {v}
      BY <1>2, <2>1, <2>2 DEF Bump, BumpAhead
    <3>2. handler'[h] = [x EXCEPT !.targets = @ \ {v}]
      BY <1>2, <3>1 DEF TypeOK, Bump
    <3>3. handler'[h].pc = "bump" /\ u \in handler'[h].targets
      BY <1>0, <1>2, <3>1, <3>2 DEF Bump, Handler, HandlerRecord
    <3>4. QED BY <3>3 DEF BumpAhead
  <2>3. QED BY <2>1, <2>2, OthersKeepPending
<1>3. QED BY <1>1, <1>2

LEMMA StepPending ==
    ASSUME TypeOK, DirtyIsPending, WriteThenBump, [Next]_vars PROVE DirtyIsPending'
<1>1. ASSUME NEW h \in Handlers, BeginMutation(h) PROVE DirtyIsPending'
  <2>1. PICK rest : handler' = [handler EXCEPT ![h] = rest] /\ handler[h].pc = "idle"
                    /\ UNCHANGED <<db, dirty>>
    BY <1>1 DEF BeginMutation, BeginAssignRole, BeginRemoveRole, BeginUpdateRole,
                BeginDeleteRole, BeginAddMember, BeginUpdateMemberRole, BeginRemoveMember, Begin
  <2>2. /\ \A g \in Handlers \ {h} : handler'[g] = handler[g]
        /\ \A r : Holders(r)' = Holders(r)
        /\ \A u : ~BumpAhead(h, u)
    BY <2>1 DEF TypeOK, db, Holders, BumpAhead
  <2>3. QED BY <2>1, <2>2, OthersKeepPending
<1>2. ASSUME NEW h \in Handlers, StripRole(h) \/ DropRole(h) PROVE FALSE
  BY <1>2 DEF StripRole, DropRole, WriteThenBump, TypeOK, Handler, WellFormed
<1>3. ASSUME NEW u \in Users, IncrOnly(u) PROVE DirtyIsPending'
  BY <1>3 DEF IncrOnly, db, DirtyIsPending, PendingBump, BumpAhead, Holders
<1>4. ASSUME NEW s \in Signers, StartSigning(s) \/ RunSigner(s) \/ CrashSigner(s)
      PROVE  UNCHANGED <<userRoles, handler, dirty>>
  BY <1>4 DEF StartSigning, RunSigner, StartLogin, StartRefresh, InitUserVer, ReadVersion,
              ReadTeams, ReadRoles, Issue, CrashSigner, db
<1>5. ASSUME \/ \E r \in Roles, n \in RoleNames : CreateRole(r, n)
             \/ \E t \in tokens : Expire(t)
             \/ UNCHANGED vars
      PROVE  UNCHANGED <<userRoles, handler, dirty>>
  BY <1>5 DEF CreateRole, Expire, vars, db
<1>6. ASSUME UNCHANGED <<userRoles, handler, dirty>> PROVE DirtyIsPending'
  BY <1>6 DEF DirtyIsPending, PendingBump, BumpAhead, Holders
<1>7. \A h \in Handlers : ~CrashHandler(h)
  BY DEF CrashHandler, WriteThenBump
<1>8. QED
  BY <1>1, <1>2, <1>3, <1>4, <1>5, <1>6, <1>7, WriteKeepsPending, BumpKeepsPending
     DEF Next, RunMutation

(* While every mutation writes first and sends its INCR afterwards, an       *)
(* accepted token is current or the INCR that will refuse it is on its way.  *)
THEOREM AcceptedTokensCurrent ==
    ASSUME WriteThenBump PROVE Spec => []AcceptedClaimsCurrent
<1>1. Init => TypeOK /\ DirtyIsPending
  BY InitType DEF Init, DirtyIsPending
<1>2. TypeOK /\ DirtyIsPending /\ [Next]_vars => (TypeOK /\ DirtyIsPending)'
  BY StepType, StepPending
<1>3. DirtyIsPending /\ ClaimsCurrentOrOwed => AcceptedClaimsCurrent
  BY DEF DirtyIsPending, ClaimsCurrentOrOwed, AcceptedClaimsCurrent
<1>4. QED BY <1>1, <1>2, <1>3, AcceptedTokensFresh, PTL DEF Spec

-----------------------------------------------------------------------------
(* AccessTokens implements VersionedClaims, for every set of users, roles,  *)
(* teams and requests: each step of a request is one step of the abstract   *)
(* specification or leaves what it shows alone.                             *)

Claims == [u \in Users |-> {ClaimsOf(u)}]
ClaimValues == [roles : RoleClaims, teams : TeamClaims]

LEMMA ClaimsType == ASSUME TypeOK PROVE Claims \in [Users -> SUBSET ClaimValues]
<1>1. ASSUME NEW u \in Users PROVE ClaimsOf(u) \in ClaimValues
  <2>1. RolesOf(u) \in RoleClaims
    BY DEF TypeOK, RolesOf, RoleClaims, Exists
  <2>2. TeamsOf(u) \in TeamClaims
    BY DEF TypeOK, TeamsOf, TeamClaims
  <2>3. QED BY <2>1, <2>2 DEF ClaimsOf, ClaimValues
<1>2. QED BY <1>1 DEF Claims

LEMMA InitMaps == ASSUME Init PROVE Promise!ClaimsInit
<1>1. Claims \in [Users -> SUBSET ClaimValues]
  BY InitType, ClaimsType
<1>2. Admitted = {}
  BY DEF Init, Admitted
<1>3. QED BY <1>1, <1>2 DEF Init, Promise!ClaimsInit, Claims, ClaimValues

(* A step that leaves tokens and versions alone changes claims at most, and  *)
(* StepOwed says that it marks their users.                                  *)
LEMMA ChangeMaps ==
    ASSUME TypeOK, TypeOK', OwedStep, tokens' = tokens, dirty \subseteq dirty',
           \A u \in Users : GetUserVer(u)' = GetUserVer(u)
    PROVE  Promise!Change
<1>1. Claims' \in [Users -> SUBSET ClaimValues]
  <2>1. [u \in Users |-> {ClaimsOf(u)'}] \in [Users -> SUBSET ClaimValues]
    <3>1. ASSUME NEW u \in Users PROVE ClaimsOf(u)' \in ClaimValues
      <4>0. \A q \in Roles : <<u, q>> \in userRoles' => roleName'[q] \in RoleNames
        BY DEF TypeOK, Exists
      <4>1. RolesOf(u)' \in RoleClaims
        BY <4>0 DEF RolesOf, RoleClaims
      <4>2. TeamsOf(u)' \in TeamClaims
        BY DEF TypeOK, TeamsOf, TeamClaims
      <4>3. QED BY <4>1, <4>2 DEF ClaimsOf, ClaimValues
    <3>2. QED BY <3>1
  <2>2. QED BY <2>1 DEF Claims
<1>2. \A t \in tokens : Accepted(t)' = Accepted(t)
  BY DEF TypeOK, Token, Accepted
<1>3. Admitted' = Admitted
  BY <1>2 DEF Admitted
<1>4. \A u \in Users : ~(Claims[u] \subseteq Claims'[u]) => u \in dirty'
  BY DEF OwedStep, Claims, ClaimsOf
<1>5. dirty' \subseteq Users
  BY DEF TypeOK
<1>6. QED BY <1>1, <1>3, <1>4, <1>5 DEF Promise!Change, Claims, ClaimValues

(* An INCR refuses every token of its user and touches no other's.           *)
LEMMA IncrMaps ==
    ASSUME TypeOK, FreshInv, NEW v \in Users, UNCHANGED <<db, tokens>>, dirty' = dirty \ {v},
           userVer' = [userVer EXCEPT ![v] = GetUserVer(v) + 1]
    PROVE  Promise!Revoke(v)
<1>1. GetUserVer(v) \in Nat /\ GetUserVer(v)' = GetUserVer(v) + 1
  BY VersionIsNat, ConstantsAssumption DEF TypeOK, GetUserVer
<1>2. \A u \in Users \ {v} : GetUserVer(u)' = GetUserVer(u)
  BY DEF TypeOK, GetUserVer
<1>3. \A t \in tokens : Accepted(t)' <=> Accepted(t) /\ t.sub # v
  <2>1. ASSUME NEW t \in tokens PROVE Accepted(t)' <=> Accepted(t) /\ t.sub # v
    <3>1. t.sub \in Users /\ t.ver \in Nat /\ t.ver <= GetUserVer(t.sub)
      BY DEF TypeOK, Token, FreshInv, TokensNotAhead
    <3>2. CASE t.sub = v
      BY <1>1, <3>1, <3>2 DEF Accepted
    <3>3. CASE t.sub # v
      BY <1>2, <3>1, <3>3 DEF Accepted
    <3>4. QED BY <3>2, <3>3
  <2>2. QED BY <2>1
<1>4. Admitted' = {t \in Admitted : t.sub # v}
  BY <1>3 DEF Admitted
<1>5. [u \in Users |-> {ClaimsOf(u)}]' = [u \in Users |-> {ClaimsOf(u)}]
  BY DEF db, ClaimsOf, RolesOf, TeamsOf
<1>6. QED BY <1>4, <1>5 DEF Promise!Revoke

(* A signed token that the guard would admit has claims that are current or  *)
(* owed, which FreshInv says of it after the step.                           *)
LEMMA IssueMaps ==
    ASSUME TypeOK, TypeOK', FreshInv', NEW s \in Signers, Issue(s)
    PROVE  Promise!ClaimsNext \/ UNCHANGED Promise!claimsVars
<1>1. PICK new \in Token : tokens' = tokens \cup {new}
  BY DEF Issue, TypeOK
<1>. DEFINE shown == [roles |-> new.roles, teams |-> new.teams]
<1>2. /\ \A t : Accepted(t)' = Accepted(t) /\ Current(t)' = Current(t)
      /\ [u \in Users |-> {ClaimsOf(u)}]' = [u \in Users |-> {ClaimsOf(u)}]
      /\ dirty' = dirty
  BY DEF Issue, db, Accepted, GetUserVer, Current, ClaimsOf, RolesOf, TeamsOf
<1>3. CASE Accepted(new)
  <2>1. Admitted' = Admitted \cup {[sub |-> new.sub, claims |-> shown]}
    BY <1>1, <1>2, <1>3 DEF Admitted
  <2>2. Current(new) \/ new.sub \in dirty
    BY <1>1, <1>2, <1>3 DEF FreshInv, ClaimsCurrentOrOwed
  <2>3. new.sub \in Users /\ new.roles \in RoleClaims /\ new.teams \in TeamClaims
    BY <1>1 DEF Token
  <2>4. Current(new) => shown = ClaimsOf(new.sub)
    BY DEF Current, ClaimsOf
  <2>5. Promise!Grant(new.sub, shown)
    BY <1>2, <2>1, <2>2, <2>3, <2>4 DEF Promise!Grant
  <2>6. QED BY <2>3, <2>5 DEF Promise!ClaimsNext
<1>4. CASE ~Accepted(new)
  <2>1. Admitted' = Admitted
    BY <1>1, <1>2, <1>4 DEF Admitted
  <2>2. QED BY <1>2, <2>1 DEF Promise!claimsVars
<1>5. QED BY <1>3, <1>4

LEMMA ExpireMaps == ASSUME TypeOK, NEW t \in tokens, Expire(t) PROVE Promise!Lapse
<1>1. /\ \A x : Accepted(x)' = Accepted(x)
      /\ [u \in Users |-> {ClaimsOf(u)}]' = [u \in Users |-> {ClaimsOf(u)}]
      /\ dirty' = dirty /\ tokens' \subseteq tokens
  BY DEF Expire, db, Accepted, GetUserVer, ClaimsOf, RolesOf, TeamsOf
<1>2. Admitted' \subseteq Admitted
  BY <1>1 DEF Admitted
<1>3. QED BY <1>1, <1>2 DEF Promise!Lapse

LEMMA StepMaps ==
    ASSUME TypeOK, TypeOK', FreshInv, FreshInv', [Next]_vars
    PROVE  [Promise!ClaimsNext]_Promise!claimsVars
<1>0. OwedStep
  BY StepOwed
<1>1. ASSUME tokens' = tokens, userVer' = userVer, dirty \subseteq dirty'
      PROVE  Promise!ClaimsNext
  BY <1>0, <1>1, ChangeMaps DEF GetUserVer, Promise!ClaimsNext
<1>2. ASSUME NEW h \in Handlers, BeginMutation(h) \/ CrashHandler(h) PROVE Promise!ClaimsNext
  BY <1>1, <1>2 DEF BeginMutation, BeginAssignRole, BeginRemoveRole, BeginUpdateRole,
       BeginDeleteRole, BeginAddMember, BeginUpdateMemberRole, BeginRemoveMember, Begin,
       CrashHandler
<1>3. ASSUME NEW h \in Handlers, Write(h) \/ ReadHolders(h) \/ StripRole(h) \/ DropRole(h)
      PROVE  Promise!ClaimsNext
  BY <1>1, <1>3 DEF Write, WriteAssignRole, WriteRemoveRole, WriteUpdateRole, WriteMember,
       Written, WriteFails, ReadHolders, StripRole, DropRole
<1>4. ASSUME NEW v \in Users, IncrOnly(v) \/ \E h \in Handlers : Bump(h, v)
      PROVE  Promise!ClaimsNext
  BY <1>4, IncrMaps DEF IncrOnly, Bump, Promise!ClaimsNext
<1>5. ASSUME NEW s \in Signers, StartSigning(s) \/ ReadVersion(s) \/ ReadTeams(s)
                                \/ ReadRoles(s) \/ CrashSigner(s)
      PROVE  Promise!ClaimsNext
  BY <1>1, <1>5 DEF StartSigning, StartLogin, StartRefresh, ReadVersion, ReadTeams, ReadRoles,
       CrashSigner
<1>6. ASSUME NEW s \in Signers, InitUserVer(s) PROVE Promise!ClaimsNext
  <2>1. \A u \in Users : GetUserVer(u)' = GetUserVer(u)
    BY <1>6, ConstantsAssumption DEF TypeOK, InitUserVer, GetUserVer
  <2>2. tokens' = tokens /\ dirty \subseteq dirty'
    BY <1>6 DEF InitUserVer
  <2>3. QED BY <1>0, <2>1, <2>2, ChangeMaps DEF Promise!ClaimsNext
<1>7. ASSUME NEW r \in Roles, NEW n \in RoleNames, CreateRole(r, n) PROVE Promise!ClaimsNext
  BY <1>1, <1>7 DEF CreateRole
<1>8. CASE UNCHANGED vars
  BY <1>1, <1>8 DEF vars
<1>9. QED
  BY <1>2, <1>3, <1>4, <1>5, <1>6, <1>7, <1>8, IssueMaps, ExpireMaps
     DEF Next, RunMutation, RunSigner, Promise!ClaimsNext

(* What the requests do between their awaits, seen by the clients of tokens, *)
(* is VersionedClaims: claims change with a revocation owed, an INCR refuses *)
(* every token before it, a new token is current or owed.                    *)
THEOREM TokensKeepThePromise == Spec => ImplementsVersionedClaims
<1>1. Init => TypeOK /\ FreshInv /\ Promise!ClaimsInit
  BY InitType, InitFresh, InitMaps
<1>2. TypeOK /\ FreshInv /\ [Next]_vars => (TypeOK /\ FreshInv)'
  BY StepType, StepFresh
<1>3. TypeOK /\ FreshInv /\ [Next]_vars => [Promise!ClaimsNext]_Promise!claimsVars
  BY <1>2, StepMaps
<1>4. QED
  BY <1>1, <1>2, <1>3, PTL DEF Spec, ImplementsVersionedClaims, Promise!ClaimsSpec

(* What VersionedClaims gives the clients: an admitted token claims what is  *)
(* true, or its revocation is owed.                                          *)
AdmittedTrue ==
    \A t \in Admitted : t.sub \in Users /\ (t.claims = ClaimsOf(t.sub) \/ t.sub \in dirty)

LEMMA AdmittedTrueStays ==
    ASSUME AdmittedTrue, [Promise!ClaimsNext]_Promise!claimsVars PROVE AdmittedTrue'
<1>1. CASE UNCHANGED Promise!claimsVars
  <2>1. /\ \A u \in Users : {ClaimsOf(u)'} = {ClaimsOf(u)}
        /\ dirty' = dirty /\ Admitted' = Admitted
    BY <1>1 DEF Promise!claimsVars
  <2>2. QED BY <2>1 DEF AdmittedTrue
<1>2. CASE Promise!Change
  <2>1. /\ \A u \in Users : ~({ClaimsOf(u)} \subseteq {ClaimsOf(u)'}) => u \in dirty'
        /\ dirty \subseteq dirty' /\ Admitted' = Admitted
    BY <1>2 DEF Promise!Change
  <2>2. QED BY <2>1 DEF AdmittedTrue
<1>3. ASSUME NEW u \in Users, Promise!Revoke(u) PROVE AdmittedTrue'
  <2>1. /\ dirty \ {u} \subseteq dirty' /\ Admitted' = {t \in Admitted : t.sub # u}
        /\ \A v \in Users : {ClaimsOf(v)'} = {ClaimsOf(v)}
    BY <1>3 DEF Promise!Revoke
  <2>2. QED BY <2>1 DEF AdmittedTrue
<1>4. ASSUME NEW u \in Users, NEW c \in [roles : RoleClaims, teams : TeamClaims],
             Promise!Grant(u, c)
      PROVE  AdmittedTrue'
  <2>1. /\ c \in {ClaimsOf(u)} \/ u \in dirty
        /\ Admitted' = Admitted \cup {[sub |-> u, claims |-> c]}
        /\ dirty' = dirty /\ \A v \in Users : {ClaimsOf(v)'} = {ClaimsOf(v)}
    BY <1>4 DEF Promise!Grant
  <2>2. QED BY <2>1 DEF AdmittedTrue
<1>5. CASE Promise!Lapse
  <2>1. /\ Admitted' \subseteq Admitted /\ dirty' = dirty
        /\ \A v \in Users : {ClaimsOf(v)'} = {ClaimsOf(v)}
    BY <1>5 DEF Promise!Lapse
  <2>2. QED BY <2>1 DEF AdmittedTrue
<1>6. QED BY <1>1, <1>2, <1>3, <1>4, <1>5 DEF Promise!ClaimsNext

(* The abstraction is strong enough: of any protocol that does no more than  *)
(* VersionedClaims, the guard's decisions are sound (jwt-auth.guard.ts).     *)
THEOREM PromiseSuffices == ImplementsVersionedClaims => []ClaimsCurrentOrOwed
<1>1. Promise!ClaimsInit => AdmittedTrue
  BY DEF Promise!ClaimsInit, AdmittedTrue
<1>2. AdmittedTrue => ClaimsCurrentOrOwed
  <2> SUFFICES ASSUME AdmittedTrue, NEW t \in tokens, Accepted(t)
               PROVE  Current(t) \/ t.sub \in dirty
    BY DEF ClaimsCurrentOrOwed
  <2>1. PICK a : a = [sub |-> t.sub, claims |-> [roles |-> t.roles, teams |-> t.teams]]
    OBVIOUS
  <2>2. a \in Admitted
    BY <2>1 DEF Admitted
  <2>3. a.claims = ClaimsOf(t.sub) \/ t.sub \in dirty
    BY <2>1, <2>2 DEF AdmittedTrue
  <2>4. QED BY <2>1, <2>3 DEF ClaimsOf, Current
<1>3. QED
  BY <1>1, <1>2, AdmittedTrueStays, PTL DEF ImplementsVersionedClaims, Promise!ClaimsSpec
=============================================================================
