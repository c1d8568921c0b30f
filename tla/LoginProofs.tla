----------------------------- MODULE LoginProofs -----------------------------
(* Proofs about Login for every number of requests, challenges, devices,    *)
(* codes, tries and calls.                                                  *)
EXTENDS Login, TLAPS

-----------------------------------------------------------------------------
(* Type correctness. *)

LEMMA IdleType == Idle \in Request
BY DEF Idle, Request, RequestRecord, WellFormed, Pc, Codes

LEMMA RequestType ==
    ASSUME TypeOK, NEW r \in Requests
    PROVE  request[r] \in RequestRecord /\ WellFormed(request[r])
BY DEF TypeOK, Request

LEMMA GotoType ==
    ASSUME TypeOK, NEW r \in Requests, NEW pc \in {"session", "accepted", "enrol", "clear"},
           pc = "accepted" => request[r].token \in Challenges,
           pc \in {"enrol", "clear"} => request[r].token = NoOne, Goto(r, pc)
    PROVE  request' \in [Requests -> Request]
<1>1. [request[r] EXCEPT !.pc = pc] \in Request
  BY RequestType DEF RequestRecord, WellFormed, Request, Pc
<1>2. request' = [request EXCEPT ![r] = [request[r] EXCEPT !.pc = pc]]
  BY DEF Goto
<1>3. QED BY <1>1, <1>2 DEF TypeOK

IdentityRow == [fails : Nat, lock : {"none", "future", "past"}, mfa : BOOLEAN]
DeviceRow == [exists : BOOLEAN, secret : Secrets \cup {NoOne}, codes : SUBSET BackupCodes]

LEMMA IdentityType ==
    ASSUME NEW x \in IdentityRow, NEW n \in Nat, NEW k \in {"none", "future", "past"}
    PROVE  [x EXCEPT !.fails = n, !.lock = k] \in IdentityRow
BY DEF IdentityRow

LEMMA InitType == Init => TypeOK
<1>1. 0 \in 0..(MfaTries - 1)
  BY ConstantsAssumption
<1>2. \A d \in Devices : CodesOf(d) \subseteq BackupCodes
  BY DEF CodesOf, BackupCodes
<1>3. QED BY <1>1, <1>2, IdleType DEF Init, TypeOK, NoDevice

LEMMA LoginType ==
    ASSUME TypeOK, NEW r \in Requests, LoginStep(r) PROVE TypeOK'
<1>. USE DEF tables, history
<1>1. ASSUME NEW right \in BOOLEAN, StartLogin(r, right) PROVE TypeOK'
  <2>1. [Idle EXCEPT !.fails = identity.fails,
                     !.pc = IF ~right THEN "wrongPassword"
                            ELSE IF identity.mfa THEN "mint" ELSE "reset"] \in Request
    BY DEF Idle, TypeOK, Request, RequestRecord, WellFormed, Pc, Codes
  <2>2. QED BY <1>1, <2>1 DEF StartLogin, Begin, TypeOK
<1>2. ASSUME CountWrongPassword(r) PROVE TypeOK'
  <2>1. \A q \in Requests : [request[q] EXCEPT !.early = TRUE] \in Request
    BY RequestType DEF Request, RequestRecord, WellFormed
  <2>2. request' \in [Requests -> Request]
    BY <1>2, <2>1, IdleType DEF CountWrongPassword, TypeOK
  <2>3. request[r].fails \in Nat
    BY RequestType DEF RequestRecord
  <2>4. identity' \in [fails : Nat, lock : {"none", "future", "past"}, mfa : BOOLEAN]
    <3>1. PICK k \in {"none", "future", "past"} :
            identity' = [identity EXCEPT !.fails = request[r].fails + 1, !.lock = k]
      BY <1>2 DEF CountWrongPassword, TypeOK
    <3>2. request[r].fails + 1 \in Nat /\ identity \in IdentityRow
      BY <2>3 DEF TypeOK, IdentityRow
    <3>3. QED BY <3>1, <3>2, IdentityType DEF IdentityRow
  <2>5. UNCHANGED <<device, challenge, pending, sent, minted, used, tries, opened, shared>>
        /\ streak' = streak + 1
    BY <1>2 DEF CountWrongPassword
  <2>6. QED BY <2>2, <2>4, <2>5 DEF TypeOK
<1>3. ASSUME MintChallenge(r) PROVE TypeOK'
  <2>1. 0 \in 0..(MfaTries - 1)
    BY ConstantsAssumption
  <2>2. QED BY <1>3, <2>1, IdleType DEF MintChallenge, Finish, TypeOK
<1>4. ASSUME ResetCounter(r) PROVE TypeOK'
  <2>1. request' \in [Requests -> Request]
    BY <1>4, GotoType DEF ResetCounter
  <2>2. identity' \in IdentityRow
    BY <1>4, IdentityType DEF ResetCounter, TypeOK, IdentityRow
  <2>3. QED BY <1>4, <2>1, <2>2 DEF ResetCounter, TypeOK, IdentityRow
<1>5. ASSUME OpenSession(r) PROVE TypeOK'
  <2>1. request[r].token \in Challenges \cup {NoOne}
    BY RequestType DEF RequestRecord
  <2>2. QED BY <1>5, <2>1, IdleType DEF OpenSession, Finish, TypeOK
<1>6. QED BY <1>1, <1>2, <1>3, <1>4, <1>5 DEF LoginStep

LEMMA VerifyType ==
    ASSUME TypeOK, NEW r \in Requests, VerifyStep(r) PROVE TypeOK'
<1>. USE DEF tables, history
<1>1. ASSUME NEW c \in Challenges, NEW code \in Codes, StartVerify(r, c, code) PROVE TypeOK'
  <2>1. challenge[c] \in Nat
    BY <1>1, ConstantsAssumption DEF StartVerify, TypeOK
  <2>2. [Idle EXCEPT !.fails = challenge[c], !.token = c, !.code = code,
                     !.pc = IF challenge[c] >= MfaTries THEN "wrongCode" ELSE "device"]
            \in Request
    BY <2>1 DEF Idle, Request, RequestRecord, WellFormed, Pc
  <2>3. QED BY <1>1, <2>2 DEF StartVerify, Begin, TypeOK
<1>2. ASSUME ReadDevice(r) PROVE TypeOK'
  <2>1. PICK d \in Existing, pc \in {"accepted", "consume", "wrongCode"} :
          /\ request' = [request EXCEPT ![r].device = d, ![r].codes = device[d].codes,
                                        ![r].pc = pc]
          /\ pc = "consume" => request[r].code \in device[d].codes
    BY <1>2 DEF ReadDevice
  <2>2. [request[r] EXCEPT !.device = d, !.codes = device[d].codes, !.pc = pc] \in Request
    <3>1. request[r].token \in Challenges /\ device[d] \in DeviceRow /\ d \in Devices
      BY <1>2, RequestType DEF ReadDevice, At, WellFormed, Existing, TypeOK, DeviceRow
    <3>2. pc = "consume" => request[r].code \in device[d].codes
      BY <2>1
    <3>3. QED BY <3>1, <3>2, RequestType
                 DEF DeviceRow, Request, RequestRecord, WellFormed, Pc
  <2>3. QED BY <1>2, <2>1, <2>2 DEF ReadDevice, TypeOK
<1>3. ASSUME ConsumeCode(r) PROVE TypeOK'
  <2>1. request' \in [Requests -> Request]
    BY <1>3, RequestType, GotoType DEF ConsumeCode, At, WellFormed
  <2>2. /\ request[r].codes \in SUBSET BackupCodes /\ request[r].code \in BackupCodes
        /\ request[r].device \in Devices
    BY <1>3, RequestType DEF ConsumeCode, At, RequestRecord, WellFormed
  <2>3. device' \in [Devices -> DeviceRow]
    BY <1>3, <2>2 DEF ConsumeCode, TypeOK, DeviceRow
  <2>4. QED BY <1>3, <2>1, <2>2, <2>3 DEF ConsumeCode, TypeOK, DeviceRow
<1>4. ASSUME DeleteChallenge(r) PROVE TypeOK'
  <2>1. request' \in [Requests -> Request]
    BY <1>4, GotoType DEF DeleteChallenge
  <2>2. request[r].token \in Challenges
    BY <1>4, RequestType DEF DeleteChallenge, At, WellFormed
  <2>3. QED BY <1>4, <2>1, <2>2 DEF DeleteChallenge, TypeOK
<1>5. ASSUME CountWrongCode(r) PROVE TypeOK'
  <2>1. request[r].fails \in Nat
    BY RequestType DEF RequestRecord
  <2>2. (IF request[r].fails + 1 >= MfaTries THEN NoOne ELSE request[r].fails + 1)
            \in (0..(MfaTries - 1)) \cup {NoOne}
    BY <2>1, ConstantsAssumption
  <2>3. challenge' \in [Challenges -> (0..(MfaTries - 1)) \cup {NoOne}]
    BY <1>5, <2>2 DEF CountWrongCode, TypeOK
  <2>4. QED BY <1>5, <2>3, IdleType DEF CountWrongCode, Finish, TypeOK
<1>6. QED BY <1>1, <1>2, <1>3, <1>4, <1>5 DEF VerifyStep

LEMMA EnrolType ==
    ASSUME TypeOK, NEW r \in Requests, EnrolStep(r) PROVE TypeOK'
<1>. USE DEF tables, history
<1>1. ASSUME StartConfirm(r) PROVE TypeOK'
  <2>1. [Idle EXCEPT !.pc = "create", !.code = pending] \in Request
    BY <1>1 DEF StartConfirm, TypeOK, Idle, Request, RequestRecord, WellFormed, Pc, Codes
  <2>2. QED BY <1>1, <2>1 DEF StartConfirm, Begin, TypeOK
<1>2. ASSUME CreateDevice(r) PROVE TypeOK'
  <2>1. request' \in [Requests -> Request]
    BY <1>2, GotoType, RequestType DEF CreateDevice, At, WellFormed
  <2>2. \A d \in Devices : CodesOf(d) \subseteq BackupCodes
    BY DEF CodesOf, BackupCodes
  <2>3. \A d \in Devices :
            [exists |-> TRUE, secret |-> request[r].code, codes |-> CodesOf(d)] \in DeviceRow
    BY <1>2, <2>2, RequestType DEF CreateDevice, At, WellFormed, DeviceRow
  <2>4. QED BY <1>2, <2>1, <2>3 DEF CreateDevice, TypeOK, DeviceRow
<1>3. ASSUME SetEnrolled(r) PROVE TypeOK'
  <2>1. request' \in [Requests -> Request]
    BY <1>3, GotoType, RequestType DEF SetEnrolled, At, WellFormed
  <2>2. QED BY <1>3, <2>1 DEF SetEnrolled, TypeOK
<1>4. ASSUME ClearPending(r) PROVE TypeOK'
  BY <1>4, IdleType DEF ClearPending, Finish, TypeOK
<1>5. QED BY <1>1, <1>2, <1>3, <1>4 DEF EnrolStep

LEMMA StepType == TypeOK /\ [Next]_vars => TypeOK'
<1>. SUFFICES ASSUME TypeOK, [Next]_vars PROVE TypeOK'
  OBVIOUS
<1>. USE DEF tables, history
<1>1. ASSUME NEW r \in Requests, CallFails(r) PROVE TypeOK'
  BY <1>1, IdleType DEF CallFails, Finish, TypeOK
<1>2. ASSUME NEW s \in Secrets, StartEnrol(s) PROVE TypeOK'
  BY <1>2 DEF StartEnrol, TypeOK
<1>3. ASSUME NEW c \in Challenges, ChallengeExpires(c) PROVE TypeOK'
  BY <1>3 DEF ChallengeExpires, TypeOK
<1>4. CASE EnrolmentExpires
  BY <1>4 DEF EnrolmentExpires, TypeOK
<1>5. CASE LockExpires
  BY <1>5 DEF LockExpires, TypeOK
<1>6. CASE UNCHANGED vars
  BY <1>6 DEF vars, TypeOK
<1>7. QED BY <1>1, <1>2, <1>3, <1>4, <1>5, <1>6, LoginType, VerifyType, EnrolType DEF Next

(* Every variable keeps its shape: the tries of a challenge in Redis never   *)
(* reach MfaTries (mfa.service.ts, verifyChallenge).                         *)
THEOREM TypeCorrect == Spec => []TypeOK
BY InitType, StepType, PTL DEF Spec

-----------------------------------------------------------------------------
(* The lock. *)

Racing == {"wrongPassword", "mint", "reset"}

LEMMA StepLock == ASSUME TypeOK, LockKeepsOut, [Next]_vars PROVE LockKeepsOut'
<1>. USE DEF LockKeepsOut, UnderWay, At, Finish, Goto, tables, history
<1>0. \A q \in Requests : request[q] \in RequestRecord
  BY RequestType
<1>1. ASSUME NEW r \in Requests, NEW right \in BOOLEAN, StartLogin(r, right)
      PROVE  LockKeepsOut'
  BY <1>1 DEF StartLogin, Begin
<1>2. ASSUME NEW r \in Requests, CountWrongPassword(r) PROVE LockKeepsOut'
  <2>1. CASE request[r].fails + 1 >= LockoutThreshold
    <3>1. ASSUME NEW q \in Requests, request'[q].pc \in Racing PROVE request'[q].early
      BY <1>0, <1>2, <2>1, <3>1 DEF CountWrongPassword, Racing, Idle, RequestRecord
    <3>2. QED BY <3>1 DEF Racing
  <2>2. CASE ~(request[r].fails + 1 >= LockoutThreshold)
    <3>1. identity'.lock = identity.lock
      BY <1>2, <2>2 DEF CountWrongPassword, TypeOK
    <3>2. \A q \in Requests : request'[q] = IF q = r THEN Idle ELSE request[q]
      BY <1>2, <2>2 DEF CountWrongPassword
    <3>3. QED BY <3>1, <3>2 DEF Idle
  <2>3. QED BY <2>1, <2>2
<1>3. ASSUME NEW r \in Requests, MintChallenge(r) PROVE LockKeepsOut'
  BY <1>3 DEF MintChallenge, Idle, TypeOK
<1>4. ASSUME NEW r \in Requests, ResetCounter(r) PROVE LockKeepsOut'
  BY <1>4 DEF ResetCounter, TypeOK
<1>5. ASSUME NEW r \in Requests, OpenSession(r) PROVE LockKeepsOut'
  BY <1>5 DEF OpenSession, Idle, TypeOK
<1>6. ASSUME NEW r \in Requests, VerifyStep(r) PROVE LockKeepsOut'
  <2>1. identity' = identity
    BY <1>6 DEF VerifyStep, StartVerify, ReadDevice, ConsumeCode, DeleteChallenge, CountWrongCode
  <2>2. \A q \in Requests \ {r} : request'[q] = request[q]
    BY <1>6 DEF VerifyStep, StartVerify, Begin, ReadDevice, ConsumeCode, DeleteChallenge,
                CountWrongCode, TypeOK
  <2>3. request'[r].pc \notin Racing
    <3>1. ASSUME NEW c \in Challenges, NEW code \in Codes, StartVerify(r, c, code)
          PROVE  request'[r].pc \in {"wrongCode", "device"}
      BY <3>1 DEF StartVerify, Begin, TypeOK, Idle
    <3>2. ASSUME ReadDevice(r) PROVE request'[r].pc \in {"accepted", "consume", "wrongCode"}
      BY <1>0, <3>2 DEF ReadDevice, TypeOK, RequestRecord
    <3>3. ASSUME ConsumeCode(r) PROVE request'[r].pc = "accepted"
      BY <1>0, <3>3 DEF ConsumeCode, TypeOK, RequestRecord
    <3>4. ASSUME DeleteChallenge(r) PROVE request'[r].pc = "session"
      BY <1>0, <3>4 DEF DeleteChallenge, TypeOK, RequestRecord
    <3>5. ASSUME CountWrongCode(r) PROVE request'[r].pc = "idle"
      BY <3>5 DEF CountWrongCode, TypeOK, Idle
    <3>6. QED BY <1>6, <3>1, <3>2, <3>3, <3>4, <3>5 DEF VerifyStep, Racing
  <2>4. QED BY <2>1, <2>2, <2>3 DEF Racing
<1>7. ASSUME NEW r \in Requests, EnrolStep(r) PROVE LockKeepsOut'
  <2>1. identity'.lock = identity.lock
    BY <1>7 DEF EnrolStep, StartConfirm, CreateDevice, SetEnrolled, ClearPending, TypeOK
  <2>2. \A q \in Requests \ {r} : request'[q] = request[q]
    BY <1>7 DEF EnrolStep, StartConfirm, Begin, CreateDevice, SetEnrolled, ClearPending, TypeOK
  <2>3. request'[r].pc \notin Racing
    <3>1. ASSUME StartConfirm(r) PROVE request'[r].pc = "create"
      BY <3>1 DEF StartConfirm, Begin, TypeOK, Idle
    <3>2. ASSUME CreateDevice(r) PROVE request'[r].pc = "enrol"
      BY <1>0, <3>2 DEF CreateDevice, TypeOK, RequestRecord
    <3>3. ASSUME SetEnrolled(r) PROVE request'[r].pc = "clear"
      BY <1>0, <3>3 DEF SetEnrolled, TypeOK, RequestRecord
    <3>4. ASSUME ClearPending(r) PROVE request'[r].pc = "idle"
      BY <3>4 DEF ClearPending, TypeOK, Idle
    <3>5. QED BY <1>7, <3>1, <3>2, <3>3, <3>4 DEF EnrolStep, Racing
  <2>4. QED BY <2>1, <2>2, <2>3 DEF Racing
<1>8. ASSUME NEW r \in Requests, CallFails(r) PROVE LockKeepsOut'
  BY <1>8 DEF CallFails, Idle, TypeOK
<1>9. ASSUME NEW c \in Challenges, ChallengeExpires(c) PROVE LockKeepsOut'
  BY <1>9 DEF ChallengeExpires
<1>10. ASSUME NEW s \in Secrets, StartEnrol(s) PROVE LockKeepsOut'
  BY <1>10 DEF StartEnrol
<1>11. CASE EnrolmentExpires
  BY <1>11 DEF EnrolmentExpires
<1>12. CASE LockExpires
  BY <1>12 DEF LockExpires, TypeOK
<1>13. CASE UNCHANGED vars
  BY <1>13 DEF vars
<1>14. QED
  BY <1>1, <1>2, <1>3, <1>4, <1>5, <1>6, <1>7, <1>8, <1>9, <1>10, <1>11, <1>12, <1>13
     DEF Next, LoginStep

(* While an identity is locked, only logins that were under way when the     *)
(* lock was set are past the password check (auth.service.ts, login).        *)
THEOREM LockHolds == Spec => []LockKeepsOut
<1>1. Init => LockKeepsOut
  BY DEF Init, LockKeepsOut
<1>2. TypeOK /\ LockKeepsOut /\ [Next]_vars => LockKeepsOut'
  BY StepLock
<1>3. QED BY <1>1, <1>2, TypeCorrect, PTL DEF Spec

-----------------------------------------------------------------------------
(* The enrolment. *)

NoneEnters(pc) == \A q \in Requests : request'[q].pc = pc => request[q].pc = pc

LEMMA StepEnrolment == ASSUME TypeOK, EnrolmentInv, [Next]_vars PROVE EnrolmentInv'
<1>. USE DEF NoneEnters, EnrolmentInv, EnrolledHasDevice, Existing, At, Goto, Finish,
             tables, history
<1>0. \A q \in Requests : request[q] \in RequestRecord
  BY RequestType
<1>1. ASSUME NEW r \in Requests, LoginStep(r) PROVE EnrolmentInv'
  <2>1. device' = device /\ identity'.mfa = identity.mfa
    BY <1>1 DEF LoginStep, StartLogin, CountWrongPassword, MintChallenge, ResetCounter,
                OpenSession, TypeOK
  <2>2. NoneEnters("enrol")
    <3>1. ASSUME NEW right \in BOOLEAN, StartLogin(r, right) PROVE NoneEnters("enrol")
      BY <3>1 DEF StartLogin, Begin, TypeOK, Idle
    <3>2. ASSUME CountWrongPassword(r) PROVE NoneEnters("enrol")
      BY <1>0, <3>2 DEF CountWrongPassword, TypeOK, Idle, RequestRecord
    <3>3. ASSUME MintChallenge(r) \/ OpenSession(r) PROVE NoneEnters("enrol")
      BY <3>3 DEF MintChallenge, OpenSession, TypeOK, Idle
    <3>4. ASSUME ResetCounter(r) PROVE NoneEnters("enrol")
      BY <1>0, <3>4 DEF ResetCounter, TypeOK, RequestRecord
    <3>5. QED BY <1>1, <3>1, <3>2, <3>3, <3>4 DEF LoginStep
  <2>3. QED BY <2>1, <2>2
<1>2. ASSUME NEW r \in Requests, VerifyStep(r) PROVE EnrolmentInv'
  <2>1. identity' = identity /\ \A d \in Devices : device'[d].exists = device[d].exists
    <3>1. CASE ConsumeCode(r)
      BY <3>1 DEF ConsumeCode, TypeOK
    <3>2. CASE ~ConsumeCode(r)
      BY <1>2, <3>2 DEF VerifyStep, StartVerify, ReadDevice, DeleteChallenge, CountWrongCode
    <3>3. QED BY <3>1, <3>2
  <2>2. NoneEnters("enrol")
    <3>1. ASSUME NEW c \in Challenges, NEW code \in Codes, StartVerify(r, c, code)
          PROVE  NoneEnters("enrol")
      BY <3>1 DEF StartVerify, Begin, TypeOK, Idle
    <3>2. ASSUME ReadDevice(r) PROVE NoneEnters("enrol")
      BY <1>0, <3>2 DEF ReadDevice, TypeOK, RequestRecord
    <3>3. ASSUME ConsumeCode(r) PROVE NoneEnters("enrol")
      BY <1>0, <3>3 DEF ConsumeCode, TypeOK, RequestRecord
    <3>4. ASSUME DeleteChallenge(r) PROVE NoneEnters("enrol")
      BY <1>0, <3>4 DEF DeleteChallenge, TypeOK, RequestRecord
    <3>5. ASSUME CountWrongCode(r) PROVE NoneEnters("enrol")
      BY <3>5 DEF CountWrongCode, TypeOK, Idle
    <3>6. QED BY <1>2, <3>1, <3>2, <3>3, <3>4, <3>5 DEF VerifyStep
  <2>3. QED BY <2>1, <2>2
<1>3. ASSUME NEW r \in Requests, StartConfirm(r) PROVE EnrolmentInv'
  BY <1>3 DEF StartConfirm, Begin, TypeOK, Idle
<1>4. ASSUME NEW r \in Requests, CreateDevice(r) PROVE EnrolmentInv'
  <2>1. identity' = identity
    BY <1>4 DEF CreateDevice
  <2>2. \E d \in Devices : device'[d].exists
    BY <1>4 DEF CreateDevice, TypeOK
  <2>3. QED BY <2>1, <2>2
<1>5. ASSUME NEW r \in Requests, SetEnrolled(r) PROVE EnrolmentInv'
  <2>1. device' = device /\ \E d \in Devices : device[d].exists
    BY <1>5 DEF SetEnrolled
  <2>2. QED BY <2>1
<1>6. ASSUME NEW r \in Requests, ClearPending(r) PROVE EnrolmentInv'
  BY <1>6 DEF ClearPending, TypeOK, Idle
<1>7. ASSUME NEW r \in Requests, CallFails(r) PROVE EnrolmentInv'
  BY <1>7 DEF CallFails, TypeOK, Idle
<1>8. ASSUME NEW c \in Challenges, ChallengeExpires(c) PROVE EnrolmentInv'
  BY <1>8 DEF ChallengeExpires
<1>9. ASSUME NEW s \in Secrets, StartEnrol(s) PROVE EnrolmentInv'
  BY <1>9 DEF StartEnrol
<1>10. CASE EnrolmentExpires
  BY <1>10 DEF EnrolmentExpires
<1>11. CASE LockExpires
  BY <1>11 DEF LockExpires, TypeOK
<1>12. CASE UNCHANGED vars
  BY <1>12 DEF vars
<1>13. QED
  BY <1>1, <1>2, <1>3, <1>4, <1>5, <1>6, <1>7, <1>8, <1>9, <1>10, <1>11, <1>12
     DEF Next, EnrolStep

(* An identity that logins ask for a code has a device, wherever a           *)
(* confirmEnrol stopped (mfa.service.ts, confirmEnrol).                      *)
THEOREM EnrolmentHolds == Spec => []EnrolledHasDevice
<1>1. Init => EnrolmentInv
  <2>. SUFFICES ASSUME Init PROVE EnrolmentInv
    OBVIOUS
  <2>1. \A r \in Requests : ~At(r, "enrol")
    BY DEF Init, At, Idle
  <2>2. EnrolledHasDevice
    <3>1. PICK on \in SUBSET Devices, s \in Secrets :
            /\ device = [d \in Devices |->
                           IF d \in on
                           THEN [exists |-> TRUE, secret |-> s, codes |-> CodesOf(d)]
                           ELSE NoDevice]
            /\ identity = [fails |-> 0, lock |-> "none", mfa |-> on # {}]
      BY DEF Init
    <3>2. Existing = on
      BY <3>1 DEF Existing, NoDevice
    <3>3. QED BY <3>1, <3>2 DEF EnrolledHasDevice
  <2>3. QED BY <2>1, <2>2 DEF EnrolmentInv
<1>2. TypeOK /\ EnrolmentInv /\ [Next]_vars => EnrolmentInv'
  BY StepEnrolment
<1>3. EnrolmentInv => EnrolledHasDevice
  BY DEF EnrolmentInv
<1>4. QED BY <1>1, <1>2, <1>3, TypeCorrect, PTL DEF Spec

-----------------------------------------------------------------------------
(* The backup codes. *)

(* No call has read a list of codes in this step. *)
NoneReads ==
    \A q \in Requests :
        request'[q].pc = "consume" =>
            /\ request[q].pc = "consume"
            /\ request'[q].device = request[q].device
            /\ request'[q].codes = request[q].codes

LEMMA KeepCodes ==
    ASSUME CodesInv, NoneReads, UNCHANGED <<device, used>>
    PROVE  CodesInv'
BY DEF CodesInv, UnusedCodesStay, NoneReads, Existing, At

LEMMA LoginKeepsCodes ==
    ASSUME TypeOK, NEW r \in Requests, LoginStep(r)
    PROVE  NoneReads /\ UNCHANGED <<device, used>>
<1>. USE DEF NoneReads, At, Goto, Finish, tables, history
<1>0. \A q \in Requests : request[q] \in RequestRecord
  BY RequestType
<1>1. ASSUME NEW right \in BOOLEAN, StartLogin(r, right)
      PROVE  NoneReads /\ UNCHANGED <<device, used>>
  BY <1>1 DEF StartLogin, Begin, TypeOK, Idle
<1>2. ASSUME CountWrongPassword(r) PROVE NoneReads /\ UNCHANGED <<device, used>>
  BY <1>0, <1>2 DEF CountWrongPassword, TypeOK, Idle, RequestRecord
<1>3. ASSUME MintChallenge(r) PROVE NoneReads /\ UNCHANGED <<device, used>>
  BY <1>3 DEF MintChallenge, TypeOK, Idle
<1>4. ASSUME ResetCounter(r) PROVE NoneReads /\ UNCHANGED <<device, used>>
  BY <1>0, <1>4 DEF ResetCounter, TypeOK, RequestRecord
<1>5. ASSUME OpenSession(r) PROVE NoneReads /\ UNCHANGED <<device, used>>
  BY <1>5 DEF OpenSession, TypeOK, Idle
<1>6. QED BY <1>1, <1>2, <1>3, <1>4, <1>5 DEF LoginStep

LEMMA StepCodes == ASSUME TypeOK, CodesInv, [Next]_vars PROVE CodesInv'
<1>. USE DEF At, Goto, Finish, tables, history
<1>0. \A q \in Requests : request[q] \in RequestRecord
  BY RequestType
<1>1. ASSUME NEW r \in Requests, LoginStep(r) PROVE CodesInv'
  BY <1>1, LoginKeepsCodes, KeepCodes
<1>2. ASSUME NEW r \in Requests, NEW c \in Challenges, NEW code \in Codes,
             StartVerify(r, c, code)
      PROVE  CodesInv'
  <2>1. NoneReads /\ UNCHANGED <<device, used>>
    BY <1>2 DEF StartVerify, Begin, TypeOK, Idle, NoneReads
  <2>2. QED BY <2>1, KeepCodes
<1>3. ASSUME NEW r \in Requests, ReadDevice(r) PROVE CodesInv'
  <2>1. PICK d \in Existing, pc \in {"accepted", "consume", "wrongCode"} :
          request' = [request EXCEPT ![r].device = d, ![r].codes = device[d].codes,
                                     ![r].pc = pc]
    BY <1>3 DEF ReadDevice
  <2>2. CodesOf(d) \ used \subseteq device[d].codes
    BY DEF CodesInv, UnusedCodesStay
  <2>3. request'[r].device = d /\ request'[r].codes = device[d].codes
    BY <1>0, <2>1 DEF TypeOK, RequestRecord
  <2>4. \A q \in Requests \ {r} : request'[q] = request[q]
    BY <2>1 DEF TypeOK
  <2>5. UNCHANGED <<device, used>>
    BY <1>3 DEF ReadDevice
  <2>6. QED BY <2>2, <2>3, <2>4, <2>5 DEF CodesInv, UnusedCodesStay, Existing
<1>4. ASSUME NEW r \in Requests, ConsumeCode(r) PROVE CodesInv'
  <2>. DEFINE d == request[r].device
  <2>1. d \in Devices /\ CodesOf(d) \ used \subseteq request[r].codes
    BY <1>4 DEF ConsumeCode, CodesInv, Existing
  <2>2. used' = used \cup {request[r].code}
    BY <1>4 DEF ConsumeCode
  <2>3. /\ device'[d].codes = request[r].codes \ {request[r].code}
        /\ \A e \in Devices : device'[e].exists = device[e].exists
        /\ \A e \in Devices \ {d} : device'[e] = device[e]
    BY <1>4, <2>1 DEF ConsumeCode, TypeOK
  <2>4. UnusedCodesStay'
    BY <2>1, <2>2, <2>3 DEF CodesInv, UnusedCodesStay, Existing
  <2>5. \A q \in Requests : request'[q].pc = "consume" => request'[q] = request[q]
    BY <1>0, <1>4 DEF ConsumeCode, TypeOK, RequestRecord
  <2>6. QED BY <2>2, <2>3, <2>4, <2>5 DEF CodesInv, Existing
<1>5. ASSUME NEW r \in Requests, DeleteChallenge(r) PROVE CodesInv'
  <2>1. NoneReads /\ UNCHANGED <<device, used>>
    BY <1>0, <1>5 DEF DeleteChallenge, TypeOK, RequestRecord, NoneReads
  <2>2. QED BY <2>1, KeepCodes
<1>6. ASSUME NEW r \in Requests, CountWrongCode(r) PROVE CodesInv'
  <2>1. NoneReads /\ UNCHANGED <<device, used>>
    BY <1>6 DEF CountWrongCode, TypeOK, Idle, NoneReads
  <2>2. QED BY <2>1, KeepCodes
<1>7. ASSUME NEW r \in Requests, StartConfirm(r) PROVE CodesInv'
  <2>1. NoneReads /\ UNCHANGED <<device, used>>
    BY <1>7 DEF StartConfirm, Begin, TypeOK, Idle, NoneReads
  <2>2. QED BY <2>1, KeepCodes
<1>8. ASSUME NEW r \in Requests, CreateDevice(r) PROVE CodesInv'
  <2>1. PICK d \in Devices \ Existing :
          device' = [device EXCEPT ![d] = [exists |-> TRUE, secret |-> request[r].code,
                                           codes |-> CodesOf(d)]]
    BY <1>8 DEF CreateDevice
  <2>2. device'[d].codes = CodesOf(d) /\ \A e \in Devices \ {d} : device'[e] = device[e]
    BY <2>1 DEF TypeOK
  <2>3. device'[d].exists
    BY <2>1 DEF TypeOK
  <2>4. used' = used /\ NoneReads
    BY <1>0, <1>8 DEF CreateDevice, TypeOK, RequestRecord, NoneReads
  <2>5. UnusedCodesStay'
    BY <2>2, <2>4 DEF CodesInv, UnusedCodesStay, Existing
  <2>6. \A e \in Existing : e \in Existing'
    BY <2>2, <2>3 DEF Existing
  <2>7. QED BY <2>4, <2>5, <2>6 DEF CodesInv, NoneReads
<1>9. ASSUME NEW r \in Requests, SetEnrolled(r) PROVE CodesInv'
  <2>1. NoneReads /\ UNCHANGED <<device, used>>
    BY <1>0, <1>9 DEF SetEnrolled, TypeOK, RequestRecord, NoneReads
  <2>2. QED BY <2>1, KeepCodes
<1>10. ASSUME NEW r \in Requests, ClearPending(r) \/ CallFails(r) PROVE CodesInv'
  <2>1. NoneReads /\ UNCHANGED <<device, used>>
    BY <1>10 DEF ClearPending, CallFails, TypeOK, Idle, NoneReads
  <2>2. QED BY <2>1, KeepCodes
<1>11. CASE \/ \E s \in Secrets : StartEnrol(s)
            \/ \E c \in Challenges : ChallengeExpires(c)
            \/ EnrolmentExpires \/ LockExpires \/ UNCHANGED vars
  <2>1. UNCHANGED <<request, device, used>>
    BY <1>11 DEF StartEnrol, ChallengeExpires, EnrolmentExpires, LockExpires, vars
  <2>2. QED BY <2>1, KeepCodes DEF NoneReads
<1>12. QED
  BY <1>1, <1>2, <1>3, <1>4, <1>5, <1>6, <1>7, <1>8, <1>9, <1>10, <1>11
     DEF Next, VerifyStep, EnrolStep

(* No interleaving of verifyChallenge and confirmEnrol loses a backup code   *)
(* that was not used (mfa.service.ts).                                       *)
THEOREM CodesHold == Spec => []UnusedCodesStay
<1>1. Init => CodesInv
  <2>. SUFFICES ASSUME Init PROVE CodesInv
    OBVIOUS
  <2>1. \A r \in Requests : ~At(r, "consume")
    BY DEF Init, At, Idle
  <2>2. \A d \in Existing : device[d].codes = CodesOf(d)
    BY DEF Init, Existing, NoDevice
  <2>3. QED BY <2>1, <2>2 DEF CodesInv, UnusedCodesStay
<1>2. TypeOK /\ CodesInv /\ [Next]_vars => CodesInv'
  BY StepCodes
<1>3. CodesInv => UnusedCodesStay
  BY DEF CodesInv
<1>4. QED BY <1>1, <1>2, <1>3, TypeCorrect, PTL DEF Spec

-----------------------------------------------------------------------------
(* The challenges. *)

(* For challenge c, the step has done no more to call q than move it on with *)
(* what it had read, or end it.                                              *)
Follows(q, c) ==
    request'[q].token = c =>
        /\ request[q].token = c
        /\ request'[q].fails = request[q].fails
        /\ request'[q].pc # "idle" =>
              request[q].pc # "idle" /\ (request'[q].pc = "session" <=> request[q].pc = "session")

LEMMA KeepTracked ==
    ASSUME NEW c \in Challenges, ChallengeTracked(c), \A q \in Requests : Follows(q, c),
           challenge'[c] = challenge[c], tries'[c] = tries[c],
           c \in opened' <=> c \in opened, c \in minted => c \in minted'
    PROVE  ChallengeTracked(c)'
BY DEF ChallengeTracked, Follows, UnderWay, At

LEMMA LoginFollows ==
    ASSUME TypeOK, NEW r \in Requests, LoginStep(r) \/ EnrolStep(r) \/ CallFails(r),
           NEW c \in Challenges, NEW q \in Requests
    PROVE  Follows(q, c)
<1>. USE ConstantsAssumption DEF Follows, At, Goto, Finish, UnderWay
<1>0. request[q] \in RequestRecord /\ request[r] \in RequestRecord
  BY RequestType
<1>1. ASSUME NEW right \in BOOLEAN, StartLogin(r, right) PROVE Follows(q, c)
  BY <1>1 DEF StartLogin, Begin, TypeOK, Idle
<1>2. ASSUME CountWrongPassword(r) PROVE Follows(q, c)
  BY <1>0, <1>2 DEF CountWrongPassword, TypeOK, Idle, RequestRecord
<1>3. ASSUME MintChallenge(r) \/ OpenSession(r) \/ CallFails(r) \/ ClearPending(r)
      PROVE  Follows(q, c)
  BY <1>3 DEF MintChallenge, OpenSession, CallFails, ClearPending, TypeOK, Idle
<1>4. ASSUME ResetCounter(r) PROVE Follows(q, c)
  <2>1. request[r].token = NoOne
    BY <1>4, RequestType DEF ResetCounter, WellFormed
  <2>2. QED BY <1>0, <1>4, <2>1 DEF ResetCounter, TypeOK, RequestRecord
<1>5. ASSUME StartConfirm(r) PROVE Follows(q, c)
  BY <1>5 DEF StartConfirm, Begin, TypeOK, Idle
<1>6. ASSUME CreateDevice(r) \/ SetEnrolled(r) PROVE Follows(q, c)
  BY <1>0, <1>6 DEF CreateDevice, SetEnrolled, TypeOK, RequestRecord
<1>7. QED BY <1>1, <1>2, <1>3, <1>4, <1>5, <1>6 DEF LoginStep, EnrolStep

LEMMA LoginTracks ==
    ASSUME TypeOK, NEW r \in Requests, LoginStep(r) \/ EnrolStep(r) \/ CallFails(r),
           NEW c \in Challenges, ChallengeTracked(c)
    PROVE  ChallengeTracked(c)'
<1>. USE DEF tables, history
<1>1. \A q \in Requests : Follows(q, c)
  BY LoginFollows
<1>2. UNCHANGED tries /\ (~OpenSession(r) => UNCHANGED opened)
  BY DEF LoginStep, StartLogin, CountWrongPassword, MintChallenge, ResetCounter, OpenSession,
         EnrolStep, StartConfirm, CreateDevice, SetEnrolled, ClearPending, CallFails
<1>3. CASE MintChallenge(r)
  <2>1. PICK m \in Challenges \ minted :
          challenge' = [challenge EXCEPT ![m] = 0] /\ minted' = minted \cup {m}
    BY <1>3 DEF MintChallenge
  <2>2. CASE m = c
    <3>1. tries[c] = 0 /\ c \notin opened /\ \A q \in Requests : request[q].token # c
      BY <2>2 DEF ChallengeTracked
    <3>2. \A q \in Requests : request'[q].token # c
      BY <1>1, <3>1 DEF Follows
    <3>3. challenge'[c] = 0 /\ c \in minted'
      BY <2>1, <2>2 DEF TypeOK
    <3>4. opened' = opened
      BY <1>3 DEF MintChallenge
    <3>5. QED BY <1>2, <3>1, <3>2, <3>3, <3>4 DEF ChallengeTracked, UnderWay
  <2>3. CASE m # c
    <3>1. challenge'[c] = challenge[c] /\ (c \in minted => c \in minted')
      BY <2>1, <2>3 DEF TypeOK
    <3>2. opened' = opened
      BY <1>3 DEF MintChallenge
    <3>3. QED BY <1>1, <1>2, <3>1, <3>2, KeepTracked
  <2>4. QED BY <2>2, <2>3
<1>4. CASE OpenSession(r)
  <2>. DEFINE k == request[r].token
  <2>1. /\ request[r].pc = "session" /\ opened' = opened \cup ({k} \ {NoOne})
        /\ UNCHANGED <<challenge, tries, minted>>
    BY <1>4 DEF OpenSession, At
  <2>2. /\ \A q \in Requests \ {r} : request'[q] = request[q]
        /\ request'[r].pc = "idle"
    BY <1>4 DEF OpenSession, Finish, TypeOK, Idle
  <2>3. CASE c = k
    <3>1. /\ c \in minted /\ challenge[c] = NoOne
          /\ \A q \in UnderWay : request[q].token = c => q = r
      BY <2>1, <2>3 DEF ChallengeTracked, UnderWay, At
    <3>2. \A q \in UnderWay' : request'[q].token # c
      BY <2>2, <3>1 DEF UnderWay
    <3>3. QED BY <2>1, <3>1, <3>2 DEF ChallengeTracked
  <2>4. CASE c # k
    <3>1. c \in opened' <=> c \in opened
      BY <2>1, <2>4
    <3>2. QED BY <1>1, <2>1, <3>1, KeepTracked
  <2>5. QED BY <2>3, <2>4
<1>5. CASE ~MintChallenge(r) /\ ~OpenSession(r)
  <2>1. UNCHANGED <<challenge, minted>>
    BY <1>5 DEF LoginStep, StartLogin, CountWrongPassword, ResetCounter, OpenSession,
                EnrolStep, StartConfirm, CreateDevice, SetEnrolled, ClearPending, CallFails
  <2>2. QED BY <1>1, <1>2, <1>5, <2>1, KeepTracked
<1>6. QED BY <1>3, <1>4, <1>5

(* A call that presents a challenge nobody else presents has read the tries. *)
LEMMA StartTracks ==
    ASSUME TypeOK, NEW r \in Requests, NEW k \in Challenges, NEW code \in Codes,
           StartVerify(r, k, code), NEW c \in Challenges \ shared', ChallengeTracked(c)
    PROVE  ChallengeTracked(c)'
<1>. USE DEF tables, history
<1>1. UNCHANGED <<challenge, tries, opened, minted>>
  BY DEF StartVerify
<1>2. \A q \in Requests \ {r} : request'[q] = request[q]
  BY DEF StartVerify, Begin, TypeOK
<1>3. /\ request'[r].token = k /\ request'[r].fails = challenge[k]
      /\ request'[r].pc # "session"
  BY DEF StartVerify, Begin, TypeOK, Idle
<1>4. CASE c = k
  <2>1. \A q \in UnderWay : request[q].token # c
    BY <1>4 DEF StartVerify
  <2>2. challenge[c] = tries[c] /\ c \notin opened /\ c \in minted
    BY <1>4 DEF StartVerify, ChallengeTracked
  <2>3. tries[c] < MfaTries
    <3>1. challenge[c] \in 0..(MfaTries - 1)
      BY <1>4 DEF StartVerify, TypeOK
    <3>2. QED BY <2>2, <3>1, ConstantsAssumption
  <2>4. QED BY <1>1, <1>2, <1>3, <1>4, <2>1, <2>2, <2>3 DEF ChallengeTracked, UnderWay, At
<1>5. CASE c # k
  <2>1. \A q \in Requests : Follows(q, c)
    BY <1>2, <1>3, <1>5 DEF Follows
  <2>2. QED BY <1>1, <2>1, KeepTracked
<1>6. QED BY <1>4, <1>5

LEMMA VerifyTracks ==
    ASSUME TypeOK, NEW r \in Requests, VerifyStep(r),
           NEW c \in Challenges \ shared', ChallengeTracked(c)
    PROVE  ChallengeTracked(c)'
<1>. USE DEF At, Goto, Finish, tables, history
<1>0. \A q \in Requests : request[q] \in RequestRecord /\ WellFormed(request[q])
  BY RequestType
<1>1. ASSUME NEW k \in Challenges, NEW code \in Codes, StartVerify(r, k, code)
      PROVE  ChallengeTracked(c)'
  BY <1>1, StartTracks
<1>2. CASE ReadDevice(r)
  <2>1. PICK d \in Existing, pc \in {"accepted", "consume", "wrongCode"} :
          request' = [request EXCEPT ![r].device = d, ![r].codes = device[d].codes,
                                     ![r].pc = pc]
    BY <1>2 DEF ReadDevice
  <2>2. request[r].pc = "device" /\ request'[r].token = request[r].token
        /\ request'[r].fails = request[r].fails /\ request'[r].pc # "session"
    BY <1>0, <1>2, <2>1 DEF ReadDevice, TypeOK, RequestRecord
  <2>3. \A q \in Requests \ {r} : request'[q] = request[q]
    BY <2>1 DEF TypeOK
  <2>4. \A q \in Requests : Follows(q, c)
    BY <2>2, <2>3 DEF Follows
  <2>5. QED BY <1>2, <2>4, KeepTracked DEF ReadDevice
<1>3. CASE ConsumeCode(r)
  <2>1. \A q \in Requests : Follows(q, c)
    BY <1>0, <1>3 DEF ConsumeCode, TypeOK, RequestRecord, Follows
  <2>2. QED BY <1>3, <2>1, KeepTracked DEF ConsumeCode
<1>4. CASE DeleteChallenge(r)
  <2>. DEFINE k == request[r].token
  <2>1. /\ k \in Challenges /\ request[r].pc = "accepted"
        /\ challenge' = [challenge EXCEPT ![k] = NoOne] /\ UNCHANGED <<opened, tries, minted>>
    BY <1>0, <1>4 DEF DeleteChallenge, WellFormed
  <2>2. /\ \A q \in Requests \ {r} : request'[q] = request[q]
        /\ request'[r].token = k /\ request'[r].pc = "session"
        /\ request'[r].fails = request[r].fails
    BY <1>0, <1>4 DEF DeleteChallenge, TypeOK, RequestRecord
  <2>3. CASE c = k
    <3>1. /\ c \in minted /\ \A q \in UnderWay : request[q].token = c => q = r
          /\ tries[c] < MfaTries /\ c \notin opened
      BY <2>1, <2>3 DEF ChallengeTracked, UnderWay
    <3>2. challenge'[c] = NoOne
      BY <2>1, <2>3 DEF TypeOK
    <3>3. \A q \in UnderWay' : request'[q].token = c => q = r
      BY <2>2, <3>1 DEF UnderWay
    <3>4. QED BY <2>1, <2>2, <3>1, <3>2, <3>3 DEF ChallengeTracked
  <2>4. CASE c # k
    <3>1. challenge'[c] = challenge[c]
      BY <2>1, <2>4 DEF TypeOK
    <3>2. \A q \in Requests : Follows(q, c)
      BY <2>2, <2>4 DEF Follows
    <3>3. QED BY <2>1, <3>1, <3>2, KeepTracked
  <2>5. QED BY <2>3, <2>4
<1>5. CASE CountWrongCode(r)
  <2>. DEFINE k == request[r].token
              n == request[r].fails + 1
  <2>1. /\ k \in Challenges /\ request[r].pc = "wrongCode" /\ request[r].fails \in Nat
        /\ challenge' = [challenge EXCEPT ![k] = IF n >= MfaTries THEN NoOne ELSE n]
        /\ tries' = [tries EXCEPT ![k] = @ + 1] /\ UNCHANGED <<opened, minted>>
    BY <1>0, <1>5 DEF CountWrongCode, WellFormed, RequestRecord
  <2>2. /\ \A q \in Requests \ {r} : request'[q] = request[q]
        /\ request'[r].token = NoOne /\ request'[r].pc = "idle"
    BY <1>5 DEF CountWrongCode, TypeOK, Idle
  <2>3. CASE c = k
    <3>1. /\ c \in minted /\ \A q \in UnderWay : request[q].token = c => q = r
          /\ request[r].fails = tries[c] /\ c \notin opened
      BY <2>1, <2>3 DEF ChallengeTracked, UnderWay
    <3>2. tries'[c] = n /\ (challenge'[c] # NoOne => challenge'[c] = n)
      BY <2>1, <2>3, <3>1 DEF TypeOK
    <3>3. \A q \in UnderWay' : request'[q].token # c
      BY <2>2, <3>1, ConstantsAssumption DEF UnderWay
    <3>4. QED BY <2>1, <3>1, <3>2, <3>3 DEF ChallengeTracked
  <2>4. CASE c # k
    <3>1. challenge'[c] = challenge[c] /\ tries'[c] = tries[c]
      BY <2>1, <2>4 DEF TypeOK
    <3>2. \A q \in Requests : Follows(q, c)
      BY <2>2, ConstantsAssumption DEF Follows
    <3>3. QED BY <2>1, <3>1, <3>2, KeepTracked
  <2>5. QED BY <2>3, <2>4
<1>6. QED BY <1>1, <1>2, <1>3, <1>4, <1>5 DEF VerifyStep

LEMMA StepChallenges == ASSUME TypeOK, ChallengeInv, [Next]_vars PROVE ChallengeInv'
<1>. USE DEF tables, history
<1>1. shared \subseteq shared'
  BY DEF Next, LoginStep, StartLogin, CountWrongPassword, MintChallenge, ResetCounter,
         OpenSession, VerifyStep, StartVerify, ReadDevice, ConsumeCode, DeleteChallenge,
         CountWrongCode, EnrolStep, StartConfirm, CreateDevice, SetEnrolled, ClearPending,
         CallFails, StartEnrol, ChallengeExpires, EnrolmentExpires, LockExpires, vars
<1>. SUFFICES ASSUME NEW c \in Challenges \ shared' PROVE ChallengeTracked(c)'
  BY DEF ChallengeInv
<1>2. ChallengeTracked(c)
  BY <1>1 DEF ChallengeInv
<1>3. ASSUME NEW r \in Requests, LoginStep(r) \/ EnrolStep(r) \/ CallFails(r)
      PROVE  ChallengeTracked(c)'
  BY <1>2, <1>3, LoginTracks
<1>4. ASSUME NEW r \in Requests, VerifyStep(r) PROVE ChallengeTracked(c)'
  BY <1>2, <1>4, VerifyTracks
<1>5. ASSUME NEW k \in Challenges, ChallengeExpires(k) PROVE ChallengeTracked(c)'
  <2>1. UNCHANGED <<request, tries, opened, minted>>
    BY <1>5 DEF ChallengeExpires
  <2>2. challenge'[c] = challenge[c] \/ challenge'[c] = NoOne
    BY <1>5 DEF ChallengeExpires, TypeOK
  <2>3. QED BY <1>2, <2>1, <2>2 DEF ChallengeTracked, UnderWay, At
<1>6. CASE \/ \E s \in Secrets : StartEnrol(s)
           \/ EnrolmentExpires \/ LockExpires \/ UNCHANGED vars
  <2>1. UNCHANGED <<request, challenge, tries, opened, minted>>
    BY <1>6 DEF StartEnrol, EnrolmentExpires, LockExpires, vars
  <2>2. QED BY <1>2, <2>1, KeepTracked DEF Follows
<1>7. QED BY <1>3, <1>4, <1>5, <1>6 DEF Next

LEMMA TrackedIsSpent == TypeOK /\ ChallengeInv => ChallengeIsSpent
<1>. SUFFICES ASSUME TypeOK, NEW c \in Challenges, ChallengeTracked(c),
                     c \in opened \/ tries[c] >= MfaTries
              PROVE  challenge[c] = NoOne /\ \A r \in UnderWay : request[r].token # c
  BY DEF ChallengeInv, ChallengeIsSpent
<1>0. tries[c] \in Nat
  BY DEF TypeOK
<1>1. challenge[c] = NoOne
  <2>1. challenge[c] \in (0..(MfaTries - 1)) \cup {NoOne}
    BY DEF TypeOK
  <2>2. QED BY <1>0, <2>1, ConstantsAssumption DEF ChallengeTracked
<1>2. \A r \in UnderWay : request[r].token # c
  BY <1>0, ConstantsAssumption DEF ChallengeTracked
<1>3. QED BY <1>1, <1>2

(* A challenge that is presented by one call at a time opens at most one     *)
(* session, and takes at most MfaTries wrong codes: its key is gone before   *)
(* the session and with the last of the tries (mfa.service.ts,               *)
(* verifyChallenge).                                                         *)
THEOREM ChallengesHold == Spec => []ChallengeIsSpent
<1>1. Init => ChallengeInv
  BY ConstantsAssumption DEF Init, ChallengeInv, ChallengeTracked, UnderWay, Idle
<1>2. TypeOK /\ ChallengeInv /\ [Next]_vars => ChallengeInv'
  BY StepChallenges
<1>3. TypeOK /\ ChallengeInv => ChallengeIsSpent
  BY TrackedIsSpent
<1>4. QED BY <1>1, <1>2, <1>3, TypeCorrect, PTL DEF Spec
=============================================================================
