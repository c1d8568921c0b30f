-------------------------------- MODULE Login --------------------------------
(***************************************************************************)
(* How an identity logs in: the failure counter and lock of the password   *)
(* check, the MFA challenge that replaces the session of an enrolled       *)
(* identity, its backup codes, and the enrolment.                          *)
(*                                                                         *)
(* auth.service.ts login and completeMfaLogin, mfa.service.ts.  Every      *)
(* counter here is read by one statement and written by a later one, and   *)
(* the challenges are Redis keys that SET creates as well as replaces, so  *)
(* each call is split at its awaits.  Sessions says what a session is; a   *)
(* session opened here is only counted.                                    *)
(*                                                                         *)
(* One identity; its user exists and is loginable (the refusals of         *)
(* resolveUser end a call like any error, CallFails).                      *)
(***************************************************************************)
EXTENDS Naturals, FiniteSets

CONSTANTS
    Requests,           \* calls under way
    Challenges,         \* challenge tokens
    Devices,            \* rows of mfa_devices
    Secrets,            \* TOTP secrets; a code of a secret is the secret
    WrongCode,          \* a code nobody was given
    LockoutThreshold,   \* 5 in the code
    MfaTries,           \* 3 in the code
    CodesPerDevice,     \* 10 in the code
    MaxRequests,        \* bound: calls in a behaviour
    NoOne

ASSUME ConstantsAssumption ==
    /\ NoOne \notin Challenges \cup Devices \cup Secrets
    /\ LockoutThreshold \in Nat \ {0}
    /\ MfaTries \in Nat \ {0}
    /\ CodesPerDevice \in Nat
    /\ MaxRequests \in Nat

VARIABLES
    identity,   \* auth_identities: failedLoginCount, lockedUntil, mfaEnrolled
    device,     \* mfa_devices
    challenge,  \* Redis challenge:<token>: its fails, NoOne if there is no key
    pending,    \* Redis challenge:enrol:<identity>: the secret, NoOne if no key
    request,    \* the calls under way
    sent,       \* calls so far (bound only)
    minted,     \* history: challenge tokens given out
    streak,     \* history: wrong passwords since a login last succeeded
    used,       \* history: backup codes accepted
    tries,      \* history: wrong codes given with each challenge
    opened,     \* history: challenges a session was opened with
    shared      \* history: challenges two calls presented at a time

vars == <<identity, device, challenge, pending, request, sent, minted, streak,
          used, tries, opened, shared>>
tables == <<identity, device, challenge, pending>>
history == <<minted, streak, used, tries, opened, shared>>

CodesOf(d) == {<<d, i>> : i \in 1..CodesPerDevice}
BackupCodes == Devices \X (1..CodesPerDevice)
Codes == Secrets \cup BackupCodes \cup {WrongCode}

NoDevice == [exists |-> FALSE, secret |-> NoOne, codes |-> {}]
Existing == {d \in Devices : device[d].exists}

(* A call: where it is, and what it read before.  early is history: it was   *)
(* under way when the lock was last set.                                     *)
Idle == [pc |-> "idle", fails |-> 0, token |-> NoOne, code |-> WrongCode,
         device |-> NoOne, codes |-> {}, early |-> FALSE]
UnderWay == {r \in Requests : request[r].pc # "idle"}

Init ==
    /\ \E on \in SUBSET Devices, s \in Secrets :
          /\ Cardinality(on) <= 1
          /\ device = [d \in Devices |->
                         IF d \in on
                         THEN [exists |-> TRUE, secret |-> s, codes |-> CodesOf(d)]
                         ELSE NoDevice]
          /\ identity = [fails |-> 0, lock |-> "none", mfa |-> on # {}]
    /\ challenge = [c \in Challenges |-> NoOne]
    /\ pending = NoOne
    /\ request = [r \in Requests |-> Idle]
    /\ sent = 0
    /\ minted = {} /\ streak = 0
    /\ used = {} /\ opened = {} /\ shared = {}
    /\ tries = [c \in Challenges |-> 0]

-----------------------------------------------------------------------------
Begin(r, x) ==
    /\ request[r].pc = "idle"
    /\ sent < MaxRequests
    /\ sent' = sent + 1
    /\ request' = [request EXCEPT ![r] = x]

At(r, pc) == request[r].pc = pc
Goto(r, pc) == request' = [request EXCEPT ![r].pc = pc]
Finish(r) == request' = [request EXCEPT ![r] = Idle]

(* The call throws, or the process stops; what it wrote stays. *)
CallFails(r) ==
    /\ r \in UnderWay
    /\ Finish(r)
    /\ UNCHANGED <<tables, sent, history>>

-----------------------------------------------------------------------------
(* login. *)

(* Mutant: the lock is not looked at. *)
StartLoginAnyway(r, right) ==
    /\ Begin(r, [Idle EXCEPT !.fails = identity.fails,
                             !.pc = IF ~right THEN "wrongPassword"
                                    ELSE IF identity.mfa THEN "mint" ELSE "reset"])
    /\ UNCHANGED <<tables, history>>

(* The identity is read once: its lock, its hash, its counter and whether it *)
(* is enrolled.  A locked one is refused and nothing changes.                *)
StartLogin(r, right) ==
    /\ identity.lock # "future"
    /\ Begin(r, [Idle EXCEPT !.fails = identity.fails,
                             !.pc = IF ~right THEN "wrongPassword"
                                    ELSE IF identity.mfa THEN "mint" ELSE "reset"])
    /\ UNCHANGED <<tables, history>>

(* The counter that was read, plus one, is written. *)
CountWrongPassword(r) ==
    LET fails == request[r].fails + 1
        locks == fails >= LockoutThreshold
    IN
    /\ At(r, "wrongPassword")
    /\ identity' = [identity EXCEPT !.fails = fails,
                                    !.lock = IF locks THEN "future" ELSE @]
    /\ request' = [q \in Requests |->
                     IF q = r THEN Idle
                     ELSE IF locks /\ q \in UnderWay THEN [request[q] EXCEPT !.early = TRUE]
                     ELSE request[q]]
    /\ streak' = streak + 1
    /\ UNCHANGED <<device, challenge, pending, sent, minted, used, tries, opened, shared>>

MintChallenge(r) ==
    /\ At(r, "mint")
    /\ \E c \in Challenges \ minted :
          /\ challenge' = [challenge EXCEPT ![c] = 0]
          /\ minted' = minted \cup {c}
    /\ Finish(r)
    /\ UNCHANGED <<identity, device, pending, sent, streak, used, tries, opened, shared>>

ResetCounter(r) ==
    /\ At(r, "reset")
    /\ identity' = [identity EXCEPT !.fails = 0, !.lock = "none"]
    /\ Goto(r, "session")
    /\ UNCHANGED <<device, challenge, pending, sent, history>>

(* The end of login and of completeMfaLogin. *)
OpenSession(r) ==
    /\ At(r, "session")
    /\ streak' = 0
    /\ opened' = opened \cup ({request[r].token} \ {NoOne})
    /\ Finish(r)
    /\ UNCHANGED <<tables, sent, minted, used, tries, shared>>

-----------------------------------------------------------------------------
(* completeMfaLogin. *)

(* getChallengeData and the read of verifyChallenge; no key, no effect.      *)
StartVerify(r, c, code) ==
    /\ challenge[c] # NoOne
    /\ Begin(r, [Idle EXCEPT !.fails = challenge[c], !.token = c, !.code = code,
                             !.pc = IF challenge[c] >= MfaTries THEN "wrongCode"
                                    ELSE "device"])
    /\ shared' = IF \E q \in UnderWay : request[q].token = c THEN shared \cup {c} ELSE shared
    /\ UNCHANGED <<tables, minted, streak, used, tries, opened>>

(* findFirst with no order: any device of the identity. *)
ReadDevice(r) ==
    LET x == request[r] IN
    /\ At(r, "device")
    /\ \E d \in Existing :
          request' = [request EXCEPT ![r].device = d, ![r].codes = device[d].codes,
                                     ![r].pc = IF x.code = device[d].secret THEN "accepted"
                                               ELSE IF x.code \in device[d].codes THEN "consume"
                                               ELSE "wrongCode"]
    /\ UNCHANGED <<tables, sent, history>>

(* Mutant: the remaining codes are dropped too. *)
ConsumeAllCodes(r) ==
    LET x == request[r] IN
    /\ At(r, "consume")
    /\ device' = [device EXCEPT ![x.device].codes = {}]
    /\ used' = used \cup {x.code}
    /\ Goto(r, "accepted")
    /\ UNCHANGED <<identity, challenge, pending, sent, minted, streak, tries, opened, shared>>

(* The codes that were read, without this one, are written. *)
ConsumeCode(r) ==
    LET x == request[r] IN
    /\ At(r, "consume")
    /\ device' = [device EXCEPT ![x.device].codes = x.codes \ {x.code}]
    /\ used' = used \cup {x.code}
    /\ Goto(r, "accepted")
    /\ UNCHANGED <<identity, challenge, pending, sent, minted, streak, tries, opened, shared>>

(* Mutant: the challenge is left to expire. *)
KeepChallenge(r) ==
    /\ At(r, "accepted")
    /\ Goto(r, "session")
    /\ UNCHANGED <<tables, sent, history>>

(* A call that stops before this step leaves the challenge as it was.        *)
DeleteChallenge(r) ==
    /\ At(r, "accepted")
    /\ challenge' = [challenge EXCEPT ![request[r].token] = NoOne]
    /\ Goto(r, "session")
    /\ UNCHANGED <<identity, device, pending, sent, history>>

(* Mutant: one try more. *)
CountWrongCodeLate(r) ==
    LET x == request[r]
        fails == x.fails + 1
    IN
    /\ At(r, "wrongCode")
    /\ challenge' = [challenge EXCEPT ![x.token] = IF fails > MfaTries THEN NoOne ELSE fails]
    /\ tries' = [tries EXCEPT ![x.token] = @ + 1]
    /\ Finish(r)
    /\ UNCHANGED <<identity, device, pending, sent, minted, streak, used, opened, shared>>

(* The fails that were read, plus one, are written, to the key as it is now  *)
(* or, if it is gone, to a new one; either way the key has its 300 s again,  *)
(* so it may expire at any later moment.                                     *)
CountWrongCode(r) ==
    LET x == request[r]
        fails == x.fails + 1
    IN
    /\ At(r, "wrongCode")
    /\ challenge' = [challenge EXCEPT ![x.token] = IF fails >= MfaTries THEN NoOne ELSE fails]
    /\ tries' = [tries EXCEPT ![x.token] = @ + 1]
    /\ Finish(r)
    /\ UNCHANGED <<identity, device, pending, sent, minted, streak, used, opened, shared>>

-----------------------------------------------------------------------------
(* Enrolment. *)

StartEnrol(s) ==
    /\ sent < MaxRequests
    /\ sent' = sent + 1
    /\ pending' = s
    /\ UNCHANGED <<identity, device, challenge, request, history>>

(* Mutant: the identity is enrolled before it has a device. *)
StartConfirmEnrolled(r) ==
    /\ pending # NoOne
    /\ Begin(r, [Idle EXCEPT !.pc = "create", !.code = pending])
    /\ identity' = [identity EXCEPT !.mfa = TRUE]
    /\ UNCHANGED <<device, challenge, pending, history>>

(* A code of the pending secret; any other is refused.                       *)
StartConfirm(r) ==
    /\ pending # NoOne
    /\ Begin(r, [Idle EXCEPT !.pc = "create", !.code = pending])
    /\ UNCHANGED <<tables, history>>

CreateDevice(r) ==
    /\ At(r, "create")
    /\ \E d \in Devices \ Existing :
          device' = [device EXCEPT ![d] = [exists |-> TRUE, secret |-> request[r].code,
                                           codes |-> CodesOf(d)]]
    /\ Goto(r, "enrol")
    /\ UNCHANGED <<identity, challenge, pending, sent, history>>

SetEnrolled(r) ==
    /\ At(r, "enrol")
    /\ identity' = [identity EXCEPT !.mfa = TRUE]
    /\ Goto(r, "clear")
    /\ UNCHANGED <<device, challenge, pending, sent, history>>

ClearPending(r) ==
    /\ At(r, "clear")
    /\ pending' = NoOne
    /\ Finish(r)
    /\ UNCHANGED <<identity, device, challenge, sent, history>>

-----------------------------------------------------------------------------
(* Time. *)

ChallengeExpires(c) ==
    /\ challenge[c] # NoOne
    /\ challenge' = [challenge EXCEPT ![c] = NoOne]
    /\ UNCHANGED <<identity, device, pending, request, sent, history>>

EnrolmentExpires ==
    /\ pending # NoOne
    /\ pending' = NoOne
    /\ UNCHANGED <<identity, device, challenge, request, sent, history>>

LockExpires ==
    /\ identity.lock = "future"
    /\ identity' = [identity EXCEPT !.lock = "past"]
    /\ UNCHANGED <<device, challenge, pending, request, sent, history>>

LoginStep(r) ==
    \/ \E right \in BOOLEAN : StartLogin(r, right)
    \/ CountWrongPassword(r) \/ MintChallenge(r) \/ ResetCounter(r) \/ OpenSession(r)

VerifyStep(r) ==
    \/ \E c \in Challenges, code \in Codes : StartVerify(r, c, code)
    \/ ReadDevice(r) \/ ConsumeCode(r) \/ DeleteChallenge(r) \/ CountWrongCode(r)

EnrolStep(r) ==
    \/ StartConfirm(r) \/ CreateDevice(r) \/ SetEnrolled(r) \/ ClearPending(r)

Next ==
    \/ \E r \in Requests : LoginStep(r) \/ VerifyStep(r) \/ EnrolStep(r) \/ CallFails(r)
    \/ \E s \in Secrets : StartEnrol(s)
    \/ \E c \in Challenges : ChallengeExpires(c)
    \/ EnrolmentExpires
    \/ LockExpires

Spec == Init /\ [][Next]_vars

-----------------------------------------------------------------------------
(* Properties. *)

Pc == {"idle", "wrongPassword", "mint", "reset", "session", "device", "consume",
       "accepted", "wrongCode", "create", "enrol", "clear"}

RequestRecord ==
    [pc : Pc, fails : Nat, token : Challenges \cup {NoOne}, code : Codes,
     device : Devices \cup {NoOne}, codes : SUBSET BackupCodes, early : BOOLEAN]

(* What each step of a call has read. *)
WellFormed(x) ==
    /\ x.pc \in {"device", "consume", "accepted", "wrongCode"} => x.token \in Challenges
    /\ x.pc = "consume" => x.code \in BackupCodes /\ x.device \in Devices
    /\ x.pc = "create" => x.code \in Secrets
    /\ x.pc \in {"wrongPassword", "mint", "reset", "create", "enrol", "clear"} =>
          x.token = NoOne

Request == {x \in RequestRecord : WellFormed(x)}

TypeOK ==
    /\ identity \in [fails : Nat, lock : {"none", "future", "past"}, mfa : BOOLEAN]
    /\ device \in [Devices -> [exists : BOOLEAN, secret : Secrets \cup {NoOne},
                               codes : SUBSET BackupCodes]]
    /\ challenge \in [Challenges -> (0..(MfaTries - 1)) \cup {NoOne}]
    /\ pending \in Secrets \cup {NoOne}
    /\ request \in [Requests -> Request]
    /\ sent \in Nat /\ streak \in Nat
    /\ minted \subseteq Challenges /\ opened \subseteq Challenges /\ shared \subseteq Challenges
    /\ used \subseteq BackupCodes
    /\ tries \in [Challenges -> Nat]

(* While the identity is locked, the only logins past the password check are *)
(* those that were past it when the lock was set: a lock that a concurrent   *)
(* success takes away is taken by a login older than the lock.               *)
LockKeepsOut ==
    identity.lock = "future" =>
        \A r \in UnderWay : request[r].pc \in {"wrongPassword", "mint", "reset"} => request[r].early

(* An identity that is asked for a code has a device to check it with,       *)
(* wherever an enrolment stopped.                                            *)
EnrolledHasDevice == identity.mfa => Existing # {}

(* A backup code its owner has not used stays on its device, whatever calls  *)
(* write the list at the same time.                                          *)
UnusedCodesStay == \A d \in Existing : CodesOf(d) \ used \subseteq device[d].codes

(* A challenge that calls present one at a time opens one session at most    *)
(* and takes MfaTries wrong codes at most: after either its key is gone, no  *)
(* call works on it and none can begin.  A right code alone does not spend   *)
(* it, for a call may stop before the delete (mfa.service.ts:164-168 and     *)
(* 176-180); nor is its life bounded by its first 300 s, which each wrong    *)
(* code renews (line 191).                                                   *)
ChallengeIsSpent ==
    \A c \in Challenges \ shared :
        c \in opened \/ tries[c] >= MfaTries =>
            challenge[c] = NoOne /\ \A r \in UnderWay : request[r].token # c

(* The inductive forms of the last three.  A call about to set the flag has  *)
(* made its device, and one about to write a list of codes has read every    *)
(* unused one.                                                               *)
EnrolmentInv ==
    /\ EnrolledHasDevice
    /\ \A r \in Requests : At(r, "enrol") => Existing # {}

CodesInv ==
    /\ UnusedCodesStay
    /\ \A r \in Requests :
          LET x == request[r] IN
          At(r, "consume") => x.device \in Existing /\ CodesOf(x.device) \ used \subseteq x.codes

(* A call with a challenge nobody shares is alone with it and has read the   *)
(* number of tries there have been; so has Redis, if it has the key, which   *)
(* it has not once the call may open its session.                            *)
ChallengeTracked(c) ==
    /\ \A q, r \in UnderWay : request[q].token = c /\ request[r].token = c => q = r
    /\ challenge[c] # NoOne => challenge[c] = tries[c] /\ c \notin opened
    /\ \A r \in UnderWay :
          request[r].token = c =>
              /\ tries[c] < MfaTries /\ c \notin opened
              /\ IF At(r, "session") THEN challenge[c] = NoOne ELSE request[r].fails = tries[c]
    /\ c \notin minted =>
          /\ challenge[c] = NoOne /\ tries[c] = 0 /\ c \notin opened
          /\ \A r \in Requests : request[r].token # c

ChallengeInv == \A c \in Challenges \ shared : ChallengeTracked(c)

(* The design: the call that locks has seen LockoutThreshold wrong passwords *)
(* in a row, no login in between.                                            *)
LockNeedsConsecutiveFails ==
    \A r \in Requests :
        At(r, "wrongPassword") /\ request[r].fails + 1 >= LockoutThreshold =>
            streak + 1 >= LockoutThreshold
=============================================================================
