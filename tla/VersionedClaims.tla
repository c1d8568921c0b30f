--------------------------- MODULE VersionedClaims ---------------------------
(***************************************************************************)
(* What versioned access tokens promise, without counters, tables or        *)
(* requests: which claims are true of a user, which tokens the guard        *)
(* admits, and which users' tokens are owed a revocation because something  *)
(* they claim ceased to be true.  The claims are the roles and teams of     *)
(* module AccessTokens, and the session and login of module Sessions.       *)
(***************************************************************************)
CONSTANTS Subjects, ClaimValues

VARIABLES
    claims,     \* what a token of each subject may claim now
    owed,       \* subjects with a claim that ended and no revocation since
    admitted    \* tokens the guard admits: [sub, claims]

claimsVars == <<claims, owed, admitted>>

ClaimsInit ==
    /\ claims \in [Subjects -> SUBSET ClaimValues]
    /\ owed = {} /\ admitted = {}

(* Claims end and new ones begin.  Who lost one is owed a revocation.        *)
Change ==
    /\ claims' \in [Subjects -> SUBSET ClaimValues]
    /\ owed \subseteq owed' /\ owed' \subseteq Subjects
    /\ \A u \in Subjects : ~(claims[u] \subseteq claims'[u]) => u \in owed'
    /\ UNCHANGED admitted

(* All tokens of a subject are refused from now on; another revocation of    *)
(* the same subject may still be owed.                                       *)
Revoke(u) ==
    /\ owed \ {u} \subseteq owed' /\ owed' \subseteq owed
    /\ admitted' = {t \in admitted : t.sub # u}
    /\ UNCHANGED claims

(* A new token's claim is true now, or its revocation is owed already.       *)
Grant(u, c) ==
    /\ c \in claims[u] \/ u \in owed
    /\ admitted' = admitted \cup {[sub |-> u, claims |-> c]}
    /\ UNCHANGED <<claims, owed>>

Lapse ==
    /\ admitted' \subseteq admitted
    /\ UNCHANGED <<claims, owed>>

ClaimsNext ==
    \/ Change \/ Lapse
    \/ \E u \in Subjects : Revoke(u)
    \/ \E u \in Subjects, c \in ClaimValues : Grant(u, c)

ClaimsSpec == ClaimsInit /\ [][ClaimsNext]_claimsVars
=============================================================================
