------------------------------ MODULE MCRecords ------------------------------
(* Instances for TLC of the models of what the CRM's tables hold.  They share *)
(* no state, so one run explores them side by side: each behaviour is a       *)
(* behaviour of one of them, with the others at rest.                         *)
EXTENDS Jobs, Applications, RowAccess, TeamTree, Candidates, RowPages, Accounts, GllueSync, TLC

CONSTANTS p1, p2

MCTeamRole == (p1 :> "LEAD") @@ (p2 :> "MEMBER")
MCScope == (p1 :> "MINE") @@ (p2 :> "MY_TEAMS")
MCTableOf == (1 :> "candidate") @@ (2 :> "candidateexperience")
MCParents == (1 :> {}) @@ (2 :> {1})

VARIABLE part       \* the model this behaviour belongs to

recordsVars == <<part, jobsVars, applicationsVars, rowAccessVars, teamTreeVars, candidatesVars,
                 rowPagesVars, accountsVars, gllueSyncVars>>

RecordsInit ==
    /\ part \in {"jobs", "applications", "access", "teams", "candidates", "pages", "accounts",
                "gllue"}
    /\ JobsInit /\ ApplicationsInit /\ TeamTreeInit /\ CandidatesInit /\ RowPagesInit
    /\ GllueSyncInit
    /\ IF part = "access" THEN RowAccessInit ELSE NoRows
    /\ IF part = "accounts" THEN AccountsInit ELSE NoAccounts

(* A step of one model, with all other variables at rest.                    *)
OnlyJobs ==
    /\ part = "jobs"
    /\ UNCHANGED <<part, applicationsVars, rowAccessVars, teamTreeVars, candidatesVars,
                   rowPagesVars, accountsVars, gllueSyncVars>>
OnlyApplications ==
    /\ part = "applications"
    /\ UNCHANGED <<part, jobsVars, rowAccessVars, teamTreeVars, candidatesVars,
                   rowPagesVars, accountsVars, gllueSyncVars>>
OnlyRowAccess ==
    /\ part = "access"
    /\ UNCHANGED <<part, jobsVars, applicationsVars, teamTreeVars, candidatesVars,
                   rowPagesVars, accountsVars, gllueSyncVars>>
OnlyTeamTree ==
    /\ part = "teams"
    /\ UNCHANGED <<part, jobsVars, applicationsVars, rowAccessVars, candidatesVars,
                   rowPagesVars, accountsVars, gllueSyncVars>>
OnlyCandidates ==
    /\ part = "candidates"
    /\ UNCHANGED <<part, jobsVars, applicationsVars, rowAccessVars, teamTreeVars,
                   rowPagesVars, accountsVars, gllueSyncVars>>
OnlyRowPages ==
    /\ part = "pages"
    /\ UNCHANGED <<part, jobsVars, applicationsVars, rowAccessVars, teamTreeVars,
                   candidatesVars, accountsVars, gllueSyncVars>>
OnlyAccounts ==
    /\ part = "accounts"
    /\ UNCHANGED <<part, jobsVars, applicationsVars, rowAccessVars, teamTreeVars,
                   candidatesVars, rowPagesVars, gllueSyncVars>>
OnlyGllueSync ==
    /\ part = "gllue"
    /\ UNCHANGED <<part, jobsVars, applicationsVars, rowAccessVars, teamTreeVars,
                   candidatesVars, rowPagesVars, accountsVars>>

RecordsNext ==
    \/ OnlyJobs /\ JobsNext
    \/ OnlyApplications /\ ApplicationsNext
    \/ OnlyRowAccess /\ RowAccessNext
    \/ OnlyTeamTree /\ TeamTreeNext
    \/ OnlyCandidates /\ CandidatesNext
    \/ OnlyRowPages /\ RowPagesNext
    \/ OnlyAccounts /\ AccountsNext
    \/ OnlyGllueSync /\ GllueSyncNext

RecordsSpec == RecordsInit /\ [][RecordsNext]_recordsVars

(* Every table, counter and running call of the models keeps its shape; a    *)
(* call that addressed a row by a value it was never given would break it.   *)
RecordsTypeOK ==
    /\ JobsTypeOK /\ ApplicationsTypeOK /\ RowAccessTypeOK /\ TeamTreeTypeOK
    /\ CandidatesTypeOK /\ RowPagesTypeOK /\ AccountsTypeOK /\ GllueSyncTypeOK

(* The configuration gives the callers of all models the same two values,    *)
(* the applicants those of the jobs and the tenants those of the clients.    *)
Symmetry ==
    Permutations(JobIds) \cup Permutations(Clients) \cup Permutations(JobCallers)
        \cup Permutations(Passwords)
=============================================================================
