---------------------------- MODULE ComposedProofs ----------------------------
(* The instances that TLC explores run models side by side.  What is proved  *)
(* of each model alone is proved here of the instances, for every value of   *)
(* the constants: a behaviour of an instance is a behaviour of each model,   *)
(* and so all that holds of the models holds together.                       *)
EXTENDS MCRecords, MCActors, RecordsProofs, CandidatesProofs, ActorsProofs

-----------------------------------------------------------------------------
(* The tables of the CRM. *)

(* A step of one model is a step of it that the others do not see.           *)
LEMMA RecordsStep ==
    ASSUME [RecordsNext]_recordsVars
    PROVE  /\ [JobsNext]_jobsVars /\ [ApplicationsNext]_applicationsVars
           /\ [RowAccessNext]_rowAccessVars /\ [TeamTreeNext]_teamTreeVars
           /\ [CandidatesNext]_candidatesVars /\ [RowPagesNext]_rowPagesVars
           /\ [AccountsNext]_accountsVars /\ [GllueSyncNext]_gllueSyncVars
BY DEF RecordsNext, recordsVars, OnlyJobs, OnlyApplications, OnlyRowAccess, OnlyTeamTree,
       OnlyCandidates, OnlyRowPages, OnlyAccounts, OnlyGllueSync

LEMMA RecordsBegin ==
    ASSUME RecordsInit
    PROVE  /\ JobsInit /\ ApplicationsInit /\ RowAccessInit /\ TeamTreeInit
           /\ CandidatesInit /\ RowPagesInit /\ GllueSyncInit
           /\ AccountsInit \/ NoAccounts
BY DEF RecordsInit, RowAccessInit

(* The instance is each of its models; the accounts may have nobody in them. *)
LEMMA RecordsAreModels ==
    RecordsSpec => /\ JobsSpec /\ ApplicationsSpec /\ RowAccessSpec /\ TeamTreeSpec
                   /\ CandidatesSpec /\ RowPagesSpec /\ GllueSyncSpec
BY RecordsBegin, RecordsStep, PTL
   DEF RecordsSpec, JobsSpec, ApplicationsSpec, RowAccessSpec, TeamTreeSpec, CandidatesSpec,
       RowPagesSpec, GllueSyncSpec

AccountsInv == AccountsTyped /\ LimitPasses /\ ResetsInTurn

LEMMA RecordsAccounts == RecordsSpec => []AccountsInv
<1>1. RecordsInit => AccountsInv
  <2>1. AccountsInit => AccountsInv
    BY AccountsInitTyped, AccountTablesInTurn DEF AccountsInit, AccountsInv
  <2>2. QED BY <2>1, RecordsBegin, NoAccountsBegin DEF AccountsInv
<1>2. AccountsInv /\ [RecordsNext]_recordsVars => AccountsInv'
  BY RecordsStep, AccountsTypedKept, LimitPassesKept, ResetsInTurnKept DEF AccountsInv
<1>3. QED BY <1>1, <1>2, PTL DEF RecordsSpec

(* Every row, counter and running call of the CRM's tables keeps its shape,  *)
(* whatever requests, crashes and failures come (the services of apps/api).  *)
THEOREM RecordsKeepType == RecordsSpec => []RecordsTypeOK
<1>1. AccountsInv => AccountsTypeOK
  BY DEF AccountsInv, AccountsTyped
<1>2. QED
  BY <1>1, RecordsAreModels, RecordsAccounts, JobsKeepType, ApplicationsKeepType,
     AccessKeepsType, TeamsKeepType, CandidatesKeepType, PagesKeepType, MirrorKeepsType, PTL
  DEF RecordsTypeOK

(* What the models promise of their tables, all at once.                     *)
RecordsPromises ==
    /\ LiveJobHasLiveClient /\ ActiveCountsOpenJobs
    /\ CacheSummarisesLog /\ CountersMatchRows
    /\ AuditExplainsTable /\ ResponsibleMayEdit /\ LiveTeamsAreATree
    /\ LiveEmailsDiffer /\ OnePrimaryContact /\ WalkShowsEachOnce
    /\ RecentPasswordsRefused /\ UsersCanGetIn
    /\ MirroredOnce /\ CursorLeavesNothingBehind

(* The instance keeps every promise of its models in every state: jobs have  *)
(* clients, counters and caches agree with rows and logs, audits explain     *)
(* permissions, emails differ, and the mirror loses nothing.                 *)
THEOREM RecordsKeepPromises == RecordsSpec => []RecordsPromises
<1>1. AccountsInv => RecentPasswordsRefused /\ UsersCanGetIn
  <2>1. ResetsInTurn => RecentPasswordsRefused
    BY DEF ResetsInTurn, Remembered, Distinct, AtRest, RecentPasswordsRefused
  <2>2. QED BY <2>1, LimitPassesGetsIn DEF AccountsInv
<1>2. QED
  BY <1>1, RecordsAreModels, RecordsAccounts, JobsKeepClients, CountersOfClients,
     CacheIsSummary, CountersOfJobs, AuditTellsTable, ResponsibleEdit, TeamsStayATree,
     EmailsDiffer, PrimaryIsOne, WalksShowEachOnce, MirrorOnce, CursorSafe, PTL
  DEF RecordsPromises

-----------------------------------------------------------------------------
(* The processes that work against remote state. *)

LEMMA ActorsStep ==
    ASSUME [ActorsNext]_actorsVars
    PROVE  /\ [GllueSyncNext]_gllueSyncVars /\ [TalonNext]_talonVars
           /\ [WebClientNext]_webClientVars
BY DEF ActorsNext, actorsVars, OnlyMirror, OnlyTalon, OnlyWebClient

LEMMA ActorsAreModels == ActorsSpec => GllueSyncSpec /\ TalonSpec /\ WebClientSpec
<1>1. ActorsInit => GllueSyncInit /\ TalonInit /\ WebClientInit
  BY DEF ActorsInit
<1>2. QED BY <1>1, ActorsStep, PTL DEF ActorsSpec, GllueSyncSpec, TalonSpec, WebClientSpec

(* Every task, token and worker keeps its shape, in flight and at rest       *)
(* (migration.service.ts, application/executor.py, auth-context.tsx).        *)
THEOREM ActorsKeepType == ActorsSpec => []ActorsTypeOK
BY ActorsAreModels, MirrorKeepsType, TalonKeepsType, WebClientKeepsType, PTL DEF ActorsTypeOK

ActorsPromises ==
    /\ TasksRunOnce /\ OwnPromptOnOwnSite /\ QuietBrowserAgrees
    /\ MirroredOnce /\ CursorLeavesNothingBehind

(* Tasks run once and with their own prompt, a quiet browser agrees with the *)
(* API, and the mirror copies each row once and leaves none behind, all in   *)
(* one behaviour.                                                            *)
THEOREM ActorsKeepPromises == ActorsSpec => []ActorsPromises
BY ActorsAreModels, TasksOnce, OwnPrompt, QuietBrowser, MirrorOnce, CursorSafe, PTL
   DEF ActorsPromises
=============================================================================
