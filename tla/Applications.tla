---------------------------- MODULE Applications ----------------------------
(***************************************************************************)
(* Applications of candidates to jobs (job-application.service.ts).  Each   *)
(* stage is logged as a row; the application caches the highest stage and   *)
(* whether it is active, the job counts applications, interviews, offers    *)
(* and placements.  Log, cache and counter are three statements, and the    *)
(* cache is computed from the row read before the first of them.            *)
(***************************************************************************)
EXTENDS Integers, FiniteSets, FiniteSetsExt

CONSTANTS
    Applicants, PostedJobs,
    StageCallers,       \* requests that run an operation of this module
    MaxStageCalls,      \* bound: operations started in a behaviour
    NoApplication       \* the application of an idle request

StageTypes == {"APPLIED", "LONGLIST", "CV_SENT", "INTERVIEW", "OFFER", "PLACEMENT", "REJECTED"}
StageOrder == [APPLIED |-> 0, LONGLIST |-> 1, CV_SENT |-> 2, INTERVIEW |-> 3,
               OFFER |-> 4, PLACEMENT |-> 5, REJECTED |-> -1]
FinalStages == {"REJECTED", "PLACEMENT"}
Counters == {"applications", "INTERVIEW", "OFFER", "PLACEMENT"}

(* At most one application per candidate and job: a unique index.            *)
Apps == Applicants \X PostedJobs

ASSUME ApplicationsAssumption ==
    /\ MaxStageCalls \in Nat
    /\ IsFiniteSet(Applicants) /\ IsFiniteSet(PostedJobs) /\ IsFiniteSet(StageCallers)
    /\ NoApplication \notin Apps

VARIABLES
    application,    \* [row, maxStage, isActive] of each application
    stageLog,       \* table application_stages: rows of each kind
    counter,        \* counters of each job
    stageCall,      \* what each request is doing
    uncounted,      \* history: jobs with a call that stopped before its counter
    uncached,       \* history: applications whose cache missed a stage
    stageCalls      \* operations started so far (bound only)

applicationsVars ==
    <<application, stageLog, counter, stageCall, uncounted, uncached, stageCalls>>

NoStageCall == [pc |-> "idle", op |-> "create", app |-> NoApplication,
                stage |-> "APPLIED", seen |-> "APPLIED"]

ApplicationsInit ==
    /\ application = [a \in Apps |-> [row |-> FALSE, maxStage |-> "APPLIED", isActive |-> TRUE]]
    /\ stageLog = [a \in Apps |-> [s \in StageTypes |-> 0]]
    /\ counter = [j \in PostedJobs |-> [f \in Counters |-> 0]]
    /\ stageCall = [q \in StageCallers |-> NoStageCall]
    /\ uncounted = {} /\ uncached = {}
    /\ stageCalls = 0

-----------------------------------------------------------------------------
BeginStageCall(q, call) ==
    /\ stageCall[q].pc = "idle"
    /\ stageCalls < MaxStageCalls
    /\ stageCalls' = stageCalls + 1
    /\ stageCall' = [stageCall EXCEPT ![q] = call]

(* create, up to the new row; a second row of the pair would be refused.     *)
CreateApplication(q, a) ==
    /\ ~application[a].row
    /\ BeginStageCall(q, [NoStageCall EXCEPT !.pc = "log", !.app = a])
    /\ application' = [application EXCEPT ![a].row = TRUE]
    /\ UNCHANGED <<stageLog, counter, uncounted, uncached>>

(* advanceStage, up to findById: maxStage is read here.                      *)
AdvanceStage(q, a, s) ==
    /\ application[a].row
    /\ BeginStageCall(q, [pc |-> "log", op |-> "advance", app |-> a, stage |-> s,
                          seen |-> application[a].maxStage])
    /\ UNCHANGED <<application, stageLog, counter, uncounted, uncached>>

LogStage(q) ==
    LET r == stageCall[q] IN
    /\ r.pc = "log"
    /\ stageLog' = [stageLog EXCEPT ![r.app][r.stage] = @ + 1]
    /\ stageCall' = [stageCall EXCEPT
          ![q].pc = IF r.op = "create" THEN "count" ELSE "cache"]
    /\ UNCHANGED <<application, counter, uncounted, uncached, stageCalls>>

RaisesMutant(r) == StageOrder[r.stage] # StageOrder[r.seen]
Raises(r) == StageOrder[r.stage] > StageOrder[r.seen]

CacheStageMutant(q) ==
    LET r == stageCall[q] IN
    /\ r.pc = "cache"
    /\ application' = [application EXCEPT
          ![r.app].maxStage = IF Raises(r) THEN r.stage ELSE @,
          ![r.app].isActive = @ /\ r.stage \notin FinalStages]
    /\ stageCall' = [stageCall EXCEPT
          ![q] = IF r.stage \in Counters /\ Raises(r) THEN [r EXCEPT !.pc = "count"]
                 ELSE NoStageCall]
    /\ UNCHANGED <<stageLog, counter, uncounted, uncached, stageCalls>>
CacheStage(q) ==
    LET r == stageCall[q]
        old == application[r.app]
    IN  /\ r.pc = "cache"
        /\ application' = [application EXCEPT
              ![r.app].maxStage = IF Raises(r) THEN r.stage ELSE @,
              ![r.app].isActive = @ /\ r.stage \notin FinalStages]
        /\ uncached' = IF /\ Raises(r) /\ old.maxStage # r.seen
                          /\ StageOrder[r.stage] < StageOrder[old.maxStage]
                       THEN uncached \cup {r.app} ELSE uncached
        /\ stageCall' = [stageCall EXCEPT
              ![q] = IF r.stage \in Counters THEN [r EXCEPT !.pc = "count"] ELSE NoStageCall]
        /\ UNCHANGED <<stageLog, counter, uncounted, stageCalls>>

CounterOf(r) == IF r.op = "create" THEN "applications" ELSE r.stage

CountStage(q) ==
    LET r == stageCall[q] IN
    /\ r.pc = "count"
    /\ counter' = [counter EXCEPT ![r.app[2]][CounterOf(r)] = @ + 1]
    /\ stageCall' = [stageCall EXCEPT ![q] = NoStageCall]
    /\ UNCHANGED <<application, stageLog, uncounted, uncached, stageCalls>>

(* A statement fails or the process ends.                                    *)
StageCallStops(q) ==
    LET r == stageCall[q] IN
    /\ r.pc # "idle"
    /\ stageCall' = [stageCall EXCEPT ![q] = NoStageCall]
    /\ uncounted' = IF r.pc = "log" /\ r.op = "advance" THEN uncounted
                    ELSE uncounted \cup {r.app[2]}
    /\ uncached' = IF r.pc = "cache" THEN uncached \cup {r.app} ELSE uncached
    /\ UNCHANGED <<application, stageLog, counter, stageCalls>>

ApplicationsNext == \E q \in StageCallers :
    \/ \E a \in Apps : CreateApplication(q, a) \/ \E s \in StageTypes : AdvanceStage(q, a, s)
    \/ LogStage(q) \/ CacheStage(q) \/ CountStage(q) \/ StageCallStops(q)

ApplicationsSpec == ApplicationsInit /\ [][ApplicationsNext]_applicationsVars

-----------------------------------------------------------------------------
StageCall == [pc : {"idle", "log", "cache", "count"}, op : {"create", "advance"},
              app : Apps \cup {NoApplication}, stage : StageTypes, seen : StageTypes]

ApplicationsTypeOK ==
    /\ application \in [Apps -> [row : BOOLEAN, maxStage : StageTypes, isActive : BOOLEAN]]
    /\ stageLog \in [Apps -> [StageTypes -> Nat]]
    /\ counter \in [PostedJobs -> [Counters -> Nat]]
    /\ stageCall \in [StageCallers -> StageCall]
    /\ uncounted \subseteq PostedJobs /\ uncached \subseteq Apps
    /\ stageCalls \in 0..MaxStageCalls

(* How often a counter should have been raised, and the calls yet to do it.  *)
Logged(j, f) ==
    IF f = "applications"
    THEN Cardinality({a \in Apps : a[2] = j /\ application[a].row})
    ELSE MapThenSumSet(LAMBDA k : stageLog[<<k, j>>][f], Applicants)
Uncounted(j, f) ==
    {q \in StageCallers : LET r == stageCall[q] IN
        /\ r.pc \in {"cache", "count"} \/ (r.pc = "log" /\ r.op = "create")
        /\ r.app[2] = j /\ CounterOf(r) = f}

(* The counters of a job are the rows they count, but for calls on their way *)
(* to the counter and for jobs with a call that stopped before it.           *)
CountersMatchRows ==
    \A j \in PostedJobs \ uncounted, f \in Counters :
        counter[j][f] + Cardinality(Uncounted(j, f)) = Logged(j, f)

(* Stages of an application that a call has logged and not yet cached.       *)
Uncached(a) == {s \in StageTypes : \E q \in StageCallers :
    stageCall[q].pc = "cache" /\ stageCall[q].app = a /\ stageCall[q].stage = s}
CachedStages(a) == {s \in StageTypes : stageLog[a][s] > 0} \ Uncached(a)

(* The cached stage is the highest one logged and a final stage ends the     *)
(* application, once no call is between log and cache, unless a call stopped *)
(* there or wrote a lower stage over one cached since it read the row.       *)
CacheSummarisesLog ==
    \A a \in Apps \ uncached :
        application[a].row /\ Uncached(a) = {} =>
            /\ \A s \in CachedStages(a) : StageOrder[s] <= StageOrder[application[a].maxStage]
            /\ application[a].maxStage \in CachedStages(a) \cup {"APPLIED"}
            /\ application[a].isActive = (CachedStages(a) \cap FinalStages = {})
=============================================================================
