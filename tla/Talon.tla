-------------------------------- MODULE Talon --------------------------------
(***************************************************************************)
(* The browser task executor (application/executor.py) and the one browser  *)
(* backend that all its executions share (adapters/browser).  One event     *)
(* loop runs the executions; they interleave where one awaits.  The tasks   *)
(* are rows of the CRM, read and changed over HTTP.                         *)
(***************************************************************************)
EXTENDS Naturals, FiniteSets

CONSTANTS TalonTasks, SiteOf, Executions, NoTask

ASSUME TalonAssumption == DOMAIN SiteOf = TalonTasks /\ NoTask \notin TalonTasks

VARIABLES
    status,     \* CRM: status of each task
    at, task,   \* where each execution is, and its task
    told,       \* the final event an execution sent its client
    site,       \* backend: site of the open session, NoTask for none
    agent,      \* backend: the agent, [prompt, site], NoTask for none
    ran,        \* history: the agent an execution ran, NoTask for none
    finished,   \* history: executions whose agent came to its end
    mixed,      \* history: executions that shared the backend, or got it unclosed
    raced       \* history: tasks read READY by an execution before another claimed

talonVars == <<status, at, task, told, site, agent, ran, finished, mixed, raced>>
backendVars == <<site, agent>>
ranVars == <<ran, finished>>

TalonInit ==
    /\ status = [k \in TalonTasks |-> "READY"]
    /\ at = [x \in Executions |-> "off"] /\ task = [x \in Executions |-> NoTask]
    /\ told = [x \in Executions |-> ""]
    /\ site = NoTask /\ agent = NoTask
    /\ ran = [x \in Executions |-> NoTask]
    /\ finished = {} /\ mixed = {} /\ raced = {}

-----------------------------------------------------------------------------
Ends(x, event) == at' = [at EXCEPT ![x] = "over"] /\ told' = [told EXCEPT ![x] = event]
MovesTo(x, to) == at' = [at EXCEPT ![x] = to]

(* The CRM is asked to set a status: it does and answers, or the call raises *)
(* with the status set or not.                                               *)
Answered(k, new) == status' = [status EXCEPT ![k] = new]
Raised(k, new) == Answered(k, new) \/ UNCHANGED status

(* From the claim to the close an execution may use the backend.             *)
InSession == {x \in Executions : at[x] \notin {"off", "fetch", "claim", "upload", "over"}}

Receive(x) ==
    /\ at[x] = "off"
    /\ \/ \E k \in TalonTasks : task' = [task EXCEPT ![x] = k]
          /\ MovesTo(x, "fetch") /\ UNCHANGED told
       \/ Ends(x, "failed") /\ UNCHANGED task       \* no valid message
    /\ UNCHANGED <<status, backendVars, ranVars, mixed, raced>>

MayStartMutant(s) == s \notin {"COMPLETED", "FAILED"}
MayStart(s) == s = "READY"

Fetch(x) ==
    LET k == task[x] IN
    /\ at[x] = "fetch"
    /\ \/ /\ MayStart(status[k])
          /\ MovesTo(x, "claim") /\ UNCHANGED told
          /\ raced' = IF \E y \in Executions \ {x} : at[y] = "claim" /\ task[y] = k
                      THEN raced \cup {k} ELSE raced
       \/ ~MayStart(status[k]) /\ Ends(x, "failed") /\ UNCHANGED raced
       \/ Ends(x, "failed") /\ UNCHANGED raced     \* not 200
       \/ Ends(x, "") /\ UNCHANGED raced           \* no answer
    /\ UNCHANGED <<status, task, backendVars, ranVars, mixed>>

Claim(x) ==
    /\ at[x] = "claim"
    /\ \/ /\ Answered(task[x], "CLAIMED") /\ MovesTo(x, "prepare") /\ UNCHANGED told
          /\ mixed' = IF InSession = {} THEN mixed ELSE mixed \cup InSession \cup {x}
       \/ Raised(task[x], "CLAIMED") /\ Ends(x, "") /\ UNCHANGED mixed
    /\ UNCHANGED <<task, backendVars, ranVars, raced>>

(* Profile, credential and open_session, with no await that lets others run. *)
(* The stores are read or not, the credential needed or not, found or not.   *)
Prepare(x) ==
    /\ at[x] = "prepare"
    /\ \/ MovesTo(x, "begin") /\ site' = SiteOf[task[x]]
       \/ MovesTo(x, "noCredential") /\ UNCHANGED site
       \/ MovesTo(x, "failing") /\ UNCHANGED site
    /\ UNCHANGED <<status, task, told, agent, ranVars, mixed, raced>>

BeginTask(x) ==
    /\ at[x] = "begin"
    /\ \/ Answered(task[x], "IN_PROGRESS") /\ MovesTo(x, "execute")
       \/ Raised(task[x], "IN_PROGRESS") /\ MovesTo(x, "failing")
    /\ UNCHANGED <<task, told, backendVars, ranVars, mixed, raced>>

(* execute_task: asserts a session, makes an agent unless there is one.      *)
ExecuteTask(x) ==
    /\ at[x] = "execute"
    /\ IF site = NoTask
       THEN MovesTo(x, "failing") /\ UNCHANGED <<agent, ran>>
       ELSE /\ agent' = IF agent = NoTask THEN [prompt |-> task[x], site |-> site] ELSE agent
            /\ ran' = [ran EXCEPT ![x] = agent']
            /\ MovesTo(x, "running")
    /\ UNCHANGED <<status, task, told, site, finished, mixed, raced>>

RunEnds(x) ==
    /\ at[x] = "running"
    /\ \/ MovesTo(x, "close") /\ finished' = finished \cup {x}
       \/ MovesTo(x, "failing") /\ UNCHANGED finished
    /\ UNCHANGED <<status, task, told, backendVars, ran, mixed, raced>>

(* Without a credential the task is failed inside the try: if that raises,   *)
(* the handler fails it once more.                                           *)
FailTask(x) ==
    /\ \/ /\ at[x] \in {"noCredential", "failing"}
          /\ Answered(task[x], "FAILED")
          /\ at' = [at EXCEPT ![x] = "close"] /\ told' = [told EXCEPT ![x] = "failed"]
       \/ /\ \/ at[x] = "noCredential" /\ MovesTo(x, "failing")
             \/ at[x] = "failing" /\ MovesTo(x, "close")
          /\ Raised(task[x], "FAILED") /\ UNCHANGED told
    /\ UNCHANGED <<task, backendVars, ranVars, mixed, raced>>

(* finally: close_session, which awaits the agent's close when there is one. *)
(* An execution that did not complete is over then.                          *)
Close(x) ==
    /\ at[x] = "close" /\ agent # NoTask
    /\ MovesTo(x, "closing")
    /\ UNCHANGED <<status, task, told, backendVars, ranVars, mixed, raced>>

ClosedMutant(x) ==
    /\ at[x] = "closing" \/ (at[x] = "close" /\ agent = NoTask)
    /\ site' = NoTask
    /\ MovesTo(x, IF x \in finished THEN "upload" ELSE "over")
    /\ UNCHANGED <<status, task, told, agent, ranVars, mixed, raced>>
Closed(x) ==
    /\ at[x] = "closing" \/ (at[x] = "close" /\ agent = NoTask)
    /\ site' = NoTask /\ agent' = NoTask
    /\ MovesTo(x, IF x \in finished THEN "upload" ELSE "over")
    /\ UNCHANGED <<status, task, told, ranVars, mixed, raced>>

CloseFails(x) ==
    /\ at[x] = "closing"
    /\ MovesTo(x, "over")
    /\ mixed' = Executions
    /\ UNCHANGED <<status, task, told, backendVars, ranVars, raced>>

(* Outside the try: an upload or a transition that raises ends the execution *)
(* with its task IN_PROGRESS and no final event.                             *)
Complete(x) ==
    /\ at[x] = "upload"
    /\ \/ Answered(task[x], "COMPLETED") /\ Ends(x, "completed")
       \/ Raised(task[x], "COMPLETED") /\ Ends(x, "")
    /\ UNCHANGED <<task, backendVars, ranVars, mixed, raced>>

(* A client cancels: the task is failed, the execution is not stopped.       *)
Cancel(k) ==
    /\ Answered(k, "FAILED")
    /\ UNCHANGED <<at, task, told, backendVars, ranVars, mixed, raced>>

(* The process ends and starts again: nothing of its executions is left.     *)
Restart ==
    /\ at' = [x \in Executions |-> IF at[x] = "off" THEN "off" ELSE "over"]
    /\ site' = NoTask /\ agent' = NoTask
    /\ UNCHANGED <<status, task, told, ranVars, mixed, raced>>

TalonNext ==
    \/ \E x \in Executions :
          \/ Receive(x) \/ Fetch(x) \/ Claim(x) \/ Prepare(x) \/ BeginTask(x)
          \/ ExecuteTask(x) \/ RunEnds(x) \/ FailTask(x)
          \/ Close(x) \/ Closed(x) \/ CloseFails(x) \/ Complete(x)
    \/ \E k \in TalonTasks : Cancel(k)
    \/ Restart

TalonSpec == TalonInit /\ [][TalonNext]_talonVars

-----------------------------------------------------------------------------
Agents == [prompt : TalonTasks, site : {SiteOf[k] : k \in TalonTasks}]

TalonTypeOK ==
    /\ status \in [TalonTasks -> {"READY", "CLAIMED", "IN_PROGRESS", "COMPLETED", "FAILED"}]
    /\ at \in [Executions -> {"off", "fetch", "claim", "prepare", "begin", "execute", "running",
                              "noCredential", "failing", "close", "closing", "upload", "over"}]
    /\ task \in [Executions -> TalonTasks \cup {NoTask}]
    /\ told \in [Executions -> {"", "failed", "completed"}]
    /\ site \in {SiteOf[k] : k \in TalonTasks} \cup {NoTask}
    /\ agent \in Agents \cup {NoTask} /\ ran \in [Executions -> Agents \cup {NoTask}]
    /\ finished \subseteq Executions /\ mixed \subseteq Executions /\ raced \subseteq TalonTasks

(* A task is run by one execution, unless two read it READY before either    *)
(* claimed it.                                                               *)
TasksRunOnce ==
    \A k \in TalonTasks \ raced :
        Cardinality({x \in Executions : task[x] = k /\ ran[x] # NoTask}) <= 1

(* An execution that had the backend to itself, and no failed close before   *)
(* it, runs the prompt of its own task on its own site, and reports          *)
(* completion only after that agent came to its end.                         *)
OwnPromptOnOwnSite ==
    \A x \in Executions \ mixed :
        /\ ran[x] # NoTask => ran[x] = [prompt |-> task[x], site |-> SiteOf[task[x]]]
        /\ told[x] = "completed" => x \in finished

(* Tasks of different sites never share a session: an agent an execution     *)
(* runs was opened for its task's site.                                      *)
SitesShareNoSession ==
    \A x \in Executions : ran[x] # NoTask => ran[x].site = SiteOf[task[x]]
=============================================================================
