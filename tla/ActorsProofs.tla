---------------------------- MODULE ActorsProofs -----------------------------
(* Proofs about the processes that work against remote state: the task       *)
(* executor, the tabs of a browser and the Gllue mirror.                     *)
EXTENDS GllueSync, Talon, WebClient, FiniteSetTheorems, WellFoundedInduction, TLAPS

-----------------------------------------------------------------------------
(* Talon: the inductive invariants. *)

(* Between its claim and its close; past its fetch with a READY task.        *)
SessionStates == {"prepare", "begin", "execute", "running", "noCredential", "failing",
                  "close", "closing"}
Past(x) == at[x] \in SessionStates \cup {"upload"} \/ ran[x] # NoTask
Going(x) == at[x] = "claim" \/ Past(x)

TalonTypeInv ==
    /\ TalonTypeOK
    /\ \A x \in Executions : at[x] \notin {"off", "over"} \/ ran[x] # NoTask =>
                                task[x] \in TalonTasks
    /\ \A x \in Executions : at[x] \in {"off", "fetch", "claim", "prepare", "begin", "execute"} =>
                                ran[x] = NoTask

(* A task claimed by an execution is never READY again. *)
ClaimedStays == \A x \in Executions : Past(x) => status[task[x]] # "READY"

RunsAlone ==
    \A x, y \in Executions : x # y /\ Going(x) /\ Going(y) /\ task[x] = task[y] =>
        task[x] \in raced

(* The backend of the execution that has it to itself. *)
BackendClean ==
    /\ InSession = {} /\ mixed # Executions => site = NoTask /\ agent = NoTask
    /\ \A x \in InSession \ mixed :
          /\ InSession = {x}
          /\ at[x] = "prepare" => agent = NoTask
          /\ at[x] \in {"begin", "execute"} => agent = NoTask /\ site = SiteOf[task[x]]

OwnAgent ==
    \A x \in Executions :
        /\ x \notin mixed /\ ran[x] # NoTask =>
              ran[x] = [prompt |-> task[x], site |-> SiteOf[task[x]]]
        /\ told[x] = "completed" => x \in finished
        /\ at[x] = "upload" => x \in finished


-----------------------------------------------------------------------------
(* Talon: types. *)

TalonStep(x) ==
    \/ Receive(x) \/ Fetch(x) \/ Claim(x) \/ Prepare(x) \/ BeginTask(x)
    \/ ExecuteTask(x) \/ RunEnds(x) \/ FailTask(x)
    \/ Close(x) \/ Closed(x) \/ CloseFails(x) \/ Complete(x)

LEMMA TalonSteps ==
    ASSUME [TalonNext]_talonVars
    PROVE  \/ \E x \in Executions : TalonStep(x)
           \/ \E k \in TalonTasks : Cancel(k)
           \/ Restart
           \/ UNCHANGED talonVars
BY DEF TalonNext, TalonStep

LEMMA TalonInitType == ASSUME TalonInit PROVE TalonTypeInv
BY TalonAssumption DEF TalonInit, TalonTypeInv, TalonTypeOK

(* What the step of one execution leaves of the others. *)
LEMMA TalonOthers ==
    ASSUME TalonTypeInv, NEW x \in Executions, TalonStep(x)
    PROVE  /\ at' = [at EXCEPT ![x] = at'[x]] /\ at[x] # "over"
           /\ told' = [told EXCEPT ![x] = told'[x]]
           /\ task' = [task EXCEPT ![x] = task'[x]]
           /\ ran' = [ran EXCEPT ![x] = ran'[x]]
<1>1. /\ at = [y \in Executions |-> at[y]] /\ told = [y \in Executions |-> told[y]]
      /\ task = [y \in Executions |-> task[y]] /\ ran = [y \in Executions |-> ran[y]]
  BY DEF TalonTypeInv, TalonTypeOK
<1>2. at' = [at EXCEPT ![x] = at'[x]]
  BY <1>1 DEF TalonStep, Receive, Fetch, Claim, Prepare, BeginTask, ExecuteTask, RunEnds, FailTask,
              Close, Closed, CloseFails, Complete, MovesTo, Ends
<1>3. told' = [told EXCEPT ![x] = told'[x]]
  BY <1>1 DEF TalonStep, Receive, Fetch, Claim, Prepare, BeginTask, ExecuteTask, RunEnds, FailTask,
              Close, Closed, CloseFails, Complete, Ends
<1>4. task' = [task EXCEPT ![x] = task'[x]]
  BY <1>1 DEF TalonStep, Receive, Fetch, Claim, Prepare, BeginTask, ExecuteTask, RunEnds, FailTask,
              Close, Closed, CloseFails, Complete
<1>5. ran' = [ran EXCEPT ![x] = ran'[x]]
  BY <1>1 DEF TalonStep, Receive, Fetch, Claim, Prepare, BeginTask, ExecuteTask, RunEnds, FailTask,
              Close, Closed, CloseFails, Complete, ranVars
<1>6. at[x] # "over"
  BY DEF TalonStep, Receive, Fetch, Claim, Prepare, BeginTask, ExecuteTask, RunEnds, FailTask,
         Close, Closed, CloseFails, Complete
<1>7. QED BY <1>2, <1>3, <1>4, <1>5, <1>6

LEMMA TalonOthersStay ==
    ASSUME TalonTypeInv, NEW x \in Executions, TalonStep(x), NEW y \in Executions, y # x
    PROVE  at'[y] = at[y] /\ told'[y] = told[y] /\ task'[y] = task[y] /\ ran'[y] = ran[y]
<1>1. PICK a, b, c, d : /\ at' = [at EXCEPT ![x] = a] /\ told' = [told EXCEPT ![x] = b]
                        /\ task' = [task EXCEPT ![x] = c] /\ ran' = [ran EXCEPT ![x] = d]
  BY TalonOthers
<1>2. QED BY <1>1 DEF TalonTypeInv, TalonTypeOK

AtStates == {"off", "fetch", "claim", "prepare", "begin", "execute", "running", "noCredential",
             "failing", "close", "closing", "upload", "over"}
TaskStatuses == {"READY", "CLAIMED", "IN_PROGRESS", "COMPLETED", "FAILED"}
Sites == {SiteOf[k] : k \in TalonTasks}

LEMMA TalonTypes ==
    ASSUME TalonTypeInv, NEW x \in Executions
    PROVE  /\ at[x] \in AtStates /\ told[x] \in {"", "failed", "completed"}
           /\ task[x] \in TalonTasks \cup {NoTask} /\ ran[x] \in Agents \cup {NoTask}
           /\ at[x] \notin {"off", "over"} \/ ran[x] # NoTask => task[x] \in TalonTasks
BY DEF TalonTypeInv, TalonTypeOK, AtStates

(* The states an execution reaches. *)
LEMMA TalonStepAt ==
    ASSUME TalonTypeInv, NEW x \in Executions, TalonStep(x)
    PROVE  /\ at'[x] \in AtStates /\ told'[x] \in {"", "failed", "completed"}
           /\ task'[x] \in TalonTasks \cup {NoTask}
           /\ at'[x] \notin {"off", "over"} \/ ran'[x] # NoTask => task'[x] \in TalonTasks
           /\ at[x] # "off" => task'[x] = task[x]
           /\ at[x] # "execute" => ran'[x] = ran[x]
           /\ at'[x] \in {"off", "fetch", "claim", "prepare", "begin", "execute"} =>
                 ran'[x] = NoTask
<1>1. /\ at \in [Executions -> AtStates] /\ told \in [Executions -> {"", "failed", "completed"}]
      /\ task \in [Executions -> TalonTasks \cup {NoTask}]
      /\ at[x] \notin {"off", "over"} \/ ran[x] # NoTask => task[x] \in TalonTasks
      /\ ran \in [Executions -> Agents \cup {NoTask}]
      /\ at[x] \in {"off", "fetch", "claim", "prepare", "begin", "execute"} => ran[x] = NoTask
  BY DEF TalonTypeInv, TalonTypeOK, AtStates
<1>2. CASE Receive(x) \/ Fetch(x) \/ Claim(x)
  BY <1>1, <1>2 DEF Receive, Fetch, Claim, MovesTo, Ends, AtStates, ranVars
<1>3. CASE Prepare(x) \/ BeginTask(x) \/ ExecuteTask(x)
  BY <1>1, <1>3 DEF Prepare, BeginTask, ExecuteTask, MovesTo, AtStates, ranVars
<1>4. CASE RunEnds(x) \/ FailTask(x) \/ Close(x)
  BY <1>1, <1>4 DEF RunEnds, FailTask, Close, MovesTo, AtStates, ranVars
<1>5. CASE Closed(x) \/ CloseFails(x) \/ Complete(x)
  BY <1>1, <1>5 DEF Closed, CloseFails, Complete, MovesTo, Ends, AtStates, ranVars
<1>6. QED BY <1>2, <1>3, <1>4, <1>5 DEF TalonStep

LEMMA TalonStepShared ==
    ASSUME TalonTypeInv, NEW x \in Executions, TalonStep(x)
    PROVE  /\ status' \in [TalonTasks -> TaskStatuses]
           /\ \A k \in TalonTasks : status[k] # "READY" => status'[k] # "READY"
           /\ site' \in Sites \cup {NoTask}
           /\ agent' \in Agents \cup {NoTask}
           /\ ran'[x] \in Agents \cup {NoTask}
           /\ finished' \subseteq Executions /\ finished \subseteq finished'
           /\ mixed' \subseteq Executions /\ mixed \subseteq mixed'
           /\ raced' \subseteq TalonTasks /\ raced \subseteq raced'
<1>1. /\ status \in [TalonTasks -> TaskStatuses] /\ site \in Sites \cup {NoTask}
      /\ agent \in Agents \cup {NoTask} /\ ran \in [Executions -> Agents \cup {NoTask}]
      /\ finished \subseteq Executions /\ mixed \subseteq Executions /\ raced \subseteq TalonTasks
      /\ at[x] \notin {"off", "over"} \/ ran[x] # NoTask => task[x] \in TalonTasks
  BY DEF TalonTypeInv, TalonTypeOK, TaskStatuses, Sites
<1>2. /\ status' \in [TalonTasks -> TaskStatuses]
      /\ \A k \in TalonTasks : status[k] # "READY" => status'[k] # "READY"
  <2>1. \/ UNCHANGED status
        \/ \E new \in TaskStatuses \ {"READY"} : status' = [status EXCEPT ![task[x]] = new]
    <3>1. CASE Claim(x)
      BY <3>1 DEF Claim, Answered, Raised, TaskStatuses
    <3>2. CASE BeginTask(x)
      BY <3>2 DEF BeginTask, Answered, Raised, TaskStatuses
    <3>3. CASE FailTask(x)
      BY <3>3 DEF FailTask, Answered, Raised, TaskStatuses
    <3>4. CASE Complete(x)
      BY <3>4 DEF Complete, Answered, Raised, TaskStatuses
    <3>5. CASE Receive(x) \/ Fetch(x) \/ Prepare(x) \/ ExecuteTask(x) \/ RunEnds(x)
               \/ Close(x) \/ Closed(x) \/ CloseFails(x)
      BY <3>5 DEF Receive, Fetch, Prepare, ExecuteTask, RunEnds, Close, Closed, CloseFails
    <3>6. QED BY <3>1, <3>2, <3>3, <3>4, <3>5 DEF TalonStep
  <2>2. QED BY <1>1, <2>1 DEF TaskStatuses
<1>3. site' \in Sites \cup {NoTask}
  <2>1. CASE Prepare(x)
    BY <1>1, <2>1 DEF Prepare, Sites
  <2>2. CASE ~Prepare(x)
    BY <1>1, <2>2 DEF TalonStep, Receive, Fetch, Claim, BeginTask, ExecuteTask, RunEnds,
       FailTask, Close, Closed, CloseFails, Complete, backendVars
  <2>3. QED BY <2>1, <2>2
<1>4. agent' \in Agents \cup {NoTask} /\ ran'[x] \in Agents \cup {NoTask}
  <2>1. CASE ExecuteTask(x)
    <3>1. site # NoTask => [prompt |-> task[x], site |-> site] \in Agents
      BY <1>1, <2>1 DEF ExecuteTask, Agents, Sites
    <3>2. QED BY <1>1, <2>1, <3>1 DEF ExecuteTask
  <2>2. CASE ~ExecuteTask(x)
    <3>1. ran' = ran /\ (agent' = agent \/ agent' = NoTask)
      BY <2>2 DEF TalonStep, Receive, Fetch, Claim, Prepare, BeginTask, RunEnds,
       FailTask, Close, Closed, CloseFails, Complete, backendVars, ranVars
    <3>2. QED BY <1>1, <3>1
  <2>3. QED BY <2>1, <2>2
<1>5. finished' = finished \/ finished' = finished \cup {x}
  BY DEF TalonStep, Receive, Fetch, Claim, Prepare, BeginTask, ExecuteTask, RunEnds,
     FailTask, Close, Closed, CloseFails, Complete, ranVars
<1>6. mixed' \subseteq Executions /\ mixed \subseteq mixed'
  BY <1>1 DEF TalonStep, Receive, Fetch, Claim, Prepare, BeginTask, ExecuteTask, RunEnds,
     FailTask, Close, Closed, CloseFails, Complete, InSession
<1>7. raced' \subseteq TalonTasks /\ raced \subseteq raced'
  BY <1>1 DEF TalonStep, Receive, Fetch, Claim, Prepare, BeginTask, ExecuteTask, RunEnds,
     FailTask, Close, Closed, CloseFails, Complete
<1>8. QED BY <1>1, <1>2, <1>3, <1>4, <1>5, <1>6, <1>7

LEMMA TalonType == ASSUME TalonTypeInv, [TalonNext]_talonVars PROVE TalonTypeInv'
<1>1. ASSUME NEW x \in Executions, TalonStep(x) PROVE TalonTypeInv'
  <2>1. \A y \in Executions \ {x} : /\ at'[y] = at[y] /\ told'[y] = told[y]
                                    /\ task'[y] = task[y] /\ ran'[y] = ran[y]
    BY <1>1, TalonOthersStay
  <2>2. /\ at' \in [Executions -> AtStates] /\ told' \in [Executions -> {"", "failed", "completed"}]
        /\ task' \in [Executions -> TalonTasks \cup {NoTask}]
        /\ ran' \in [Executions -> Agents \cup {NoTask}]
    <3>1. /\ at \in [Executions -> AtStates]
          /\ told \in [Executions -> {"", "failed", "completed"}]
          /\ task \in [Executions -> TalonTasks \cup {NoTask}]
          /\ ran \in [Executions -> Agents \cup {NoTask}]
      BY DEF TalonTypeInv, TalonTypeOK, AtStates
    <3>2. QED BY <1>1, <3>1, TalonOthers, TalonStepAt, TalonStepShared
  <2>3. \A y \in Executions :
           /\ at'[y] \notin {"off", "over"} \/ ran'[y] # NoTask => task'[y] \in TalonTasks
           /\ at'[y] \in {"off", "fetch", "claim", "prepare", "begin", "execute"} =>
                 ran'[y] = NoTask
    BY <1>1, <2>1, TalonStepAt DEF TalonTypeInv
  <2>4. QED BY <1>1, <2>2, <2>3, TalonStepShared
            DEF TalonTypeInv, TalonTypeOK, AtStates, TaskStatuses, Sites, Agents
<1>2. ASSUME NEW k \in TalonTasks, Cancel(k) PROVE TalonTypeInv'
  BY <1>2 DEF Cancel, Answered, backendVars, ranVars, TalonTypeInv, TalonTypeOK, Agents
<1>3. CASE Restart
  BY <1>3 DEF Restart, ranVars, TalonTypeInv, TalonTypeOK, Agents
<1>4. CASE UNCHANGED talonVars
  BY <1>4 DEF talonVars, backendVars, ranVars, TalonTypeInv, TalonTypeOK, Agents
<1>5. QED BY <1>1, <1>2, <1>3, <1>4, TalonSteps

-----------------------------------------------------------------------------
(* Talon: a task is claimed once. *)

LEMMA ClaimedStep ==
    ASSUME TalonTypeInv, ClaimedStays, NEW x \in Executions, TalonStep(x), Past(x)'
    PROVE  status'[task'[x]] # "READY"
<1>1. TalonTypeInv'
  BY TalonType DEF TalonNext, TalonStep
<1>2. at[x] # "over" /\ at[x] \in AtStates /\ at'[x] \in AtStates
  BY TalonOthers, TalonTypes, TalonStepAt
<1>3. CASE at[x] = "off"
  <2>1. Receive(x)
    BY <1>3 DEF TalonStep, Receive, Fetch, Claim, Prepare, BeginTask, ExecuteTask, RunEnds,
       FailTask, Close, Closed, CloseFails, Complete
  <2>2. at'[x] \in {"fetch", "over"} /\ ran'[x] = ran[x] /\ ran[x] = NoTask
    BY <1>3, <2>1 DEF Receive, MovesTo, Ends, ranVars, TalonTypeInv, TalonTypeOK
  <2>3. QED BY <2>2 DEF Past, SessionStates
<1>4. CASE at[x] = "fetch"
  <2>1. Fetch(x)
    BY <1>4 DEF TalonStep, Receive, Fetch, Claim, Prepare, BeginTask, ExecuteTask, RunEnds,
       FailTask, Close, Closed, CloseFails, Complete
  <2>2. at'[x] \in {"claim", "over"} /\ ran'[x] = ran[x] /\ ran[x] = NoTask
    BY <1>4, <2>1 DEF Fetch, MovesTo, Ends, ranVars, TalonTypeInv, TalonTypeOK
  <2>3. QED BY <2>2 DEF Past, SessionStates
<1>5. CASE at[x] = "claim"
  <2>1. Claim(x) /\ task'[x] = task[x] /\ task[x] \in TalonTasks
    BY <1>5, TalonTypes, TalonStepAt
       DEF TalonStep, Receive, Fetch, Claim, Prepare, BeginTask, ExecuteTask, RunEnds,
           FailTask, Close, Closed, CloseFails, Complete
  <2>2. CASE Answered(task[x], "CLAIMED")
    BY <2>1, <2>2 DEF Answered, TalonTypeInv, TalonTypeOK
  <2>3. CASE ~Answered(task[x], "CLAIMED")
    <3>1. at'[x] = "over" /\ ran'[x] = ran[x] /\ ran[x] = NoTask
      BY <1>5, <2>1, <2>3 DEF Claim, Raised, Ends, ranVars, TalonTypeInv, TalonTypeOK
    <3>2. QED BY <3>1 DEF Past, SessionStates
  <2>4. QED BY <2>2, <2>3
<1>6. CASE at[x] \in SessionStates \cup {"upload"}
  <2>1. status[task[x]] # "READY" /\ task'[x] = task[x] /\ task[x] \in TalonTasks
    BY <1>6, TalonStepAt, TalonTypes DEF ClaimedStays, Past, SessionStates
  <2>2. QED BY <2>1, TalonStepShared
<1>7. QED BY <1>2, <1>3, <1>4, <1>5, <1>6 DEF AtStates, SessionStates

LEMMA ClaimedKept ==
    ASSUME TalonTypeInv, ClaimedStays, [TalonNext]_talonVars
    PROVE  ClaimedStays'
<1>1. ASSUME NEW x \in Executions, TalonStep(x), NEW y \in Executions, Past(y)'
      PROVE  status'[task'[y]] # "READY"
  <2>1. CASE y = x
    BY <1>1, <2>1, ClaimedStep
  <2>2. CASE y # x
    <3>1. at'[y] = at[y] /\ task'[y] = task[y] /\ ran'[y] = ran[y]
      BY <1>1, <2>2, TalonOthersStay
    <3>2. Past(y)
      BY <1>1, <3>1 DEF Past
    <3>3. status[task[y]] # "READY" /\ task[y] \in TalonTasks
      BY <3>2, TalonTypes DEF ClaimedStays, Past, SessionStates
    <3>4. QED BY <1>1, <3>1, <3>3, TalonStepShared
  <2>3. QED BY <2>1, <2>2
<1>2. ASSUME NEW k \in TalonTasks, Cancel(k) PROVE ClaimedStays'
  BY <1>2 DEF Cancel, Answered, backendVars, ranVars, ClaimedStays, Past, TalonTypeInv,
              TalonTypeOK, SessionStates
<1>3. CASE Restart
  BY <1>3 DEF Restart, ranVars, ClaimedStays, Past, SessionStates, TalonTypeInv, TalonTypeOK
<1>4. CASE UNCHANGED talonVars
  BY <1>4 DEF talonVars, backendVars, ranVars, ClaimedStays, Past, SessionStates
<1>5. QED BY <1>1, <1>2, <1>3, <1>4, TalonSteps DEF ClaimedStays

(* An execution starts to go by reading its task READY.                      *)
LEMMA GoingStep ==
    ASSUME TalonTypeInv, NEW x \in Executions, TalonStep(x), Going(x)'
    PROVE  /\ task'[x] = task[x]
           /\ \/ Going(x)
              \/ /\ status[task[x]] = "READY"
                 /\ raced' = IF \E y \in Executions \ {x} : at[y] = "claim" /\ task[y] = task[x]
                             THEN raced \cup {task[x]} ELSE raced
<1>1. at[x] # "over" /\ at[x] \in AtStates
  BY TalonOthers, TalonTypes
<1>2. CASE at[x] = "off"
  <2>1. Receive(x)
    BY <1>2 DEF TalonStep, Receive, Fetch, Claim, Prepare, BeginTask, ExecuteTask, RunEnds,
       FailTask, Close, Closed, CloseFails, Complete
  <2>2. at'[x] \in {"fetch", "over"} /\ ran'[x] = NoTask
    BY <1>2, <2>1 DEF Receive, MovesTo, Ends, ranVars, TalonTypeInv, TalonTypeOK
  <2>3. QED BY <2>2 DEF Going, Past, SessionStates
<1>3. CASE at[x] = "fetch"
  <2>1. Fetch(x) /\ task'[x] = task[x]
    BY <1>3, TalonStepAt
       DEF TalonStep, Receive, Fetch, Claim, Prepare, BeginTask, ExecuteTask, RunEnds,
           FailTask, Close, Closed, CloseFails, Complete
  <2>2. at'[x] \in {"claim", "over"} /\ ran'[x] = NoTask
    BY <1>3, <2>1 DEF Fetch, MovesTo, Ends, ranVars, TalonTypeInv, TalonTypeOK
  <2>3. at'[x] = "claim"
    BY <2>2 DEF Going, Past, SessionStates
  <2>4. MovesTo(x, "claim")
    BY <2>1, <2>3 DEF Fetch, Ends, TalonTypeInv, TalonTypeOK
  <2>5. ~Ends(x, "failed") /\ ~Ends(x, "")
    BY <2>3 DEF Ends, TalonTypeInv, TalonTypeOK
  <2>6. QED BY <2>1, <2>5 DEF Fetch, MayStart
<1>4. CASE at[x] \in SessionStates \cup {"claim", "upload"}
  BY <1>4, TalonStepAt DEF Going, Past, SessionStates
<1>5. QED BY <1>1, <1>2, <1>3, <1>4 DEF AtStates, SessionStates

LEMMA AloneStep ==
    ASSUME TalonTypeInv, ClaimedStays, RunsAlone, NEW x \in Executions, TalonStep(x),
           NEW y \in Executions, y # x, Going(x)', Going(y)', task'[x] = task'[y]
    PROVE  task'[x] \in raced'
<1>1. at'[y] = at[y] /\ task'[y] = task[y] /\ ran'[y] = ran[y]
  BY TalonOthersStay
<1>2. Going(y)
  BY <1>1 DEF Going, Past
<1>3. task'[x] = task[x] /\ task[x] = task[y]
  BY <1>1, GoingStep
<1>4. CASE Going(x)
  BY <1>2, <1>3, <1>4, TalonStepShared DEF RunsAlone
<1>5. CASE ~Going(x)
  <2>1. /\ status[task[x]] = "READY"
        /\ raced' = IF \E z \in Executions \ {x} : at[z] = "claim" /\ task[z] = task[x]
                    THEN raced \cup {task[x]} ELSE raced
    BY <1>5, GoingStep
  <2>2. at[y] = "claim"
    BY <1>2, <1>3, <2>1 DEF Going, ClaimedStays
  <2>3. QED BY <1>3, <2>1, <2>2
<1>6. QED BY <1>4, <1>5

LEMMA AloneKept ==
    ASSUME TalonTypeInv, ClaimedStays, RunsAlone, [TalonNext]_talonVars
    PROVE  RunsAlone'
<1>1. ASSUME NEW x \in Executions, TalonStep(x) PROVE RunsAlone'
  <2>1. ASSUME NEW a \in Executions, NEW b \in Executions, a # b, Going(a)', Going(b)',
               task'[a] = task'[b]
        PROVE  task'[a] \in raced'
    <3>1. CASE a = x \/ b = x
      BY <1>1, <2>1, <3>1, AloneStep
    <3>2. CASE a # x /\ b # x
      <4>1. /\ at'[a] = at[a] /\ task'[a] = task[a] /\ ran'[a] = ran[a]
            /\ at'[b] = at[b] /\ task'[b] = task[b] /\ ran'[b] = ran[b]
        BY <1>1, <3>2, TalonOthersStay
      <4>2. Going(a) /\ Going(b)
        BY <2>1, <4>1 DEF Going, Past
      <4>3. task[a] \in raced
        BY <2>1, <4>1, <4>2 DEF RunsAlone
      <4>4. QED BY <1>1, <4>1, <4>3, TalonStepShared
    <3>3. QED BY <3>1, <3>2
  <2>2. QED BY <2>1 DEF RunsAlone
<1>2. ASSUME NEW k \in TalonTasks, Cancel(k) PROVE RunsAlone'
  BY <1>2 DEF Cancel, ranVars, RunsAlone, Going, Past
<1>3. CASE Restart
  BY <1>3 DEF Restart, ranVars, RunsAlone, Going, Past, SessionStates, TalonTypeInv, TalonTypeOK
<1>4. CASE UNCHANGED talonVars
  BY <1>4 DEF talonVars, ranVars, RunsAlone, Going, Past
<1>5. QED BY <1>1, <1>2, <1>3, <1>4, TalonSteps

LEMMA AtMostOne ==
    ASSUME NEW S, \A a, b \in S : a = b
    PROVE  Cardinality(S) <= 1
<1>1. CASE S = {}
  BY <1>1, FS_EmptySet
<1>2. CASE S # {}
  <2>1. PICK a : S = {a}
    BY <1>2
  <2>2. QED BY <2>1, FS_Singleton
<1>3. QED BY <1>1, <1>2

(* Two clients may hand one task to Talon; only the execution that claims it *)
(* runs an agent, unless another read it READY before the claim              *)
(* (application/executor.py).                                                *)
THEOREM TasksOnce == TalonSpec => []TasksRunOnce
<1>1. TalonInit => TalonTypeInv /\ ClaimedStays /\ RunsAlone
  <2>1. TalonInit => \A x \in Executions : ~Going(x)
    BY DEF TalonInit, Going, Past, SessionStates
  <2>2. QED BY <2>1, TalonInitType DEF ClaimedStays, RunsAlone, Going
<1>2. TalonTypeInv /\ ClaimedStays /\ RunsAlone /\ [TalonNext]_talonVars =>
         (TalonTypeInv /\ ClaimedStays /\ RunsAlone)'
  BY TalonType, ClaimedKept, AloneKept
<1>3. RunsAlone => TasksRunOnce
  <2>1. ASSUME RunsAlone, NEW k \in TalonTasks \ raced
        PROVE  Cardinality({x \in Executions : task[x] = k /\ ran[x] # NoTask}) <= 1
    <3>1. \A a, b \in {x \in Executions : task[x] = k /\ ran[x] # NoTask} : a = b
      BY <2>1 DEF RunsAlone, Going, Past
    <3>2. QED BY <3>1, AtMostOne
  <2>2. QED BY <2>1 DEF TasksRunOnce
<1>4. QED BY <1>1, <1>2, <1>3, PTL DEF TalonSpec

-----------------------------------------------------------------------------
(* Talon: the backend of an execution that has it to itself. *)

LEMMA SessionOf ==
    TalonTypeInv => InSession = {x \in Executions : at[x] \in SessionStates}
BY DEF InSession, SessionStates, TalonTypeInv, TalonTypeOK

LEMMA SessionOfNext ==
    TalonTypeInv' => InSession' = {x \in Executions : at'[x] \in SessionStates}
BY DEF InSession, SessionStates, TalonTypeInv, TalonTypeOK

LEMMA SessionStep ==
    ASSUME TalonTypeInv, NEW x \in Executions, TalonStep(x)
    PROVE  \A y \in Executions \ {x} : y \in InSession' <=> y \in InSession
BY TalonOthersStay DEF InSession

(* Outside the session, or on the way into it. *)
LEMMA BackendOutside ==
    ASSUME TalonTypeInv, BackendClean, NEW x \in Executions,
           Receive(x) \/ Fetch(x) \/ Claim(x) \/ Complete(x)
    PROVE  BackendClean'
<1>1. TalonStep(x) /\ x \notin InSession /\ UNCHANGED <<site, agent>>
  BY DEF TalonStep, Receive, Fetch, Claim, Complete, InSession, backendVars
<1>2. CASE x \notin InSession'
  <2>1. InSession' = InSession
    BY <1>1, <1>2, SessionStep DEF InSession
  <2>2. mixed' = mixed
    <3>1. CASE Claim(x)
      <4>1. ~MovesTo(x, "prepare")
        BY <1>2 DEF MovesTo, InSession, TalonTypeInv, TalonTypeOK
      <4>2. QED BY <3>1, <4>1 DEF Claim
    <3>2. CASE ~Claim(x)
      BY <3>2 DEF Receive, Fetch, Complete
    <3>3. QED BY <3>1, <3>2
  <2>3. \A y \in InSession : at'[y] = at[y] /\ task'[y] = task[y]
    BY <1>1, TalonOthersStay DEF InSession
  <2>4. QED BY <1>1, <2>1, <2>2, <2>3 DEF BackendClean
<1>3. CASE x \in InSession'
  <2>1. Claim(x) /\ at'[x] = "prepare"
    BY <1>3 DEF Receive, Fetch, Claim, Complete, MovesTo, Ends, InSession, TalonTypeInv,
       TalonTypeOK
  <2>2. mixed' = IF InSession = {} THEN mixed ELSE mixed \cup InSession \cup {x}
    BY <2>1 DEF Claim, Ends, TalonTypeInv, TalonTypeOK
  <2>3. InSession' = InSession \cup {x}
    BY <1>1, <1>3, SessionStep DEF InSession
  <2>4. CASE InSession = {}
    BY <1>1, <2>1, <2>2, <2>3, <2>4 DEF BackendClean
  <2>5. CASE InSession # {}
    BY <2>2, <2>3, <2>5 DEF BackendClean
  <2>6. QED BY <2>4, <2>5
<1>4. QED BY <1>2, <1>3

SessionStepOf(x) ==
    \/ Prepare(x) \/ BeginTask(x) \/ ExecuteTask(x) \/ RunEnds(x) \/ FailTask(x)
    \/ Close(x) \/ Closed(x) \/ CloseFails(x)

LEMMA BackendInside ==
    ASSUME TalonTypeInv, BackendClean, NEW x \in Executions, SessionStepOf(x)
    PROVE  BackendClean'
<1>1. TalonStep(x) /\ x \in InSession
  BY DEF SessionStepOf, TalonStep, Prepare, BeginTask, ExecuteTask, RunEnds, FailTask, Close,
     Closed, CloseFails, InSession
<1>2. InSession' \subseteq InSession /\ mixed \subseteq mixed'
  BY <1>1, SessionStep, TalonStepShared DEF InSession
<1>3. x \notin InSession' => (site' = NoTask /\ agent' = NoTask) \/ mixed' = Executions
  <2>1. CASE Closed(x) \/ CloseFails(x)
    BY <2>1 DEF Closed, CloseFails
  <2>2. CASE ~(Closed(x) \/ CloseFails(x))
    BY <2>2 DEF SessionStepOf, Prepare, BeginTask, ExecuteTask, RunEnds, FailTask, Close,
       InSession, MovesTo, TalonTypeInv, TalonTypeOK
  <2>3. QED BY <2>1, <2>2
<1>4. InSession' = {} => x \notin InSession'
  OBVIOUS
<1>5. CASE x \in mixed
  <2>1. InSession \subseteq mixed
    BY <1>1, <1>5 DEF BackendClean
  <2>2. QED BY <1>2, <1>3, <2>1 DEF BackendClean
<1>6. CASE x \notin mixed
  <2>1. InSession = {x} /\ (at[x] = "prepare" => agent = NoTask)
        /\ (at[x] \in {"begin", "execute"} => agent = NoTask /\ site = SiteOf[task[x]])
    BY <1>1, <1>6 DEF BackendClean
  <2>2. task'[x] = task[x] /\ at'[x] # "prepare"
    <3>1. at[x] # "off"
      BY <1>1 DEF InSession
    <3>2. at'[x] # "prepare"
      BY DEF SessionStepOf, Prepare, BeginTask, ExecuteTask, RunEnds, FailTask, Close,
         Closed, CloseFails, MovesTo, TalonTypeInv, TalonTypeOK
    <3>3. QED BY <1>1, <3>1, <3>2, TalonStepAt
  <2>3. at'[x] \in {"begin", "execute"} => agent' = NoTask /\ site' = SiteOf[task[x]]
    <3>1. CASE Prepare(x)
      BY <2>1, <3>1 DEF Prepare, MovesTo, TalonTypeInv, TalonTypeOK
    <3>2. CASE BeginTask(x)
      BY <2>1, <3>2 DEF BeginTask, MovesTo, backendVars, TalonTypeInv, TalonTypeOK
    <3>3. CASE ~(Prepare(x) \/ BeginTask(x))
      BY <3>3 DEF SessionStepOf, ExecuteTask, RunEnds, FailTask, Close, Closed, CloseFails,
         MovesTo, TalonTypeInv, TalonTypeOK
    <3>4. QED BY <3>1, <3>2, <3>3
  <2>4. QED BY <1>2, <1>3, <2>1, <2>2, <2>3 DEF BackendClean
<1>7. QED BY <1>5, <1>6

LEMMA BackendKept ==
    ASSUME TalonTypeInv, BackendClean, [TalonNext]_talonVars
    PROVE  BackendClean'
<1>1. ASSUME NEW x \in Executions, TalonStep(x) PROVE BackendClean'
  BY <1>1, BackendOutside, BackendInside DEF TalonStep, SessionStepOf
<1>2. ASSUME NEW k \in TalonTasks, Cancel(k) PROVE BackendClean'
  BY <1>2 DEF Cancel, backendVars, BackendClean, InSession
<1>3. CASE Restart
  <2>1. InSession' = {} /\ site' = NoTask /\ agent' = NoTask
    BY <1>3 DEF Restart, InSession
  <2>2. QED BY <2>1 DEF BackendClean
<1>4. CASE UNCHANGED talonVars
  BY <1>4 DEF talonVars, backendVars, BackendClean, InSession
<1>5. QED BY <1>1, <1>2, <1>3, <1>4, TalonSteps

LEMMA OwnStep ==
    ASSUME TalonTypeInv, BackendClean, OwnAgent, NEW x \in Executions, TalonStep(x)
    PROVE  /\ x \notin mixed' /\ ran'[x] # NoTask =>
                 ran'[x] = [prompt |-> task'[x], site |-> SiteOf[task'[x]]]
           /\ told'[x] = "completed" => x \in finished'
           /\ at'[x] = "upload" => x \in finished'
<1>1. mixed \subseteq mixed' /\ finished \subseteq finished'
  BY TalonStepShared
<1>2. ASSUME x \notin mixed', ran'[x] # NoTask
      PROVE  ran'[x] = [prompt |-> task'[x], site |-> SiteOf[task'[x]]]
  <2>1. CASE at[x] = "execute"
    <3>1. ExecuteTask(x) /\ task'[x] = task[x] /\ ran[x] = NoTask
      BY <2>1 DEF TalonStep, Receive, Fetch, Claim, Prepare, BeginTask, ExecuteTask, RunEnds,
         FailTask, Close, Closed, CloseFails, Complete, TalonTypeInv
    <3>2. agent = NoTask /\ site = SiteOf[task[x]]
      BY <1>1, <1>2, <2>1 DEF BackendClean, InSession
    <3>3. ran'[x] = agent'
      BY <1>2, <3>1 DEF ExecuteTask, TalonTypeInv, TalonTypeOK
    <3>4. agent' = [prompt |-> task[x], site |-> site]
      BY <1>2, <3>1, <3>2 DEF ExecuteTask, TalonTypeInv, TalonTypeOK
    <3>5. QED BY <3>1, <3>2, <3>3, <3>4
  <2>2. CASE at[x] # "execute"
    <3>1. ran'[x] = ran[x] /\ at[x] # "off"
      BY <1>2, <2>2, TalonStepAt DEF TalonTypeInv
    <3>2. task'[x] = task[x]
      BY <3>1, TalonStepAt
    <3>3. QED BY <1>1, <1>2, <3>1, <3>2 DEF OwnAgent
  <2>3. QED BY <2>1, <2>2
<1>3. told'[x] = "completed" => x \in finished'
  <2>1. CASE Complete(x)
    <3>1. x \in finished
      BY <2>1 DEF Complete, OwnAgent
    <3>2. QED BY <1>1, <3>1
  <2>2. CASE ~Complete(x)
    <3>1. told'[x] = told[x] \/ told'[x] # "completed"
      BY <2>2 DEF TalonStep, Receive, Fetch, Claim, Prepare, BeginTask, ExecuteTask, RunEnds,
         FailTask, Close, Closed, CloseFails, Ends, TalonTypeInv, TalonTypeOK
    <3>2. QED BY <1>1, <3>1 DEF OwnAgent
  <2>3. QED BY <2>1, <2>2
<1>4. at'[x] = "upload" => x \in finished'
  <2>1. CASE Closed(x)
    BY <2>1 DEF Closed, MovesTo, ranVars, TalonTypeInv, TalonTypeOK
  <2>2. CASE ~Closed(x)
    BY <2>2 DEF TalonStep, Receive, Fetch, Claim, Prepare, BeginTask, ExecuteTask, RunEnds,
         FailTask, Close, CloseFails, Complete, MovesTo, Ends, TalonTypeInv, TalonTypeOK
  <2>3. QED BY <2>1, <2>2
<1>5. QED BY <1>2, <1>3, <1>4

LEMMA OwnKept ==
    ASSUME TalonTypeInv, BackendClean, OwnAgent, [TalonNext]_talonVars
    PROVE  OwnAgent'
<1>1. ASSUME NEW x \in Executions, TalonStep(x) PROVE OwnAgent'
  <2>1. ASSUME NEW y \in Executions, y # x
        PROVE  /\ y \notin mixed' /\ ran'[y] # NoTask =>
                     ran'[y] = [prompt |-> task'[y], site |-> SiteOf[task'[y]]]
               /\ told'[y] = "completed" => y \in finished'
               /\ at'[y] = "upload" => y \in finished'
    <3>1. /\ at'[y] = at[y] /\ told'[y] = told[y] /\ task'[y] = task[y] /\ ran'[y] = ran[y]
          /\ mixed \subseteq mixed' /\ finished \subseteq finished'
      BY <1>1, <2>1, TalonOthersStay, TalonStepShared
    <3>2. QED BY <3>1 DEF OwnAgent
  <2>2. QED BY <1>1, <2>1, OwnStep DEF OwnAgent
<1>2. ASSUME NEW k \in TalonTasks, Cancel(k) PROVE OwnAgent'
  BY <1>2 DEF Cancel, ranVars, OwnAgent
<1>3. CASE Restart
  BY <1>3 DEF Restart, ranVars, OwnAgent
<1>4. CASE UNCHANGED talonVars
  BY <1>4 DEF talonVars, ranVars, OwnAgent
<1>5. QED BY <1>1, <1>2, <1>3, <1>4, TalonSteps

(* An execution that shared the backend with none runs its own task's prompt *)
(* on its own task's site, and reports completion only of an agent that came *)
(* to its end (application/executor.py, adapters/browser).                   *)
THEOREM OwnPrompt == TalonSpec => []OwnPromptOnOwnSite
<1>1. TalonInit => TalonTypeInv /\ BackendClean /\ OwnAgent
  <2>1. TalonInit => InSession = {}
    BY DEF TalonInit, InSession
  <2>2. QED BY <2>1, TalonInitType DEF TalonInit, BackendClean, OwnAgent
<1>2. TalonTypeInv /\ BackendClean /\ OwnAgent /\ [TalonNext]_talonVars =>
         (TalonTypeInv /\ BackendClean /\ OwnAgent)'
  BY TalonType, BackendKept, OwnKept
<1>3. OwnAgent => OwnPromptOnOwnSite
  BY DEF OwnAgent, OwnPromptOnOwnSite
<1>4. QED BY <1>1, <1>2, <1>3, PTL DEF TalonSpec

-----------------------------------------------------------------------------
(* WebClient: the inductive invariants. *)

Flights == [pc : {"none", "sent", "served"}, kind : {"", "refresh", "login", "switch", "logout"},
            carries : Nat, answer : {"", "done", "refused", "expired", "down"}, gives : Nat]
Tokens == [of : Accounts \cup {NoAccount}, state : {"none", "live", "rotated", "revoked"}]
TabStates == [page : {"closed", "login", "app"}, token : Accounts \cup {NoAccount},
              user : Accounts \cup {NoAccount}]

KindOf(s) == IF s = "person" THEN {"login", "switch", "logout"} ELSE {"refresh"}

(* A request under way is of the kind its slot has; only a new token is      *)
(* given with an answer that all is done.                                    *)
FlightWellFormed(s, f) ==
    /\ f.pc # "none" => f.kind \in KindOf(s)
    /\ f.pc \in {"none", "sent"} => f.answer = ""
    /\ f.pc = "served" => f.answer # ""
    /\ f.answer = "done" => f.gives # 0 /\ f.kind # "logout"

FlightsTyped ==
    /\ flight \in [Tabs -> [Slots -> Flights]]
    /\ \A t \in Tabs, s \in Slots :
          /\ FlightWellFormed(s, flight[t][s])
          /\ flight[t][s].carries <= minted /\ flight[t][s].gives <= minted

TokensTyped ==
    /\ refresh \in [1..MaxRequests -> Tokens]
    /\ \A n \in 1..MaxRequests : refresh[n].of = NoAccount <=> n > minted

SentSet == {ts \in Tabs \X Slots : flight[ts[1]][ts[2]].pc = "sent"}

(* Every token made answers a request sent. *)
RequestsCounted ==
    /\ IsFiniteSet(SentSet)
    /\ minted + Cardinality(SentSet) <= requests

CountersTyped ==
    /\ cookie \in Nat /\ minted \in Nat /\ requests \in Nat
    /\ cookie <= minted /\ requests <= MaxRequests
    /\ crossed \in BOOLEAN /\ elsewhere \subseteq Tabs /\ stranded \subseteq 1..MaxRequests

TabsTyped == tab \in [Tabs -> TabStates]

WebTypeInv ==
    CountersTyped /\ TabsTyped /\ TokensTyped /\ FlightsTyped /\ RequestsCounted

TabAgrees(t) ==
    /\ tab[t].token \in {NoAccount, tab[t].user}
    /\ cookie # 0 /\ tab[t].user # NoAccount => refresh[cookie].of = tab[t].user

(* The cookie is the live token, or one that a failed switch has revoked.    *)
CookieLive == cookie = 0 \/ State(cookie) = "live" \/ cookie \in stranded

(* While no two requests overlap, the one under way carries the cookie, and  *)
(* an answer that says nothing changed is true.                              *)
FlightAgrees(t, s) ==
    LET f == flight[t][s] IN
    /\ f.carries = cookie
    /\ f.answer = "done" =>
          /\ State(f.gives) = "live"
          /\ f.kind = "refresh" => cookie # 0 /\ refresh[f.gives].of = refresh[cookie].of
    /\ f.answer \in {"", "refused", "down"} => CookieLive
    /\ s = "refresh" /\ t \notin elsewhere => tab[t].user # NoAccount

OneAtATime ==
    ~crossed =>
        /\ \A x, y \in Pending : x = y
        /\ \A x \in Pending : FlightAgrees(x[1], x[2])
        /\ \A t \in Tabs \ elsewhere : TabAgrees(t)
        /\ Pending = {} => CookieLive

-----------------------------------------------------------------------------
(* WebClient: types. *)

(* One flight changes. *)
LEMMA FlightStep ==
    ASSUME FlightsTyped, NEW t \in Tabs, NEW s \in Slots, NEW f,
           flight' = [flight EXCEPT ![t][s] = f]
    PROVE  /\ flight'[t][s] = f
           /\ \A u \in Tabs, z \in Slots :
                 <<u, z>> # <<t, s>> => flight'[u][z] = flight[u][z]
           /\ f \in Flights => flight' \in [Tabs -> [Slots -> Flights]]
<1>1. flight \in [Tabs -> [Slots -> Flights]]
  BY DEF FlightsTyped
<1>2. PICK g : g = [flight[t] EXCEPT ![s] = f]
  OBVIOUS
<1>3. flight' = [flight EXCEPT ![t] = g]
  BY <1>2
<1>4. g[s] = f /\ \A z \in Slots : z # s => g[z] = flight[t][z]
  BY <1>1, <1>2
<1>5. f \in Flights => g \in [Slots -> Flights]
  BY <1>1, <1>2
<1>6. flight'[t] = g /\ \A u \in Tabs : u # t => flight'[u] = flight[u]
  BY <1>1, <1>3
<1>7. f \in Flights => flight' \in [Tabs -> [Slots -> Flights]]
  BY <1>1, <1>3, <1>5
<1>8. QED BY <1>4, <1>6, <1>7

LEMMA FlightsStepType ==
    ASSUME FlightsTyped, NEW t \in Tabs, NEW s \in Slots, NEW f \in Flights,
           flight' = [flight EXCEPT ![t][s] = f], FlightWellFormed(s, f),
           f.carries <= minted', f.gives <= minted', minted \in Nat, minted' \in Nat,
           minted <= minted'
    PROVE  FlightsTyped'
<1>1. flight' \in [Tabs -> [Slots -> Flights]]
  BY FlightStep
<1>2. ASSUME NEW u \in Tabs, NEW z \in Slots
      PROVE  /\ FlightWellFormed(z, flight'[u][z])
             /\ flight'[u][z].carries <= minted' /\ flight'[u][z].gives <= minted'
  <2>1. CASE u = t /\ z = s
    BY <2>1, FlightStep
  <2>2. CASE ~(u = t /\ z = s)
    <3>1. flight'[u][z] = flight[u][z]
      BY <2>2, FlightStep
    <3>2. /\ FlightWellFormed(z, flight[u][z]) /\ flight[u][z] \in Flights
          /\ flight[u][z].carries <= minted /\ flight[u][z].gives <= minted
      BY DEF FlightsTyped
    <3>3. flight[u][z].carries \in Nat /\ flight[u][z].gives \in Nat
      BY <3>2 DEF Flights
    <3>4. QED BY <3>1, <3>2, <3>3
  <2>3. QED BY <2>1, <2>2
<1>3. QED BY <1>1, <1>2 DEF FlightsTyped, FlightWellFormed, KindOf

LEMMA NoFlightType == NoFlight \in Flights /\ \A s \in Slots : FlightWellFormed(s, NoFlight)
BY DEF NoFlight, Flights, FlightWellFormed

LEMMA SentType ==
    ASSUME CountersTyped, NEW s \in Slots, NEW kind \in KindOf(s)
    PROVE  /\ Sent(kind) \in Flights /\ FlightWellFormed(s, Sent(kind))
           /\ Sent(kind).pc = "sent" /\ Sent(kind).carries = cookie /\ Sent(kind).gives = 0
           /\ Sent(kind).kind = kind /\ Sent(kind).answer = ""
<1>1. kind \in {"refresh", "login", "switch", "logout"} /\ cookie \in Nat
  BY DEF KindOf, CountersTyped
<1>2. /\ Sent(kind).pc = "sent" /\ Sent(kind).carries = cookie /\ Sent(kind).gives = 0
      /\ Sent(kind).kind = kind /\ Sent(kind).answer = ""
  BY DEF Sent, NoFlight
<1>3. Sent(kind) \in Flights
  BY <1>1 DEF Sent, NoFlight, Flights
<1>4. QED BY <1>2, <1>3 DEF FlightWellFormed

(* The requests sent, after a request is sent and after one is answered.     *)
LEMMA SentMore ==
    ASSUME RequestsCounted, CountersTyped, NEW x, SentSet' \subseteq SentSet \cup {x},
           minted' = minted, requests' = requests + 1
    PROVE  RequestsCounted'
<1>1. IsFiniteSet(SentSet) /\ Cardinality(SentSet) \in Nat
      /\ minted + Cardinality(SentSet) <= requests
  BY FS_CardinalityType DEF RequestsCounted
<1>2. IsFiniteSet(SentSet \cup {x}) /\ Cardinality(SentSet \cup {x}) <= Cardinality(SentSet) + 1
      /\ Cardinality(SentSet \cup {x}) \in Nat
  <2>1. /\ IsFiniteSet(SentSet \cup {x})
        /\ Cardinality(SentSet \cup {x}) = IF x \in SentSet THEN Cardinality(SentSet)
                                                            ELSE Cardinality(SentSet) + 1
    BY <1>1, FS_AddElement
  <2>2. QED BY <1>1, <2>1
<1>3. PICK T : T = SentSet'
  OBVIOUS
<1>4. IsFiniteSet(T) /\ Cardinality(T) <= Cardinality(SentSet \cup {x})
      /\ Cardinality(T) \in Nat
  BY <1>2, <1>3, FS_Subset, FS_CardinalityType
<1>5. minted + Cardinality(T) <= requests + 1
  BY <1>1, <1>2, <1>4 DEF CountersTyped
<1>6. QED BY <1>3, <1>4, <1>5 DEF RequestsCounted

LEMMA SentLess ==
    ASSUME RequestsCounted, CountersTyped, NEW x \in SentSet, SentSet' = SentSet \ {x},
           minted' \in {minted, minted + 1}, requests' = requests
    PROVE  RequestsCounted' /\ minted + 1 <= requests
<1>1. IsFiniteSet(SentSet) /\ Cardinality(SentSet) \in Nat
      /\ minted + Cardinality(SentSet) <= requests
  BY FS_CardinalityType DEF RequestsCounted
<1>2. PICK T : T = SentSet'
  OBVIOUS
<1>3. IsFiniteSet(T) /\ Cardinality(T) = Cardinality(SentSet) - 1
  BY <1>1, <1>2, FS_RemoveElement
<1>4. Cardinality(T) \in Nat
  BY <1>3, FS_CardinalityType
<1>5. minted + 1 <= requests /\ minted' + Cardinality(T) <= requests
  BY <1>1, <1>3, <1>4 DEF CountersTyped
<1>6. QED BY <1>2, <1>3, <1>5 DEF RequestsCounted

LEMMA SentFewer ==
    ASSUME RequestsCounted, CountersTyped, SentSet' \subseteq SentSet,
           minted' = minted, requests' = requests
    PROVE  RequestsCounted'
<1>1. IsFiniteSet(SentSet) /\ Cardinality(SentSet) \in Nat
      /\ minted + Cardinality(SentSet) <= requests
  BY FS_CardinalityType DEF RequestsCounted
<1>2. PICK T : T = SentSet'
  OBVIOUS
<1>3. IsFiniteSet(T) /\ Cardinality(T) <= Cardinality(SentSet) /\ Cardinality(T) \in Nat
  BY <1>1, <1>2, FS_Subset, FS_CardinalityType
<1>4. minted + Cardinality(T) <= requests
  BY <1>1, <1>3 DEF CountersTyped
<1>5. QED BY <1>2, <1>3, <1>4 DEF RequestsCounted

LEMMA MoreRequests ==
    ASSUME CountersTyped, requests < MaxRequests, requests' = requests + 1,
           crossed' = (crossed \/ Pending # {}), elsewhere' \subseteq elsewhere,
           cookie' = cookie, minted' = minted, stranded' = stranded
    PROVE  CountersTyped'
<1>1. requests' \in Nat /\ requests' <= MaxRequests
  BY WebClientAssumption DEF CountersTyped
<1>2. crossed' \in BOOLEAN
  OBVIOUS
<1>3. QED BY <1>1, <1>2 DEF CountersTyped

LEMMA SendType ==
    ASSUME WebTypeInv, NEW t \in Tabs, NEW s \in Slots, NEW kind \in KindOf(s),
           Send(t, s, kind), UNCHANGED tab
    PROVE  WebTypeInv'
<1>1. PICK f : f = Sent(kind)
  OBVIOUS
<1>2. /\ f \in Flights /\ FlightWellFormed(s, f) /\ f.pc = "sent" /\ f.carries = cookie
      /\ f.gives = 0
  BY <1>1, SentType DEF WebTypeInv
<1>3. flight' = [flight EXCEPT ![t][s] = f]
  BY <1>1 DEF Send
<1>9. /\ minted \in Nat /\ minted' = minted /\ cookie <= minted /\ cookie \in Nat
      /\ f.carries <= minted' /\ f.gives <= minted' /\ minted <= minted'
  BY <1>2 DEF Send, WebTypeInv, CountersTyped
<1>4. FlightsTyped'
  BY <1>2, <1>3, <1>9, FlightsStepType DEF WebTypeInv
<1>5. SentSet' \subseteq SentSet \cup {<<t, s>>}
  <2>1. ASSUME NEW u \in Tabs, NEW z \in Slots, flight'[u][z].pc = "sent",
               <<u, z>> # <<t, s>>
        PROVE  flight[u][z].pc = "sent"
    BY <1>3, <2>1, FlightStep DEF WebTypeInv
  <2>2. QED BY <2>1 DEF SentSet
<1>6. RequestsCounted'
  BY <1>5, SentMore DEF Send, WebTypeInv
<1>7. CountersTyped'
  BY MoreRequests DEF Send, WebTypeInv
<1>8. QED BY <1>4, <1>6, <1>7 DEF WebTypeInv, Send, TabsTyped, TokensTyped

LEMMA LoadType ==
    ASSUME WebTypeInv, NEW t \in Tabs, Load(t)
    PROVE  WebTypeInv'
<1>1. PICK f : f = Sent("refresh")
  OBVIOUS
<1>2. /\ f \in Flights /\ FlightWellFormed("mount", f) /\ f.pc = "sent" /\ f.carries = cookie
      /\ f.gives = 0
  BY <1>1, SentType DEF WebTypeInv, Slots, KindOf
<1>3. PICK g : g = [s \in Slots |-> IF s = "mount" THEN f ELSE NoFlight]
  OBVIOUS
<1>4. /\ g \in [Slots -> Flights]
      /\ \A s \in Slots : FlightWellFormed(s, g[s]) /\ g[s].carries \in {0, cookie}
                          /\ g[s].gives = 0 /\ (s # "mount" => g[s].pc = "none")
  BY <1>2, <1>3, NoFlightType DEF NoFlight
<1>5. flight' = [flight EXCEPT ![t] = g]
  BY <1>1, <1>3 DEF Load
<1>6. flight'[t] = g /\ \A u \in Tabs : u # t => flight'[u] = flight[u]
  BY <1>5 DEF WebTypeInv, FlightsTyped
<1>7. FlightsTyped'
  <2>1. flight' \in [Tabs -> [Slots -> Flights]]
    BY <1>4, <1>5 DEF WebTypeInv, FlightsTyped
  <2>2. \A u \in Tabs, s \in Slots :
           /\ FlightWellFormed(s, flight'[u][s])
           /\ flight'[u][s].carries <= minted /\ flight'[u][s].gives <= minted
    BY <1>4, <1>6 DEF WebTypeInv, FlightsTyped, CountersTyped
  <2>3. QED BY <2>1, <2>2 DEF FlightsTyped, FlightWellFormed, KindOf, Load
<1>8. SentSet' \subseteq SentSet \cup {<<t, "mount">>}
  <2>1. ASSUME NEW u \in Tabs, NEW z \in Slots, flight'[u][z].pc = "sent",
               <<u, z>> # <<t, "mount">>
        PROVE  flight[u][z].pc = "sent"
    BY <1>4, <1>6, <2>1
  <2>2. QED BY <2>1 DEF SentSet
<1>9. RequestsCounted'
  BY <1>8, SentMore DEF Load, WebTypeInv
<1>10. CountersTyped'
  BY MoreRequests DEF Load, WebTypeInv
<1>11. TabsTyped'
  <2>1. [ClosedTab EXCEPT !.page = PageFor(cookie)] \in TabStates
    BY DEF ClosedTab, TabStates, PageFor
  <2>2. QED BY <2>1 DEF Load, WebTypeInv, TabsTyped
<1>12. QED BY <1>7, <1>9, <1>10, <1>11 DEF WebTypeInv, Load, TokensTyped

(* An answer to a request sent. *)
LEMMA AnswersType ==
    ASSUME WebTypeInv, NEW t \in Tabs, NEW s \in Slots, flight[t][s].pc = "sent",
           NEW answer \in {"done", "refused", "expired", "down"}, NEW gives \in Nat,
           answer = "done" => gives # 0 /\ flight[t][s].kind # "logout",
           Answers(t, s, answer, gives),
           minted' \in {minted, minted + 1}, gives <= minted', requests' = requests
    PROVE  FlightsTyped' /\ RequestsCounted' /\ minted + 1 <= requests
<1>1. PICK x : x = flight[t][s]
  OBVIOUS
<1>2. x \in Flights /\ FlightWellFormed(s, x) /\ x.carries <= minted /\ x.pc = "sent"
  BY <1>1 DEF WebTypeInv, FlightsTyped
<1>3. PICK f : f = [x EXCEPT !.pc = "served", !.answer = answer, !.gives = gives]
  OBVIOUS
<1>4. flight' = [flight EXCEPT ![t][s] = f]
  BY <1>1, <1>3 DEF Answers, WebTypeInv, FlightsTyped
<1>5. f \in Flights
  BY <1>2, <1>3 DEF Flights
<1>6. /\ f.pc = "served" /\ f.answer = answer /\ f.gives = gives
      /\ f.kind = x.kind /\ f.carries = x.carries
  BY <1>2, <1>3 DEF Flights
<1>7. FlightWellFormed(s, f)
  BY <1>1, <1>2, <1>6 DEF FlightWellFormed
<1>13. x.carries \in Nat
  BY <1>2 DEF Flights
<1>8. minted \in Nat /\ minted' \in Nat /\ minted <= minted' /\ x.carries <= minted'
  BY <1>2, <1>13 DEF WebTypeInv, CountersTyped
<1>9. FlightsTyped'
  BY <1>4, <1>5, <1>6, <1>7, <1>8, FlightsStepType DEF WebTypeInv
<1>10. <<t, s>> \in SentSet
  BY DEF SentSet
<1>11. SentSet' = SentSet \ {<<t, s>>}
  <2>1. ASSUME NEW u \in Tabs, NEW z \in Slots
        PROVE  flight'[u][z].pc = "sent" <=> flight[u][z].pc = "sent" /\ <<u, z>> # <<t, s>>
    <3>1. FlightsTyped
      BY DEF WebTypeInv
    <3>6. flight'[t][s] = f
      BY <1>4, <3>1, FlightStep
    <3>7. ASSUME <<u, z>> # <<t, s>>
          PROVE  flight'[u][z] = flight[u][z]
      BY <1>4, <3>1, <3>7, FlightStep
    <3>2. /\ flight'[t][s] = f
          /\ <<u, z>> # <<t, s>> => flight'[u][z] = flight[u][z]
      BY <3>6, <3>7
    <3>3. CASE <<u, z>> = <<t, s>>
      BY <1>6, <3>2, <3>3
    <3>4. CASE <<u, z>> # <<t, s>>
      BY <3>2, <3>4
    <3>5. QED BY <3>3, <3>4
  <2>2. QED BY <2>1 DEF SentSet
<1>12. QED BY <1>9, <1>10, <1>11, SentLess DEF WebTypeInv

LEMMA MintType ==
    ASSUME CountersTyped, TokensTyped, NEW n \in Nat, n <= minted, NEW a \in Accounts,
           NEW old \in {"live", "rotated", "revoked"},
           Mint(n, a, old), minted + 1 <= requests
    PROVE  /\ TokensTyped' /\ minted' = minted + 1
           /\ refresh'[minted + 1] = [of |-> a, state |-> "live"]
           /\ \A k \in 1..MaxRequests : k <= minted => refresh'[k].of = refresh[k].of
           /\ \A k \in 1..MaxRequests : k <= minted /\ k # n => refresh'[k] = refresh[k]
<1>1. minted' = minted + 1 /\ minted + 1 \in 1..MaxRequests
  BY WebClientAssumption DEF CountersTyped, Mint
<1>2. /\ refresh' = [k \in 1..MaxRequests |->
           IF k = minted + 1 THEN [of |-> a, state |-> "live"]
           ELSE IF k = n THEN [refresh[k] EXCEPT !.state = old] ELSE refresh[k]]
  BY DEF Mint
<1>3. ASSUME NEW k \in 1..MaxRequests
      PROVE  /\ refresh'[k] \in Tokens
             /\ k # minted + 1 => refresh'[k].of = refresh[k].of
             /\ k # minted + 1 /\ k # n => refresh'[k] = refresh[k]
             /\ k = minted + 1 => refresh'[k] = [of |-> a, state |-> "live"]
  <2>1. refresh[k] \in Tokens
    BY DEF TokensTyped
  <2>2. CASE k = minted + 1
    BY <1>2, <2>2 DEF Tokens
  <2>3. CASE k # minted + 1 /\ k = n
    <3>1. refresh'[k] = [refresh[k] EXCEPT !.state = old]
      BY <1>2, <2>3
    <3>2. QED BY <2>1, <2>3, <3>1 DEF Tokens
  <2>4. CASE k # minted + 1 /\ k # n
    BY <1>2, <2>1, <2>4
  <2>5. QED BY <2>2, <2>3, <2>4
<1>4. refresh' \in [1..MaxRequests -> Tokens]
  BY <1>2, <1>3
<1>5. \A k \in 1..MaxRequests : refresh'[k].of = NoAccount <=> k > minted + 1
  <2>1. ASSUME NEW k \in 1..MaxRequests
        PROVE  refresh'[k].of = NoAccount <=> k > minted + 1
    <3>1. CASE k = minted + 1
      BY <1>1, <1>3, <3>1, WebClientAssumption
    <3>2. CASE k # minted + 1
      BY <1>1, <1>3, <3>2 DEF TokensTyped, CountersTyped
    <3>3. QED BY <3>1, <3>2
  <2>2. QED BY <2>1
<1>6. \A k \in 1..MaxRequests : k <= minted => k # minted + 1
  BY DEF CountersTyped
<1>7. TokensTyped'
  BY <1>1, <1>4, <1>5 DEF TokensTyped
<1>8. QED BY <1>1, <1>3, <1>6, <1>7

LEMMA RoomToMint ==
    ASSUME WebTypeInv, NEW t \in Tabs, NEW s \in Slots, flight[t][s].pc = "sent"
    PROVE  minted + 1 <= requests /\ minted + 1 \in 1..MaxRequests
<1>1. /\ IsFiniteSet(SentSet) /\ Cardinality(SentSet) \in Nat
      /\ minted + Cardinality(SentSet) <= requests
  BY FS_CardinalityType DEF RequestsCounted, WebTypeInv
<1>2. <<t, s>> \in SentSet
  BY DEF SentSet
<1>3. Cardinality(SentSet) # 0
  BY <1>1, <1>2, FS_EmptySet
<1>4. QED BY <1>1, <1>3, WebClientAssumption DEF WebTypeInv, CountersTyped

(* The token a request carries is as it was, or left stranded.               *)
CarriedKept(t, s) ==
    LET n == flight[t][s].carries IN
    n = 0 \/ refresh'[n] = refresh[n] \/ n \in stranded'

(* What serving a request sent does, whichever request it is.                *)
Served(t, s, answer, gives) ==
    /\ flight[t][s].pc = "sent" /\ Answers(t, s, answer, gives)
    /\ minted' \in {minted, minted + 1} /\ gives <= minted'
    /\ answer = "done" => gives # 0 /\ flight[t][s].kind # "logout"
    /\ TokensTyped'
    /\ \A k \in 1..MaxRequests : k <= minted => refresh'[k].of = refresh[k].of
    /\ answer = "done" =>
          /\ gives \in 1..MaxRequests /\ refresh'[gives].state = "live"
          /\ flight[t][s].kind = "refresh" =>
                /\ flight[t][s].carries # 0
                /\ refresh'[gives].of = refresh[flight[t][s].carries].of
    /\ ~crossed' /\ answer \in {"refused", "down"} => CarriedKept(t, s)
    /\ stranded \subseteq stranded' /\ stranded' \subseteq 1..MaxRequests
    /\ crossed' \in BOOLEAN /\ (~crossed' => ~crossed)
    /\ UNCHANGED <<cookie, tab, elsewhere, requests>>

ServedSomehow(t, s) ==
    \E answer \in {"done", "refused", "expired", "down"}, gives \in Nat :
        Served(t, s, answer, gives)

LEMMA CarriedToken ==
    ASSUME WebTypeInv, NEW t \in Tabs, NEW s \in Slots, NEW n, n = flight[t][s].carries
    PROVE  /\ n \in Nat /\ n <= minted
           /\ State(n) # "none" => n # 0
           /\ n # 0 => n \in 1..MaxRequests /\ refresh[n].of \in Accounts /\ refresh[n] \in Tokens
<1>1. n \in Nat /\ n <= minted
  BY DEF WebTypeInv, FlightsTyped, Flights
<1>2. minted \in Nat /\ minted <= MaxRequests /\ MaxRequests \in Nat
  <2>1. /\ IsFiniteSet(SentSet) /\ Cardinality(SentSet) \in Nat
        /\ minted + Cardinality(SentSet) <= requests
    BY FS_CardinalityType DEF RequestsCounted, WebTypeInv
  <2>2. QED BY <2>1, WebClientAssumption DEF WebTypeInv, CountersTyped
<1>3. State(n) # "none" => n # 0
  BY DEF State
<1>4. ASSUME n # 0
      PROVE  n \in 1..MaxRequests /\ refresh[n].of \in Accounts /\ refresh[n] \in Tokens
  <2>1. n \in 1..MaxRequests /\ ~(n > minted)
    BY <1>1, <1>2, <1>4
  <2>2. refresh[n] \in Tokens /\ refresh[n].of # NoAccount
    BY <2>1 DEF WebTypeInv, TokensTyped
  <2>3. QED BY <2>1, <2>2 DEF Tokens
<1>5. QED BY <1>1, <1>3, <1>4

(* A token is made, and the answer gives it or none. *)
LEMMA MintServes ==
    ASSUME WebTypeInv, NEW t \in Tabs, NEW s \in Slots, flight[t][s].pc = "sent",
           flight[t][s].kind # "logout",
           NEW n \in Nat, n <= minted, NEW a \in Accounts,
           NEW old \in {"live", "rotated", "revoked"},
           flight[t][s].kind = "refresh" => /\ flight[t][s].carries # 0
                                            /\ a = refresh[flight[t][s].carries].of,
           Mint(n, a, old),
           NEW answer \in {"done", "refused", "expired", "down"}, NEW gives \in Nat,
           gives = IF answer = "done" THEN minted + 1 ELSE 0, Answers(t, s, answer, gives),
           ~crossed' /\ answer \in {"refused", "down"} => n = 0 \/ CarriedKept(t, s),
           stranded \subseteq stranded', stranded' \subseteq 1..MaxRequests,
           crossed' \in {crossed, TRUE}, UNCHANGED <<cookie, tab, elsewhere, requests>>
    PROVE  ServedSomehow(t, s)
<1>1. CountersTyped /\ TokensTyped /\ minted + 1 <= requests /\ minted + 1 \in 1..MaxRequests
  BY RoomToMint DEF WebTypeInv
<1>2. /\ TokensTyped' /\ minted' = minted + 1
      /\ refresh'[minted + 1] = [of |-> a, state |-> "live"]
      /\ \A k \in 1..MaxRequests : k <= minted => refresh'[k].of = refresh[k].of
      /\ \A k \in 1..MaxRequests : k <= minted /\ k # n => refresh'[k] = refresh[k]
  BY <1>1, MintType
<1>3. minted + 1 \in Nat /\ minted + 1 # 0 /\ minted \in Nat /\ 0 <= minted + 1
  BY <1>1 DEF CountersTyped
<1>4. PICK c : c = flight[t][s].carries
  OBVIOUS
<1>5. c <= minted /\ (c # 0 => c \in 1..MaxRequests)
  BY <1>4, CarriedToken
<1>6. ~crossed' /\ answer \in {"refused", "down"} => CarriedKept(t, s)
  <2>1. n = 0 => CarriedKept(t, s)
    BY <1>2, <1>4, <1>5 DEF CarriedKept
  <2>2. QED BY <2>1
<1>7. crossed' \in BOOLEAN /\ (~crossed' => ~crossed)
  BY <1>1 DEF CountersTyped
<1>8. /\ gives <= minted' /\ (answer = "done" => gives = minted + 1)
      /\ minted' \in {minted, minted + 1}
  BY <1>2, <1>3
<1>9. answer = "done" =>
         /\ gives \in 1..MaxRequests /\ refresh'[gives].state = "live" /\ gives # 0
         /\ refresh'[gives].of = a
  BY <1>1, <1>2, <1>3, <1>8
<1>10. Served(t, s, answer, gives)
  BY <1>2, <1>6, <1>7, <1>8, <1>9 DEF Served
<1>11. QED BY <1>10 DEF ServedSomehow

(* An answer that gives no token, and may revoke some.                       *)
LEMMA RefusalServes ==
    ASSUME WebTypeInv, NEW t \in Tabs, NEW s \in Slots, flight[t][s].pc = "sent",
           NEW answer \in {"refused", "expired", "down"}, Answers(t, s, answer, 0),
           refresh' \in [1..MaxRequests -> Tokens],
           \A k \in 1..MaxRequests : refresh'[k].of = refresh[k].of,
           answer # "expired" => CarriedKept(t, s),
           stranded \subseteq stranded', stranded' \subseteq 1..MaxRequests,
           UNCHANGED <<cookie, minted, tab, elsewhere, requests, crossed>>
    PROVE  ServedSomehow(t, s)
<1>1. minted \in Nat /\ crossed \in BOOLEAN
  BY DEF WebTypeInv, CountersTyped
<1>2. TokensTyped'
  BY DEF WebTypeInv, TokensTyped
<1>3. crossed' \in BOOLEAN
  BY <1>1
<1>4. Served(t, s, answer, 0)
  BY <1>1, <1>2, <1>3 DEF Served
<1>5. QED BY <1>4 DEF ServedSomehow

LEMMA QuietServes ==
    ASSUME WebTypeInv, NEW t \in Tabs, NEW s \in Slots, flight[t][s].pc = "sent",
           NEW answer \in {"refused", "expired", "down"}, Answers(t, s, answer, 0),
           UNCHANGED <<refresh, cookie, minted, tab, elsewhere, requests, crossed, stranded>>
    PROVE  ServedSomehow(t, s)
<1>1. refresh' \in [1..MaxRequests -> Tokens]
  BY DEF WebTypeInv, TokensTyped
<1>2. CarriedKept(t, s)
  BY DEF CarriedKept
<1>3. stranded \subseteq stranded' /\ stranded' \subseteq 1..MaxRequests
  BY DEF WebTypeInv, CountersTyped
<1>4. QED BY <1>1, <1>2, <1>3, RefusalServes

(* One token is revoked. *)
LEMMA RevokeKeeps ==
    ASSUME WebTypeInv, NEW n \in 1..MaxRequests, refresh[n] \in Tokens,
           refresh' = [refresh EXCEPT ![n].state = "revoked"]
    PROVE  /\ refresh' \in [1..MaxRequests -> Tokens]
           /\ \A k \in 1..MaxRequests : refresh'[k].of = refresh[k].of
<1>1. PICK x : x = [refresh[n] EXCEPT !.state = "revoked"]
  OBVIOUS
<1>2. refresh' = [refresh EXCEPT ![n] = x]
  BY <1>1
<1>3. x \in Tokens /\ x.of = refresh[n].of
  BY <1>1 DEF Tokens
<1>4. QED BY <1>2, <1>3 DEF WebTypeInv, TokensTyped

LEMMA LoginServes ==
    ASSUME WebTypeInv, NEW t \in Tabs, ServeLogin(t)
    PROVE  ServedSomehow(t, "person")
<1>1. "person" \in Slots /\ flight[t]["person"].pc = "sent" /\ flight[t]["person"].kind = "login"
  BY DEF ServeLogin, Slots
<1>2. UNCHANGED <<cookie, tab, crossed, stranded, elsewhere, requests>>
  BY DEF ServeLogin
<1>3. /\ 0 <= minted /\ minted + 1 \in Nat
      /\ stranded \subseteq stranded' /\ stranded' \subseteq 1..MaxRequests
  BY <1>2 DEF WebTypeInv, CountersTyped
<1>4. ASSUME NEW a \in Accounts, Mint(0, a, "live"),
             Done(t, "person") \/ Failed(t, "person")
      PROVE  ServedSomehow(t, "person")
  <2>1. CASE Answers(t, "person", "done", minted + 1)
    BY <1>1, <1>2, <1>3, <1>4, <2>1, MintServes
  <2>2. CASE \E answer \in {"refused", "down"} : Answers(t, "person", answer, 0)
    BY <1>1, <1>2, <1>3, <1>4, <2>2, MintServes
  <2>3. QED BY <1>4, <2>1, <2>2 DEF Done, Failed
<1>5. CASE Failed(t, "person") /\ UNCHANGED <<refresh, minted>>
  BY <1>1, <1>2, <1>5, QuietServes DEF Failed
<1>6. QED BY <1>4, <1>5 DEF ServeLogin

LEMMA SwitchServes ==
    ASSUME WebTypeInv, NEW t \in Tabs, ServeSwitch(t)
    PROVE  ServedSomehow(t, "person")
<1>1. "person" \in Slots /\ flight[t]["person"].pc = "sent" /\ flight[t]["person"].kind = "switch"
  BY DEF ServeSwitch, Slots
<1>2. PICK n : n = flight[t]["person"].carries
  OBVIOUS
<1>3. /\ n \in Nat /\ n <= minted
      /\ State(n) # "none" => n \in 1..MaxRequests /\ refresh[n] \in Tokens
  BY <1>1, <1>2, CarriedToken
<1>4. UNCHANGED <<cookie, tab, crossed, elsewhere, requests>>
  BY DEF ServeSwitch
<1>5. minted + 1 \in Nat /\ stranded \subseteq 1..MaxRequests
  BY DEF WebTypeInv, CountersTyped
<1>6. CASE /\ \E a \in Accounts : Mint(n, a, "revoked")
           /\ Done(t, "person") /\ UNCHANGED stranded
  BY <1>1, <1>3, <1>4, <1>5, <1>6, MintServes DEF Done
<1>7. ASSUME State(n) = "live", stranded' = stranded \cup {n}, Failed(t, "person"),
             \/ \E a \in Accounts : Mint(n, a, "revoked")
             \/ refresh' = [refresh EXCEPT ![n].state = "revoked"] /\ UNCHANGED minted
      PROVE  ServedSomehow(t, "person")
  <2>1. n \in 1..MaxRequests /\ refresh[n] \in Tokens
    BY <1>3, <1>7
  <2>2. stranded \subseteq stranded' /\ stranded' \subseteq 1..MaxRequests
    BY <1>5, <1>7, <2>1
  <2>3. CarriedKept(t, "person")
    BY <1>2, <1>7 DEF CarriedKept
  <2>4. PICK answer \in {"refused", "down"} : Answers(t, "person", answer, 0)
    BY <1>7 DEF Failed
  <2>5. CASE \E a \in Accounts : Mint(n, a, "revoked")
    BY <1>1, <1>3, <1>4, <2>2, <2>3, <2>4, <2>5, MintServes
  <2>6. CASE refresh' = [refresh EXCEPT ![n].state = "revoked"] /\ UNCHANGED minted
    <3>1. /\ refresh' \in [1..MaxRequests -> Tokens]
          /\ \A k \in 1..MaxRequests : refresh'[k].of = refresh[k].of
      BY <2>1, <2>6, RevokeKeeps
    <3>2. QED BY <1>1, <1>4, <2>2, <2>3, <2>4, <2>6, <3>1, RefusalServes
  <2>7. QED BY <1>7, <2>5, <2>6
<1>8. CASE Failed(t, "person") /\ UNCHANGED <<refresh, minted, stranded>>
  BY <1>1, <1>4, <1>8, QuietServes DEF Failed
<1>9. QED BY <1>2, <1>6, <1>7, <1>8 DEF ServeSwitch

LEMMA LogoutServes ==
    ASSUME WebTypeInv, NEW t \in Tabs, ServeLogout(t)
    PROVE  ServedSomehow(t, "person")
<1>1. "person" \in Slots /\ flight[t]["person"].pc = "sent"
  BY DEF ServeLogout, Slots
<1>2. PICK n : n = flight[t]["person"].carries
  OBVIOUS
<1>3. State(n) # "none" => n \in 1..MaxRequests /\ refresh[n] \in Tokens
  BY <1>1, <1>2, CarriedToken
<1>4. Answers(t, "person", "expired", 0)
      /\ UNCHANGED <<cookie, minted, tab, crossed, stranded, elsewhere, requests>>
  BY DEF ServeLogout
<1>5. CASE State(n) = "live" /\ refresh' = [refresh EXCEPT ![n].state = "revoked"]
  <2>1. /\ refresh' \in [1..MaxRequests -> Tokens]
        /\ \A k \in 1..MaxRequests : refresh'[k].of = refresh[k].of
    BY <1>3, <1>5, RevokeKeeps
  <2>2. stranded \subseteq stranded' /\ stranded' \subseteq 1..MaxRequests
    BY <1>4 DEF WebTypeInv, CountersTyped
  <2>3. QED BY <1>1, <1>4, <2>1, <2>2, RefusalServes
<1>6. CASE UNCHANGED refresh
  BY <1>1, <1>4, <1>6, QuietServes
<1>7. QED BY <1>2, <1>5, <1>6 DEF ServeLogout

LEMMA RefreshServes ==
    ASSUME WebTypeInv, NEW t \in Tabs, NEW s \in Slots, ServeRefresh(t, s)
    PROVE  ServedSomehow(t, s)
<1>1. flight[t][s].pc = "sent" /\ flight[t][s].kind = "refresh"
  BY DEF ServeRefresh
<1>2. PICK n : n = flight[t][s].carries
  OBVIOUS
<1>3. /\ n \in Nat /\ n <= minted
      /\ State(n) # "none" => n # 0
      /\ n # 0 => n \in 1..MaxRequests /\ refresh[n].of \in Accounts
  BY <1>2, CarriedToken
<1>4. UNCHANGED <<cookie, tab, stranded, elsewhere, requests>>
  BY DEF ServeRefresh
<1>5. /\ minted + 1 \in Nat
      /\ stranded \subseteq stranded' /\ stranded' \subseteq 1..MaxRequests
  BY <1>4 DEF WebTypeInv, CountersTyped
<1>6. ASSUME State(n) = "live", Mint(n, refresh[n].of, "rotated"), Rotated(t, s)
      PROVE  ServedSomehow(t, s)
  <2>1. n # 0 /\ refresh[n].of \in Accounts
    BY <1>3, <1>6
  <2>2. CASE Answers(t, s, "done", minted + 1) /\ UNCHANGED crossed
    BY <1>1, <1>2, <1>3, <1>4, <1>5, <1>6, <2>1, <2>2, MintServes
  <2>3. CASE Answers(t, s, "expired", 0) /\ UNCHANGED crossed
    BY <1>1, <1>2, <1>3, <1>4, <1>5, <1>6, <2>1, <2>3, MintServes
  <2>4. CASE Answers(t, s, "down", 0) /\ crossed' = TRUE
    BY <1>1, <1>2, <1>3, <1>4, <1>5, <1>6, <2>1, <2>4, MintServes
  <2>5. QED BY <1>6, <2>2, <2>3, <2>4 DEF Rotated, Done
<1>7. ASSUME NEW answer \in {"expired", "down"}, Answers(t, s, answer, 0),
             UNCHANGED <<minted, crossed>>, State(n) = "revoked",
             refresh' = [k \in 1..MaxRequests |->
                IF refresh[k].of = refresh[n].of /\ refresh[k].state = "live"
                THEN [refresh[k] EXCEPT !.state = "revoked"] ELSE refresh[k]]
      PROVE  ServedSomehow(t, s)
  <2>1. ASSUME NEW k \in 1..MaxRequests
        PROVE  refresh'[k] \in Tokens /\ refresh'[k].of = refresh[k].of
    <3>1. refresh[k] \in Tokens
      BY DEF WebTypeInv, TokensTyped
    <3>2. PICK x : x = [refresh[k] EXCEPT !.state = "revoked"]
      OBVIOUS
    <3>3. x \in Tokens /\ x.of = refresh[k].of
      BY <3>1, <3>2 DEF Tokens
    <3>4. refresh'[k] = x \/ refresh'[k] = refresh[k]
      BY <1>7, <3>2
    <3>5. QED BY <3>1, <3>3, <3>4
  <2>2. PICK g : g = refresh'
    OBVIOUS
  <2>3. g \in [1..MaxRequests -> Tokens]
    BY <1>7, <2>1, <2>2
  <2>4. refresh' \in [1..MaxRequests -> Tokens]
    BY <2>2, <2>3
  <2>5. n # 0 /\ n \in 1..MaxRequests /\ refresh[n].state = "revoked"
    BY <1>3, <1>7 DEF State
  <2>6. refresh'[n] = refresh[n]
    BY <1>7, <2>5
  <2>7. CarriedKept(t, s)
    BY <1>2, <2>6 DEF CarriedKept
  <2>8. QED BY <1>1, <1>4, <1>5, <1>7, <2>1, <2>4, <2>7, RefusalServes
<1>8. CASE /\ \E answer \in {"expired", "down"} : Answers(t, s, answer, 0)
           /\ UNCHANGED <<refresh, minted, crossed>>
  BY <1>1, <1>4, <1>8, QuietServes
<1>9. CASE Answers(t, s, "refused", 0) /\ UNCHANGED <<refresh, minted, crossed>>
  BY <1>1, <1>4, <1>9, QuietServes
<1>10. QED BY <1>2, <1>6, <1>7, <1>8, <1>9 DEF ServeRefresh

LEMMA ServedType ==
    ASSUME WebTypeInv, NEW t \in Tabs, NEW s \in Slots, ServedSomehow(t, s)
    PROVE  WebTypeInv'
<1>1. PICK answer \in {"done", "refused", "expired", "down"}, gives \in Nat :
          Served(t, s, answer, gives)
  BY DEF ServedSomehow
<1>2. FlightsTyped' /\ RequestsCounted' /\ minted + 1 <= requests
  BY <1>1, AnswersType DEF Served
<1>3. cookie' <= minted' /\ minted' \in Nat
  BY <1>1 DEF Served, WebTypeInv, CountersTyped
<1>4. CountersTyped'
  BY <1>1, <1>3 DEF Served, WebTypeInv, CountersTyped
<1>5. QED BY <1>1, <1>2, <1>4 DEF WebTypeInv, Served, TabsTyped

(* What a tab makes of an answer keeps the types. *)
LEMMA TabAfterType ==
    ASSUME WebTypeInv, NEW t \in Tabs, NEW s \in Slots, NEW f \in Flights,
           f.gives <= minted, f.answer = "done" => f.gives # 0,
           f.kind = "logout" => s = "person" /\ f.answer # "done", NEW c \in Nat
    PROVE  TabAfter(t, s, f, c) \in TabStates
<1>1. tab[t] \in TabStates
  BY DEF WebTypeInv, TabsTyped
<1>2. PICK whose : whose = refresh[f.gives].of
  OBVIOUS
<1>3. f.answer = "done" => whose \in Accounts \cup {NoAccount}
  <2>1. minted <= MaxRequests /\ MaxRequests \in Nat /\ minted \in Nat
    <3>1. /\ IsFiniteSet(SentSet) /\ Cardinality(SentSet) \in Nat
          /\ minted + Cardinality(SentSet) <= requests
      BY FS_CardinalityType DEF RequestsCounted, WebTypeInv
    <3>2. QED BY <3>1, WebClientAssumption DEF WebTypeInv, CountersTyped
  <2>2. f.gives \in Nat
    BY DEF Flights
  <2>3. f.answer = "done" => f.gives \in 1..MaxRequests
    BY <2>1, <2>2
  <2>4. QED BY <1>2, <2>3 DEF WebTypeInv, TokensTyped, Tokens
<1>4. [ClosedTab EXCEPT !.page = PageFor(c)] \in TabStates
  BY DEF ClosedTab, TabStates, PageFor
<1>5. f.answer = "done" =>
         /\ [tab[t] EXCEPT !.token = whose] \in TabStates
         /\ [tab[t] EXCEPT !.token = whose, !.user = whose] \in TabStates
         /\ [page |-> "app", token |-> whose, user |-> whose] \in TabStates
  BY <1>1, <1>3 DEF TabStates
<1>6. [tab[t] EXCEPT !.token = NoAccount] \in TabStates
  BY <1>1 DEF TabStates
<1>7. CASE f.kind = "logout"
  BY <1>4, <1>7 DEF TabAfter
<1>8. CASE f.kind # "logout" /\ f.answer = "done"
  <2>1. s \in {"mount", "refresh", "person"}
    BY DEF Slots
  <2>2. CASE s = "mount"
    BY <1>2, <1>5, <1>8, <2>2 DEF TabAfter
  <2>3. CASE s = "refresh"
    BY <1>2, <1>5, <1>8, <2>3 DEF TabAfter
  <2>4. CASE s = "person"
    BY <1>2, <1>5, <1>8, <2>4 DEF TabAfter
  <2>5. QED BY <2>1, <2>2, <2>3, <2>4
<1>9. CASE f.kind # "logout" /\ f.answer # "done"
  <2>1. CASE s = "refresh"
    BY <1>6, <1>9, <2>1 DEF TabAfter
  <2>2. CASE s # "refresh"
    BY <1>1, <1>9, <2>2 DEF TabAfter
  <2>3. QED BY <2>1, <2>2
<1>10. QED BY <1>7, <1>8, <1>9

(* A request ends: its slot is free again. *)
LEMMA EndedType ==
    ASSUME WebTypeInv, NEW t \in Tabs, NEW s \in Slots,
           flight' = [flight EXCEPT ![t][s] = NoFlight], NEW x \in TabStates,
           tab' = [tab EXCEPT ![t] = x], CountersTyped',
           UNCHANGED <<refresh, minted, requests>>
    PROVE  WebTypeInv'
<1>1. NoFlight \in Flights /\ FlightWellFormed(s, NoFlight)
  BY NoFlightType
<1>2. NoFlight.carries = 0 /\ NoFlight.gives = 0 /\ NoFlight.pc = "none"
  BY DEF NoFlight
<1>3. FlightsTyped /\ CountersTyped /\ minted \in Nat
  BY DEF WebTypeInv, CountersTyped
<1>4. /\ NoFlight.carries <= minted' /\ NoFlight.gives <= minted'
      /\ minted <= minted' /\ minted' \in Nat
  BY <1>2, <1>3
<1>5. FlightsTyped'
  BY <1>1, <1>3, <1>4, FlightsStepType
<1>6. SentSet' \subseteq SentSet
  <2>1. ASSUME NEW u \in Tabs, NEW z \in Slots, flight'[u][z].pc = "sent"
        PROVE  flight[u][z].pc = "sent"
    <3>1. flight'[t][s] = NoFlight
      BY <1>3, FlightStep
    <3>2. <<u, z>> # <<t, s>>
      BY <1>2, <2>1, <3>1
    <3>3. flight'[u][z] = flight[u][z]
      BY <1>3, <3>2, FlightStep
    <3>4. QED BY <2>1, <3>3
  <2>2. QED BY <2>1 DEF SentSet
<1>7. RequestsCounted'
  BY <1>3, <1>6, SentFewer DEF WebTypeInv
<1>8. TabsTyped'
  BY DEF WebTypeInv, TabsTyped
<1>9. TokensTyped'
  BY DEF WebTypeInv, TokensTyped
<1>10. QED BY <1>5, <1>7, <1>8, <1>9 DEF WebTypeInv

LEMMA ArriveType ==
    ASSUME WebTypeInv, NEW t \in Tabs, NEW s \in Slots, Arrive(t, s)
    PROVE  WebTypeInv'
<1>1. PICK f : f = flight[t][s]
  OBVIOUS
<1>2. /\ f \in Flights /\ f.gives <= minted /\ (f.answer = "done" => f.gives # 0)
      /\ f.kind = "logout" => s = "person" /\ f.answer # "done"
  BY <1>1 DEF WebTypeInv, FlightsTyped, FlightWellFormed, KindOf, Arrive
<1>3. f.gives \in Nat
  BY <1>2 DEF Flights
<1>4. cookie' \in Nat /\ cookie' <= minted
  BY <1>1, <1>2, <1>3 DEF Arrive, CookieAfter, WebTypeInv, CountersTyped
<1>5. PICK x : x = TabAfter(t, s, f, cookie')
  OBVIOUS
<1>6. PICK c : c = cookie'
  OBVIOUS
<1>7. x \in TabStates
  BY <1>2, <1>4, <1>5, <1>6, TabAfterType
<1>8. CountersTyped'
  <2>1. elsewhere' \subseteq Tabs
    BY DEF Arrive, WebTypeInv, CountersTyped
  <2>2. QED BY <1>4, <2>1 DEF Arrive, WebTypeInv, CountersTyped
<1>9. QED BY <1>1, <1>5, <1>7, <1>8, EndedType DEF Arrive

LEMMA LoseType ==
    ASSUME WebTypeInv, NEW t \in Tabs, NEW s \in Slots, Lose(t, s)
    PROVE  WebTypeInv'
<1>1. PICK f : f = flight[t][s]
  OBVIOUS
<1>2. f \in Flights /\ f.gives <= minted /\ (f.kind = "logout" => s = "person")
  BY <1>1 DEF WebTypeInv, FlightsTyped, FlightWellFormed, KindOf, Lose
<1>3. PICK g : g = [f EXCEPT !.answer = "down"]
  OBVIOUS
<1>4. g \in Flights /\ g.gives = f.gives /\ g.answer = "down" /\ g.kind = f.kind
  BY <1>2, <1>3 DEF Flights
<1>5. PICK x : x = TabAfter(t, s, g, cookie)
  OBVIOUS
<1>6. x \in TabStates
  BY <1>2, <1>4, <1>5, TabAfterType DEF WebTypeInv, CountersTyped
<1>7. crossed' \in BOOLEAN
  BY DEF Lose, WebTypeInv, CountersTyped
<1>8. CountersTyped'
  BY <1>7 DEF Lose, WebTypeInv, CountersTyped
<1>9. QED BY <1>1, <1>3, <1>5, <1>6, <1>8, EndedType DEF Lose

LEMMA WebInitType == ASSUME WebClientInit PROVE WebTypeInv
<1>1. CountersTyped
  <2>1. cookie = 0 /\ minted = 0 /\ requests = 0 /\ elsewhere = {} /\ stranded = {}
    BY DEF WebClientInit
  <2>2. 0 <= MaxRequests
    BY WebClientAssumption
  <2>3. crossed \in BOOLEAN
    BY DEF WebClientInit
  <2>4. QED BY <2>1, <2>2, <2>3 DEF CountersTyped
<1>2. TabsTyped
  BY DEF WebClientInit, TabsTyped, TabStates, ClosedTab
<1>3. TokensTyped
  BY WebClientAssumption DEF WebClientInit, TokensTyped, Tokens
<1>4. \A t \in Tabs, s \in Slots : flight[t][s] = NoFlight
  BY DEF WebClientInit
<1>5. FlightsTyped
  <2>1. flight \in [Tabs -> [Slots -> Flights]]
    BY NoFlightType DEF WebClientInit
  <2>2. NoFlight.carries <= minted /\ NoFlight.gives <= minted
    <3>1. NoFlight.carries = 0 /\ NoFlight.gives = 0
      BY DEF NoFlight
    <3>2. minted = 0
      BY DEF WebClientInit
    <3>3. QED BY <3>1, <3>2
  <2>3. QED BY <1>4, <2>1, <2>2, NoFlightType DEF FlightsTyped
<1>6. SentSet = {}
  <2>1. NoFlight.pc # "sent"
    BY DEF NoFlight
  <2>2. QED BY <1>4, <2>1 DEF SentSet
<1>7. RequestsCounted
  BY <1>6, FS_EmptySet DEF RequestsCounted, WebClientInit
<1>8. QED BY <1>1, <1>2, <1>3, <1>5, <1>7 DEF WebTypeInv

(* No two requests at once: how each step keeps what that says. *)
LEMMA WebNextType ==
    ASSUME WebTypeInv, WebClientNext
    PROVE  WebTypeInv'
<1>1. PICK t \in Tabs :
        \/ Load(t) \/ Stale(t) \/ Login(t) \/ SwitchTenant(t) \/ Logout(t)
        \/ ServeLogin(t) \/ ServeSwitch(t) \/ ServeLogout(t)
        \/ \E s \in Slots : ServeRefresh(t, s) \/ Arrive(t, s) \/ Lose(t, s)
  BY DEF WebClientNext
<1>2. /\ "person" \in Slots /\ "refresh" \in Slots /\ "refresh" \in KindOf("refresh")
      /\ {"login", "switch", "logout"} = KindOf("person")
  BY DEF Slots, KindOf
<1>3. CASE Load(t)
  BY <1>3, LoadType
<1>4. CASE Stale(t)
  BY <1>2, <1>4, SendType DEF Stale
<1>5. CASE Login(t) \/ SwitchTenant(t) \/ Logout(t)
  <2>1. PICK kind \in KindOf("person") : Send(t, "person", kind) /\ UNCHANGED tab
    BY <1>2, <1>5 DEF Login, SwitchTenant, Logout
  <2>2. QED BY <1>2, <2>1, SendType
<1>6. CASE ServeLogin(t) \/ ServeSwitch(t) \/ ServeLogout(t)
  BY <1>2, <1>6, LoginServes, SwitchServes, LogoutServes, ServedType
<1>7. CASE \E s \in Slots : ServeRefresh(t, s) \/ Arrive(t, s) \/ Lose(t, s)
  BY <1>7, RefreshServes, ServedType, ArriveType, LoseType
<1>8. QED BY <1>1, <1>3, <1>4, <1>5, <1>6, <1>7

LEMMA NonePending ==
    ASSUME Pending = {}, NEW u \in Tabs, NEW z \in Slots
    PROVE  flight[u][z].pc = "none"
<1>1. PICK x : x = <<u, z>>
  OBVIOUS
<1>2. x \in Tabs \X Slots /\ x[1] = u /\ x[2] = z
  BY <1>1
<1>3. x \notin Pending
  OBVIOUS
<1>4. QED BY <1>2, <1>3 DEF Pending

LEMMA SendAgrees ==
    ASSUME WebTypeInv, OneAtATime, NEW t \in Tabs, NEW s \in Slots, NEW kind \in KindOf(s),
           Send(t, s, kind), UNCHANGED tab, s = "refresh" => tab[t].token # NoAccount
    PROVE  OneAtATime'
<1> SUFFICES ASSUME ~crossed'
             PROVE  OneAtATime'
  BY DEF OneAtATime
<1>1. Pending = {} /\ ~crossed
  BY DEF Send
<1>2. PICK f : f = Sent(kind)
  OBVIOUS
<1>3. f.pc = "sent" /\ f.carries = cookie /\ f.answer = ""
  BY <1>2, SentType DEF WebTypeInv
<1>10. flight' = [flight EXCEPT ![t][s] = f] /\ FlightsTyped
  BY <1>2 DEF WebTypeInv, Send
<1>4. /\ flight'[t][s] = f
      /\ \A u \in Tabs, z \in Slots : <<u, z>> # <<t, s>> => flight'[u][z] = flight[u][z]
  <2>1. flight'[t][s] = f
    BY <1>10 DEF FlightsTyped
  <2>2. ASSUME NEW u \in Tabs, NEW z \in Slots, <<u, z>> # <<t, s>>
        PROVE  flight'[u][z] = flight[u][z]
    BY <1>10, <2>2, FlightStep
  <2>3. QED BY <2>1, <2>2
<1>5. Pending' = {<<t, s>>}
  <2>1. ASSUME NEW u \in Tabs, NEW z \in Slots
        PROVE  flight'[u][z].pc # "none" <=> <<u, z>> = <<t, s>>
    <3>1. flight[u][z].pc = "none"
      BY <1>1, NonePending
    <3>2. CASE <<u, z>> = <<t, s>>
      BY <1>3, <1>4, <3>2
    <3>3. CASE <<u, z>> # <<t, s>>
      BY <1>4, <3>1, <3>3
    <3>4. QED BY <3>2, <3>3
  <2>2. QED BY <2>1 DEF Pending
<1>6. CookieLive /\ \A u \in Tabs \ elsewhere : TabAgrees(u)
  BY <1>1 DEF OneAtATime
<1>7. CookieLive' /\ \A u \in Tabs \ elsewhere' : TabAgrees(u)'
  BY <1>6 DEF Send, CookieLive, State, TabAgrees
<1>8. FlightAgrees(t, s)'
  <2>1. s = "refresh" /\ t \notin elsewhere' => tab'[t].user # NoAccount
    BY <1>6 DEF Send, TabAgrees
  <2>2. cookie' = cookie
    BY DEF Send
  <2>3. QED BY <1>3, <1>4, <1>7, <2>1, <2>2 DEF FlightAgrees
<1>9. QED BY <1>5, <1>7, <1>8 DEF OneAtATime

LEMMA LoadAgrees ==
    ASSUME WebTypeInv, OneAtATime, NEW t \in Tabs, Load(t)
    PROVE  OneAtATime'
<1> SUFFICES ASSUME ~crossed'
             PROVE  OneAtATime'
  BY DEF OneAtATime
<1>1. Pending = {} /\ ~crossed
  BY DEF Load
<1>2. PICK f : f = Sent("refresh")
  OBVIOUS
<1>3. f.pc = "sent" /\ f.carries = cookie /\ f.answer = ""
  BY <1>2, SentType DEF WebTypeInv, Slots, KindOf
<1>4. /\ \A z \in Slots : flight'[t][z] = IF z = "mount" THEN f ELSE NoFlight
      /\ \A u \in Tabs : u # t => flight'[u] = flight[u]
  BY <1>2 DEF WebTypeInv, FlightsTyped, Load
<1>5. Pending' = {<<t, "mount">>}
  <2>1. NoFlight.pc = "none" /\ "mount" \in Slots
    BY DEF NoFlight, Slots
  <2>2. ASSUME NEW u \in Tabs, NEW z \in Slots
        PROVE  flight'[u][z].pc # "none" <=> u = t /\ z = "mount"
    <3>1. flight[u][z].pc = "none"
      BY <1>1, NonePending
    <3>2. CASE u = t
      BY <1>3, <1>4, <2>1, <3>2
    <3>3. CASE u # t
      BY <1>4, <3>1, <3>3
    <3>4. QED BY <3>2, <3>3
  <2>3. QED BY <2>1, <2>2 DEF Pending
<1>6. CookieLive /\ \A u \in Tabs \ elsewhere : TabAgrees(u)
  BY <1>1 DEF OneAtATime
<1>7. CookieLive'
  BY <1>6 DEF Load, CookieLive, State
<1>8. \A u \in Tabs \ elsewhere' : TabAgrees(u)'
  <2>1. ASSUME NEW u \in Tabs \ elsewhere'
        PROVE  TabAgrees(u)'
    <3>1. CASE u = t
      <4>1. tab'[t].token = NoAccount /\ tab'[t].user = NoAccount
        BY DEF Load, ClosedTab, WebTypeInv, TabsTyped
      <4>2. QED BY <3>1, <4>1 DEF TabAgrees
    <3>2. CASE u # t
      <4>1. tab'[u] = tab[u] /\ u \in Tabs \ elsewhere /\ cookie' = cookie /\ refresh' = refresh
        BY <2>1, <3>2 DEF Load, WebTypeInv, TabsTyped
      <4>2. QED BY <1>6, <4>1 DEF TabAgrees
    <3>3. QED BY <3>1, <3>2
  <2>2. QED BY <2>1
<1>9. FlightAgrees(t, "mount")'
  <2>1. cookie' = cookie /\ flight'[t]["mount"] = f
    BY <1>4 DEF Load, Slots
  <2>2. QED BY <1>3, <1>7, <2>1 DEF FlightAgrees
<1>10. QED BY <1>5, <1>7, <1>8, <1>9 DEF OneAtATime

(* While nothing has crossed, a request under way is the only one. *)
LEMMA OnlyOne ==
    ASSUME OneAtATime, ~crossed, NEW t \in Tabs, NEW s \in Slots, flight[t][s].pc # "none"
    PROVE  /\ Pending = {<<t, s>>} /\ FlightAgrees(t, s)
           /\ \A u \in Tabs \ elsewhere : TabAgrees(u)
<1>1. PICK x : x = <<t, s>>
  OBVIOUS
<1>2. x \in Tabs \X Slots /\ x[1] = t /\ x[2] = s
  BY <1>1
<1>3. x \in Pending
  BY <1>2 DEF Pending
<1>4. QED BY <1>1, <1>2, <1>3 DEF OneAtATime

LEMMA ServedAgrees ==
    ASSUME WebTypeInv, WebTypeInv', OneAtATime, NEW t \in Tabs, NEW s \in Slots,
           ServedSomehow(t, s)
    PROVE  OneAtATime'
<1> SUFFICES ASSUME ~crossed'
             PROVE  OneAtATime'
  BY DEF OneAtATime
<1>1. PICK answer \in {"done", "refused", "expired", "down"}, gives \in Nat :
          Served(t, s, answer, gives)
  BY DEF ServedSomehow
<1>2. PICK x : x = flight[t][s]
  OBVIOUS
<1>3. x \in Flights /\ x.pc = "sent" /\ x.answer = "" /\ x.carries <= minted
  BY <1>1, <1>2 DEF WebTypeInv, FlightsTyped, FlightWellFormed, Served
<1>4. PICK f : f = [x EXCEPT !.pc = "served", !.answer = answer, !.gives = gives]
  OBVIOUS
<1>5. /\ f.pc = "served" /\ f.answer = answer /\ f.gives = gives
      /\ f.kind = x.kind /\ f.carries = x.carries
  BY <1>3, <1>4 DEF Flights
<1>6. flight' = [flight EXCEPT ![t][s] = f] /\ FlightsTyped
  BY <1>1, <1>2, <1>4 DEF Served, Answers, WebTypeInv, FlightsTyped
<1>7. flight'[t][s] = f
  BY <1>6 DEF FlightsTyped
<1>8. ~crossed /\ flight[t][s].pc # "none"
  BY <1>1 DEF Served
<1>9. /\ Pending = {<<t, s>>} /\ FlightAgrees(t, s)
      /\ \A u \in Tabs \ elsewhere : TabAgrees(u)
  BY <1>8, OnlyOne
<1>10. Pending' = {<<t, s>>}
  <2>1. ASSUME NEW u \in Tabs, NEW z \in Slots
        PROVE  flight'[u][z].pc # "none" <=> flight[u][z].pc # "none"
    <3>1. CASE <<u, z>> = <<t, s>>
      BY <1>5, <1>7, <1>8, <3>1
    <3>2. CASE <<u, z>> # <<t, s>>
      <4>1. flight'[u][z] = flight[u][z]
        BY <1>6, <3>2, FlightStep
      <4>2. QED BY <4>1
    <3>3. QED BY <3>1, <3>2
  <2>2. QED BY <1>9, <2>1 DEF Pending
<1>11. /\ cookie' = cookie /\ tab' = tab /\ elsewhere' = elsewhere
  BY <1>1 DEF Served
<1>12. /\ x.carries = cookie /\ CookieLive
       /\ s = "refresh" /\ t \notin elsewhere => tab[t].user # NoAccount
  BY <1>2, <1>3, <1>9 DEF FlightAgrees
<1>13. cookie # 0 => cookie \in 1..MaxRequests /\ refresh'[cookie].of = refresh[cookie].of
  <2>1. cookie # 0 => cookie \in 1..MaxRequests
    BY <1>2, <1>12, CarriedToken
  <2>2. QED BY <1>1, <1>3, <1>12, <2>1 DEF Served
<1>14. \A u \in Tabs \ elsewhere' : TabAgrees(u)'
  BY <1>9, <1>11, <1>13 DEF TabAgrees
<1>15. f.answer = "done" =>
          /\ State(f.gives)' = "live"
          /\ f.kind = "refresh" => cookie' # 0 /\ refresh'[f.gives].of = refresh'[cookie'].of
  <2>1. ASSUME answer = "done"
        PROVE  /\ gives \in 1..MaxRequests /\ refresh'[gives].state = "live"
               /\ x.kind = "refresh" => /\ x.carries # 0
                                        /\ refresh'[gives].of = refresh[x.carries].of
    BY <1>1, <1>2, <2>1 DEF Served
  <2>2. answer = "done" => State(gives)' = "live"
    BY <2>1 DEF State
  <2>3. QED BY <1>5, <1>11, <1>12, <1>13, <2>1, <2>2
<1>16. f.answer \in {"", "refused", "down"} => CookieLive'
  <2>1. /\ f.answer \in {"", "refused", "down"} => f.answer \in {"refused", "down"}
        /\ stranded \subseteq stranded'
    BY <1>1, <1>5 DEF Served
  <2>2. f.answer \in {"refused", "down"} => CarriedKept(t, s)
    BY <1>1, <1>5 DEF Served
  <2>3. f.answer \in {"refused", "down"} =>
           cookie = 0 \/ refresh'[cookie] = refresh[cookie] \/ cookie \in stranded'
    BY <1>2, <1>12, <2>2 DEF CarriedKept
  <2>4. QED BY <1>11, <1>12, <2>1, <2>3 DEF CookieLive, State
<1>17. FlightAgrees(t, s)'
  BY <1>5, <1>7, <1>11, <1>12, <1>15, <1>16 DEF FlightAgrees
<1>18. /\ \A y, z \in Pending' : y = z
       /\ \A z \in Pending' : FlightAgrees(z[1], z[2])'
       /\ Pending' # {}
  BY <1>10, <1>17
<1>19. QED BY <1>14, <1>18 DEF OneAtATime

(* A request that ends leaves none under way. *)
LEMMA NoneLeft ==
    ASSUME FlightsTyped, NEW t \in Tabs, NEW s \in Slots, Pending = {<<t, s>>},
           flight' = [flight EXCEPT ![t][s] = NoFlight]
    PROVE  Pending' = {}
<1>1. ASSUME NEW u \in Tabs, NEW z \in Slots
      PROVE  flight'[u][z].pc = "none"
  <2>1. CASE <<u, z>> = <<t, s>>
    <3>1. flight'[t][s] = NoFlight
      BY DEF FlightsTyped
    <3>2. NoFlight.pc = "none" /\ u = t /\ z = s
      BY <2>1 DEF NoFlight
    <3>3. QED BY <3>1, <3>2
  <2>2. CASE <<u, z>> # <<t, s>>
    <3>1. flight'[u][z] = flight[u][z]
      BY <2>2, FlightStep
    <3>2. PICK x : x = <<u, z>>
      OBVIOUS
    <3>3. x \in Tabs \X Slots /\ x[1] = u /\ x[2] = z /\ x \notin Pending
      BY <2>2, <3>2
    <3>4. flight[u][z].pc = "none"
      BY <3>3 DEF Pending
    <3>5. QED BY <3>1, <3>4
  <2>3. QED BY <2>1, <2>2
<1>2. QED BY <1>1 DEF Pending

(* The token and the user of a tab after an answer. *)
LEMMA TabAfterIs ==
    ASSUME WebTypeInv, NEW t \in Tabs, NEW s \in Slots, NEW f, NEW c,
           NEW x, x = TabAfter(t, s, f, c),
           f.kind = "logout" => s = "person" /\ f.answer # "done"
    PROVE  /\ f.kind = "logout" => x.token = NoAccount /\ x.user = NoAccount
           /\ f.answer = "done" /\ s = "refresh" =>
                 x.token = refresh[f.gives].of /\ x.user = tab[t].user
           /\ f.answer = "done" /\ s # "refresh" =>
                 x.token = refresh[f.gives].of /\ x.user = refresh[f.gives].of
           /\ f.answer # "done" /\ s = "refresh" => x.token = NoAccount /\ x.user = tab[t].user
           /\ f.answer # "done" /\ s # "refresh" /\ f.kind # "logout" => x = tab[t]
<1>1. tab[t] \in TabStates
  BY DEF WebTypeInv, TabsTyped
<1>2. CASE f.kind = "logout"
  <2>1. x = [ClosedTab EXCEPT !.page = PageFor(c)]
    BY <1>2 DEF TabAfter
  <2>2. QED BY <1>2, <2>1 DEF ClosedTab
<1>3. CASE f.kind # "logout" /\ f.answer = "done"
  <2>1. s \in {"mount", "refresh", "person"}
    BY DEF Slots
  <2>2. CASE s = "mount"
    <3>1. x = [tab[t] EXCEPT !.token = refresh[f.gives].of, !.user = refresh[f.gives].of]
      BY <1>3, <2>2 DEF TabAfter
    <3>2. QED BY <1>1, <1>3, <2>2, <3>1 DEF TabStates
  <2>3. CASE s = "refresh"
    <3>1. x = [tab[t] EXCEPT !.token = refresh[f.gives].of]
      BY <1>3, <2>3 DEF TabAfter
    <3>2. QED BY <1>1, <1>3, <2>3, <3>1 DEF TabStates
  <2>4. CASE s = "person"
    BY <1>3, <2>4 DEF TabAfter
  <2>5. QED BY <2>1, <2>2, <2>3, <2>4
<1>4. CASE f.kind # "logout" /\ f.answer # "done"
  <2>1. CASE s = "refresh"
    <3>1. x = [tab[t] EXCEPT !.token = NoAccount]
      BY <1>4, <2>1 DEF TabAfter
    <3>2. QED BY <1>1, <1>4, <2>1, <3>1 DEF TabStates
  <2>2. CASE s # "refresh"
    BY <1>4, <2>2 DEF TabAfter
  <2>3. QED BY <2>1, <2>2
<1>5. QED BY <1>2, <1>3, <1>4

LEMMA ArriveAgrees ==
    ASSUME WebTypeInv, OneAtATime, NEW t \in Tabs, NEW s \in Slots, Arrive(t, s)
    PROVE  OneAtATime'
<1> SUFFICES ASSUME ~crossed'
             PROVE  OneAtATime'
  BY DEF OneAtATime
<1>1. PICK f : f = flight[t][s]
  OBVIOUS
<1>2. f.pc = "served" /\ ~crossed
  BY <1>1 DEF Arrive
<1>3. Pending = {<<t, s>>} /\ FlightAgrees(t, s) /\ \A u \in Tabs \ elsewhere : TabAgrees(u)
  BY <1>1, <1>2, OnlyOne
<1>4. /\ f \in Flights /\ FlightWellFormed(s, f) /\ f.answer # ""
  BY <1>1, <1>2 DEF WebTypeInv, FlightsTyped, FlightWellFormed
<1>5. /\ f.kind \in KindOf(s) /\ (f.kind = "logout" => s = "person" /\ f.answer # "done")
      /\ f.answer \in {"done", "refused", "expired", "down"}
  BY <1>2, <1>4 DEF FlightWellFormed, KindOf, Flights
<1>6. Pending' = {}
  BY <1>3, NoneLeft DEF WebTypeInv, Arrive
<1>7. /\ cookie' = CookieAfter(f) /\ refresh' = refresh /\ stranded' = stranded
  BY <1>1 DEF Arrive
<1>8. /\ f.answer = "done" => cookie' = f.gives
      /\ f.answer = "expired" => cookie' = 0
      /\ f.answer \in {"refused", "down"} => cookie' = cookie
  BY <1>7 DEF CookieAfter
<1>9. /\ f.answer = "done" =>
           /\ State(f.gives) = "live"
           /\ f.kind = "refresh" => cookie # 0 /\ refresh[f.gives].of = refresh[cookie].of
      /\ f.answer \in {"", "refused", "down"} => CookieLive
      /\ s = "refresh" /\ t \notin elsewhere => tab[t].user # NoAccount
  BY <1>1, <1>3 DEF FlightAgrees
<1>10. CookieLive'
  BY <1>5, <1>7, <1>8, <1>9 DEF CookieLive, State
<1>11. PICK x : x = TabAfter(t, s, f, cookie')
  OBVIOUS
<1>12. tab'[t] = x /\ \A u \in Tabs : u # t => tab'[u] = tab[u]
  BY <1>1, <1>11 DEF Arrive, WebTypeInv, TabsTyped
<1>13. PICK c : c = cookie'
  OBVIOUS
<1>14. /\ f.kind = "logout" => x.token = NoAccount /\ x.user = NoAccount
       /\ f.answer = "done" /\ s = "refresh" =>
             x.token = refresh[f.gives].of /\ x.user = tab[t].user
       /\ f.answer = "done" /\ s # "refresh" =>
             x.token = refresh[f.gives].of /\ x.user = refresh[f.gives].of
       /\ f.answer # "done" /\ s = "refresh" => x.token = NoAccount /\ x.user = tab[t].user
       /\ f.answer # "done" /\ s # "refresh" /\ f.kind # "logout" => x = tab[t]
  BY <1>5, <1>11, <1>13, TabAfterIs
<1>15. elsewhere' = IF f.answer = "done" /\ s # "refresh"
                    THEN (IF s = "person" THEN Tabs \ {t} ELSE elsewhere \ {t})
                    ELSE elsewhere
  BY <1>1 DEF Arrive
<1>16. ASSUME NEW u \in Tabs \ elsewhere', u # t
       PROVE  TabAgrees(u)'
  <2>1. u \notin elsewhere /\ (f.answer = "done" => s # "person")
    BY <1>15, <1>16
  <2>2. TabAgrees(u) /\ tab'[u] = tab[u]
    BY <1>3, <1>12, <1>16, <2>1
  <2>3. f.answer = "done" => cookie # 0 /\ refresh[f.gives].of = refresh[cookie].of
    BY <1>5, <1>9, <2>1 DEF KindOf
  <2>4. cookie' # 0 /\ tab[u].user # NoAccount => refresh[cookie'].of = tab[u].user
    BY <1>5, <1>8, <2>2, <2>3 DEF TabAgrees
  <2>5. QED BY <1>7, <2>2, <2>4 DEF TabAgrees
<1>17. ASSUME t \notin elsewhere'
       PROVE  TabAgrees(t)'
  <2>1. CASE f.kind = "logout"
    BY <1>12, <1>14, <2>1 DEF TabAgrees
  <2>2. CASE f.answer = "done" /\ s # "refresh"
    BY <1>7, <1>8, <1>12, <1>14, <2>2 DEF TabAgrees
  <2>3. CASE f.answer = "done" /\ s = "refresh"
    <3>1. t \notin elsewhere /\ TabAgrees(t) /\ tab[t].user # NoAccount
      BY <1>3, <1>9, <1>15, <1>17, <2>3
    <3>2. f.kind = "refresh"
      BY <1>5, <2>3 DEF KindOf
    <3>3. refresh[f.gives].of = tab[t].user
      BY <1>9, <2>3, <3>1, <3>2 DEF TabAgrees
    <3>4. x.token = tab[t].user /\ x.user = tab[t].user /\ cookie' = f.gives
      BY <1>8, <1>14, <2>3, <3>3
    <3>5. QED BY <1>7, <1>12, <3>3, <3>4 DEF TabAgrees
  <2>4. CASE f.answer # "done" /\ f.kind # "logout"
    <3>1. TabAgrees(t) /\ cookie' \in {0, cookie}
      BY <1>3, <1>5, <1>8, <1>15, <1>17, <2>4
    <3>2. x.token \in {NoAccount, tab[t].token} /\ x.user = tab[t].user
      BY <1>14, <2>4
    <3>3. QED BY <1>7, <1>12, <3>1, <3>2 DEF TabAgrees
  <2>5. QED BY <2>1, <2>2, <2>3, <2>4
<1>18. \A u \in Tabs \ elsewhere' : TabAgrees(u)'
  BY <1>16, <1>17
<1>19. QED BY <1>6, <1>10, <1>18 DEF OneAtATime

LEMMA LoseAgrees ==
    ASSUME WebTypeInv, OneAtATime, NEW t \in Tabs, NEW s \in Slots, Lose(t, s)
    PROVE  OneAtATime'
<1> SUFFICES ASSUME ~crossed'
             PROVE  OneAtATime'
  BY DEF OneAtATime
<1>1. PICK f : f = flight[t][s]
  OBVIOUS
<1>2. /\ f.pc # "none" /\ ~crossed /\ f.answer # "done"
      /\ ~(f.answer = "expired" /\ f.carries # 0)
  BY <1>1 DEF Lose
<1>3. Pending = {<<t, s>>} /\ FlightAgrees(t, s) /\ \A u \in Tabs \ elsewhere : TabAgrees(u)
  BY <1>1, <1>2, OnlyOne
<1>4. f \in Flights /\ (f.kind = "logout" => s = "person")
  BY <1>1, <1>2 DEF WebTypeInv, FlightsTyped, FlightWellFormed, KindOf
<1>5. Pending' = {}
  BY <1>3, NoneLeft DEF WebTypeInv, Lose
<1>6. cookie' = cookie /\ refresh' = refresh /\ elsewhere' = elsewhere /\ stranded' = stranded
  BY DEF Lose
<1>7. CookieLive'
  <2>1. f.answer = "expired" => cookie = 0
    BY <1>1, <1>2, <1>3 DEF FlightAgrees
  <2>2. f.answer \in {"", "refused", "down"} => CookieLive
    BY <1>1, <1>3 DEF FlightAgrees
  <2>3. QED BY <1>2, <1>4, <1>6, <2>1, <2>2 DEF CookieLive, State, Flights
<1>8. PICK g : g = [f EXCEPT !.answer = "down"]
  OBVIOUS
<1>9. g.answer = "down" /\ g.kind = f.kind
  BY <1>4, <1>8 DEF Flights
<1>10. PICK x : x = TabAfter(t, s, g, cookie)
  OBVIOUS
<1>11. tab'[t] = x /\ \A u \in Tabs : u # t => tab'[u] = tab[u]
  BY <1>1, <1>8, <1>10 DEF Lose, WebTypeInv, TabsTyped
<1>12. \/ x.token = NoAccount /\ x.user = NoAccount
       \/ x.token \in {NoAccount, tab[t].token} /\ x.user = tab[t].user
  BY <1>4, <1>9, <1>10, TabAfterIs
<1>13. ASSUME NEW u \in Tabs \ elsewhere'
       PROVE  TabAgrees(u)'
  <2>1. TabAgrees(u)
    BY <1>3, <1>6, <1>13
  <2>2. CASE u = t
    BY <1>6, <1>11, <1>12, <2>1, <2>2 DEF TabAgrees
  <2>3. CASE u # t
    BY <1>6, <1>11, <1>13, <2>1, <2>3 DEF TabAgrees
  <2>4. QED BY <2>2, <2>3
<1>14. QED BY <1>5, <1>7, <1>13 DEF OneAtATime

LEMMA WebNextAgrees ==
    ASSUME WebTypeInv, OneAtATime, WebClientNext
    PROVE  OneAtATime'
<1>1. PICK t \in Tabs :
        \/ Load(t) \/ Stale(t) \/ Login(t) \/ SwitchTenant(t) \/ Logout(t)
        \/ ServeLogin(t) \/ ServeSwitch(t) \/ ServeLogout(t)
        \/ \E s \in Slots : ServeRefresh(t, s) \/ Arrive(t, s) \/ Lose(t, s)
  BY DEF WebClientNext
<1>2. /\ "person" \in Slots /\ "refresh" \in Slots /\ "refresh" \in KindOf("refresh")
      /\ {"login", "switch", "logout"} = KindOf("person")
  BY DEF Slots, KindOf
<1>3. CASE Load(t)
  BY <1>3, LoadAgrees
<1>4. CASE Stale(t)
  BY <1>2, <1>4, SendAgrees DEF Stale
<1>5. CASE Login(t) \/ SwitchTenant(t) \/ Logout(t)
  <2>1. PICK kind \in KindOf("person") : Send(t, "person", kind) /\ UNCHANGED tab
    BY <1>2, <1>5 DEF Login, SwitchTenant, Logout
  <2>2. QED BY <1>2, <2>1, SendAgrees
<1>6. CASE ServeLogin(t) \/ ServeSwitch(t) \/ ServeLogout(t)
  <2>1. ServedSomehow(t, "person")
    BY <1>6, LoginServes, SwitchServes, LogoutServes
  <2>2. WebTypeInv'
    BY <1>2, <2>1, ServedType
  <2>3. QED BY <1>2, <2>1, <2>2, ServedAgrees
<1>7. CASE \E s \in Slots : ServeRefresh(t, s)
  <2>1. PICK s \in Slots : ServeRefresh(t, s)
    BY <1>7
  <2>2. ServedSomehow(t, s)
    BY <2>1, RefreshServes
  <2>3. WebTypeInv'
    BY <2>2, ServedType
  <2>4. QED BY <2>2, <2>3, ServedAgrees
<1>8. CASE \E s \in Slots : Arrive(t, s) \/ Lose(t, s)
  BY <1>8, ArriveAgrees, LoseAgrees
<1>9. QED BY <1>1, <1>3, <1>4, <1>5, <1>6, <1>7, <1>8

LEMMA WebStuttersAgree ==
    ASSUME WebTypeInv, OneAtATime, UNCHANGED webClientVars
    PROVE  WebTypeInv' /\ OneAtATime'
<1>1. Pending' = Pending /\ SentSet' = SentSet
  BY DEF webClientVars, Pending, SentSet
<1>2. WebTypeInv'
  BY <1>1 DEF webClientVars, WebTypeInv, CountersTyped, TabsTyped, TokensTyped, FlightsTyped,
              RequestsCounted
<1>3. OneAtATime'
  BY <1>1 DEF webClientVars, OneAtATime, TabAgrees, CookieLive, State, FlightAgrees
<1>4. QED BY <1>2, <1>3

(* Web client: when nothing is under way and nothing crossed, the browser's  *)
(* cookie is the API's live token, or one that a tenant switch revoked before*)
(* it failed, and each tab shows the user its token is for, whatever tabs,   *)
(* loads, refreshes, logins, failures and losses came before                 *)
(* (auth-context.tsx, token-store.ts, the routes under app/api/auth).        *)
THEOREM QuietBrowser == WebClientSpec => []QuietBrowserAgrees
<1>1. WebClientInit => WebTypeInv /\ OneAtATime
  <2> SUFFICES ASSUME WebClientInit
                 PROVE  WebTypeInv /\ OneAtATime
    OBVIOUS
  <2>2. Pending = {}
    <3>1. NoFlight.pc = "none"
      BY DEF NoFlight
    <3>2. \A t \in Tabs, s \in Slots : flight[t][s].pc = "none"
      BY <3>1 DEF WebClientInit
    <3>3. QED BY <3>2 DEF Pending
  <2>3. CookieLive
    BY DEF WebClientInit, CookieLive
  <2>4. ClosedTab.token = NoAccount /\ ClosedTab.user = NoAccount
    BY DEF ClosedTab
  <2>5. cookie = 0 /\ \A t \in Tabs : tab[t] = ClosedTab
    BY DEF WebClientInit
  <2>6. \A t \in Tabs : TabAgrees(t)
    BY <2>4, <2>5 DEF TabAgrees
  <2>7. OneAtATime
    BY <2>2, <2>3, <2>6 DEF OneAtATime
  <2>8. QED BY <2>7, WebInitType
<1>2. WebTypeInv /\ OneAtATime /\ [WebClientNext]_webClientVars => WebTypeInv' /\ OneAtATime'
  BY WebNextType, WebNextAgrees, WebStuttersAgree
<1>3. WebTypeInv /\ OneAtATime => QuietBrowserAgrees
  BY DEF OneAtATime, TabAgrees, CookieLive, QuietBrowserAgrees
<1>4. QED BY <1>1, <1>2, <1>3, PTL DEF WebClientSpec

-----------------------------------------------------------------------------
(* Gllue mirror: the inductive invariants. *)

Pcs == {"off", "waiting", "query", "find", "map", "create", "link", "update", "checksum", "advance"}
RowStates == {"find", "map", "create", "link", "update", "checksum"}
Work == [pc : Pcs, since : Nat, todo : SUBSET (SrcRows \X (1..MaxSourceChanges)),
         full : BOOLEAN, found : Nat]

(* The row a worker is at, with the version its page holds of it.            *)
RowOf(x) == Min({e[1] : e \in x.todo})
VersionOf(x) == CHOOSE v \in 1..MaxSourceChanges : <<RowOf(x), v>> \in x.todo

(* A worker that found its row without a mapping, or made a copy of it.      *)
Making(x) == x.pc = "link" \/ (x.pc \in {"map", "create"} /\ x.found = 0)

SourceTyped ==
    /\ source \in [SrcRows -> [version : Nat, changed : Nat]]
    /\ instant \in Nat /\ instant <= MaxSourceChanges
    /\ \A r \in SrcRows : source[r].version <= instant /\ source[r].changed <= instant

CopiesTyped == copies \in [SrcRows -> Seq(1..MaxSourceChanges)]

MappingTyped ==
    /\ mapping \in [SrcRows -> [to : Nat, checksum : Nat]]
    /\ \A r \in SrcRows : /\ mapping[r].to <= Len(copies[r])
                          /\ mapping[r].checksum <= source[r].version

CursorTyped ==
    /\ syncCursor \in [Tables -> Nat]
    /\ \A t \in Tables : syncCursor[t] <= instant

TablesGood == SourceTyped /\ CopiesTyped /\ MappingTyped /\ CursorTyped

WorkerGood(x, t) ==
    /\ x.pc \in RowStates <=> x.todo # {}
    /\ \A e \in x.todo : TableOf[e[1]] = t /\ e[2] <= source[e[1]].version
    /\ x.since <= syncCursor[t]
    /\ x.pc \in {"link", "update", "checksum"} => x.found > 0 /\ x.found <= Len(copies[RowOf(x)])
    /\ x.pc = "create" => x.found = 0
    /\ x.pc \in {"update", "checksum"} => x.found = mapping[RowOf(x)].to
    /\ x.pc = "map" => x.found \in {0, mapping[RowOf(x)].to}
    /\ x.pc \in {"create", "link"} => Resolves(RowOf(x))

WorkersGood ==
    /\ worker \in [Runs -> [Tables -> Work]]
    /\ \A w \in Runs, t \in Tables : WorkerGood(worker[w][t], t)

(* A table waits for the tables before it. *)
RowsInOrder ==
    \A w \in Runs, t, u \in Tables :
        EarlierThan(t, u) /\ worker[w][t].pc # "off" => worker[w][u].pc \in {"off", "waiting"}

MirrorTypeInv == TablesGood /\ WorkersGood /\ RowsInOrder

(* Of a row that no two runs met unmapped there is one copy; before its      *)
(* mapping there is one worker that makes it.                                *)
MakesRow(w, r) == Making(worker[w][TableOf[r]]) /\ RowOf(worker[w][TableOf[r]]) = r

MadeOnce(r) ==
    /\ \A w, x \in Runs : MakesRow(w, r) /\ MakesRow(x, r) => w = x
    /\ \A w \in Runs : MakesRow(w, r) =>
          /\ mapping[r].to = 0
          /\ Len(copies[r]) = IF worker[w][TableOf[r]].pc = "link" THEN 1 ELSE 0
    /\ mapping[r].to = 0 /\ (\A w \in Runs : ~MakesRow(w, r)) => Len(copies[r]) = 0
    /\ Len(copies[r]) <= 1

OneMaker == \A r \in SrcRows \ twice : MadeOnce(r)

ParentsFirst == \A r \in SrcRows : copies[r] # <<>> => Resolves(r)

Mirrored(r) ==
    /\ mapping[r].to > 0 /\ mapping[r].checksum = source[r].version
    /\ copies[r][mapping[r].to] = source[r].version

(* What a worker holds of a row that nothing befell. *)
WorkerCurrent(x, r) ==
    /\ \A v \in 1..MaxSourceChanges : <<r, v>> \in x.todo => v = source[r].version
    /\ x.pc \notin {"off", "waiting", "query"} /\ source[r].version > 0 =>
          <<r, source[r].version>> \in x.todo \/ Mirrored(r)
    /\ x.pc \in RowStates /\ RowOf(x) = r =>
          /\ x.pc \in {"link", "checksum"} => copies[r][x.found] = source[r].version
          /\ Making(x) /\ mapping[r].to > 0 => Mirrored(r)

RowCurrent(r) ==
    /\ mapping[r].to > 0 /\ mapping[r].checksum = source[r].version => Mirrored(r)
    /\ source[r].version > 0 /\ source[r].changed <= syncCursor[TableOf[r]] => Mirrored(r)
    /\ \A w \in Runs : WorkerCurrent(worker[w][TableOf[r]], r)

Current == \A r \in SrcRows \ passed : RowCurrent(r)

-----------------------------------------------------------------------------
(* Gllue mirror: the row a worker is at. *)

LEMMA Less == \A m, n \in Nat : <<m, n>> \in OpToRel(<, Nat) <=> m < n
BY DEF OpToRel

LEMMA LeastNatural ==
    ASSUME NEW T \in SUBSET Nat, T # {}
    PROVE  Min(T) \in T
<1>. DEFINE R == OpToRel(<, Nat)
<1>1. IsWellFoundedOn(R, Nat)
  BY NatLessThanWellFounded
<1>2. \A m, n \in Nat : <<m, n>> \in R <=> m < n
  BY Less
<1>. HIDE DEF R
<1>3. PICK x \in T : \A y \in T : ~(<<y, x>> \in R)
  BY <1>1, WFMin
<1>4. ASSUME NEW y \in T PROVE x <= y
  <2>1. x \in Nat /\ y \in Nat
    OBVIOUS
  <2>2. ~(y < x)
    BY <1>2, <1>3, <2>1
  <2>3. QED BY <2>1, <2>2
<1>5. \E z \in T : \A y \in T : z <= y
  BY <1>4
<1>6. QED BY <1>5 DEF Min

LEMMA RowPicked ==
    ASSUME NEW x \in Work, x.todo # {}
    PROVE  /\ RowOf(x) \in SrcRows /\ VersionOf(x) \in 1..MaxSourceChanges
           /\ <<RowOf(x), VersionOf(x)>> \in x.todo
<1>1. x.todo \subseteq SrcRows \X (1..MaxSourceChanges) /\ SrcRows \subseteq Nat
  BY GllueSyncAssumption DEF Work
<1>2. PICK T : T = {e[1] : e \in x.todo}
  OBVIOUS
<1>3. T \subseteq Nat /\ T # {}
  BY <1>1, <1>2
<1>4. Min(T) \in T
  BY <1>3, LeastNatural
<1>5. PICK e \in x.todo : e[1] = RowOf(x)
  BY <1>2, <1>4 DEF RowOf
<1>6. e = <<RowOf(x), e[2]>> /\ RowOf(x) \in SrcRows /\ e[2] \in 1..MaxSourceChanges
  BY <1>1, <1>5
<1>7. \E v \in 1..MaxSourceChanges : <<RowOf(x), v>> \in x.todo
  BY <1>5, <1>6
<1>8. QED BY <1>6, <1>7 DEF VersionOf

LEMMA RowIs ==
    ASSUME NEW w \in Runs, NEW t \in Tables
    PROVE  /\ SourceRow(w, t) = RowOf(worker[w][t]) /\ Version(w, t) = VersionOf(worker[w][t])
BY DEF SourceRow, RowOf, Version, VersionOf

(* What holds of a worker at a row. *)
LEMMA AtRow ==
    ASSUME TablesGood, WorkersGood, NEW w \in Runs, NEW t \in Tables,
           worker[w][t].pc \in RowStates
    PROVE  /\ RowOf(worker[w][t]) \in SrcRows /\ TableOf[RowOf(worker[w][t])] = t
           /\ VersionOf(worker[w][t]) \in 1..MaxSourceChanges
           /\ VersionOf(worker[w][t]) <= source[RowOf(worker[w][t])].version
           /\ <<RowOf(worker[w][t]), VersionOf(worker[w][t])>> \in worker[w][t].todo
<1>1. worker[w][t] \in Work /\ WorkerGood(worker[w][t], t)
  BY DEF WorkersGood
<1>2. PICK x \in Work : x = worker[w][t]
  BY <1>1
<1>3. x.todo # {}
  BY <1>1, <1>2 DEF WorkerGood
<1>4. /\ RowOf(x) \in SrcRows /\ VersionOf(x) \in 1..MaxSourceChanges
      /\ <<RowOf(x), VersionOf(x)>> \in x.todo
  BY <1>3, RowPicked
<1>5. TableOf[RowOf(x)] = t /\ VersionOf(x) <= source[RowOf(x)].version
  <2>1. PICK e \in x.todo : e = <<RowOf(x), VersionOf(x)>>
    BY <1>4
  <2>2. e[1] = RowOf(x) /\ e[2] = VersionOf(x)
    BY <2>1
  <2>3. QED BY <1>1, <1>2, <2>1, <2>2 DEF WorkerGood
<1>6. QED BY <1>2, <1>4, <1>5

-----------------------------------------------------------------------------
(* Gllue mirror: one worker moves. *)

Leads(w, t, y) ==
    /\ worker' \in [Runs -> [Tables -> Work]]
    /\ worker'[w][t] = y
    /\ \A v \in Runs, u \in Tables : ~(v = w /\ u = t) => worker'[v][u] = worker[v][u]

LEMMA MoveOne ==
    ASSUME worker \in [Runs -> [Tables -> Work]], NEW w \in Runs, NEW t \in Tables,
           NEW y \in Work, worker' = [worker EXCEPT ![w][t] = y]
    PROVE  Leads(w, t, y)
<1>1. PICK g : g = [worker[w] EXCEPT ![t] = y]
  OBVIOUS
<1>2. worker' = [worker EXCEPT ![w] = g]
  BY <1>1
<1>3. g \in [Tables -> Work] /\ g[t] = y /\ \A u \in Tables : u # t => g[u] = worker[w][u]
  BY <1>1
<1>4. worker' \in [Runs -> [Tables -> Work]]
  BY <1>2, <1>3
<1>5. worker'[w] = g /\ \A v \in Runs : v # w => worker'[v] = worker[v]
  BY <1>2
<1>6. QED BY <1>3, <1>4, <1>5 DEF Leads

(* The row is not changed; the worker is at another statement of it. *)
OnRow(x, y, pc, found) ==
    /\ y.pc = pc /\ y.found = found
    /\ y.todo = x.todo /\ y.since = x.since /\ y.full = x.full

(* The row is done with. *)
PastRow(x, y) ==
    /\ y.todo = {e \in x.todo : e[1] # RowOf(x)}
    /\ y.pc = IF y.todo = {} THEN "advance" ELSE "find"
    /\ y.found = 0 /\ y.since = x.since /\ y.full = x.full

LEMMA StepsToMoves ==
    ASSUME WorkersGood, NEW w \in Runs, NEW t \in Tables, NEW pc \in Pcs, StepsTo(w, t, pc)
    PROVE  \E y \in Work : Leads(w, t, y) /\ OnRow(worker[w][t], y, pc, worker[w][t].found)
<1>1. PICK x \in Work : x = worker[w][t]
  BY DEF WorkersGood
<1>2. PICK y : y = [x EXCEPT !.pc = pc]
  OBVIOUS
<1>3. y \in Work /\ OnRow(x, y, pc, x.found)
  BY <1>2 DEF Work, OnRow
<1>4. worker' = [worker EXCEPT ![w][t] = y]
  BY <1>1, <1>2 DEF StepsTo
<1>5. QED BY <1>1, <1>3, <1>4, MoveOne DEF WorkersGood

LEMMA FoundMoves ==
    ASSUME WorkersGood, NEW w \in Runs, NEW t \in Tables, NEW pc \in Pcs, NEW found \in Nat,
           worker' = [worker EXCEPT ![w][t].pc = pc, ![w][t].found = found]
    PROVE  \E y \in Work : Leads(w, t, y) /\ OnRow(worker[w][t], y, pc, found)
<1>1. PICK x \in Work : x = worker[w][t]
  BY DEF WorkersGood
<1>2. PICK y : y = [x EXCEPT !.pc = pc, !.found = found]
  OBVIOUS
<1>3. y \in Work /\ OnRow(x, y, pc, found)
  BY <1>2 DEF Work, OnRow
<1>4. worker' = [worker EXCEPT ![w][t] = y]
  BY <1>1, <1>2 DEF WorkersGood
<1>5. QED BY <1>1, <1>3, <1>4, MoveOne DEF WorkersGood

LEMMA NextRowMoves ==
    ASSUME WorkersGood, NEW w \in Runs, NEW t \in Tables, NextRow(w, t)
    PROVE  \E y \in Work : Leads(w, t, y) /\ PastRow(worker[w][t], y)
<1>1. PICK x \in Work : x = worker[w][t]
  BY DEF WorkersGood
<1>2. PICK rest : rest = {e \in x.todo : e[1] # RowOf(x)}
  OBVIOUS
<1>3. PICK pc : pc = IF rest = {} THEN "advance" ELSE "find"
  OBVIOUS
<1>4. PICK y : y = [x EXCEPT !.todo = rest, !.found = 0, !.pc = pc]
  OBVIOUS
<1>5. rest \in SUBSET (SrcRows \X (1..MaxSourceChanges)) /\ pc \in Pcs
  BY <1>2, <1>3 DEF Work, Pcs
<1>6. y \in Work
  BY <1>4, <1>5 DEF Work
<1>7. y.todo = rest /\ y.pc = pc /\ y.found = 0 /\ y.since = x.since /\ y.full = x.full
  BY <1>4 DEF Work
<1>8. worker' = [worker EXCEPT ![w][t].todo = rest, ![w][t].found = 0, ![w][t].pc = pc]
  BY <1>1, <1>2, <1>3, RowIs DEF NextRow
<1>9. worker' = [worker EXCEPT ![w][t] = y]
  BY <1>1, <1>4, <1>8 DEF WorkersGood
<1>10. PastRow(x, y)
  BY <1>2, <1>3, <1>7 DEF PastRow
<1>11. QED BY <1>1, <1>6, <1>9, <1>10, MoveOne DEF WorkersGood

-----------------------------------------------------------------------------
(* Gllue mirror: what a step at a row does, worker x becoming y.             *)

Skips(x, y) ==
    /\ x.pc = "find" /\ PastRow(x, y) /\ UNCHANGED <<copies, mapping>>
    /\ mapping[RowOf(x)].to > 0 /\ mapping[RowOf(x)].checksum = VersionOf(x)
Finds(w, x, y) ==
    /\ x.pc = "find" /\ OnRow(x, y, "map", mapping[RowOf(x)].to) /\ UNCHANGED <<copies, mapping>>
    /\ mapping[RowOf(x)].to = 0 /\ (\E v \in Runs \ {w} : MakesRow(v, RowOf(x))) =>
          RowOf(x) \in twice'
Maps(x, y) ==
    /\ x.pc = "map" /\ Resolves(RowOf(x)) /\ UNCHANGED <<copies, mapping>>
    /\ OnRow(x, y, IF x.found = 0 THEN "create" ELSE "update", x.found)
Leaves(x, y) ==
    /\ x.pc \in RowStates /\ PastRow(x, y) /\ UNCHANGED <<copies, mapping>>
    /\ RowOf(x) \in passed' /\ (x.pc = "link" => RowOf(x) \in twice')
Creates(x, y) ==
    /\ x.pc = "create" /\ OnRow(x, y, "link", Len(copies[RowOf(x)]) + 1) /\ UNCHANGED mapping
    /\ copies' = [copies EXCEPT ![RowOf(x)] = Append(@, VersionOf(x))]
Links(x, y) ==
    /\ x.pc = "link" /\ PastRow(x, y) /\ UNCHANGED copies
    /\ mapping' = IF mapping[RowOf(x)].to > 0 THEN mapping
                  ELSE [mapping EXCEPT ![RowOf(x)] = [to |-> x.found, checksum |-> VersionOf(x)]]
Updates(x, y) ==
    /\ x.pc = "update" /\ OnRow(x, y, "checksum", x.found) /\ UNCHANGED mapping
    /\ copies' = [copies EXCEPT ![RowOf(x)][x.found] = VersionOf(x)]
Marks(x, y) ==
    /\ x.pc = "checksum" /\ PastRow(x, y) /\ UNCHANGED copies
    /\ mapping' = [mapping EXCEPT ![RowOf(x)].checksum = VersionOf(x)]

RowActs(w, x, y) ==
    \/ Skips(x, y) \/ Finds(w, x, y) \/ Maps(x, y) \/ Leaves(x, y)
    \/ Creates(x, y) \/ Links(x, y) \/ Updates(x, y) \/ Marks(x, y)

AtRowStep(w, t, y) ==
    /\ worker[w][t].pc \in RowStates
    /\ Leads(w, t, y) /\ RowActs(w, worker[w][t], y)
    /\ UNCHANGED <<source, instant, syncCursor>>
    /\ twice \subseteq twice' /\ passed \subseteq passed'
    /\ twice' \subseteq twice \cup {RowOf(worker[w][t])}
    /\ passed' \subseteq passed \cup {RowOf(worker[w][t])}

LEMMA FindMappingActs ==
    ASSUME TablesGood, WorkersGood, NEW w \in Runs, NEW t \in Tables, FindMapping(w, t)
    PROVE  \E y \in Work : AtRowStep(w, t, y)
<1>1. PICK x \in Work : x = worker[w][t]
  BY DEF WorkersGood
<1>2. x.pc = "find" /\ x.pc \in RowStates
  BY <1>1 DEF FindMapping, RowStates
<1>3. PICK r \in SrcRows : r = RowOf(x)
  BY <1>1, <1>2, AtRow
<1>4. TableOf[r] = t /\ SourceRow(w, t) = r /\ Version(w, t) = VersionOf(x)
  BY <1>1, <1>2, <1>3, AtRow, RowIs
<1>5. /\ UNCHANGED <<source, instant, copies, mapping, syncCursor, passed>>
      /\ twice \subseteq twice' /\ twice' \subseteq twice \cup {r}
  BY <1>4 DEF FindMapping, mirrorVars
<1>6. mapping[r].to = 0 /\ (\E v \in Runs \ {w} : MakesRow(v, r)) => r \in twice'
  <2>1. ASSUME mapping[r].to = 0, NEW v \in Runs \ {w}, MakesRow(v, r)
        PROVE  /\ \/ worker[v][t].pc = "link"
                  \/ worker[v][t].pc \in {"map", "create"} /\ worker[v][t].found = 0
               /\ SourceRow(v, t) = r
    BY <1>4, <2>1, RowIs DEF MakesRow, Making
  <2>2. QED BY <1>4, <2>1 DEF FindMapping
<1>7. CASE Unchanged(mapping[r], VersionOf(x))
  <2>1. NextRow(w, t)
    BY <1>4, <1>7 DEF FindMapping
  <2>2. PICK y \in Work : Leads(w, t, y) /\ PastRow(x, y)
    BY <1>1, <2>1, NextRowMoves
  <2>3. Skips(x, y)
    BY <1>2, <1>3, <1>5, <1>7, <2>2 DEF Skips, Unchanged
  <2>4. QED BY <1>1, <1>2, <1>3, <1>5, <2>2, <2>3 DEF AtRowStep, RowActs
<1>8. CASE ~Unchanged(mapping[r], VersionOf(x))
  <2>1. worker' = [worker EXCEPT ![w][t].pc = "map", ![w][t].found = mapping[r].to]
    BY <1>4, <1>8 DEF FindMapping
  <2>2. mapping[r].to \in Nat /\ "map" \in Pcs
    BY DEF TablesGood, MappingTyped, Pcs
  <2>3. PICK y \in Work : Leads(w, t, y) /\ OnRow(x, y, "map", mapping[r].to)
    BY <1>1, <2>1, <2>2, FoundMoves
  <2>4. Finds(w, x, y)
    BY <1>2, <1>3, <1>5, <1>6, <2>3 DEF Finds
  <2>5. QED BY <1>1, <1>2, <1>3, <1>5, <2>3, <2>4 DEF AtRowStep, RowActs
<1>9. QED BY <1>7, <1>8

LEMMA MapRowActs ==
    ASSUME TablesGood, WorkersGood, NEW w \in Runs, NEW t \in Tables, MapRow(w, t)
    PROVE  \E y \in Work : AtRowStep(w, t, y)
<1>1. PICK x \in Work : x = worker[w][t]
  BY DEF WorkersGood
<1>2. x.pc = "map" /\ x.pc \in RowStates
  BY <1>1 DEF MapRow, RowStates
<1>3. PICK r \in SrcRows : r = RowOf(x)
  BY <1>1, <1>2, AtRow
<1>4. SourceRow(w, t) = r
  BY <1>1, <1>3, RowIs
<1>5. UNCHANGED <<source, instant, copies, mapping, syncCursor, twice>>
  BY DEF MapRow, mirrorVars
<1>6. CASE Resolves(r)
  <2>1. PICK pc \in Pcs : pc = IF x.found = 0 THEN "create" ELSE "update"
    BY DEF Pcs
  <2>2. StepsTo(w, t, pc) /\ UNCHANGED passed
    BY <1>1, <1>4, <1>6, <2>1 DEF MapRow
  <2>3. PICK y \in Work : Leads(w, t, y) /\ OnRow(x, y, pc, x.found)
    BY <1>1, <2>2, StepsToMoves
  <2>4. Maps(x, y)
    BY <1>2, <1>3, <1>5, <1>6, <2>1, <2>3 DEF Maps
  <2>5. QED BY <1>1, <1>2, <1>3, <1>5, <2>2, <2>3, <2>4 DEF AtRowStep, RowActs
<1>7. CASE ~Resolves(r)
  <2>1. NextRow(w, t) /\ passed' = passed \cup {r}
    BY <1>4, <1>7 DEF MapRow
  <2>2. PICK y \in Work : Leads(w, t, y) /\ PastRow(x, y)
    BY <1>1, <2>1, NextRowMoves
  <2>3. Leaves(x, y)
    BY <1>2, <1>3, <1>5, <2>1, <2>2 DEF Leaves
  <2>4. QED BY <1>1, <1>2, <1>3, <1>5, <2>1, <2>2, <2>3 DEF AtRowStep, RowActs
<1>8. QED BY <1>6, <1>7

LEMMA RowFailsActs ==
    ASSUME TablesGood, WorkersGood, NEW w \in Runs, NEW t \in Tables, RowFails(w, t)
    PROVE  \E y \in Work : AtRowStep(w, t, y)
<1>1. PICK x \in Work : x = worker[w][t]
  BY DEF WorkersGood
<1>2. x.pc \in RowStates
  BY <1>1 DEF RowFails, RowStates
<1>3. PICK r \in SrcRows : r = RowOf(x)
  BY <1>1, <1>2, AtRow
<1>4. SourceRow(w, t) = r
  BY <1>1, <1>3, RowIs
<1>5. /\ UNCHANGED <<source, instant, copies, mapping, syncCursor>> /\ NextRow(w, t)
      /\ passed' = passed \cup {r} /\ twice' = IF x.pc = "link" THEN twice \cup {r} ELSE twice
  BY <1>1, <1>4 DEF RowFails, mirrorVars
<1>6. PICK y \in Work : Leads(w, t, y) /\ PastRow(x, y)
  BY <1>1, <1>5, NextRowMoves
<1>7. Leaves(x, y)
  BY <1>2, <1>3, <1>5, <1>6 DEF Leaves
<1>8. QED BY <1>1, <1>2, <1>3, <1>5, <1>6, <1>7 DEF AtRowStep, RowActs

LEMMA CreateCopyActs ==
    ASSUME TablesGood, WorkersGood, NEW w \in Runs, NEW t \in Tables, CreateCopy(w, t)
    PROVE  \E y \in Work : AtRowStep(w, t, y)
<1>1. PICK x \in Work : x = worker[w][t]
  BY DEF WorkersGood
<1>2. x.pc = "create" /\ x.pc \in RowStates
  BY <1>1 DEF CreateCopy, RowStates
<1>3. PICK r \in SrcRows : r = RowOf(x)
  BY <1>1, <1>2, AtRow
<1>4. SourceRow(w, t) = r /\ Version(w, t) = VersionOf(x)
  BY <1>1, <1>3, RowIs
<1>5. /\ UNCHANGED <<source, instant, mapping, syncCursor, twice, passed>>
      /\ copies' = [copies EXCEPT ![r] = Append(@, VersionOf(x))]
      /\ worker' = [worker EXCEPT ![w][t].pc = "link", ![w][t].found = Len(copies[r]) + 1]
  BY <1>4 DEF CreateCopy
<1>6. "link" \in Pcs /\ Len(copies[r]) + 1 \in Nat
  BY DEF Pcs, TablesGood, CopiesTyped
<1>7. PICK y \in Work : Leads(w, t, y) /\ OnRow(x, y, "link", Len(copies[r]) + 1)
  BY <1>1, <1>5, <1>6, FoundMoves
<1>8. Creates(x, y)
  BY <1>2, <1>3, <1>5, <1>7 DEF Creates
<1>9. QED BY <1>1, <1>2, <1>3, <1>5, <1>7, <1>8 DEF AtRowStep, RowActs

LEMMA CreateMappingActs ==
    ASSUME TablesGood, WorkersGood, NEW w \in Runs, NEW t \in Tables, CreateMapping(w, t)
    PROVE  \E y \in Work : AtRowStep(w, t, y)
<1>1. PICK x \in Work : x = worker[w][t]
  BY DEF WorkersGood
<1>2. x.pc = "link" /\ x.pc \in RowStates
  BY <1>1 DEF CreateMapping, RowStates
<1>3. PICK r \in SrcRows : r = RowOf(x)
  BY <1>1, <1>2, AtRow
<1>4. SourceRow(w, t) = r /\ Version(w, t) = VersionOf(x)
  BY <1>1, <1>3, RowIs
<1>5. /\ UNCHANGED <<source, instant, copies, syncCursor, twice, passed>> /\ NextRow(w, t)
      /\ mapping' = IF mapping[r].to > 0 THEN mapping
                    ELSE [mapping EXCEPT ![r] = [to |-> x.found, checksum |-> VersionOf(x)]]
  BY <1>1, <1>4 DEF CreateMapping
<1>6. PICK y \in Work : Leads(w, t, y) /\ PastRow(x, y)
  BY <1>1, <1>5, NextRowMoves
<1>7. Links(x, y)
  BY <1>2, <1>3, <1>5, <1>6 DEF Links
<1>8. QED BY <1>1, <1>2, <1>3, <1>5, <1>6, <1>7 DEF AtRowStep, RowActs

LEMMA UpdateCopyActs ==
    ASSUME TablesGood, WorkersGood, NEW w \in Runs, NEW t \in Tables, UpdateCopy(w, t)
    PROVE  \E y \in Work : AtRowStep(w, t, y)
<1>1. PICK x \in Work : x = worker[w][t]
  BY DEF WorkersGood
<1>2. x.pc = "update" /\ x.pc \in RowStates
  BY <1>1 DEF UpdateCopy, RowStates
<1>3. PICK r \in SrcRows : r = RowOf(x)
  BY <1>1, <1>2, AtRow
<1>4. SourceRow(w, t) = r /\ Version(w, t) = VersionOf(x)
  BY <1>1, <1>3, RowIs
<1>5. /\ UNCHANGED <<source, instant, mapping, syncCursor, twice, passed>>
      /\ StepsTo(w, t, "checksum")
      /\ copies' = [copies EXCEPT ![r][x.found] = VersionOf(x)]
  BY <1>1, <1>4 DEF UpdateCopy
<1>6. PICK y \in Work : Leads(w, t, y) /\ OnRow(x, y, "checksum", x.found)
  BY <1>1, <1>5, StepsToMoves DEF Pcs
<1>7. Updates(x, y)
  BY <1>2, <1>3, <1>5, <1>6 DEF Updates
<1>8. QED BY <1>1, <1>2, <1>3, <1>5, <1>6, <1>7 DEF AtRowStep, RowActs

LEMMA UpdateChecksumActs ==
    ASSUME TablesGood, WorkersGood, NEW w \in Runs, NEW t \in Tables, UpdateChecksum(w, t)
    PROVE  \E y \in Work : AtRowStep(w, t, y)
<1>1. PICK x \in Work : x = worker[w][t]
  BY DEF WorkersGood
<1>2. x.pc = "checksum" /\ x.pc \in RowStates
  BY <1>1 DEF UpdateChecksum, RowStates
<1>3. PICK r \in SrcRows : r = RowOf(x)
  BY <1>1, <1>2, AtRow
<1>4. SourceRow(w, t) = r /\ Version(w, t) = VersionOf(x)
  BY <1>1, <1>3, RowIs
<1>5. /\ UNCHANGED <<source, instant, copies, syncCursor, twice, passed>> /\ NextRow(w, t)
      /\ mapping' = [mapping EXCEPT ![r].checksum = VersionOf(x)]
  BY <1>1, <1>4 DEF UpdateChecksum
<1>6. PICK y \in Work : Leads(w, t, y) /\ PastRow(x, y)
  BY <1>1, <1>5, NextRowMoves
<1>7. Marks(x, y)
  BY <1>2, <1>3, <1>5, <1>6 DEF Marks
<1>8. QED BY <1>1, <1>2, <1>3, <1>5, <1>6, <1>7 DEF AtRowStep, RowActs

-----------------------------------------------------------------------------
(* Gllue mirror: types. *)

LEMMA SeqExcept ==
    ASSUME NEW S, NEW s \in Seq(S), NEW i \in 1..Len(s), NEW v \in S,
           NEW s2, s2 = [s EXCEPT ![i] = v]
    PROVE  s2 \in Seq(S) /\ Len(s2) = Len(s) /\ s2[i] = v
           /\ \A j \in 1..Len(s) : j # i => s2[j] = s[j]
OBVIOUS

(* The row of a step: its copies and its mapping; the other rows keep theirs. *)
LEMMA CopiesCreated ==
    ASSUME TablesGood, NEW x \in Work, NEW y \in Work, NEW r \in SrcRows, r = RowOf(x),
           VersionOf(x) \in 1..MaxSourceChanges, Creates(x, y)
    PROVE  /\ CopiesTyped' /\ \A q \in SrcRows : q # r => copies'[q] = copies[q]
           /\ Len(copies'[r]) = Len(copies[r]) + 1
           /\ copies'[r][Len(copies[r]) + 1] = VersionOf(x)
           /\ \A i \in 1..Len(copies[r]) : copies'[r][i] = copies[r][i]
<1>1. copies \in [SrcRows -> Seq(1..MaxSourceChanges)]
  BY DEF TablesGood, CopiesTyped
<1>2. PICK v \in 1..MaxSourceChanges : v = VersionOf(x)
  OBVIOUS
<1>3. PICK s : s = Append(copies[r], v)
  OBVIOUS
<1>4. copies[r] \in Seq(1..MaxSourceChanges)
  BY <1>1
<1>5. /\ s \in Seq(1..MaxSourceChanges) /\ Len(s) = Len(copies[r]) + 1
      /\ s[Len(copies[r]) + 1] = v /\ \A i \in 1..Len(copies[r]) : s[i] = copies[r][i]
  BY <1>3, <1>4
<1>6. copies' = [copies EXCEPT ![r] = s]
  BY <1>2, <1>3 DEF Creates
<1>7. copies' \in [SrcRows -> Seq(1..MaxSourceChanges)] /\ copies'[r] = s
      /\ \A q \in SrcRows : q # r => copies'[q] = copies[q]
  BY <1>1, <1>5, <1>6
<1>8. QED BY <1>2, <1>5, <1>7 DEF CopiesTyped

LEMMA CopiesUpdated ==
    ASSUME TablesGood, NEW x \in Work, NEW y \in Work, NEW r \in SrcRows, r = RowOf(x),
           VersionOf(x) \in 1..MaxSourceChanges, Updates(x, y), x.found \in 1..Len(copies[r])
    PROVE  /\ CopiesTyped' /\ \A q \in SrcRows : q # r => copies'[q] = copies[q]
           /\ Len(copies'[r]) = Len(copies[r]) /\ copies'[r][x.found] = VersionOf(x)
           /\ \A i \in 1..Len(copies[r]) : i # x.found => copies'[r][i] = copies[r][i]
<1>1. copies \in [SrcRows -> Seq(1..MaxSourceChanges)]
  BY DEF TablesGood, CopiesTyped
<1>2. PICK v \in 1..MaxSourceChanges : v = VersionOf(x)
  OBVIOUS
<1>3. PICK s : s = [copies[r] EXCEPT ![x.found] = v]
  OBVIOUS
<1>4. copies[r] \in Seq(1..MaxSourceChanges)
  BY <1>1
<1>5. /\ s \in Seq(1..MaxSourceChanges) /\ Len(s) = Len(copies[r]) /\ s[x.found] = v
      /\ \A j \in 1..Len(copies[r]) : j # x.found => s[j] = copies[r][j]
  BY <1>3, <1>4, SeqExcept
<1>6. copies' = [copies EXCEPT ![r] = s]
  BY <1>2, <1>3 DEF Updates
<1>7. copies' \in [SrcRows -> Seq(1..MaxSourceChanges)] /\ copies'[r] = s
      /\ \A q \in SrcRows : q # r => copies'[q] = copies[q]
  BY <1>1, <1>5, <1>6
<1>8. QED BY <1>2, <1>5, <1>7 DEF CopiesTyped

LEMMA CopiesKept ==
    ASSUME NEW w, NEW x, NEW y, RowActs(w, x, y), ~Creates(x, y), ~Updates(x, y)
    PROVE  copies' = copies
BY DEF RowActs, Skips, Finds, Maps, Leaves, Links, Marks

MappingRecords == mapping' \in [SrcRows -> [to : Nat, checksum : Nat]]

LEMMA MappingLinked ==
    ASSUME TablesGood, NEW x \in Work, NEW y \in Work, NEW r \in SrcRows, r = RowOf(x),
           VersionOf(x) \in 1..MaxSourceChanges, Links(x, y), mapping[r].to = 0
    PROVE  /\ MappingRecords /\ \A q \in SrcRows : q # r => mapping'[q] = mapping[q]
           /\ mapping'[r].to = x.found /\ mapping'[r].checksum = VersionOf(x)
<1>1. mapping \in [SrcRows -> [to : Nat, checksum : Nat]]
  BY DEF TablesGood, MappingTyped
<1>2. x.found \in Nat /\ VersionOf(x) \in Nat
  BY DEF Work
<1>3. PICK m : m = [to |-> x.found, checksum |-> VersionOf(x)]
  OBVIOUS
<1>4. m \in [to : Nat, checksum : Nat] /\ m.to = x.found /\ m.checksum = VersionOf(x)
  BY <1>2, <1>3
<1>5. mapping' = [mapping EXCEPT ![r] = m]
  BY <1>3 DEF Links
<1>6. MappingRecords /\ mapping'[r] = m
  BY <1>1, <1>4, <1>5 DEF MappingRecords
<1>7. \A q \in SrcRows : q # r => mapping'[q] = mapping[q]
  BY <1>1, <1>5
<1>8. QED BY <1>4, <1>6, <1>7

LEMMA MappingMarked ==
    ASSUME TablesGood, NEW x \in Work, NEW y \in Work, NEW r \in SrcRows, r = RowOf(x),
           VersionOf(x) \in 1..MaxSourceChanges, Marks(x, y)
    PROVE  /\ MappingRecords /\ \A q \in SrcRows : q # r => mapping'[q] = mapping[q]
           /\ mapping'[r].to = mapping[r].to /\ mapping'[r].checksum = VersionOf(x)
<1>1. mapping \in [SrcRows -> [to : Nat, checksum : Nat]]
  BY DEF TablesGood, MappingTyped
<1>2. VersionOf(x) \in Nat
  OBVIOUS
<1>3. PICK m : m = [mapping[r] EXCEPT !.checksum = VersionOf(x)]
  OBVIOUS
<1>4. m \in [to : Nat, checksum : Nat] /\ m.to = mapping[r].to /\ m.checksum = VersionOf(x)
  BY <1>1, <1>2, <1>3
<1>5. mapping' = [mapping EXCEPT ![r] = m]
  BY <1>3 DEF Marks
<1>6. MappingRecords /\ mapping'[r] = m
  BY <1>1, <1>4, <1>5 DEF MappingRecords
<1>7. \A q \in SrcRows : q # r => mapping'[q] = mapping[q]
  BY <1>1, <1>5
<1>8. QED BY <1>4, <1>6, <1>7

LEMMA MappingKept ==
    ASSUME TablesGood, NEW w, NEW x \in Work, NEW y \in Work, NEW r \in SrcRows, r = RowOf(x),
           RowActs(w, x, y), ~Marks(x, y), ~(Links(x, y) /\ mapping[r].to = 0)
    PROVE  mapping' = mapping
<1>1. mapping[r].to \in Nat
  BY DEF TablesGood, MappingTyped
<1>2. CASE Links(x, y)
  <2>1. mapping[r].to > 0
    BY <1>1, <1>2
  <2>2. QED BY <1>2, <2>1 DEF Links
<1>3. CASE ~Links(x, y)
  BY <1>3 DEF RowActs, Skips, Finds, Maps, Leaves, Creates, Updates
<1>4. QED BY <1>2, <1>3

(* What every step at a row keeps of its tables. *)
TablesGrow ==
    /\ \A q \in SrcRows : /\ Len(copies'[q]) >= Len(copies[q])
                          /\ mapping[q].to > 0 => mapping'[q].to = mapping[q].to
                          /\ source'[q].version >= source[q].version
    /\ \A t \in Tables : syncCursor'[t] >= syncCursor[t]

LEMMA RowTables ==
    ASSUME TablesGood, WorkersGood, NEW w \in Runs, NEW t \in Tables, NEW y \in Work,
           AtRowStep(w, t, y)
    PROVE  /\ TablesGood' /\ TablesGrow
           /\ \A q \in SrcRows : q # RowOf(worker[w][t]) =>
                 copies'[q] = copies[q] /\ mapping'[q] = mapping[q]
<1>1. PICK x \in Work : x = worker[w][t]
  BY DEF WorkersGood
<1>2. x.pc \in RowStates /\ RowActs(w, x, y) /\ UNCHANGED <<source, instant, syncCursor>>
  BY <1>1 DEF AtRowStep
<1>3. PICK r \in SrcRows : r = RowOf(x)
  BY <1>1, <1>2, AtRow
<1>4. /\ VersionOf(x) \in 1..MaxSourceChanges /\ VersionOf(x) <= source[r].version
      /\ WorkerGood(x, t)
  BY <1>1, <1>2, <1>3, AtRow DEF WorkersGood
<1>5. /\ mapping[r].to <= Len(copies[r]) /\ mapping[r].to \in Nat /\ Len(copies[r]) \in Nat
      /\ mapping[r].checksum <= source[r].version
  BY DEF TablesGood, MappingTyped, CopiesTyped
<1>6. /\ CopiesTyped' /\ \A q \in SrcRows : q # r => copies'[q] = copies[q]
      /\ Len(copies'[r]) \in {Len(copies[r]), Len(copies[r]) + 1}
  <2>1. CASE Creates(x, y)
    BY <1>3, <1>4, <2>1, CopiesCreated
  <2>2. CASE Updates(x, y)
    <3>1. x.found \in 1..Len(copies[r])
      BY <1>3, <1>4, <1>5, <2>2 DEF Updates, WorkerGood, Work
    <3>2. QED BY <1>3, <1>4, <2>2, <3>1, CopiesUpdated
  <2>3. CASE ~Creates(x, y) /\ ~Updates(x, y)
    <3>1. copies' = copies
      BY <1>2, <2>3, CopiesKept
    <3>2. QED BY <3>1 DEF TablesGood, CopiesTyped
  <2>4. QED BY <2>1, <2>2, <2>3
<1>7. /\ MappingRecords /\ \A q \in SrcRows : q # r => mapping'[q] = mapping[q]
      /\ \/ mapping'[r].to = mapping[r].to
         \/ mapping[r].to = 0 /\ mapping'[r].to = x.found /\ x.found <= Len(copies[r])
      /\ mapping'[r].checksum \in {mapping[r].checksum, VersionOf(x)}
  <2>1. CASE Links(x, y) /\ mapping[r].to = 0
    <3>1. x.found <= Len(copies[r])
      BY <1>3, <1>4, <2>1 DEF Links, WorkerGood
    <3>2. QED BY <1>3, <1>4, <2>1, <3>1, MappingLinked
  <2>2. CASE Marks(x, y)
    <3>1. /\ MappingRecords /\ \A q \in SrcRows : q # r => mapping'[q] = mapping[q]
          /\ mapping'[r].to = mapping[r].to /\ mapping'[r].checksum = VersionOf(x)
      BY <1>3, <1>4, <2>2, MappingMarked
    <3>2. QED BY <3>1
  <2>3. CASE ~Marks(x, y) /\ ~(Links(x, y) /\ mapping[r].to = 0)
    <3>1. mapping' = mapping
      BY <1>2, <1>3, <2>3, MappingKept
    <3>2. mapping' \in [SrcRows -> [to : Nat, checksum : Nat]]
      BY <3>1 DEF TablesGood, MappingTyped
    <3>3. MappingRecords
      BY <3>2 DEF MappingRecords
    <3>4. QED BY <3>1, <3>3
  <2>4. QED BY <2>1, <2>2, <2>3
<1>8. ASSUME NEW q \in SrcRows
      PROVE  /\ mapping'[q].to <= Len(copies'[q]) /\ mapping'[q].checksum <= source[q].version
             /\ Len(copies'[q]) >= Len(copies[q])
             /\ mapping[q].to > 0 => mapping'[q].to = mapping[q].to
  <2>1. CASE q # r
    <3>1. Len(copies[q]) \in Nat
      BY DEF TablesGood, CopiesTyped
    <3>2. QED BY <1>6, <1>7, <2>1, <3>1 DEF TablesGood, MappingTyped
  <2>2. CASE q = r
    <3>1. mapping'[r].checksum <= source[r].version
      BY <1>4, <1>5, <1>7
    <3>2. x.found \in Nat /\ Len(copies'[r]) >= Len(copies[r])
      BY <1>5, <1>6 DEF Work
    <3>3. mapping'[r].to <= Len(copies'[r]) /\ (mapping[r].to > 0 => mapping'[r].to = mapping[r].to)
      BY <1>5, <1>6, <1>7, <3>2
    <3>4. QED BY <2>2, <3>1, <3>2, <3>3
  <2>3. QED BY <2>1, <2>2
<1>9. MappingTyped'
  BY <1>2, <1>7, <1>8 DEF MappingTyped, MappingRecords
<1>10. TablesGood'
  BY <1>2, <1>6, <1>9 DEF TablesGood, SourceTyped, CursorTyped
<1>11. TablesGrow
  BY <1>2, <1>8 DEF TablesGrow, TablesGood, SourceTyped, CursorTyped
<1>12. QED BY <1>1, <1>3, <1>6, <1>7, <1>10, <1>11

LEMMA ResolvesStays ==
    ASSUME TablesGrow, NEW r \in SrcRows, Resolves(r)
    PROVE  Resolves(r)'
<1>1. Parents[r] \subseteq SrcRows
  BY GllueSyncAssumption
<1>2. ASSUME NEW p \in Parents[r]
      PROVE  mapping'[p].to > 0
  <2>1. mapping[p].to > 0 /\ p \in SrcRows
    BY <1>1 DEF Resolves
  <2>2. QED BY <2>1 DEF TablesGrow
<1>3. QED BY <1>2 DEF Resolves

LEMMA WorkerGoodStays ==
    ASSUME TablesGood, TablesGood', TablesGrow, NEW x \in Work, NEW t \in Tables, WorkerGood(x, t)
    PROVE  WorkerGood(x, t)'
<1>1. \A e \in x.todo : TableOf[e[1]] = t /\ e[2] <= source'[e[1]].version
  <2>1. ASSUME NEW e \in x.todo
        PROVE  TableOf[e[1]] = t /\ e[2] <= source'[e[1]].version
    <3>1. e[1] \in SrcRows /\ e[2] \in Nat
      BY DEF Work
    <3>2. /\ source[e[1]].version \in Nat /\ source'[e[1]].version \in Nat
          /\ source'[e[1]].version >= source[e[1]].version
      BY <3>1 DEF TablesGood, SourceTyped, TablesGrow
    <3>3. e[2] <= source[e[1]].version /\ TableOf[e[1]] = t
      BY DEF WorkerGood
    <3>4. QED BY <3>1, <3>2, <3>3
  <2>2. QED BY <2>1
<1>2. x.since <= syncCursor'[t]
  <2>1. syncCursor[t] \in Nat /\ syncCursor'[t] \in Nat /\ x.since \in Nat
    BY DEF TablesGood, CursorTyped, Work
  <2>2. QED BY <2>1 DEF TablesGrow, WorkerGood
<1>3. CASE x.todo # {}
  <2>1. PICK r \in SrcRows : r = RowOf(x)
    BY <1>3, RowPicked
  <2>2. /\ Len(copies[r]) \in Nat /\ Len(copies'[r]) \in Nat /\ Len(copies'[r]) >= Len(copies[r])
        /\ mapping[r].to \in Nat /\ x.found \in Nat
        /\ mapping[r].to > 0 => mapping'[r].to = mapping[r].to
    BY DEF TablesGood, CopiesTyped, MappingTyped, TablesGrow, Work
  <2>3. x.pc \in {"link", "update", "checksum"} => x.found > 0 /\ x.found <= Len(copies'[r])
    BY <2>1, <2>2 DEF WorkerGood
  <2>4. x.pc \in {"update", "checksum"} => x.found = mapping'[r].to
    BY <2>1, <2>2 DEF WorkerGood
  <2>5. x.pc = "map" => x.found \in {0, mapping'[r].to}
    BY <2>1, <2>2 DEF WorkerGood
  <2>6. x.pc \in {"create", "link"} => Resolves(r)'
    BY <2>1, ResolvesStays DEF WorkerGood
  <2>7. (x.pc \in RowStates <=> x.todo # {}) /\ (x.pc = "create" => x.found = 0)
    BY DEF WorkerGood
  <2>8. QED BY <1>1, <1>2, <2>1, <2>3, <2>4, <2>5, <2>6, <2>7 DEF WorkerGood
<1>4. CASE x.todo = {}
  <2>1. x.pc \notin RowStates
    BY <1>4 DEF WorkerGood
  <2>2. QED BY <1>1, <1>2, <1>4, <2>1 DEF WorkerGood, RowStates
<1>5. QED BY <1>3, <1>4

LEMMA PastRowGood ==
    ASSUME TablesGood, TablesGood', TablesGrow, NEW x \in Work, NEW y \in Work, NEW t \in Tables,
           WorkerGood(x, t), PastRow(x, y)
    PROVE  WorkerGood(y, t)'
<1>1. \A e \in y.todo : TableOf[e[1]] = t /\ e[2] <= source'[e[1]].version
  BY WorkerGoodStays DEF WorkerGood, PastRow
<1>2. y.since <= syncCursor'[t]
  BY WorkerGoodStays DEF WorkerGood, PastRow
<1>3. (y.pc \in RowStates <=> y.todo # {}) /\ y.pc \in {"find", "advance"}
  BY DEF PastRow, RowStates
<1>4. QED BY <1>1, <1>2, <1>3 DEF WorkerGood

(* The worker keeps to its row. *)
LEMMA OnRowGood ==
    ASSUME TablesGood, TablesGood', TablesGrow, NEW x \in Work, NEW y \in Work, NEW t \in Tables,
           WorkerGood(x, t), x.pc \in RowStates, NEW pc \in RowStates, NEW found,
           OnRow(x, y, pc, found)
    PROVE  /\ RowOf(y) = RowOf(x) /\ VersionOf(y) = VersionOf(x)
           /\ y.pc \in RowStates <=> y.todo # {}
           /\ \A e \in y.todo : TableOf[e[1]] = t /\ e[2] <= source'[e[1]].version
           /\ y.since <= syncCursor'[t]
<1>1. RowOf(y) = RowOf(x)
  BY DEF OnRow, RowOf
<1>2. VersionOf(y) = VersionOf(x)
  BY <1>1 DEF OnRow, VersionOf
<1>3. QED BY <1>1, <1>2, WorkerGoodStays DEF OnRow, WorkerGood

LEMMA RowActsGood ==
    ASSUME TablesGood, WorkersGood, NEW w \in Runs, NEW t \in Tables, NEW y \in Work,
           AtRowStep(w, t, y)
    PROVE  WorkerGood(y, t)'
<1>1. PICK x \in Work : x = worker[w][t]
  BY DEF WorkersGood
<1>2. x.pc \in RowStates /\ RowActs(w, x, y) /\ WorkerGood(x, t)
  BY <1>1 DEF AtRowStep, WorkersGood
<1>3. PICK r \in SrcRows : r = RowOf(x)
  BY <1>1, <1>2, AtRow
<1>4. TablesGood' /\ TablesGrow /\ VersionOf(x) \in 1..MaxSourceChanges
  BY <1>1, <1>2, AtRow, RowTables
<1>5. CASE PastRow(x, y)
  BY <1>2, <1>4, <1>5, PastRowGood
<1>6. ASSUME NEW pc \in RowStates, NEW found, OnRow(x, y, pc, found)
      PROVE  /\ RowOf(y) = r
             /\ y.pc \in RowStates <=> y.todo # {}
             /\ \A e \in y.todo : TableOf[e[1]] = t /\ e[2] <= source'[e[1]].version
             /\ y.since <= syncCursor'[t]
  BY <1>2, <1>3, <1>4, <1>6, OnRowGood
<1>7. CASE Finds(w, x, y)
  <2>1. OnRow(x, y, "map", mapping[r].to) /\ mapping' = mapping /\ "map" \in RowStates
    BY <1>3, <1>7 DEF Finds, RowStates
  <2>2. y.pc = "map" /\ y.found = mapping'[r].to
    BY <2>1 DEF OnRow
  <2>3. QED BY <1>6, <2>1, <2>2 DEF WorkerGood
<1>8. CASE Maps(x, y)
  <2>1. PICK pc : pc = IF x.found = 0 THEN "create" ELSE "update"
    OBVIOUS
  <2>2. /\ OnRow(x, y, pc, x.found) /\ mapping' = mapping /\ copies' = copies /\ pc \in RowStates
        /\ Resolves(r) /\ x.pc = "map"
    BY <1>3, <1>8, <2>1 DEF Maps, RowStates
  <2>3. y.pc = pc /\ y.found = x.found
    BY <2>2 DEF OnRow
  <2>4. Resolves(r)'
    BY <1>4, <2>2, ResolvesStays
  <2>5. x.found \in {0, mapping[r].to} /\ x.found \in Nat
    BY <1>2, <1>3, <2>2 DEF WorkerGood, Work
  <2>6. x.found # 0 => x.found > 0 /\ x.found = mapping'[r].to /\ x.found <= Len(copies'[r])
    BY <2>2, <2>5 DEF TablesGood, MappingTyped
  <2>7. QED BY <1>6, <2>1, <2>2, <2>3, <2>4, <2>6 DEF WorkerGood
<1>9. CASE Creates(x, y)
  <2>1. OnRow(x, y, "link", Len(copies[r]) + 1) /\ "link" \in RowStates /\ x.pc = "create"
    BY <1>3, <1>9 DEF Creates, RowStates
  <2>2. y.pc = "link" /\ y.found = Len(copies[r]) + 1
    BY <2>1 DEF OnRow
  <2>3. Resolves(r)'
    BY <1>2, <1>3, <1>4, <2>1, ResolvesStays DEF WorkerGood
  <2>4. Len(copies'[r]) = Len(copies[r]) + 1
    BY <1>3, <1>4, <1>9, CopiesCreated
  <2>5. Len(copies[r]) \in Nat
    BY DEF TablesGood, CopiesTyped
  <2>6. y.found > 0 /\ y.found <= Len(copies'[r])
    BY <2>2, <2>4, <2>5
  <2>7. QED BY <1>6, <2>1, <2>2, <2>3, <2>6 DEF WorkerGood
<1>10. CASE Updates(x, y)
  <2>1. OnRow(x, y, "checksum", x.found) /\ "checksum" \in RowStates /\ x.pc = "update"
    BY <1>10 DEF Updates, RowStates
  <2>2. y.pc = "checksum" /\ y.found = x.found
    BY <2>1 DEF OnRow
  <2>3. WorkerGood(x, t)'
    BY <1>2, <1>4, WorkerGoodStays
  <2>4. x.found > 0 /\ x.found <= Len(copies'[r]) /\ x.found = mapping'[r].to
    BY <1>3, <2>1, <2>3 DEF WorkerGood
  <2>5. QED BY <1>6, <2>1, <2>2, <2>4 DEF WorkerGood
<1>11. QED
  BY <1>2, <1>5, <1>7, <1>8, <1>9, <1>10 DEF RowActs, Skips, Leaves, Links, Marks

(* One worker moves, to a good state. *)
LEMMA MovesGood ==
    ASSUME TablesGood, TablesGood', TablesGrow, WorkersGood, NEW w \in Runs, NEW t \in Tables,
           NEW y \in Work, Leads(w, t, y), WorkerGood(y, t)'
    PROVE  WorkersGood'
<1>1. ASSUME NEW v \in Runs, NEW u \in Tables
      PROVE  WorkerGood(worker[v][u], u)'
  <2>1. CASE v = w /\ u = t
    <3>1. PICK z : z = worker'[v][u]
      OBVIOUS
    <3>2. z = y /\ u = t
      BY <2>1, <3>1 DEF Leads
    <3>3. WorkerGood(z, u)'
      BY <3>2
    <3>4. QED BY <3>1, <3>3 DEF WorkerGood
  <2>2. CASE ~(v = w /\ u = t)
    <3>1. PICK z \in Work : z = worker[v][u]
      BY DEF WorkersGood
    <3>2. worker'[v][u] = z /\ WorkerGood(z, u)
      BY <2>2, <3>1 DEF Leads, WorkersGood
    <3>3. WorkerGood(z, u)'
      BY <3>2, WorkerGoodStays
    <3>4. QED BY <3>2, <3>3 DEF WorkerGood
  <2>3. QED BY <2>1, <2>2
<1>2. QED BY <1>1 DEF WorkersGood, Leads

LEMMA MovesInOrder ==
    ASSUME RowsInOrder, NEW w \in Runs, NEW t \in Tables, NEW y, Leads(w, t, y),
           worker[w][t].pc # "off",
           worker[w][t].pc = "waiting" =>
               \A u \in Tables : EarlierThan(u, t) => worker[w][u].pc = "off"
    PROVE  RowsInOrder'
<1>1. ASSUME NEW v \in Runs, NEW a \in Tables, NEW b \in Tables,
             EarlierThan(a, b), worker'[v][a].pc # "off"
      PROVE  worker'[v][b].pc \in {"off", "waiting"}
  <2>1. CASE v # w
    BY <1>1, <2>1 DEF RowsInOrder, Leads
  <2>2. CASE v = w /\ b = t
    <3>1. worker[w][a].pc # "off"
      BY <1>1, <2>2 DEF Leads
    <3>2. worker[w][t].pc \in {"off", "waiting"}
      BY <1>1, <2>2, <3>1 DEF RowsInOrder
    <3>3. QED BY <1>1, <2>2, <3>1, <3>2
  <2>3. CASE v = w /\ b # t
    <3>1. worker[w][a].pc # "off"
      BY <1>1, <2>3 DEF Leads
    <3>2. QED BY <1>1, <2>3, <3>1 DEF RowsInOrder, Leads
  <2>4. QED BY <2>1, <2>2, <2>3
<1>2. QED BY <1>1 DEF RowsInOrder

(* A worker at rest, or that waits for the tables before its own. *)
Resting(x) == x.pc \in {"off", "waiting"} /\ x.todo = {} /\ x.since = 0

LEMMA OffRests ==
    /\ Off \in Work /\ Resting(Off) /\ Off.pc = "off"
    /\ [Off EXCEPT !.pc = "waiting"] \in Work /\ Resting([Off EXCEPT !.pc = "waiting"])
BY DEF Off, Work, Resting, Pcs

LEMMA RestingGood ==
    ASSUME TablesGood, NEW x \in Work, NEW t \in Tables, Resting(x)
    PROVE  WorkerGood(x, t)
<1>1. x.pc \notin RowStates
  BY DEF Resting, RowStates
<1>2. syncCursor[t] \in Nat
  BY DEF TablesGood, CursorTyped
<1>3. QED BY <1>1, <1>2 DEF WorkerGood, Resting, RowStates

(* Some workers of a run come to rest, the others stay. *)
Rests(w) ==
    /\ worker' \in [Runs -> [Tables -> Work]]
    /\ \A v \in Runs, u \in Tables :
          \/ worker'[v][u] = worker[v][u]
          \/ v = w /\ Resting(worker'[v][u])

LEMMA CronRests ==
    ASSUME WorkersGood, NEW w \in Runs, NEW s \in Services, Cron(w, s)
    PROVE  /\ Rests(w) /\ \A u \in Tables : worker[w][u].pc = "off" /\ Resting(worker'[w][u])
<1>1. PICK g : g = [t \in Tables |->
          IF t \in TablesOf(s) THEN [Off EXCEPT !.pc = "waiting"] ELSE Off]
  OBVIOUS
<1>2. g \in [Tables -> Work] /\ \A u \in Tables : Resting(g[u])
  BY <1>1, OffRests
<1>3. worker' = [worker EXCEPT ![w] = g]
  BY <1>1 DEF Cron
<1>4. worker'[w] = g /\ (\A v \in Runs : v # w => worker'[v] = worker[v])
      /\ worker' \in [Runs -> [Tables -> Work]]
  BY <1>2, <1>3 DEF WorkersGood
<1>5. Rests(w)
  BY <1>2, <1>4 DEF Rests
<1>6. QED BY <1>2, <1>4, <1>5 DEF Cron

LEMMA SyncFailsRests ==
    ASSUME WorkersGood, NEW w \in Runs, NEW t \in Tables, SyncFails(w, t)
    PROVE  /\ Rests(w)
           /\ \A v \in Runs, u \in Tables :
                 \/ worker'[v][u] = worker[v][u]
                 \/ v = w /\ worker'[v][u].pc = "off" /\ (u = t \/ EarlierThan(t, u))
<1>1. PICK g : g = [u \in Tables |-> IF u = t \/ EarlierThan(t, u) THEN Off ELSE worker[w][u]]
  OBVIOUS
<1>2. /\ \A u \in Tables : \/ g[u] = worker[w][u]
                           \/ Resting(g[u]) /\ g[u].pc = "off" /\ (u = t \/ EarlierThan(t, u))
      /\ g \in [Tables -> Work]
  BY <1>1, OffRests DEF WorkersGood
<1>3. worker' = [worker EXCEPT ![w] = g]
  BY <1>1 DEF SyncFails
<1>4. worker'[w] = g /\ (\A v \in Runs : v # w => worker'[v] = worker[v])
      /\ worker' \in [Runs -> [Tables -> Work]]
  BY <1>2, <1>3 DEF WorkersGood
<1>5. Rests(w)
  BY <1>2, <1>4 DEF Rests
<1>6. QED BY <1>2, <1>4, <1>5

LEMMA RestsGood ==
    ASSUME TablesGood, WorkersGood, NEW w \in Runs, Rests(w),
           UNCHANGED <<source, instant, copies, mapping, syncCursor>>
    PROVE  TablesGood' /\ WorkersGood'
<1>1. TablesGood'
  BY DEF TablesGood, SourceTyped, CopiesTyped, MappingTyped, CursorTyped
<1>2. ASSUME NEW v \in Runs, NEW u \in Tables
      PROVE  WorkerGood(worker[v][u], u)'
  <2>1. PICK z \in Work : z = worker'[v][u]
    BY DEF Rests
  <2>2. WorkerGood(z, u)
    BY <2>1, RestingGood DEF Rests, WorkersGood
  <2>3. QED BY <2>1, <2>2 DEF WorkerGood, Resolves
<1>3. QED BY <1>1, <1>2 DEF WorkersGood, Rests

LEMMA RestsInOrder ==
    ASSUME RowsInOrder, NEW w \in Runs,
           \A v \in Runs, u \in Tables :
              \/ worker'[v][u] = worker[v][u]
              \/ worker'[v][u].pc = "off"
    PROVE  RowsInOrder'
BY DEF RowsInOrder

LEMMA ReadCursorMoves ==
    ASSUME TablesGood, WorkersGood, RowsInOrder, NEW w \in Runs, NEW t \in Tables, ReadCursor(w, t)
    PROVE  /\ \E y \in Work : /\ Leads(w, t, y) /\ WorkerGood(y, t)'
                              /\ y.pc = "query" /\ y.todo = {} /\ y.since = syncCursor[t]
           /\ TablesGood' /\ TablesGrow /\ WorkersGood' /\ RowsInOrder'
<1>1. PICK x \in Work : x = worker[w][t]
  BY DEF WorkersGood
<1>2. x.pc = "waiting" /\ WorkerGood(x, t)
  BY <1>1 DEF ReadCursor, WorkersGood
<1>3. x.todo = {}
  BY <1>2 DEF WorkerGood, RowStates
<1>4. PICK y : y = [x EXCEPT !.pc = "query", !.since = syncCursor[t]]
  OBVIOUS
<1>5. syncCursor[t] \in Nat
  BY DEF TablesGood, CursorTyped
<1>6. y \in Work /\ y.pc = "query" /\ y.todo = {} /\ y.since = syncCursor[t] /\ y.found = x.found
  BY <1>3, <1>4, <1>5 DEF Work, Pcs
<1>7. worker' = [worker EXCEPT ![w][t] = y]
  BY <1>1, <1>4 DEF ReadCursor, WorkersGood
<1>8. Leads(w, t, y)
  BY <1>6, <1>7, MoveOne DEF WorkersGood
<1>9. UNCHANGED mirrorVars
  BY DEF ReadCursor
<1>10. TablesGood'
  BY <1>9 DEF mirrorVars, TablesGood, SourceTyped, CopiesTyped, MappingTyped, CursorTyped
<1>11. TablesGrow
  BY <1>9 DEF mirrorVars, TablesGood, SourceTyped, CopiesTyped, MappingTyped, CursorTyped,
     TablesGrow
<1>12. WorkerGood(y, t)'
  BY <1>5, <1>6, <1>9 DEF WorkerGood, RowStates, mirrorVars
<1>13. WorkersGood'
  BY <1>6, <1>8, <1>10, <1>11, <1>12, MovesGood
<1>14. RowsInOrder'
  BY <1>1, <1>2, <1>8, MovesInOrder DEF ReadCursor
<1>15. QED BY <1>6, <1>8, <1>10, <1>11, <1>12, <1>13, <1>14

LEMMA AdvanceMoves ==
    ASSUME TablesGood, WorkersGood, RowsInOrder,
           NEW w \in Runs, NEW t \in Tables, AdvanceCursor(w, t)
    PROVE  /\ \E y \in Work : /\ Leads(w, t, y) /\ WorkerGood(y, t)'
                              /\ y.pc \in {"query", "off"} /\ y.todo = {}
           /\ TablesGood' /\ TablesGrow /\ WorkersGood' /\ RowsInOrder'
           /\ worker[w][t].pc = "advance" /\ worker[w][t].todo = {}
           /\ \A u \in Tables : u # t => syncCursor'[u] = syncCursor[u]
<1>1. PICK x \in Work : x = worker[w][t]
  BY DEF WorkersGood
<1>2. x.pc = "advance" /\ WorkerGood(x, t)
  BY <1>1 DEF AdvanceCursor, WorkersGood
<1>3. x.todo = {}
  BY <1>2 DEF WorkerGood, RowStates
<1>4. PICK y : y = IF x.full THEN [x EXCEPT !.pc = "query"] ELSE Off
  OBVIOUS
<1>5. y \in Work /\ y.pc \in {"query", "off"} /\ y.todo = {} /\ y.since \in {x.since, 0}
  <2>1. PICK z : z = [x EXCEPT !.pc = "query"]
    OBVIOUS
  <2>2. z \in Work /\ z.pc = "query" /\ z.todo = {} /\ z.since = x.since
    BY <1>3, <2>1 DEF Work, Pcs
  <2>3. QED BY <1>4, <2>1, <2>2, OffRests DEF Resting
<1>6. worker' = [worker EXCEPT ![w][t] = y]
  BY <1>1, <1>4 DEF AdvanceCursor, WorkersGood
<1>7. Leads(w, t, y)
  BY <1>5, <1>6, MoveOne DEF WorkersGood
<1>8. /\ UNCHANGED <<source, instant, copies, mapping>>
      /\ syncCursor' = [syncCursor EXCEPT ![t] = instant]
  BY DEF AdvanceCursor
<1>9. syncCursor \in [Tables -> Nat] /\ instant \in Nat /\ syncCursor[t] <= instant
  BY DEF TablesGood, CursorTyped, SourceTyped
<1>10. /\ syncCursor' \in [Tables -> Nat] /\ syncCursor'[t] = instant
       /\ \A u \in Tables : u # t => syncCursor'[u] = syncCursor[u]
  BY <1>8, <1>9
<1>11. CursorTyped'
  BY <1>8, <1>9, <1>10 DEF CursorTyped, TablesGood
<1>12. TablesGood'
  BY <1>8, <1>11 DEF TablesGood, SourceTyped, CopiesTyped, MappingTyped
<1>13. TablesGrow
  <2>1. \A u \in Tables : syncCursor'[u] >= syncCursor[u]
    BY <1>9, <1>10
  <2>2. QED BY <1>8, <2>1 DEF TablesGood, SourceTyped, CopiesTyped, TablesGrow
<1>14. WorkerGood(y, t)'
  <2>1. y.since <= syncCursor'[t]
    BY <1>2, <1>5, <1>9, <1>10 DEF WorkerGood, Work
  <2>2. QED BY <1>5, <2>1 DEF WorkerGood, RowStates
<1>15. WorkersGood'
  BY <1>5, <1>7, <1>12, <1>13, <1>14, MovesGood
<1>16. RowsInOrder'
  BY <1>1, <1>2, <1>7, MovesInOrder
<1>17. QED BY <1>1, <1>2, <1>3, <1>5, <1>7, <1>10, <1>12, <1>13, <1>14, <1>15, <1>16

LEMMA QueryMoves ==
    ASSUME TablesGood, WorkersGood, RowsInOrder, NEW w \in Runs, NEW t \in Tables, Query(w, t)
    PROVE  /\ \E y \in Work :
                 /\ Leads(w, t, y) /\ y.pc \in {"find", "advance"}
                 /\ \A r \in SrcRows, v \in 1..MaxSourceChanges :
                       <<r, v>> \in y.todo => v = source[r].version
                 /\ \A r \in SrcRows \ passed' :
                       TableOf[r] = t /\ source[r].version > 0 =>
                          \/ <<r, source[r].version>> \in y.todo
                          \/ source[r].changed <= syncCursor[t]
           /\ TablesGood' /\ TablesGrow /\ WorkersGood' /\ RowsInOrder'
           /\ worker[w][t].pc = "query" /\ passed \subseteq passed' /\ UNCHANGED mirrorVars
<1>1. PICK x \in Work : x = worker[w][t]
  BY DEF WorkersGood
<1>2. x.pc = "query" /\ WorkerGood(x, t)
  BY <1>1 DEF Query, WorkersGood
<1>3. PICK rows : rows = ChangedSince(t, x.since)
  OBVIOUS
<1>4. PICK page : page = {r \in rows : Cardinality({p \in rows : p < r}) < PageLimit}
  OBVIOUS
<1>5. PICK todo : todo = {<<r, source[r].version>> : r \in page}
  OBVIOUS
<1>6. PICK pc : pc = IF page = {} THEN "advance" ELSE "find"
  OBVIOUS
<1>7. PICK full : full = (Cardinality(page) = PageLimit)
  OBVIOUS
<1>8. PICK y : y = [x EXCEPT !.pc = pc, !.todo = todo, !.full = full]
  OBVIOUS
<1>9. /\ passed' = passed \cup (rows \ page)
      /\ UNCHANGED <<mirrorVars, enabled, twice, runs, failures>>
  BY <1>1, <1>3, <1>4 DEF Query
<1>10. worker' = [worker EXCEPT ![w][t] = y]
  BY <1>1, <1>3, <1>4, <1>5, <1>6, <1>7, <1>8 DEF Query, WorkersGood
<1>11. \A r \in page : r \in SrcRows /\ TableOf[r] = t /\ source[r].version \in 1..MaxSourceChanges
  <2>1. ASSUME NEW r \in page
        PROVE  r \in SrcRows /\ TableOf[r] = t /\ source[r].version > 0
    BY <1>3, <1>4 DEF ChangedSince
  <2>2. ASSUME NEW r \in SrcRows, source[r].version > 0
        PROVE  source[r].version \in 1..MaxSourceChanges
    <3>1. /\ source[r].version \in Nat /\ source[r].version <= instant
          /\ instant \in Nat /\ instant <= MaxSourceChanges /\ MaxSourceChanges \in Nat
      BY GllueSyncAssumption DEF TablesGood, SourceTyped
    <3>2. QED BY <2>2, <3>1
  <2>3. QED BY <2>1, <2>2
<1>12. todo \in SUBSET (SrcRows \X (1..MaxSourceChanges)) /\ pc \in Pcs /\ full \in BOOLEAN
  BY <1>5, <1>6, <1>7, <1>11 DEF Pcs
<1>13. y \in Work
  BY <1>8, <1>12 DEF Work
<1>14. y.pc = pc /\ y.todo = todo /\ y.since = x.since
  BY <1>8 DEF Work
<1>15. Leads(w, t, y)
  BY <1>10, <1>13, MoveOne DEF WorkersGood
<1>16. \A r \in SrcRows, v \in 1..MaxSourceChanges : <<r, v>> \in y.todo => v = source[r].version
  BY <1>5, <1>14
<1>17. ASSUME NEW r \in SrcRows \ passed', TableOf[r] = t, source[r].version > 0,
              ~(source[r].changed <= syncCursor[t])
       PROVE  <<r, source[r].version>> \in y.todo
  <2>1. source[r].changed \in Nat /\ syncCursor[t] \in Nat /\ x.since \in Nat
        /\ x.since <= syncCursor[t]
    BY <1>2 DEF TablesGood, SourceTyped, CursorTyped, Work, WorkerGood
  <2>2. r \in rows
    BY <1>3, <1>17, <2>1 DEF ChangedSince
  <2>3. r \in page
    BY <1>9, <1>17, <2>2
  <2>4. QED BY <1>5, <1>14, <2>3
<1>18. TablesGood'
  BY <1>9 DEF mirrorVars, TablesGood, SourceTyped, CopiesTyped, MappingTyped, CursorTyped
<1>19. TablesGrow
  BY <1>9 DEF mirrorVars, TablesGood, SourceTyped, CopiesTyped, MappingTyped, CursorTyped,
     TablesGrow
<1>20. WorkerGood(y, t)'
  <2>1. (y.pc \in RowStates <=> y.todo # {}) /\ y.pc \in {"find", "advance"}
    BY <1>5, <1>6, <1>14 DEF RowStates
  <2>2. ASSUME NEW e \in y.todo
        PROVE  TableOf[e[1]] = t /\ e[2] <= source'[e[1]].version
    <3>1. PICK r \in page : e = <<r, source[r].version>>
      BY <1>5, <1>14
    <3>2. e[1] = r /\ e[2] = source[r].version /\ source' = source
      BY <1>9, <3>1 DEF mirrorVars
    <3>3. source[r].version \in Nat
      BY <1>11 DEF TablesGood, SourceTyped
    <3>4. QED BY <1>11, <3>2, <3>3
  <2>3. y.since <= syncCursor'[t]
    BY <1>2, <1>9, <1>14 DEF WorkerGood, mirrorVars
  <2>4. QED BY <2>1, <2>2, <2>3 DEF WorkerGood
<1>21. WorkersGood'
  BY <1>13, <1>15, <1>18, <1>19, <1>20, MovesGood
<1>22. RowsInOrder'
  BY <1>1, <1>2, <1>15, MovesInOrder
<1>23. y.pc \in {"find", "advance"}
  BY <1>6, <1>14
<1>24. QED
  BY <1>1, <1>2, <1>9, <1>13, <1>15, <1>16, <1>17, <1>18, <1>19, <1>21, <1>22, <1>23

LEMMA ChangeSourceType ==
    ASSUME TablesGood, WorkersGood, RowsInOrder, NEW r \in SrcRows, ChangeSource(r)
    PROVE  /\ TablesGood' /\ TablesGrow /\ WorkersGood' /\ RowsInOrder'
           /\ source'[r].version > source[r].version /\ source'[r].changed = instant + 1
           /\ \A q \in SrcRows : q # r => source'[q] = source[q]
<1>1. PICK m : m = [version |-> source[r].version + 1, changed |-> instant + 1]
  OBVIOUS
<1>2. source' = [source EXCEPT ![r] = m]
  BY <1>1 DEF ChangeSource
<1>3. /\ source \in [SrcRows -> [version : Nat, changed : Nat]]
      /\ instant \in Nat /\ instant + 1 <= MaxSourceChanges
      /\ \A q \in SrcRows : source[q].version <= instant /\ source[q].changed <= instant
  BY GllueSyncAssumption DEF TablesGood, SourceTyped, ChangeSource
<1>4. m \in [version : Nat, changed : Nat] /\ m.version = source[r].version + 1
      /\ m.changed = instant + 1
  BY <1>1, <1>3
<1>5. /\ source' \in [SrcRows -> [version : Nat, changed : Nat]] /\ source'[r] = m
      /\ \A q \in SrcRows : q # r => source'[q] = source[q]
  BY <1>2, <1>3, <1>4
<1>6. instant' = instant + 1
      /\ UNCHANGED <<copies, mapping, syncCursor, enabled, worker, twice, runs, failures>>
  BY DEF ChangeSource
<1>7. ASSUME NEW q \in SrcRows
      PROVE  /\ source'[q].version <= instant' /\ source'[q].changed <= instant'
             /\ source'[q].version >= source[q].version
             /\ mapping'[q].checksum <= source'[q].version
  <2>1. /\ source[q].version <= instant /\ source[q].changed <= instant
        /\ source[q].version \in Nat /\ source[q].changed \in Nat
        /\ mapping[q].checksum \in Nat /\ mapping[q].checksum <= source[q].version
    BY <1>3 DEF TablesGood, MappingTyped
  <2>2. CASE q = r
    BY <1>3, <1>4, <1>5, <1>6, <2>1, <2>2
  <2>3. CASE q # r
    BY <1>3, <1>5, <1>6, <2>1, <2>3
  <2>4. QED BY <2>2, <2>3
<1>8. SourceTyped'
  BY <1>3, <1>5, <1>6, <1>7 DEF SourceTyped
<1>9. MappingTyped'
  BY <1>6, <1>7 DEF MappingTyped, TablesGood
<1>10. CursorTyped'
  BY <1>3, <1>6 DEF CursorTyped, TablesGood
<1>11. TablesGood'
  BY <1>6, <1>8, <1>9, <1>10 DEF TablesGood, CopiesTyped
<1>12. TablesGrow
  BY <1>6, <1>7 DEF TablesGrow, TablesGood, CopiesTyped, CursorTyped
<1>13. WorkersGood'
  <2>1. ASSUME NEW v \in Runs, NEW u \in Tables
        PROVE  WorkerGood(worker[v][u], u)'
    <3>1. PICK z \in Work : z = worker[v][u]
      BY DEF WorkersGood
    <3>2. WorkerGood(z, u)'
      BY <1>11, <1>12, <3>1, WorkerGoodStays DEF WorkersGood
    <3>3. worker'[v][u] = z
      BY <1>6, <3>1
    <3>4. QED BY <3>2, <3>3 DEF WorkerGood
  <2>2. QED BY <1>6, <2>1 DEF WorkersGood
<1>14. RowsInOrder'
  BY <1>6 DEF RowsInOrder
<1>15. source'[r].version > source[r].version
  BY <1>3, <1>4, <1>5
<1>16. QED BY <1>4, <1>5, <1>11, <1>12, <1>13, <1>14, <1>15

(* The steps that are not at a row. *)
LEMMA MirrorSteps ==
    ASSUME TablesGood, WorkersGood, GllueSyncNext
    PROVE  \/ \E r \in SrcRows : ChangeSource(r)
           \/ InitiateCutover
           \/ \E w \in Runs, s \in Services : Cron(w, s)
           \/ \E w \in Runs, t \in Tables : ReadCursor(w, t)
           \/ \E w \in Runs, t \in Tables : Query(w, t)
           \/ \E w \in Runs, t \in Tables : AdvanceCursor(w, t)
           \/ \E w \in Runs, t \in Tables : SyncFails(w, t)
           \/ \E w \in Runs, t \in Tables, y \in Work : AtRowStep(w, t, y)
<1>1. ASSUME NEW w \in Runs, NEW t \in Tables,
             \/ FindMapping(w, t) \/ MapRow(w, t) \/ RowFails(w, t) \/ CreateCopy(w, t)
             \/ CreateMapping(w, t) \/ UpdateCopy(w, t) \/ UpdateChecksum(w, t)
      PROVE  \E y \in Work : AtRowStep(w, t, y)
  BY <1>1, FindMappingActs, MapRowActs, RowFailsActs, CreateCopyActs, CreateMappingActs,
     UpdateCopyActs, UpdateChecksumActs
<1>2. QED BY <1>1 DEF GllueSyncNext, SyncStep

LEMMA AtRowInOrder ==
    ASSUME WorkersGood, RowsInOrder, NEW w \in Runs, NEW t \in Tables, NEW y \in Work,
           AtRowStep(w, t, y)
    PROVE  RowsInOrder'
<1>1. worker[w][t].pc \notin {"off", "waiting"} /\ Leads(w, t, y)
  BY DEF AtRowStep, RowStates
<1>2. QED BY <1>1, MovesInOrder

LEMMA MirrorType ==
    ASSUME MirrorTypeInv, [GllueSyncNext]_gllueSyncVars
    PROVE  MirrorTypeInv'
<1>1. TablesGood /\ WorkersGood /\ RowsInOrder
  BY DEF MirrorTypeInv
<1>2. ASSUME NEW r \in SrcRows, ChangeSource(r) PROVE MirrorTypeInv'
  BY <1>1, <1>2, ChangeSourceType DEF MirrorTypeInv
<1>3. CASE InitiateCutover \/ UNCHANGED gllueSyncVars
  BY <1>1, <1>3 DEF InitiateCutover, mirrorVars, gllueSyncVars, MirrorTypeInv, TablesGood,
     SourceTyped, CopiesTyped, MappingTyped, CursorTyped, WorkersGood, WorkerGood, Resolves,
     RowsInOrder
<1>4. ASSUME NEW w \in Runs, NEW s \in Services, Cron(w, s) PROVE MirrorTypeInv'
  <2>1. /\ Rests(w) /\ UNCHANGED mirrorVars
        /\ \A u \in Tables : worker[w][u].pc = "off" /\ Resting(worker'[w][u])
    BY <1>1, <1>4, CronRests DEF Cron
  <2>2. TablesGood' /\ WorkersGood'
    BY <1>1, <2>1, RestsGood DEF mirrorVars
  <2>3. ASSUME NEW v \in Runs, NEW a \in Tables, NEW b \in Tables,
               EarlierThan(a, b), worker'[v][a].pc # "off"
        PROVE  worker'[v][b].pc \in {"off", "waiting"}
    <3>1. CASE v = w
      BY <2>1, <3>1 DEF Resting
    <3>2. CASE v # w
      BY <1>1, <2>1, <2>3, <3>2 DEF Rests, RowsInOrder
    <3>3. QED BY <3>1, <3>2
  <2>4. RowsInOrder'
    BY <2>3 DEF RowsInOrder
  <2>5. QED BY <2>2, <2>4 DEF MirrorTypeInv
<1>5. ASSUME NEW w \in Runs, NEW t \in Tables, ReadCursor(w, t) PROVE MirrorTypeInv'
  BY <1>1, <1>5, ReadCursorMoves DEF MirrorTypeInv
<1>6. ASSUME NEW w \in Runs, NEW t \in Tables, Query(w, t) PROVE MirrorTypeInv'
  BY <1>1, <1>6, QueryMoves DEF MirrorTypeInv
<1>7. ASSUME NEW w \in Runs, NEW t \in Tables, AdvanceCursor(w, t) PROVE MirrorTypeInv'
  BY <1>1, <1>7, AdvanceMoves DEF MirrorTypeInv
<1>8. ASSUME NEW w \in Runs, NEW t \in Tables, SyncFails(w, t) PROVE MirrorTypeInv'
  <2>1. /\ Rests(w) /\ UNCHANGED mirrorVars
        /\ \A v \in Runs, u \in Tables :
              worker'[v][u] = worker[v][u] \/ worker'[v][u].pc = "off"
    BY <1>1, <1>8, SyncFailsRests DEF SyncFails
  <2>2. TablesGood' /\ WorkersGood'
    BY <1>1, <2>1, RestsGood DEF mirrorVars
  <2>3. RowsInOrder'
    BY <1>1, <2>1, RestsInOrder
  <2>4. QED BY <2>2, <2>3 DEF MirrorTypeInv
<1>9. ASSUME NEW w \in Runs, NEW t \in Tables, NEW y \in Work, AtRowStep(w, t, y)
      PROVE  MirrorTypeInv'
  <2>1. TablesGood' /\ TablesGrow /\ WorkerGood(y, t)' /\ Leads(w, t, y)
    BY <1>1, <1>9, RowTables, RowActsGood DEF AtRowStep
  <2>2. WorkersGood'
    BY <1>1, <2>1, MovesGood
  <2>3. RowsInOrder'
    BY <1>1, <1>9, AtRowInOrder
  <2>4. QED BY <2>1, <2>2, <2>3 DEF MirrorTypeInv
<1>10. QED
  BY <1>1, <1>2, <1>3, <1>4, <1>5, <1>6, <1>7, <1>8, <1>9, MirrorSteps

LEMMA MirrorInitType == GllueSyncInit => MirrorTypeInv
<1> SUFFICES ASSUME GllueSyncInit PROVE MirrorTypeInv
  OBVIOUS
<1>1. SourceTyped
  BY GllueSyncAssumption DEF GllueSyncInit, SourceTyped
<1>2. CopiesTyped /\ \A r \in SrcRows : Len(copies[r]) = 0
  BY DEF GllueSyncInit, CopiesTyped
<1>3. MappingTyped
  BY <1>2 DEF GllueSyncInit, MappingTyped
<1>4. CursorTyped
  BY DEF GllueSyncInit, CursorTyped
<1>5. TablesGood
  BY <1>1, <1>2, <1>3, <1>4 DEF TablesGood
<1>6. worker \in [Runs -> [Tables -> Work]] /\ \A w \in Runs, t \in Tables : worker[w][t] = Off
  BY OffRests DEF GllueSyncInit
<1>7. WorkersGood
  <2>1. ASSUME NEW w \in Runs, NEW t \in Tables
        PROVE  WorkerGood(worker[w][t], t)
    BY <1>5, <1>6, OffRests, RestingGood
  <2>2. QED BY <1>6, <2>1 DEF WorkersGood
<1>8. RowsInOrder
  BY <1>6, OffRests DEF RowsInOrder
<1>9. QED BY <1>5, <1>7, <1>8 DEF MirrorTypeInv

-----------------------------------------------------------------------------
(* Gllue mirror: one copy of a row. *)

LEMMA OnRowKeeps ==
    ASSUME NEW x, NEW y, NEW pc, NEW found, OnRow(x, y, pc, found)
    PROVE  RowOf(y) = RowOf(x) /\ y.pc = pc /\ y.found = found
BY DEF OnRow, RowOf

(* Only the worker that steps makes, or stops making, and only its row. *)
LEMMA MakersAfter ==
    ASSUME TablesGood, WorkersGood, NEW w \in Runs, NEW t \in Tables, NEW y \in Work,
           AtRowStep(w, t, y), NEW r \in SrcRows, r = RowOf(worker[w][t])
    PROVE  /\ TableOf[r] = t
           /\ \A v \in Runs, q \in SrcRows : v # w \/ q # r =>
                 /\ MakesRow(v, q)' <=> MakesRow(v, q)
                 /\ MakesRow(v, q) => worker'[v][TableOf[q]].pc = worker[v][TableOf[q]].pc
           /\ MakesRow(w, r) <=> Making(worker[w][t])
           /\ MakesRow(w, r)' <=> Making(y)
<1>1. PICK x \in Work : x = worker[w][t]
  BY DEF WorkersGood
<1>2. x.pc \in RowStates /\ RowActs(w, x, y) /\ Leads(w, t, y)
  BY <1>1 DEF AtRowStep
<1>3. TableOf[r] = t
  BY <1>1, <1>2, AtRow
<1>4. RowOf(y) = r \/ ~Making(y)
  <2>1. CASE PastRow(x, y)
    BY <2>1 DEF PastRow, Making
  <2>2. ASSUME NEW pc, NEW found, OnRow(x, y, pc, found)
        PROVE  RowOf(y) = r
    BY <1>1, <2>2, OnRowKeeps
  <2>3. QED BY <1>2, <2>1, <2>2 DEF RowActs, Skips, Finds, Maps, Leaves, Creates,
          Links, Updates, Marks
<1>5. worker'[w][t] = y
  BY <1>2 DEF Leads
<1>6. ASSUME NEW v \in Runs, NEW q \in SrcRows, v # w \/ q # r
      PROVE  /\ MakesRow(v, q)' <=> MakesRow(v, q)
             /\ MakesRow(v, q) => worker'[v][TableOf[q]].pc = worker[v][TableOf[q]].pc
  <2>1. TableOf[q] \in Tables
    BY DEF Tables
  <2>2. CASE v = w /\ TableOf[q] = t
    <3>1. ~MakesRow(v, q)
      BY <1>6, <2>2 DEF MakesRow
    <3>2. ~MakesRow(v, q)'
      BY <1>4, <1>5, <1>6, <2>2 DEF MakesRow
    <3>3. QED BY <3>1, <3>2
  <2>3. CASE ~(v = w /\ TableOf[q] = t)
    <3>1. worker'[v][TableOf[q]] = worker[v][TableOf[q]]
      BY <1>2, <2>1, <2>3 DEF Leads
    <3>2. QED BY <3>1 DEF MakesRow
  <2>4. QED BY <2>2, <2>3
<1>7. MakesRow(w, r) <=> Making(worker[w][t])
  BY <1>3 DEF MakesRow
<1>8. MakesRow(w, r)' <=> Making(y)
  BY <1>3, <1>4, <1>5 DEF MakesRow
<1>9. QED BY <1>3, <1>6, <1>7, <1>8

(* The other rows. *)
LEMMA OtherRowsMade ==
    ASSUME TablesGood, WorkersGood, NEW w \in Runs, NEW t \in Tables, NEW y \in Work,
           AtRowStep(w, t, y), NEW r \in SrcRows, r = RowOf(worker[w][t]),
           NEW q \in SrcRows, q # r, MadeOnce(q)
    PROVE  MadeOnce(q)'
<1>1. copies'[q] = copies[q] /\ mapping'[q] = mapping[q]
  BY RowTables
<1>2. \A v \in Runs : /\ MakesRow(v, q)' <=> MakesRow(v, q)
                      /\ MakesRow(v, q) =>
                            worker'[v][TableOf[q]].pc = worker[v][TableOf[q]].pc
  BY MakersAfter
<1>3. /\ \A v, x \in Runs : MakesRow(v, q) /\ MakesRow(x, q) => v = x
      /\ \A v \in Runs : MakesRow(v, q) =>
            /\ mapping[q].to = 0
            /\ Len(copies[q]) = IF worker[v][TableOf[q]].pc = "link" THEN 1 ELSE 0
      /\ mapping[q].to = 0 /\ (\A v \in Runs : ~MakesRow(v, q)) => Len(copies[q]) = 0
      /\ Len(copies[q]) <= 1
  BY DEF MadeOnce
<1>4. \A v, x \in Runs : MakesRow(v, q)' /\ MakesRow(x, q)' => v = x
  BY <1>2, <1>3
<1>5. \A v \in Runs : MakesRow(v, q)' =>
            /\ mapping'[q].to = 0
            /\ Len(copies'[q]) = IF worker'[v][TableOf[q]].pc = "link" THEN 1 ELSE 0
  BY <1>1, <1>2, <1>3
<1>6. mapping'[q].to = 0 /\ (\A v \in Runs : ~MakesRow(v, q)') => Len(copies'[q]) = 0
  BY <1>1, <1>2, <1>3
<1>7. QED BY <1>1, <1>3, <1>4, <1>5, <1>6 DEF MadeOnce

(* The row of the step: w makes it before, after, both or neither. *)
LEMMA RowMade ==
    ASSUME TablesGood, WorkersGood, NEW w \in Runs, NEW t \in Tables, NEW y \in Work,
           AtRowStep(w, t, y), NEW r \in SrcRows, r = RowOf(worker[w][t]),
           MadeOnce(r), r \notin twice'
    PROVE  MadeOnce(r)'
<1>1. PICK x \in Work : x = worker[w][t]
  BY DEF WorkersGood
<1>2. x.pc \in RowStates /\ RowActs(w, x, y) /\ Leads(w, t, y) /\ WorkerGood(x, t)
  BY <1>1 DEF AtRowStep, WorkersGood
<1>3. /\ TableOf[r] = t
      /\ \A v \in Runs : v # w =>
            /\ MakesRow(v, r)' <=> MakesRow(v, r)
            /\ MakesRow(v, r) => worker'[v][t].pc = worker[v][t].pc
      /\ MakesRow(w, r) <=> Making(x)
      /\ MakesRow(w, r)' <=> Making(y)
      /\ worker'[w][t] = y
  BY <1>1, <1>2, MakersAfter DEF Leads
<1>4. /\ \A v, z \in Runs : MakesRow(v, r) /\ MakesRow(z, r) => v = z
      /\ \A v \in Runs : MakesRow(v, r) =>
            /\ mapping[r].to = 0
            /\ Len(copies[r]) = IF worker[v][t].pc = "link" THEN 1 ELSE 0
      /\ mapping[r].to = 0 /\ (\A v \in Runs : ~MakesRow(v, r)) => Len(copies[r]) = 0
      /\ Len(copies[r]) <= 1
  BY <1>3 DEF MadeOnce
<1>5. Len(copies[r]) \in Nat /\ mapping[r].to \in Nat /\ x.found \in Nat
      /\ VersionOf(x) \in 1..MaxSourceChanges
  <2>1. Len(copies[r]) \in Nat /\ mapping[r].to \in Nat /\ x.found \in Nat
    BY DEF TablesGood, CopiesTyped, MappingTyped, Work
  <2>2. VersionOf(x) \in 1..MaxSourceChanges
    BY <1>1, <1>2, AtRow
  <2>3. QED BY <2>1, <2>2
<1>6. SUFFICES
         /\ \A v, z \in Runs : MakesRow(v, r)' /\ MakesRow(z, r)' => v = z
         /\ \A v \in Runs : MakesRow(v, r)' =>
               /\ mapping'[r].to = 0
               /\ Len(copies'[r]) = IF worker'[v][t].pc = "link" THEN 1 ELSE 0
         /\ mapping'[r].to = 0 /\ (\A v \in Runs : ~MakesRow(v, r)') => Len(copies'[r]) = 0
         /\ Len(copies'[r]) <= 1
  BY <1>3 DEF MadeOnce
<1>7. CASE PastRow(x, y) /\ UNCHANGED <<copies, mapping>> /\ x.pc # "link"
  <2>1. ~Making(y)
    BY <1>7 DEF PastRow, Making
  <2>2. copies'[r] = copies[r] /\ mapping'[r] = mapping[r]
    BY <1>7
  <2>3. Making(x) => Len(copies[r]) = 0
    BY <1>1, <1>3, <1>4, <1>7
  <2>4. QED BY <1>3, <1>4, <2>1, <2>2, <2>3
<1>8. CASE Finds(w, x, y)
  <2>1. /\ x.pc = "find" /\ OnRow(x, y, "map", mapping[r].to) /\ UNCHANGED <<copies, mapping>>
        /\ mapping[r].to = 0 => \A v \in Runs \ {w} : ~MakesRow(v, r)
    BY <1>1, <1>8 DEF Finds
  <2>2. y.pc = "map" /\ y.found = mapping[r].to
    BY <2>1 DEF OnRow
  <2>3. ~Making(x) /\ (Making(y) <=> mapping[r].to = 0)
    BY <2>1, <2>2 DEF Making
  <2>4. copies'[r] = copies[r] /\ mapping'[r] = mapping[r]
    BY <2>1
  <2>5. CASE mapping[r].to = 0
    <3>1. \A v \in Runs : ~MakesRow(v, r)
      BY <1>3, <2>1, <2>3, <2>5
    <3>2. Len(copies[r]) = 0 /\ \A v \in Runs : MakesRow(v, r)' => v = w
      BY <1>3, <1>4, <2>5, <3>1
    <3>3. QED BY <1>3, <2>2, <2>3, <2>4, <2>5, <3>2
  <2>6. CASE mapping[r].to # 0
    <3>1. \A v \in Runs : ~MakesRow(v, r)'
      BY <1>3, <1>4, <2>3, <2>6
    <3>2. QED BY <1>4, <2>4, <2>6, <3>1
  <2>7. QED BY <2>5, <2>6
<1>9. CASE Maps(x, y)
  <2>1. /\ x.pc = "map" /\ UNCHANGED <<copies, mapping>> /\ y.found = x.found
        /\ y.pc = IF x.found = 0 THEN "create" ELSE "update"
    BY <1>9 DEF Maps, OnRow
  <2>2. (Making(y) <=> Making(x)) /\ x.pc # "link" /\ y.pc # "link"
    BY <2>1 DEF Making
  <2>3. copies'[r] = copies[r] /\ mapping'[r] = mapping[r]
    BY <2>1
  <2>4. \A v \in Runs : (MakesRow(v, r)' <=> MakesRow(v, r))
                        /\ (MakesRow(v, r) =>
                              (worker'[v][t].pc = "link" <=> worker[v][t].pc = "link"))
    BY <1>1, <1>3, <2>2
  <2>5. QED BY <1>4, <2>3, <2>4
<1>10. CASE Creates(x, y)
  <2>1. x.pc = "create" /\ y.pc = "link" /\ UNCHANGED mapping
    BY <1>10 DEF Creates, OnRow
  <2>2. Making(x) /\ Making(y)
    BY <1>2, <2>1 DEF Making, WorkerGood
  <2>3. \A v \in Runs : MakesRow(v, r)' => v = w
    BY <1>3, <1>4, <2>2
  <2>4. mapping[r].to = 0 /\ Len(copies[r]) = 0
    BY <1>1, <1>3, <1>4, <2>1, <2>2
  <2>5. Len(copies'[r]) = Len(copies[r]) + 1
    BY <1>1, <1>5, <1>10, CopiesCreated
  <2>6. QED BY <1>3, <2>1, <2>2, <2>3, <2>4, <2>5
<1>11. CASE Links(x, y)
  <2>1. x.pc = "link" /\ PastRow(x, y) /\ copies' = copies
    BY <1>11 DEF Links
  <2>2. Making(x) /\ ~Making(y)
    BY <2>1 DEF Making, PastRow
  <2>3. mapping[r].to = 0 /\ Len(copies[r]) = 1
    BY <1>1, <1>3, <1>4, <2>1, <2>2
  <2>4. \A v \in Runs : ~MakesRow(v, r)'
    BY <1>3, <1>4, <2>2
  <2>5. mapping'[r].to = x.found
    BY <1>1, <1>5, <1>11, <2>3, MappingLinked
  <2>6. x.found > 0
    BY <1>2, <2>1 DEF WorkerGood
  <2>7. QED BY <1>5, <2>1, <2>3, <2>4, <2>5, <2>6
<1>12. CASE Updates(x, y)
  <2>1. x.pc = "update" /\ y.pc = "checksum" /\ UNCHANGED mapping
    BY <1>12 DEF Updates, OnRow
  <2>2. ~Making(x) /\ ~Making(y)
    BY <2>1 DEF Making
  <2>3. x.found \in 1..Len(copies[r])
    BY <1>1, <1>2, <1>5, <2>1 DEF WorkerGood
  <2>4. Len(copies'[r]) = Len(copies[r])
    BY <1>1, <1>5, <1>12, <2>3, CopiesUpdated
  <2>5. \A v \in Runs : (MakesRow(v, r)' <=> MakesRow(v, r))
                        /\ (MakesRow(v, r) => worker'[v][t].pc = worker[v][t].pc)
    BY <1>3, <2>2
  <2>6. QED BY <1>4, <2>1, <2>4, <2>5
<1>13. CASE Marks(x, y)
  <2>1. x.pc = "checksum" /\ PastRow(x, y) /\ copies' = copies
    BY <1>13 DEF Marks
  <2>2. ~Making(x) /\ ~Making(y)
    BY <2>1 DEF Making, PastRow
  <2>3. mapping'[r].to = mapping[r].to
    BY <1>1, <1>5, <1>13, MappingMarked
  <2>4. \A v \in Runs : (MakesRow(v, r)' <=> MakesRow(v, r))
                        /\ (MakesRow(v, r) => worker'[v][t].pc = worker[v][t].pc)
    BY <1>3, <2>2
  <2>5. QED BY <1>4, <2>1, <2>3, <2>4
<1>14. CASE Skips(x, y)
  BY <1>7, <1>14 DEF Skips
<1>15. CASE Leaves(x, y)
  <2>1. x.pc # "link"
    BY <1>1, <1>15 DEF Leaves
  <2>2. QED BY <1>7, <1>15, <2>1 DEF Leaves
<1>16. QED
  BY <1>2, <1>8, <1>9, <1>10, <1>11, <1>12, <1>13, <1>14, <1>15 DEF RowActs

(* Workers that stop leave no copy behind, but for one whose row is in twice. *)
LEMMA StopsMaking ==
    ASSUME TablesGood, OneMaker, UNCHANGED <<copies, mapping>>, twice \subseteq twice',
           \A v \in Runs, u \in Tables :
              \/ worker'[v][u] = worker[v][u]
              \/ /\ ~Making(worker'[v][u])
                 /\ worker[v][u].pc = "link" => RowOf(worker[v][u]) \in twice'
    PROVE  OneMaker'
<1>1. ASSUME NEW q \in SrcRows \ twice'
      PROVE  MadeOnce(q)'
  <2>1. MadeOnce(q) /\ TableOf[q] \in Tables
    BY DEF OneMaker, Tables
  <2>2. PICK t \in Tables : t = TableOf[q]
    BY <2>1
  <2>3. /\ \A v, x \in Runs : MakesRow(v, q) /\ MakesRow(x, q) => v = x
        /\ \A v \in Runs : MakesRow(v, q) =>
              /\ mapping[q].to = 0
              /\ Len(copies[q]) = IF worker[v][t].pc = "link" THEN 1 ELSE 0
        /\ mapping[q].to = 0 /\ (\A v \in Runs : ~MakesRow(v, q)) => Len(copies[q]) = 0
        /\ Len(copies[q]) <= 1
    BY <2>1, <2>2 DEF MadeOnce
  <2>4. ASSUME NEW v \in Runs
        PROVE  /\ MakesRow(v, q)' => MakesRow(v, q) /\ worker'[v][t] = worker[v][t]
               /\ MakesRow(v, q) /\ ~MakesRow(v, q)' => worker[v][t].pc # "link"
    BY <1>1, <2>2 DEF MakesRow
  <2>5. copies'[q] = copies[q] /\ mapping'[q] = mapping[q]
    OBVIOUS
  <2>6. mapping'[q].to = 0 /\ (\A v \in Runs : ~MakesRow(v, q)') => Len(copies'[q]) = 0
    BY <2>3, <2>4, <2>5
  <2>7. \A v, x \in Runs : MakesRow(v, q)' /\ MakesRow(x, q)' => v = x
    BY <2>3, <2>4
  <2>8. \A v \in Runs : MakesRow(v, q)' =>
              /\ mapping'[q].to = 0
              /\ Len(copies'[q]) = IF worker'[v][t].pc = "link" THEN 1 ELSE 0
    BY <2>3, <2>4, <2>5
  <2>9. QED BY <2>2, <2>3, <2>5, <2>6, <2>7, <2>8 DEF MadeOnce
<1>2. QED BY <1>1 DEF OneMaker

LEMMA MovesStop ==
    ASSUME TablesGood, OneMaker, UNCHANGED <<copies, mapping>>, twice \subseteq twice',
           NEW w \in Runs, NEW t \in Tables, NEW y, Leads(w, t, y),
           y.pc \in {"find", "advance", "query", "off"}, worker[w][t].pc # "link"
    PROVE  OneMaker'
<1>1. ~Making(y)
  BY DEF Making
<1>2. QED BY <1>1, StopsMaking DEF Leads

LEMMA OneMakerKept ==
    ASSUME MirrorTypeInv, OneMaker, [GllueSyncNext]_gllueSyncVars
    PROVE  OneMaker'
<1>1. TablesGood /\ WorkersGood /\ RowsInOrder
  BY DEF MirrorTypeInv
<1>2. ASSUME NEW r \in SrcRows, ChangeSource(r) PROVE OneMaker'
  BY <1>1, <1>2, StopsMaking DEF ChangeSource
<1>3. CASE InitiateCutover \/ UNCHANGED gllueSyncVars
  BY <1>1, <1>3, StopsMaking DEF InitiateCutover, mirrorVars, gllueSyncVars
<1>4. ASSUME NEW w \in Runs, NEW s \in Services, Cron(w, s) PROVE OneMaker'
  <2>1. /\ Rests(w) /\ UNCHANGED mirrorVars /\ twice' = twice
        /\ \A u \in Tables : worker[w][u].pc = "off" /\ Resting(worker'[w][u])
    BY <1>1, <1>4, CronRests DEF Cron
  <2>2. ASSUME NEW v \in Runs, NEW u \in Tables
        PROVE  \/ worker'[v][u] = worker[v][u]
               \/ ~Making(worker'[v][u]) /\ worker[v][u].pc # "link"
    BY <2>1 DEF Rests, Resting, Making
  <2>3. QED BY <1>1, <2>1, <2>2, StopsMaking DEF mirrorVars
<1>5. ASSUME NEW w \in Runs, NEW t \in Tables, ReadCursor(w, t) PROVE OneMaker'
  <2>1. PICK y \in Work : Leads(w, t, y) /\ y.pc = "query"
    BY <1>1, <1>5, ReadCursorMoves
  <2>2. QED BY <1>1, <1>5, <2>1, MovesStop DEF ReadCursor, mirrorVars
<1>6. ASSUME NEW w \in Runs, NEW t \in Tables, Query(w, t) PROVE OneMaker'
  <2>1. PICK y \in Work : Leads(w, t, y) /\ y.pc \in {"find", "advance"}
    BY <1>1, <1>6, QueryMoves
  <2>2. QED BY <1>1, <1>6, <2>1, MovesStop DEF Query, mirrorVars
<1>7. ASSUME NEW w \in Runs, NEW t \in Tables, AdvanceCursor(w, t) PROVE OneMaker'
  <2>1. PICK y \in Work : Leads(w, t, y) /\ y.pc \in {"query", "off"}
    BY <1>1, <1>7, AdvanceMoves
  <2>2. QED BY <1>1, <1>7, <2>1, MovesStop DEF AdvanceCursor
<1>8. ASSUME NEW w \in Runs, NEW t \in Tables, SyncFails(w, t) PROVE OneMaker'
  <2>1. \A v \in Runs, u \in Tables :
           \/ worker'[v][u] = worker[v][u]
           \/ v = w /\ worker'[v][u].pc = "off" /\ (u = t \/ EarlierThan(t, u))
    BY <1>1, <1>8, SyncFailsRests
  <2>2. /\ UNCHANGED <<copies, mapping>> /\ twice \subseteq twice'
        /\ worker[w][t].pc # "off"
        /\ worker[w][t].pc = "link" => RowOf(worker[w][t]) \in twice'
    BY <1>8, RowIs DEF SyncFails, mirrorVars
  <2>3. ASSUME NEW v \in Runs, NEW u \in Tables, worker'[v][u] # worker[v][u]
        PROVE  /\ ~Making(worker'[v][u])
               /\ worker[v][u].pc = "link" => RowOf(worker[v][u]) \in twice'
    <3>1. v = w /\ worker'[v][u].pc = "off" /\ (u = t \/ EarlierThan(t, u))
      BY <2>1, <2>3
    <3>2. ~Making(worker'[v][u])
      BY <3>1 DEF Making
    <3>3. EarlierThan(t, u) => worker[v][u].pc # "link"
      BY <1>1, <2>2, <3>1 DEF RowsInOrder
    <3>4. QED BY <2>2, <3>1, <3>2, <3>3
  <2>4. QED BY <1>1, <2>2, <2>3, StopsMaking
<1>9. ASSUME NEW w \in Runs, NEW t \in Tables, NEW y \in Work, AtRowStep(w, t, y)
      PROVE  OneMaker'
  <2>1. PICK r \in SrcRows : r = RowOf(worker[w][t])
    BY <1>1, <1>9, AtRow DEF AtRowStep
  <2>2. twice \subseteq twice'
    BY <1>9 DEF AtRowStep
  <2>3. ASSUME NEW q \in SrcRows \ twice'
        PROVE  MadeOnce(q)'
    <3>1. MadeOnce(q)
      BY <2>2 DEF OneMaker
    <3>2. CASE q = r
      BY <1>1, <1>9, <2>1, <3>1, <3>2, RowMade
    <3>3. CASE q # r
      BY <1>1, <1>9, <2>1, <3>1, <3>3, OtherRowsMade
    <3>4. QED BY <3>2, <3>3
  <2>4. QED BY <2>3 DEF OneMaker
<1>10. QED
  BY <1>1, <1>2, <1>3, <1>4, <1>5, <1>6, <1>7, <1>8, <1>9, MirrorSteps

LEMMA ParentsFirstKept ==
    ASSUME MirrorTypeInv, ParentsFirst, [GllueSyncNext]_gllueSyncVars
    PROVE  ParentsFirst'
<1>1. TablesGood /\ WorkersGood /\ RowsInOrder
  BY DEF MirrorTypeInv
<1>2. ASSUME UNCHANGED <<copies, mapping>>
      PROVE  ParentsFirst'
  BY <1>2 DEF ParentsFirst, Resolves
<1>3. ASSUME NEW w \in Runs, NEW t \in Tables, NEW y \in Work, AtRowStep(w, t, y)
      PROVE  ParentsFirst'
  <2>1. PICK x \in Work : x = worker[w][t]
    BY <1>1 DEF WorkersGood
  <2>2. x.pc \in RowStates /\ RowActs(w, x, y) /\ WorkerGood(x, t)
    BY <1>1, <1>3, <2>1 DEF AtRowStep, WorkersGood
  <2>3. PICK r \in SrcRows : r = RowOf(x)
    BY <1>1, <2>1, <2>2, AtRow
  <2>4. TablesGrow /\ \A q \in SrcRows : q # r => copies'[q] = copies[q]
    BY <1>1, <1>3, <2>1, <2>3, RowTables
  <2>5. ASSUME copies'[r] # <<>>
        PROVE  Resolves(r)
    <3>1. CASE Creates(x, y)
      BY <2>2, <2>3, <3>1 DEF Creates, WorkerGood
    <3>2. CASE Updates(x, y)
      <4>1. Len(copies[r]) > 0
        BY <1>1, <2>2, <2>3, <3>2 DEF Updates, WorkerGood, TablesGood, CopiesTyped, Work
      <4>2. copies[r] # <<>>
        BY <4>1
      <4>3. QED BY <4>2 DEF ParentsFirst
    <3>3. CASE ~Creates(x, y) /\ ~Updates(x, y)
      <4>1. copies' = copies
        BY <2>2, <3>3, CopiesKept
      <4>2. QED BY <2>5, <4>1 DEF ParentsFirst
    <3>4. QED BY <3>1, <3>2, <3>3
  <2>6. ASSUME NEW q \in SrcRows, copies'[q] # <<>>
        PROVE  Resolves(q)'
    <3>1. Resolves(q)
      BY <2>4, <2>5, <2>6 DEF ParentsFirst
    <3>2. QED BY <2>4, <3>1, ResolvesStays
  <2>7. QED BY <2>6 DEF ParentsFirst
<1>4. CASE UNCHANGED gllueSyncVars
  BY <1>2, <1>4 DEF gllueSyncVars
<1>5. QED
  BY <1>1, <1>2, <1>3, <1>4, MirrorSteps DEF ChangeSource, InitiateCutover, Cron, ReadCursor,
     Query, AdvanceCursor, SyncFails, mirrorVars

(* Gllue mirror: however runs, failures and changes interleave, a row that no *)
(* two runs found unmapped together has one copy, made after its parents were *)
(* mirrored (migration.service.ts: processRow).                               *)
THEOREM MirrorOnce == GllueSyncSpec => []MirroredOnce
<1>1. GllueSyncInit => MirrorTypeInv /\ OneMaker /\ ParentsFirst
  <2> SUFFICES ASSUME GllueSyncInit PROVE MirrorTypeInv /\ OneMaker /\ ParentsFirst
    OBVIOUS
  <2>1. \A r \in SrcRows : copies[r] = <<>>
    BY DEF GllueSyncInit
  <2>2. \A v \in Runs, u \in Tables : worker[v][u].pc = "off"
    BY OffRests DEF GllueSyncInit
  <2>3. ASSUME NEW r \in SrcRows PROVE MadeOnce(r)
    <3>1. TableOf[r] \in Tables
      BY DEF Tables
    <3>2. \A v \in Runs : ~MakesRow(v, r)
      BY <2>2, <3>1 DEF MakesRow, Making
    <3>3. Len(copies[r]) = 0
      BY <2>1
    <3>4. QED BY <3>2, <3>3 DEF MadeOnce
  <2>4. QED BY <2>1, <2>3, MirrorInitType DEF OneMaker, ParentsFirst
<1>2. MirrorTypeInv /\ OneMaker /\ ParentsFirst /\ [GllueSyncNext]_gllueSyncVars =>
         MirrorTypeInv' /\ OneMaker' /\ ParentsFirst'
  BY MirrorType, OneMakerKept, ParentsFirstKept
<1>3. OneMaker /\ ParentsFirst => MirroredOnce
  BY DEF OneMaker, MadeOnce, ParentsFirst, Resolves, MirroredOnce
<1>4. QED BY <1>1, <1>2, <1>3, PTL DEF GllueSyncSpec

-----------------------------------------------------------------------------
(* Gllue mirror: what the cursor has passed is mirrored. *)

LEMMA IdleCurrent ==
    ASSUME NEW x, NEW q, x.todo = {}, x.pc \in {"off", "waiting", "query"}
    PROVE  WorkerCurrent(x, q)
BY DEF WorkerCurrent, RowStates

(* The step of a worker that is not at a row, with the tables at rest. *)
LEMMA QuietCurrent ==
    ASSUME Current, UNCHANGED <<source, copies, mapping, syncCursor>>, passed \subseteq passed',
           \A q \in SrcRows \ passed', v \in Runs :
              \/ worker'[v][TableOf[q]] = worker[v][TableOf[q]]
              \/ WorkerCurrent(worker'[v][TableOf[q]], q)
    PROVE  Current'
<1>1. ASSUME NEW q \in SrcRows \ passed'
      PROVE  RowCurrent(q)'
  <2>1. RowCurrent(q)
    BY DEF Current
  <2>2. ASSUME NEW v \in Runs
        PROVE  WorkerCurrent(worker[v][TableOf[q]], q)'
    <3>1. PICK z : z = worker'[v][TableOf[q]]
      OBVIOUS
    <3>2. WorkerCurrent(z, q)
      BY <2>1, <3>1 DEF RowCurrent
    <3>3. QED BY <3>1, <3>2 DEF WorkerCurrent, Mirrored
  <2>3. QED BY <2>1, <2>2 DEF RowCurrent, Mirrored
<1>2. QED BY <1>1 DEF Current

LEMMA QueryCurrent ==
    ASSUME MirrorTypeInv, Current, NEW w \in Runs, NEW t \in Tables, Query(w, t)
    PROVE  Current'
<1>1. TablesGood /\ WorkersGood /\ RowsInOrder
  BY DEF MirrorTypeInv
<1>2. PICK y \in Work :
         /\ Leads(w, t, y) /\ y.pc \in {"find", "advance"}
         /\ \A r \in SrcRows, v \in 1..MaxSourceChanges :
               <<r, v>> \in y.todo => v = source[r].version
         /\ \A r \in SrcRows \ passed' :
               TableOf[r] = t /\ source[r].version > 0 =>
                  \/ <<r, source[r].version>> \in y.todo
                  \/ source[r].changed <= syncCursor[t]
  BY <1>1, QueryMoves
<1>3. passed \subseteq passed' /\ UNCHANGED <<source, copies, mapping, syncCursor>>
  BY <1>1, QueryMoves DEF mirrorVars
<1>4. ASSUME NEW q \in SrcRows \ passed', TableOf[q] = t
      PROVE  WorkerCurrent(y, q)
  <2>1. RowCurrent(q)
    BY <1>3 DEF Current
  <2>2. source[q].version > 0 => <<q, source[q].version>> \in y.todo \/ Mirrored(q)
    BY <1>2, <1>4, <2>1 DEF RowCurrent
  <2>3. ~Making(y) /\ y.pc \notin {"link", "checksum"}
    BY <1>2 DEF Making
  <2>4. QED BY <1>2, <2>2, <2>3 DEF WorkerCurrent
<1>5. ASSUME NEW q \in SrcRows \ passed', NEW v \in Runs
      PROVE  \/ worker'[v][TableOf[q]] = worker[v][TableOf[q]]
             \/ WorkerCurrent(worker'[v][TableOf[q]], q)
  <2>1. TableOf[q] \in Tables
    BY DEF Tables
  <2>2. CASE v = w /\ TableOf[q] = t
    <3>1. worker'[v][TableOf[q]] = y
      BY <1>2, <2>2 DEF Leads
    <3>2. QED BY <1>4, <2>2, <3>1
  <2>3. CASE ~(v = w /\ TableOf[q] = t)
    BY <1>2, <2>1, <2>3 DEF Leads
  <2>4. QED BY <2>2, <2>3
<1>6. QED BY <1>3, <1>5, QuietCurrent

LEMMA AdvanceCurrent ==
    ASSUME MirrorTypeInv, Current, NEW w \in Runs, NEW t \in Tables, AdvanceCursor(w, t)
    PROVE  Current'
<1>1. TablesGood /\ WorkersGood /\ RowsInOrder
  BY DEF MirrorTypeInv
<1>2. PICK y \in Work : Leads(w, t, y) /\ y.pc \in {"query", "off"} /\ y.todo = {}
  BY <1>1, AdvanceMoves
<1>3. /\ worker[w][t].pc = "advance" /\ worker[w][t].todo = {}
      /\ \A u \in Tables : u # t => syncCursor'[u] = syncCursor[u]
  BY <1>1, AdvanceMoves
<1>4. UNCHANGED <<source, copies, mapping, passed>>
  BY DEF AdvanceCursor
<1>5. ASSUME NEW q \in SrcRows \ passed'
      PROVE  RowCurrent(q)'
  <2>1. RowCurrent(q) /\ TableOf[q] \in Tables
    BY <1>4 DEF Current, Tables
  <2>2. source[q].version > 0 /\ source[q].changed <= syncCursor'[TableOf[q]] => Mirrored(q)
    <3>1. CASE TableOf[q] = t
      <4>1. WorkerCurrent(worker[w][t], q)
        BY <2>1, <3>1 DEF RowCurrent
      <4>2. QED BY <1>3, <4>1 DEF WorkerCurrent
    <3>2. CASE TableOf[q] # t
      BY <1>3, <2>1, <3>2 DEF RowCurrent
    <3>3. QED BY <3>1, <3>2
  <2>3. ASSUME NEW v \in Runs
        PROVE  WorkerCurrent(worker[v][TableOf[q]], q)'
    <3>1. PICK z : z = worker'[v][TableOf[q]]
      OBVIOUS
    <3>2. WorkerCurrent(z, q)
      <4>1. CASE v = w /\ TableOf[q] = t
        <5>1. z = y
          BY <1>2, <3>1, <4>1 DEF Leads
        <5>2. QED BY <1>2, <5>1, IdleCurrent
      <4>2. CASE ~(v = w /\ TableOf[q] = t)
        <5>1. z = worker[v][TableOf[q]]
          BY <1>2, <2>1, <3>1, <4>2 DEF Leads
        <5>2. QED BY <2>1, <5>1 DEF RowCurrent
      <4>3. QED BY <4>1, <4>2
    <3>3. QED BY <1>4, <3>1, <3>2 DEF WorkerCurrent, Mirrored
  <2>4. QED BY <1>4, <2>1, <2>2, <2>3 DEF RowCurrent, Mirrored
<1>6. QED BY <1>5 DEF Current

LEMMA ChangeCurrent ==
    ASSUME MirrorTypeInv, Current, NEW r \in SrcRows, ChangeSource(r)
    PROVE  Current'
<1>1. TablesGood /\ WorkersGood /\ RowsInOrder
  BY DEF MirrorTypeInv
<1>2. /\ source'[r].version > source[r].version /\ source'[r].changed = instant + 1
      /\ \A q \in SrcRows : q # r => source'[q] = source[q]
  BY <1>1, ChangeSourceType
<1>3. UNCHANGED <<copies, mapping, syncCursor, worker>>
  BY DEF ChangeSource
<1>4. ASSUME NEW q \in SrcRows \ passed', q # r
      PROVE  RowCurrent(q)'
  <2>1. RowCurrent(q)
    BY <1>4 DEF Current, ChangeSource
  <2>2. source'[q] = source[q]
    BY <1>2, <1>4
  <2>3. ASSUME NEW v \in Runs
        PROVE  WorkerCurrent(worker[v][TableOf[q]], q)'
    BY <1>3, <2>1, <2>2 DEF RowCurrent, WorkerCurrent, Mirrored
  <2>4. QED BY <1>3, <2>1, <2>2, <2>3 DEF RowCurrent, Mirrored
<1>5. ASSUME r \notin passed'
      PROVE  RowCurrent(r)'
  <2>1. TableOf[r] \in Tables
    BY DEF Tables
  <2>2. \A v \in Runs : worker[v][TableOf[r]].pc \in {"off", "waiting", "query"}
    BY <1>5 DEF ChangeSource, InPage
  <2>3. ASSUME NEW v \in Runs
        PROVE  WorkerCurrent(worker[v][TableOf[r]], r)'
    <3>1. PICK z : z = worker[v][TableOf[r]]
      OBVIOUS
    <3>2. WorkerGood(z, TableOf[r]) /\ z.pc \in {"off", "waiting", "query"}
      BY <1>1, <2>1, <2>2, <3>1 DEF WorkersGood
    <3>3. z.todo = {}
      BY <3>2 DEF WorkerGood, RowStates
    <3>4. worker'[v][TableOf[r]] = z
      BY <1>3, <3>1
    <3>5. QED BY <3>2, <3>3, <3>4 DEF WorkerCurrent, RowStates
  <2>4. mapping'[r].checksum # source'[r].version
    <3>1. mapping[r].checksum \in Nat /\ mapping[r].checksum <= source[r].version
      BY <1>1 DEF TablesGood, MappingTyped
    <3>2. source[r].version \in Nat /\ source'[r].version \in Nat
      BY <1>1, ChangeSourceType DEF TablesGood, SourceTyped
    <3>3. QED BY <1>2, <1>3, <3>1, <3>2
  <2>5. ~(source'[r].changed <= syncCursor'[TableOf[r]])
    <3>1. syncCursor[TableOf[r]] \in Nat /\ syncCursor[TableOf[r]] <= instant /\ instant \in Nat
      BY <1>1, <2>1 DEF TablesGood, CursorTyped, SourceTyped
    <3>2. QED BY <1>2, <1>3, <3>1
  <2>6. QED BY <2>3, <2>4, <2>5 DEF RowCurrent
<1>6. QED BY <1>4, <1>5 DEF Current

(* Runs that begin or end, and a table whose cursor is read, hold no row. *)
LEMMA RestsCurrent ==
    ASSUME Current, NEW w \in Runs, Rests(w), passed \subseteq passed',
           UNCHANGED <<source, copies, mapping, syncCursor>>
    PROVE  Current'
<1>1. ASSUME NEW q \in SrcRows \ passed', NEW v \in Runs
      PROVE  \/ worker'[v][TableOf[q]] = worker[v][TableOf[q]]
             \/ WorkerCurrent(worker'[v][TableOf[q]], q)
  <2>1. TableOf[q] \in Tables
    BY DEF Tables
  <2>2. \/ worker'[v][TableOf[q]] = worker[v][TableOf[q]]
        \/ Resting(worker'[v][TableOf[q]])
    BY <2>1 DEF Rests
  <2>3. QED BY <2>2, IdleCurrent DEF Resting
<1>2. QED BY <1>1, QuietCurrent

LEMMA ReadCurrent ==
    ASSUME MirrorTypeInv, Current, NEW w \in Runs, NEW t \in Tables, ReadCursor(w, t)
    PROVE  Current'
<1>1. TablesGood /\ WorkersGood /\ RowsInOrder
  BY DEF MirrorTypeInv
<1>2. PICK y \in Work : Leads(w, t, y) /\ y.pc = "query" /\ y.todo = {}
  BY <1>1, ReadCursorMoves
<1>3. UNCHANGED <<source, copies, mapping, syncCursor, passed>>
  BY DEF ReadCursor, mirrorVars
<1>4. ASSUME NEW q \in SrcRows \ passed', NEW v \in Runs
      PROVE  \/ worker'[v][TableOf[q]] = worker[v][TableOf[q]]
             \/ WorkerCurrent(worker'[v][TableOf[q]], q)
  <2>1. TableOf[q] \in Tables
    BY DEF Tables
  <2>2. CASE v = w /\ TableOf[q] = t
    <3>1. worker'[v][TableOf[q]] = y
      BY <1>2, <2>2 DEF Leads
    <3>2. QED BY <1>2, <3>1, IdleCurrent
  <2>3. CASE ~(v = w /\ TableOf[q] = t)
    BY <1>2, <2>1, <2>3 DEF Leads
  <2>4. QED BY <2>2, <2>3
<1>5. QED BY <1>3, <1>4, QuietCurrent

(* A step at a row, as the other rows of the page see it. *)
LEMMA OtherRowCurrent ==
    ASSUME TablesGood, WorkersGood, NEW w \in Runs, NEW t \in Tables, NEW y \in Work,
           AtRowStep(w, t, y), NEW r \in SrcRows, r = RowOf(worker[w][t]),
           NEW q \in SrcRows, q # r, RowCurrent(q)
    PROVE  RowCurrent(q)'
<1>1. PICK x \in Work : x = worker[w][t]
  BY DEF WorkersGood
<1>2. x.pc \in RowStates /\ RowActs(w, x, y) /\ Leads(w, t, y)
  BY <1>1 DEF AtRowStep
<1>3. /\ copies'[q] = copies[q] /\ mapping'[q] = mapping[q]
      /\ UNCHANGED <<source, syncCursor>>
  BY RowTables DEF AtRowStep
<1>4. ASSUME WorkerCurrent(x, q)
      PROVE  WorkerCurrent(y, q)
  <2>1. CASE PastRow(x, y)
    <3>1. \A v \in 1..MaxSourceChanges : <<q, v>> \in y.todo <=> <<q, v>> \in x.todo
      BY <1>1, <2>1 DEF PastRow
    <3>2. source[q].version > 0 /\ <<q, source[q].version>> \in x.todo =>
             <<q, source[q].version>> \in y.todo
      BY <1>1, <2>1 DEF PastRow
    <3>3. ~Making(y) /\ y.pc \notin {"link", "checksum"}
      BY <2>1 DEF PastRow, Making
    <3>4. source[q].version > 0 => <<q, source[q].version>> \in x.todo \/ Mirrored(q)
      BY <1>2, <1>4 DEF WorkerCurrent, RowStates
    <3>5. QED BY <1>4, <3>1, <3>2, <3>3, <3>4 DEF WorkerCurrent
  <2>2. ASSUME NEW pc, NEW found, OnRow(x, y, pc, found)
        PROVE  WorkerCurrent(y, q)
    <3>1. y.todo = x.todo /\ RowOf(y) # q
      BY <1>1, <2>2, OnRowKeeps DEF OnRow
    <3>2. source[q].version > 0 => <<q, source[q].version>> \in x.todo \/ Mirrored(q)
      BY <1>2, <1>4 DEF WorkerCurrent, RowStates
    <3>3. QED BY <1>4, <3>1, <3>2 DEF WorkerCurrent
  <2>3. QED
    BY <1>2, <2>1, <2>2 DEF RowActs, Skips, Finds, Maps, Leaves, Creates, Links, Updates, Marks
<1>5. ASSUME NEW v \in Runs
      PROVE  WorkerCurrent(worker[v][TableOf[q]], q)'
  <2>1. TableOf[q] \in Tables
    BY DEF Tables
  <2>2. PICK z : z = worker'[v][TableOf[q]]
    OBVIOUS
  <2>3. WorkerCurrent(z, q)
    <3>1. CASE v = w /\ TableOf[q] = t
      <4>1. z = y /\ WorkerCurrent(x, q)
        BY <1>1, <1>2, <2>2, <3>1 DEF Leads, RowCurrent
      <4>2. QED BY <1>4, <4>1
    <3>2. CASE ~(v = w /\ TableOf[q] = t)
      <4>1. z = worker[v][TableOf[q]]
        BY <1>2, <2>1, <2>2, <3>2 DEF Leads
      <4>2. QED BY <4>1 DEF RowCurrent
    <3>3. QED BY <3>1, <3>2
  <2>4. QED BY <1>3, <2>2, <2>3 DEF WorkerCurrent, Mirrored
<1>6. QED BY <1>3, <1>5 DEF RowCurrent, Mirrored

(* The row of the step, when nothing befell it: what the tables hold of it is *)
(* kept or brought to the version Gllue has.                                  *)
LEMMA RowVersion ==
    ASSUME TablesGood, WorkersGood, NEW w \in Runs, NEW t \in Tables, NEW y \in Work,
           AtRowStep(w, t, y),
           NEW r \in SrcRows, r = RowOf(worker[w][t]), r \notin passed', RowCurrent(r)
    PROVE  /\ VersionOf(worker[w][t]) = source[r].version /\ source[r].version > 0
           /\ VersionOf(worker[w][t]) \in 1..MaxSourceChanges
           /\ WorkerGood(worker[w][t], t) /\ WorkerCurrent(worker[w][t], r)
           /\ <<r, source[r].version>> \in worker[w][t].todo
           /\ RowActs(w, worker[w][t], y) /\ ~Leaves(worker[w][t], y)
<1>0. PICK x : x = worker[w][t]
  OBVIOUS
<1>1. x.pc \in RowStates /\ RowActs(w, x, y) /\ source' = source /\ syncCursor' = syncCursor
  BY <1>0 DEF AtRowStep
<1>2. /\ TableOf[r] = t /\ VersionOf(x) \in 1..MaxSourceChanges
      /\ <<r, VersionOf(x)>> \in x.todo
  BY <1>0, <1>1, AtRow
<1>3. WorkerGood(x, t) /\ WorkerCurrent(x, r)
  BY <1>0, <1>2 DEF WorkersGood, RowCurrent
<1>4. VersionOf(x) = source[r].version
  BY <1>2, <1>3 DEF WorkerCurrent
<1>5. source[r].version > 0
  BY <1>2, <1>4
<1>6. ~Leaves(x, y)
  BY <1>0 DEF Leaves
<1>7. QED BY <1>0, <1>1, <1>2, <1>3, <1>4, <1>5, <1>6 DEF RowActs

LEMMA RowEffects ==
    ASSUME TablesGood, WorkersGood, NEW w \in Runs, NEW t \in Tables, NEW y \in Work,
           AtRowStep(w, t, y), NEW x \in Work, x = worker[w][t],
           NEW r \in SrcRows, r = RowOf(x), r \notin passed', RowCurrent(r)
    PROVE  /\ \A i \in 1..Len(copies[r]) :
                 copies'[r][i] = copies[r][i] \/ copies'[r][i] = source[r].version
           /\ Mirrored(r) => Mirrored(r)'
           /\ Links(x, y) \/ Marks(x, y) => Mirrored(r)'
           /\ Links(x, y) \/ Marks(x, y) \/ mapping' = mapping
<1>0. x.pc \in RowStates /\ source' = source /\ r = RowOf(worker[w][t])
  BY DEF AtRowStep
<1>1. /\ VersionOf(x) = source[r].version /\ WorkerGood(x, t) /\ WorkerCurrent(x, r)
      /\ x.pc \in RowStates /\ VersionOf(x) \in 1..MaxSourceChanges
      /\ RowActs(w, x, y) /\ source' = source
  <2>1. WorkerGood(x, t) /\ WorkerCurrent(x, r) /\ RowActs(w, x, y)
    BY <1>0, RowVersion
  <2>2. VersionOf(x) = source[r].version /\ VersionOf(x) \in 1..MaxSourceChanges
    BY <1>0, RowVersion
  <2>3. QED BY <1>0, <2>1, <2>2
<1>2. mapping[r].to \in Nat /\ mapping[r].to <= Len(copies[r]) /\ Len(copies[r]) \in Nat
  BY DEF TablesGood, MappingTyped, CopiesTyped
<1>3. x.found \in Nat
  BY DEF Work
<1>4. \A i \in 1..Len(copies[r]) :
         copies'[r][i] = copies[r][i] \/ copies'[r][i] = source[r].version
  <2>1. CASE Creates(x, y)
    BY <1>1, <2>1, CopiesCreated
  <2>2. CASE Updates(x, y)
    <3>1. x.found \in 1..Len(copies[r])
      BY <1>1, <1>2, <1>3, <2>2 DEF Updates, WorkerGood
    <3>2. QED BY <1>1, <2>2, <3>1, CopiesUpdated
  <2>3. CASE ~Creates(x, y) /\ ~Updates(x, y)
    BY <1>1, <2>3, CopiesKept
  <2>4. QED BY <2>1, <2>2, <2>3
<1>5. ASSUME Links(x, y) PROVE Mirrored(r)'
  <2>1. copies[r][x.found] = source[r].version /\ x.found > 0 /\ UNCHANGED copies
    BY <1>1, <1>5 DEF Links, WorkerCurrent, WorkerGood, RowStates
  <2>2. CASE mapping[r].to = 0
    <3>1. mapping'[r].to = x.found /\ mapping'[r].checksum = source[r].version
      BY <1>1, <1>5, <2>2, MappingLinked
    <3>2. QED BY <1>1, <2>1, <3>1 DEF Mirrored
  <2>3. CASE mapping[r].to > 0
    <3>1. Mirrored(r)
      BY <1>1, <1>5, <2>3 DEF Links, WorkerCurrent, Making
    <3>2. mapping' = mapping
      BY <1>5, <2>3 DEF Links
    <3>3. QED BY <1>1, <2>1, <3>1, <3>2 DEF Mirrored
  <2>4. QED BY <1>2, <2>2, <2>3
<1>6. ASSUME Marks(x, y) PROVE Mirrored(r)'
  <2>1. /\ copies[r][x.found] = source[r].version /\ x.found > 0 /\ UNCHANGED copies
        /\ x.found = mapping[r].to
    BY <1>1, <1>6 DEF Marks, WorkerCurrent, WorkerGood, RowStates
  <2>2. mapping'[r].to = mapping[r].to /\ mapping'[r].checksum = source[r].version
    BY <1>1, <1>6, MappingMarked
  <2>3. QED BY <1>1, <2>1, <2>2 DEF Mirrored
<1>7. Links(x, y) \/ Marks(x, y) \/ mapping' = mapping
  BY <1>1, MappingKept
<1>8. ASSUME Mirrored(r), mapping' = mapping PROVE Mirrored(r)'
  <2>1. mapping[r].to \in 1..Len(copies[r])
    BY <1>2, <1>8 DEF Mirrored
  <2>2. copies'[r][mapping[r].to] = source[r].version
    BY <1>4, <1>8, <2>1 DEF Mirrored
  <2>3. QED BY <1>1, <1>8, <2>2 DEF Mirrored
<1>9. QED BY <1>4, <1>5, <1>6, <1>7, <1>8

(* Another worker at that row. *)
LEMMA OtherWorkerCurrent ==
    ASSUME TablesGood, WorkersGood, NEW w \in Runs, NEW t \in Tables, NEW y \in Work,
           AtRowStep(w, t, y), NEW x \in Work, x = worker[w][t],
           NEW r \in SrcRows, r = RowOf(x), r \notin passed', RowCurrent(r),
           NEW v \in Runs, NEW z \in Work, z = worker[v][t]
    PROVE  WorkerCurrent(z, r)'
<1>1. /\ TableOf[r] = t /\ source' = source
  BY AtRow DEF AtRowStep
<1>2. WorkerCurrent(z, r) /\ WorkerGood(z, t)
  BY <1>1 DEF RowCurrent, WorkersGood
<1>3. /\ \A i \in 1..Len(copies[r]) :
            copies'[r][i] = copies[r][i] \/ copies'[r][i] = source[r].version
      /\ Mirrored(r) => Mirrored(r)'
      /\ Links(x, y) \/ Marks(x, y) => Mirrored(r)'
      /\ Links(x, y) \/ Marks(x, y) \/ mapping' = mapping
  BY RowEffects
<1>4. ASSUME z.pc \in RowStates, RowOf(z) = r
      PROVE  /\ z.pc \in {"link", "checksum"} => copies'[r][z.found] = source[r].version
             /\ Making(z) /\ mapping'[r].to > 0 => Mirrored(r)'
  <2>1. ASSUME z.pc \in {"link", "checksum"}
        PROVE  copies'[r][z.found] = source[r].version
    <3>1. z.found \in 1..Len(copies[r])
      BY <1>2, <1>4, <2>1 DEF WorkerGood, Work
    <3>2. copies[r][z.found] = source[r].version
      BY <1>2, <1>4, <2>1 DEF WorkerCurrent
    <3>3. QED BY <1>3, <3>1, <3>2
  <2>2. ASSUME Making(z), mapping'[r].to > 0
        PROVE  Mirrored(r)'
    <3>1. CASE mapping' = mapping
      BY <1>2, <1>3, <1>4, <2>2, <3>1 DEF WorkerCurrent
    <3>2. QED BY <1>3, <3>1
  <2>3. QED BY <2>1, <2>2
<1>5. QED BY <1>1, <1>2, <1>3, <1>4 DEF WorkerCurrent, Making, RowOf

(* The worker of the step, when it is done with the row and when it is not. *)
LEMMA PastRowCurrent ==
    ASSUME NEW x, NEW y, NEW r, r = RowOf(x), PastRow(x, y), WorkerCurrent(x, r),
           source' = source, Mirrored(r)'
    PROVE  WorkerCurrent(y, r)'
<1>1. ~Making(y) /\ y.pc \notin {"link", "checksum"}
  BY DEF PastRow, Making
<1>2. \A v \in 1..MaxSourceChanges : <<r, v>> \in y.todo => v = source[r].version
  BY DEF PastRow, WorkerCurrent
<1>3. QED BY <1>1, <1>2 DEF WorkerCurrent, Making, RowOf

LEMMA OnRowCurrent ==
    ASSUME NEW x, NEW y, NEW r, NEW pc, NEW found, OnRow(x, y, pc, found), WorkerCurrent(x, r),
           source' = source, <<r, source[r].version>> \in x.todo,
           pc \in {"link", "checksum"} => copies'[r][found] = source[r].version,
           Making(y) /\ mapping'[r].to > 0 => Mirrored(r)'
    PROVE  WorkerCurrent(y, r)'
<1>1. y.todo = x.todo /\ y.pc = pc /\ y.found = found
  BY DEF OnRow
<1>2. QED BY <1>1 DEF WorkerCurrent, Making, RowOf

LEMMA StepperCurrent ==
    ASSUME TablesGood, WorkersGood, NEW w \in Runs, NEW t \in Tables, NEW y \in Work,
           AtRowStep(w, t, y), NEW x \in Work, x = worker[w][t],
           NEW r \in SrcRows, r = RowOf(x), r \notin passed', RowCurrent(r)
    PROVE  WorkerCurrent(y, r)'
<1>0. x.pc \in RowStates /\ source' = source /\ r = RowOf(worker[w][t])
  BY DEF AtRowStep
<1>1. /\ VersionOf(x) = source[r].version /\ VersionOf(x) \in 1..MaxSourceChanges
      /\ <<r, source[r].version>> \in x.todo
  BY <1>0, RowVersion
<1>2. WorkerGood(x, t) /\ WorkerCurrent(x, r) /\ RowActs(w, x, y) /\ ~Leaves(x, y)
  BY <1>0, RowVersion
<1>3. /\ Mirrored(r) => Mirrored(r)'
      /\ Links(x, y) \/ Marks(x, y) => Mirrored(r)'
  BY RowEffects
<1>4. mapping[r].to \in Nat /\ Len(copies[r]) \in Nat /\ x.found \in Nat
  BY DEF TablesGood, MappingTyped, CopiesTyped, Work
<1>5. Making(x) /\ mapping[r].to > 0 => Mirrored(r)
  BY <1>0, <1>2 DEF WorkerCurrent
<1>6. CASE Skips(x, y)
  <2>1. Mirrored(r)'
    BY <1>1, <1>3, <1>6 DEF Skips, RowCurrent
  <2>2. QED BY <1>0, <1>2, <1>6, <2>1, PastRowCurrent DEF Skips
<1>7. CASE Links(x, y) \/ Marks(x, y)
  <2>1. PastRow(x, y)
    BY <1>7 DEF Links, Marks
  <2>2. QED BY <1>0, <1>2, <1>3, <1>7, <2>1, PastRowCurrent
<1>8. CASE Finds(w, x, y)
  <2>1. OnRow(x, y, "map", mapping[r].to) /\ mapping' = mapping
    BY <1>8 DEF Finds
  <2>2. ~(Making(y) /\ mapping'[r].to > 0)
    BY <1>4, <2>1 DEF OnRow, Making
  <2>3. QED BY <1>0, <1>1, <1>2, <2>1, <2>2, OnRowCurrent
<1>9. CASE Maps(x, y)
  <2>1. PICK pc : pc = IF x.found = 0 THEN "create" ELSE "update"
    OBVIOUS
  <2>2. OnRow(x, y, pc, x.found) /\ mapping' = mapping /\ x.pc = "map"
    BY <1>9, <2>1 DEF Maps
  <2>3. Making(y) => Making(x)
    BY <2>1, <2>2 DEF OnRow, Making
  <2>4. Making(y) /\ mapping'[r].to > 0 => Mirrored(r)'
    BY <1>3, <1>5, <2>2, <2>3
  <2>5. QED BY <1>0, <1>1, <1>2, <2>1, <2>2, <2>4, OnRowCurrent
<1>10. CASE Creates(x, y)
  <2>1. OnRow(x, y, "link", Len(copies[r]) + 1) /\ mapping' = mapping /\ Making(x)
    BY <1>2, <1>10 DEF Creates, Making, WorkerGood
  <2>2. copies'[r][Len(copies[r]) + 1] = source[r].version
    BY <1>1, <1>10, CopiesCreated
  <2>3. QED BY <1>0, <1>1, <1>2, <1>3, <1>5, <2>1, <2>2, OnRowCurrent
<1>11. CASE Updates(x, y)
  <2>1. OnRow(x, y, "checksum", x.found) /\ x.found \in 1..Len(copies[r])
    BY <1>2, <1>4, <1>11 DEF Updates, WorkerGood
  <2>2. copies'[r][x.found] = source[r].version
    BY <1>1, <1>11, <2>1, CopiesUpdated
  <2>3. ~Making(y)
    BY <2>1 DEF OnRow, Making
  <2>4. QED BY <1>0, <1>1, <1>2, <2>1, <2>2, <2>3, OnRowCurrent
<1>12. QED BY <1>2, <1>6, <1>7, <1>8, <1>9, <1>10, <1>11 DEF RowActs

LEMMA RowCurrentKept ==
    ASSUME TablesGood, WorkersGood, NEW w \in Runs, NEW t \in Tables, NEW y \in Work,
           AtRowStep(w, t, y), NEW x \in Work, x = worker[w][t],
           NEW r \in SrcRows, r = RowOf(x), r \notin passed', RowCurrent(r)
    PROVE  RowCurrent(r)'
<1>1. x.pc \in RowStates /\ source' = source /\ syncCursor' = syncCursor /\ Leads(w, t, y)
  BY DEF AtRowStep
<1>2. TableOf[r] = t
  BY <1>1, AtRow
<1>3. /\ Mirrored(r) => Mirrored(r)'
      /\ Links(x, y) \/ Marks(x, y) => Mirrored(r)'
      /\ Links(x, y) \/ Marks(x, y) \/ mapping' = mapping
  BY RowEffects
<1>4. ASSUME mapping'[r].to > 0, mapping'[r].checksum = source'[r].version
      PROVE  Mirrored(r)'
  BY <1>1, <1>3, <1>4 DEF RowCurrent
<1>5. ASSUME NEW v \in Runs
      PROVE  WorkerCurrent(worker[v][TableOf[r]], r)'
  <2>1. CASE v = w
    <3>1. worker'[v][TableOf[r]] = y
      BY <1>1, <1>2, <2>1 DEF Leads
    <3>2. WorkerCurrent(y, r)'
      BY StepperCurrent
    <3>3. QED BY <3>1, <3>2 DEF WorkerCurrent, Mirrored
  <2>2. CASE v # w
    <3>1. PICK z \in Work : z = worker[v][t]
      BY DEF WorkersGood
    <3>2. worker'[v][TableOf[r]] = z
      BY <1>1, <1>2, <2>2, <3>1 DEF Leads
    <3>3. WorkerCurrent(z, r)'
      BY <3>1, OtherWorkerCurrent
    <3>4. QED BY <3>2, <3>3 DEF WorkerCurrent, Mirrored
  <2>3. QED BY <2>1, <2>2
<1>6. source'[r].version > 0 /\ source'[r].changed <= syncCursor'[TableOf[r]] => Mirrored(r)'
  BY <1>1, <1>3 DEF RowCurrent
<1>7. QED BY <1>4, <1>5, <1>6 DEF RowCurrent

LEMMA CurrentKept ==
    ASSUME MirrorTypeInv, Current, [GllueSyncNext]_gllueSyncVars
    PROVE  Current'
<1>1. TablesGood /\ WorkersGood /\ RowsInOrder
  BY DEF MirrorTypeInv
<1>2. CASE InitiateCutover \/ UNCHANGED gllueSyncVars
  BY <1>2, QuietCurrent DEF InitiateCutover, mirrorVars, gllueSyncVars
<1>3. ASSUME NEW w \in Runs, NEW s \in Services, Cron(w, s) PROVE Current'
  <2>1. Rests(w) /\ UNCHANGED <<source, copies, mapping, syncCursor>> /\ passed' = passed
    BY <1>1, <1>3, CronRests DEF Cron, mirrorVars
  <2>2. QED BY <2>1, RestsCurrent
<1>4. ASSUME NEW w \in Runs, NEW t \in Tables, SyncFails(w, t) PROVE Current'
  <2>1. Rests(w) /\ UNCHANGED <<source, copies, mapping, syncCursor>> /\ passed' = passed
    BY <1>1, <1>4, SyncFailsRests DEF SyncFails, mirrorVars
  <2>2. QED BY <2>1, RestsCurrent
<1>5. ASSUME NEW w \in Runs, NEW t \in Tables, NEW y \in Work, AtRowStep(w, t, y)
      PROVE  Current'
  <2>1. PICK x \in Work : x = worker[w][t]
    BY <1>1 DEF WorkersGood
  <2>2. PICK r \in SrcRows : r = RowOf(x)
    BY <1>1, <1>5, <2>1, AtRow DEF AtRowStep
  <2>3. ASSUME NEW q \in SrcRows \ passed'
        PROVE  RowCurrent(q)'
    <3>1. RowCurrent(q)
      BY <1>5 DEF Current, AtRowStep
    <3>2. CASE q = r
      BY <1>1, <1>5, <2>1, <2>2, <3>1, <3>2, RowCurrentKept
    <3>3. CASE q # r
      BY <1>1, <1>5, <2>1, <2>2, <3>1, <3>3, OtherRowCurrent
    <3>4. QED BY <3>2, <3>3
  <2>4. QED BY <2>3 DEF Current
<1>6. QED
  BY <1>1, <1>2, <1>3, <1>4, <1>5, MirrorSteps, ReadCurrent, QueryCurrent, AdvanceCurrent,
     ChangeCurrent

(* Gllue mirror: a row that the next query leaves out is in Cura as it is in  *)
(* Gllue, but for the rows that were skipped, failed or changed during their  *)
(* page (migration.service.ts: syncTable).                                    *)
THEOREM CursorSafe == GllueSyncSpec => []CursorLeavesNothingBehind
<1>1. GllueSyncInit => MirrorTypeInv /\ Current
  <2> SUFFICES ASSUME GllueSyncInit PROVE MirrorTypeInv /\ Current
    OBVIOUS
  <2>1. ASSUME NEW r \in SrcRows PROVE RowCurrent(r)
    <3>1. source[r].version = 0 /\ mapping[r].to = 0 /\ TableOf[r] \in Tables
      BY DEF GllueSyncInit, Tables
    <3>2. ASSUME NEW v \in Runs PROVE WorkerCurrent(worker[v][TableOf[r]], r)
      <4>1. worker[v][TableOf[r]] = Off
        BY <3>1 DEF GllueSyncInit
      <4>2. QED BY <4>1, OffRests, IdleCurrent DEF Resting
    <3>3. QED BY <3>1, <3>2 DEF RowCurrent
  <2>2. QED BY <2>1, MirrorInitType DEF Current
<1>2. MirrorTypeInv /\ Current /\ [GllueSyncNext]_gllueSyncVars => MirrorTypeInv' /\ Current'
  BY MirrorType, CurrentKept
<1>3. Current => CursorLeavesNothingBehind
  BY DEF Current, RowCurrent, Mirrored, CursorLeavesNothingBehind
<1>4. QED BY <1>1, <1>2, <1>3, PTL DEF GllueSyncSpec

-----------------------------------------------------------------------------
(* The shape of the state. *)

(* Runs and failures are counted up to their bounds; histories name rows.    *)
RunsCounted ==
    /\ enabled \in BOOLEAN /\ runs \in 0..MaxRuns /\ failures \in 0..MaxFailures
    /\ twice \subseteq SrcRows /\ passed \subseteq SrcRows

LEMMA CountsStep ==
    ASSUME [GllueSyncNext]_gllueSyncVars
    PROVE  /\ enabled' = enabled \/ enabled' = FALSE
           /\ runs' = runs \/ (runs < MaxRuns /\ runs' = runs + 1)
           /\ failures' = failures \/ (failures < MaxFailures /\ failures' = failures + 1)
<1>1. CASE UNCHANGED gllueSyncVars
  BY <1>1 DEF gllueSyncVars
<1>2. ASSUME NEW r \in SrcRows, ChangeSource(r) PROVE UNCHANGED <<enabled, runs, failures>>
  BY <1>2 DEF ChangeSource
<1>3. ASSUME NEW w \in Runs, NEW t \in Tables, SyncStep(w, t)
      PROVE  UNCHANGED <<enabled, runs, failures>>
  BY <1>3 DEF SyncStep, ReadCursor, Query, FindMapping, MapRow, CreateCopy, CreateMapping,
     UpdateCopy, UpdateChecksum, AdvanceCursor
<1>4. CASE InitiateCutover \/ \E w \in Runs, s \in Services : Cron(w, s)
  BY <1>4 DEF InitiateCutover, Cron
<1>5. CASE \E w \in Runs, t \in Tables : RowFails(w, t) \/ SyncFails(w, t)
  BY <1>5 DEF RowFails, SyncFails
<1>6. QED BY <1>1, <1>2, <1>3, <1>4, <1>5 DEF GllueSyncNext

LEMMA HistoriesStep ==
    ASSUME MirrorTypeInv, [GllueSyncNext]_gllueSyncVars,
           twice \subseteq SrcRows, passed \subseteq SrcRows
    PROVE  twice' \subseteq SrcRows /\ passed' \subseteq SrcRows
<1>1. TablesGood /\ WorkersGood
  BY DEF MirrorTypeInv
<1>2. CASE UNCHANGED gllueSyncVars
  BY <1>2 DEF gllueSyncVars
<1>3. ASSUME NEW r \in SrcRows, ChangeSource(r)
      PROVE  twice' \subseteq SrcRows /\ passed' \subseteq SrcRows
  BY <1>3 DEF ChangeSource
<1>4. CASE \/ InitiateCutover
           \/ \E w \in Runs, s \in Services : Cron(w, s)
           \/ \E w \in Runs, t \in Tables : ReadCursor(w, t) \/ AdvanceCursor(w, t)
  BY <1>4 DEF InitiateCutover, Cron, ReadCursor, AdvanceCursor
<1>5. ASSUME NEW w \in Runs, NEW t \in Tables, Query(w, t)
      PROVE  twice' \subseteq SrcRows /\ passed' \subseteq SrcRows
  BY <1>5 DEF Query, ChangedSince
<1>6. ASSUME NEW w \in Runs, NEW t \in Tables, SyncFails(w, t)
      PROVE  twice' \subseteq SrcRows /\ passed' \subseteq SrcRows
  <2>1. worker[w][t].pc = "link" => SourceRow(w, t) \in SrcRows
    BY <1>1, AtRow, RowIs DEF RowStates
  <2>2. QED BY <1>6, <2>1 DEF SyncFails
<1>7. ASSUME NEW w \in Runs, NEW t \in Tables, NEW y \in Work, AtRowStep(w, t, y)
      PROVE  twice' \subseteq SrcRows /\ passed' \subseteq SrcRows
  BY <1>1, <1>7, AtRow DEF AtRowStep
<1>8. QED BY <1>1, <1>2, <1>3, <1>4, <1>5, <1>6, <1>7, MirrorSteps

LEMMA CountedStays ==
    ASSUME MirrorTypeInv, RunsCounted, [GllueSyncNext]_gllueSyncVars
    PROVE  RunsCounted'
<1>1. twice' \subseteq SrcRows /\ passed' \subseteq SrcRows
  BY HistoriesStep DEF RunsCounted
<1>2. enabled' \in BOOLEAN
  BY CountsStep DEF RunsCounted
<1>3. runs' \in 0..MaxRuns
  <2>1. runs' = runs \/ (runs < MaxRuns /\ runs' = runs + 1)
    BY CountsStep
  <2>2. runs \in 0..MaxRuns /\ MaxRuns \in Nat
    BY GllueSyncAssumption DEF RunsCounted
  <2>3. QED BY <2>1, <2>2
<1>4. failures' \in 0..MaxFailures
  <2>1. failures' = failures \/ (failures < MaxFailures /\ failures' = failures + 1)
    BY CountsStep
  <2>2. failures \in 0..MaxFailures /\ MaxFailures \in Nat
    BY GllueSyncAssumption DEF RunsCounted
  <2>3. QED BY <2>1, <2>2
<1>5. QED BY <1>1, <1>2, <1>3, <1>4 DEF RunsCounted

LEMMA MirrorTypeIs == MirrorTypeInv /\ RunsCounted => GllueSyncTypeOK
<1> SUFFICES ASSUME MirrorTypeInv, RunsCounted PROVE GllueSyncTypeOK
  OBVIOUS
<1>1. /\ source \in [SrcRows -> [version : Nat, changed : Nat]]
      /\ instant \in Nat /\ instant <= MaxSourceChanges /\ MaxSourceChanges \in Nat
      /\ \A r \in SrcRows : source[r].version <= instant /\ source[r].changed <= instant
  BY GllueSyncAssumption DEF MirrorTypeInv, TablesGood, SourceTyped
<1>2. \A r \in SrcRows : source[r] \in [version : 0..MaxSourceChanges,
                                        changed : 0..MaxSourceChanges]
  BY <1>1
<1>3. source \in [SrcRows -> [version : 0..MaxSourceChanges, changed : 0..MaxSourceChanges]]
  BY <1>1, <1>2
<1>4. copies \in [SrcRows -> Seq(1..MaxSourceChanges)]
  BY DEF MirrorTypeInv, TablesGood, CopiesTyped
<1>5. ASSUME NEW r \in SrcRows
      PROVE  mapping[r].to \in 0..Len(copies[r]) /\ mapping[r].checksum \in 0..MaxSourceChanges
  <2>1. /\ mapping[r].to \in Nat /\ mapping[r].checksum \in Nat
        /\ mapping[r].to <= Len(copies[r]) /\ mapping[r].checksum <= source[r].version
    BY DEF MirrorTypeInv, TablesGood, MappingTyped
  <2>2. Len(copies[r]) \in Nat
    BY <1>4
  <2>3. QED BY <1>1, <2>1, <2>2
<1>6. syncCursor \in [Tables -> 0..MaxSourceChanges]
  <2>1. syncCursor \in [Tables -> Nat] /\ \A t \in Tables : syncCursor[t] <= instant
    BY DEF MirrorTypeInv, TablesGood, CursorTyped
  <2>2. \A t \in Tables : syncCursor[t] \in 0..MaxSourceChanges
    BY <1>1, <2>1
  <2>3. QED BY <2>1, <2>2
<1>7. \A w \in Runs, t \in Tables : worker[w][t] \in Work
  BY DEF MirrorTypeInv, WorkersGood
<1>8. QED
  BY <1>1, <1>3, <1>4, <1>5, <1>6, <1>7 DEF GllueSyncTypeOK, RunsCounted, Work, Pcs

(* Gllue mirror: a mapping names a copy that was made, no checksum or cursor *)
(* is ahead of the changes in Gllue, and pages hold rows                     *)
(* (migration.service.ts: syncTable, processRow).                            *)
THEOREM MirrorKeepsType == GllueSyncSpec => []GllueSyncTypeOK
<1>1. GllueSyncInit => MirrorTypeInv /\ RunsCounted
  BY MirrorInitType, GllueSyncAssumption DEF GllueSyncInit, RunsCounted
<1>2. MirrorTypeInv /\ RunsCounted /\ [GllueSyncNext]_gllueSyncVars =>
         MirrorTypeInv' /\ RunsCounted'
  BY MirrorType, CountedStays
<1>3. QED BY <1>1, <1>2, MirrorTypeIs, PTL DEF GllueSyncSpec

LEMMA MirrorGrows == ASSUME MirrorTypeInv, [GllueSyncNext]_gllueSyncVars PROVE TablesGrow
<1>1. TablesGood /\ WorkersGood /\ RowsInOrder
  BY DEF MirrorTypeInv
<1>2. ASSUME UNCHANGED mirrorVars PROVE TablesGrow
  <2>1. /\ \A q \in SrcRows : Len(copies[q]) \in Nat /\ source[q].version \in Nat
        /\ \A t \in Tables : syncCursor[t] \in Nat
    BY <1>1 DEF TablesGood, SourceTyped, CopiesTyped, CursorTyped
  <2>2. QED BY <1>2, <2>1 DEF mirrorVars, TablesGrow
<1>3. ASSUME NEW r \in SrcRows, ChangeSource(r) PROVE TablesGrow
  BY <1>1, <1>3, ChangeSourceType
<1>4. CASE InitiateCutover \/ UNCHANGED gllueSyncVars
  BY <1>2, <1>4 DEF InitiateCutover, gllueSyncVars, mirrorVars
<1>5. CASE \/ \E w \in Runs, s \in Services : Cron(w, s)
           \/ \E w \in Runs, t \in Tables : SyncFails(w, t)
  BY <1>2, <1>5 DEF Cron, SyncFails
<1>6. ASSUME NEW w \in Runs, NEW t \in Tables,
             ReadCursor(w, t) \/ Query(w, t) \/ AdvanceCursor(w, t)
      PROVE  TablesGrow
  BY <1>1, <1>6, ReadCursorMoves, QueryMoves, AdvanceMoves
<1>7. ASSUME NEW w \in Runs, NEW t \in Tables, NEW y \in Work, AtRowStep(w, t, y)
      PROVE  TablesGrow
  BY <1>1, <1>7, RowTables
<1>8. QED BY <1>1, <1>3, <1>4, <1>5, <1>6, <1>7, MirrorSteps

(* Gllue mirror: however runs overlap, no cursor goes back to rows it has    *)
(* passed, a mapping is never pointed at another copy, and no copy is lost   *)
(* (migration.service.ts: syncTable, processRow).                     *)
THEOREM MirrorNeverGoesBack == GllueSyncSpec => [][TablesGrow]_gllueSyncVars
BY MirrorInitType, MirrorType, MirrorGrows, PTL DEF GllueSyncSpec

(* Talon: past its claim an execution has a task, and the backend's one      *)
(* agent is that of a task on a site (application/executor.py).              *)
THEOREM TalonKeepsType == TalonSpec => []TalonTypeOK
<1>1. TalonTypeInv => TalonTypeOK
  BY DEF TalonTypeInv
<1>2. QED BY <1>1, TalonInitType, TalonType, PTL DEF TalonSpec

(* Web client: the cookie and every request carry tokens that were made, and *)
(* no more are made than requests were sent (auth-context.tsx, the routes    *)
(* under app/api/auth).                                                      *)
THEOREM WebClientKeepsType == WebClientSpec => []WebClientTypeOK
<1>1. WebTypeInv => WebClientTypeOK
  <2> SUFFICES ASSUME WebTypeInv PROVE WebClientTypeOK
    OBVIOUS
  <2>1. /\ cookie \in Nat /\ minted \in Nat /\ requests \in Nat /\ MaxRequests \in Nat
        /\ cookie <= minted /\ requests <= MaxRequests
        /\ crossed \in BOOLEAN /\ elsewhere \subseteq Tabs /\ stranded \subseteq 1..MaxRequests
    BY WebClientAssumption DEF WebTypeInv, CountersTyped
  <2>2. minted <= requests
    <3>1. Cardinality(SentSet) \in Nat /\ minted + Cardinality(SentSet) <= requests
      BY FS_CardinalityType DEF WebTypeInv, RequestsCounted
    <3>2. QED BY <2>1, <3>1
  <2>3. \A n \in 1..MaxRequests :
           /\ refresh[n].state \in {"none", "live", "rotated", "revoked"}
           /\ refresh[n].of = NoAccount <=> n > minted
    BY DEF WebTypeInv, TokensTyped, Tokens
  <2>4. ASSUME NEW t \in Tabs, NEW s \in Slots
        PROVE  /\ flight[t][s].pc \in {"none", "sent", "served"}
               /\ flight[t][s].carries \in 0..minted /\ flight[t][s].gives \in 0..minted
    <3>1. /\ flight[t][s] \in Flights
          /\ flight[t][s].carries <= minted /\ flight[t][s].gives <= minted
      BY DEF WebTypeInv, FlightsTyped
    <3>2. PICK f \in Flights : f = flight[t][s]
      BY <3>1
    <3>3. f.pc \in {"none", "sent", "served"} /\ f.carries \in Nat /\ f.gives \in Nat
      BY DEF Flights
    <3>4. f.carries \in 0..minted /\ f.gives \in 0..minted
      BY <2>1, <3>1, <3>2, <3>3
    <3>5. QED BY <3>2, <3>3, <3>4
  <2>5. tab \in [Tabs -> [page : {"closed", "login", "app"}, token : Accounts \cup {NoAccount},
                          user : Accounts \cup {NoAccount}]]
    BY DEF WebTypeInv, TabsTyped, TabStates
  <2>6. cookie \in 0..minted /\ minted \in 0..MaxRequests /\ requests \in 0..MaxRequests
    BY <2>1, <2>2
  <2>7. QED BY <2>1, <2>3, <2>4, <2>5, <2>6 DEF WebClientTypeOK
<1>2. ASSUME WebTypeInv, [WebClientNext]_webClientVars PROVE WebTypeInv'
  <2>1. CASE UNCHANGED webClientVars
    <3>1. SentSet' = SentSet
      BY <2>1 DEF webClientVars, SentSet
    <3>2. QED
      BY <1>2, <2>1, <3>1 DEF webClientVars, WebTypeInv, CountersTyped, TabsTyped, TokensTyped,
         FlightsTyped, RequestsCounted
  <2>2. QED BY <1>2, <2>1, WebNextType
<1>3. QED BY <1>1, <1>2, WebInitType, PTL DEF WebClientSpec
=============================================================================
