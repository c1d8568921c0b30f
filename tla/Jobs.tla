-------------------------------- MODULE Jobs --------------------------------
(***************************************************************************)
(* Jobs and the job counter of their clients (job.service.ts,              *)
(* client.service.ts).  A call reads the job once, checks what it was asked *)
(* against that row, writes the job, and then adds a difference computed    *)
(* from the row it read to the counter of the client it read.  No step      *)
(* locks a row, so other calls run between any two steps.                   *)
(***************************************************************************)
EXTENDS Integers, FiniteSets, FiniteSetsExt

CONSTANTS
    JobIds, Clients,
    JobCallers,     \* requests that run an operation of this module
    MaxJobCalls,    \* bound: operations started in a behaviour
    Keep            \* an input field that was not given

Statuses == {"OPEN", "ON_HOLD", "FILLED", "CLOSED"}
AllowedTransitions == [OPEN    |-> {"ON_HOLD", "FILLED", "CLOSED"},
                       ON_HOLD |-> {"OPEN", "FILLED", "CLOSED"},
                       FILLED  |-> {"OPEN", "CLOSED"},
                       CLOSED  |-> {"OPEN"}]

ASSUME JobsAssumption ==
    /\ MaxJobCalls \in Nat
    /\ IsFiniteSet(JobIds) /\ IsFiniteSet(JobCallers)
    /\ Keep \notin Clients /\ Keep \notin Statuses /\ Keep \notin JobIds

VARIABLES
    client,     \* table clients: [row, active], active being activeJobCount
    job,        \* table jobs: [row, client, status]
    jobCall,    \* what each request is doing
    miscounted, \* history: clients whose counter a call left wrong
    orphaned,   \* history: jobs written while their client was being deleted
    jobCalls    \* operations started so far (bound only)

jobsVars == <<client, job, jobCall, miscounted, orphaned, jobCalls>>

Row == {"none", "live", "deleted"}
JobRow == [row : Row, client : Clients \cup {Keep}, status : Statuses]
JobOps == {"create", "update", "delete", "changeStatus", "deleteClient"}
NoRow == [row |-> "none", client |-> Keep, status |-> "OPEN"]
NoJobCall == [pc |-> "idle", op |-> "create", job |-> Keep, seen |-> NoRow,
              client |-> Keep, status |-> Keep, alive |-> FALSE]

JobsInit ==
    /\ client = [c \in Clients |-> [row |-> "live", active |-> 0]]
    /\ job = [j \in JobIds |-> NoRow]
    /\ jobCall = [q \in JobCallers |-> NoJobCall]
    /\ miscounted = {} /\ orphaned = {}
    /\ jobCalls = 0

-----------------------------------------------------------------------------
(* The first await of each operation: the row is read and checked.  A call   *)
(* that would be refused changes nothing and is left out.  The field alive   *)
(* is a history: the client given was live when the call looked at it.       *)

BeginJobCall(q, call) ==
    /\ jobCall[q].pc = "idle"
    /\ jobCalls < MaxJobCalls
    /\ jobCalls' = jobCalls + 1
    /\ jobCall' = [jobCall EXCEPT ![q] = call]
    /\ UNCHANGED <<client, job, miscounted, orphaned>>

CreateJob(q, j, c, s) ==
    /\ job[j].row = "none"
    /\ \A p \in JobCallers : jobCall[p].pc # "idle" => jobCall[p].job # j
    /\ client[c].row = "live"
    /\ BeginJobCall(q, [pc |-> "write", op |-> "create", job |-> j, seen |-> NoRow,
                        client |-> c, status |-> s, alive |-> client[c].row = "live"])

UpdateJob(q, j, c, s) ==
    /\ job[j].row = "live"
    /\ BeginJobCall(q, [pc |-> IF c \in {Keep, job[j].client} THEN "write" ELSE "client",
                        op |-> "update", job |-> j, seen |-> job[j],
                        client |-> c, status |-> s,
                        alive |-> c = job[j].client /\ client[c].row = "live"])

CheckNewClientMutant(q) ==
    /\ jobCall[q].pc = "client"
    /\ jobCall' = [jobCall EXCEPT
          ![q].pc = "write", ![q].alive = client[jobCall[q].client].row = "live"]
    /\ UNCHANGED <<client, job, miscounted, orphaned, jobCalls>>
CheckNewClient(q) ==
    LET r == jobCall[q] IN
    /\ r.pc = "client"
    /\ client[r.client].row = "live"
    /\ jobCall' = [jobCall EXCEPT ![q].pc = "write",
                                  ![q].alive = client[r.client].row = "live"]
    /\ UNCHANGED <<client, job, miscounted, orphaned, jobCalls>>

DeleteJob(q, j) ==
    /\ job[j].row = "live"
    /\ BeginJobCall(q, [NoJobCall EXCEPT !.pc = "write", !.op = "delete", !.job = j,
                                         !.seen = job[j]])

(* The workflow guard; the closeDate that goes with a status is left out.    *)
ChangeStatus(q, j, s) ==
    /\ job[j].row = "live"
    /\ s \in AllowedTransitions[job[j].status]
    /\ BeginJobCall(q, [NoJobCall EXCEPT !.pc = "write", !.op = "changeStatus", !.job = j,
                                         !.seen = job[j], !.status = s])

DeleteClient(q, c) ==
    /\ client[c].row = "live"
    /\ BeginJobCall(q, [NoJobCall EXCEPT !.pc = "jobs", !.op = "deleteClient",
                                         !.client = c])

-----------------------------------------------------------------------------
(* The write.  It addresses the row by id alone, whatever became of it.      *)

Given(input, old) == IF input = Keep THEN old ELSE input

Written(r) ==
    LET old == job[r.job] IN
    IF r.op = "delete" THEN [old EXCEPT !.row = "deleted"]
    ELSE [row |-> IF r.op = "create" THEN "live" ELSE old.row,
          client |-> Given(r.client, old.client),
          status |-> Given(r.status, old.status)]

(* What the counter owes after the write: computed from the row read.        *)
Open(b) == IF b THEN 1 ELSE 0
WasOpenMutant(r) == r.op = "changeStatus" /\ r.seen.status = "OPEN"
WasOpen(r) == r.op # "create" /\ r.seen.status = "OPEN"
IsNowOpen(r) == r.op # "delete" /\ Given(r.status, r.seen.status) = "OPEN"
Delta(r) == Open(IsNowOpen(r)) - Open(WasOpen(r))
CountedMutant(r) == r.client
Counted(r) == IF r.op = "create" THEN r.client ELSE r.seen.client

StaleWrite(r) == job[r.job].row # r.seen.row \/ job[r.job].status # r.seen.status
                     \/ job[r.job].client # r.seen.client
Moves(r) == r.op = "update" /\ Given(r.client, r.seen.client) # r.seen.client
BeingDeleted(c) == \/ client[c].row # "live"
                   \/ \E p \in JobCallers : jobCall[p].pc = "row" /\ jobCall[p].client = c

WriteJob(q) ==
    LET r == jobCall[q]
        new == Written(r)
    IN  /\ r.pc = "write"
        /\ job' = [job EXCEPT ![r.job] = new]
        /\ jobCall' = [jobCall EXCEPT
              ![q] = IF Delta(r) = 0 THEN NoJobCall ELSE [r EXCEPT !.pc = "count"]]
        /\ miscounted' = IF StaleWrite(r) \/ Moves(r)
                         THEN miscounted \cup {job[r.job].client, new.client, Counted(r)}
                         ELSE miscounted
        /\ orphaned' = IF r.client # Keep /\ r.alive /\ BeingDeleted(new.client)
                       THEN orphaned \cup {r.job} ELSE orphaned
        /\ UNCHANGED <<client, jobCalls>>

CountJob(q) ==
    LET r == jobCall[q] IN
    /\ r.pc = "count"
    /\ client' = [client EXCEPT ![Counted(r)].active = @ + Delta(r)]
    /\ jobCall' = [jobCall EXCEPT ![q] = NoJobCall]
    /\ UNCHANGED <<job, miscounted, orphaned, jobCalls>>

(* ClientService.softDelete: the jobs first, their counter not at all.       *)
DeleteJobsOfClient(q) ==
    LET c == jobCall[q].client IN
    /\ jobCall[q].pc = "jobs"
    /\ job' = [j \in JobIds |-> IF job[j].row = "live" /\ job[j].client = c
                                THEN [job[j] EXCEPT !.row = "deleted"] ELSE job[j]]
    /\ miscounted' = miscounted \cup {c}
    /\ jobCall' = [jobCall EXCEPT ![q].pc = "row"]
    /\ UNCHANGED <<client, orphaned, jobCalls>>

DeleteClientRow(q) ==
    /\ jobCall[q].pc = "row"
    /\ client' = [client EXCEPT ![jobCall[q].client].row = "deleted"]
    /\ jobCall' = [jobCall EXCEPT ![q] = NoJobCall]
    /\ UNCHANGED <<job, miscounted, orphaned, jobCalls>>

(* A permission is missing, a statement fails or the process ends.           *)
JobCallStops(q) ==
    LET r == jobCall[q] IN
    /\ r.pc # "idle"
    /\ jobCall' = [jobCall EXCEPT ![q] = NoJobCall]
    /\ miscounted' = IF r.pc = "count" THEN miscounted \cup {Counted(r)} ELSE miscounted
    /\ UNCHANGED <<client, job, orphaned, jobCalls>>

JobsNext == \E q \in JobCallers :
    \/ \E j \in JobIds :
          \/ \E c \in Clients, s \in Statuses : CreateJob(q, j, c, s)
          \/ \E c \in Clients \cup {Keep}, s \in Statuses \cup {Keep} : UpdateJob(q, j, c, s)
          \/ DeleteJob(q, j)
          \/ \E s \in Statuses : ChangeStatus(q, j, s)
    \/ \E c \in Clients : DeleteClient(q, c)
    \/ CheckNewClient(q) \/ WriteJob(q) \/ CountJob(q)
    \/ DeleteJobsOfClient(q) \/ DeleteClientRow(q) \/ JobCallStops(q)

JobsSpec == JobsInit /\ [][JobsNext]_jobsVars

-----------------------------------------------------------------------------
JobCall == [pc : {"idle", "client", "write", "count", "jobs", "row"}, op : JobOps,
            job : JobIds \cup {Keep}, seen : JobRow, client : Clients \cup {Keep},
            status : Statuses \cup {Keep}, alive : BOOLEAN]

JobsTypeOK ==
    /\ client \in [Clients -> [row : {"live", "deleted"}, active : Int]]
    /\ job \in [JobIds -> JobRow]
    /\ jobCall \in [JobCallers -> JobCall]
    /\ miscounted \subseteq Clients /\ orphaned \subseteq JobIds
    /\ jobCalls \in 0..MaxJobCalls

OpenJobs(c) == {j \in JobIds : job[j].row = "live" /\ job[j].client = c
                                   /\ job[j].status = "OPEN"}
Owing(c) == {q \in JobCallers : jobCall[q].pc = "count" /\ Counted(jobCall[q]) = c}

(* activeJobCount of a client, with what running calls still owe it, is the  *)
(* number of its open jobs, unless a call wrote over a row that had changed  *)
(* since it was read, moved a job to another client, stopped before the      *)
(* counter, or began to delete the client.                                   *)
ActiveCountsOpenJobs ==
    \A c \in Clients \ miscounted :
        client[c].active + MapThenSumSet(LAMBDA q : Delta(jobCall[q]), Owing(c))
            = Cardinality(OpenJobs(c))

(* A live job belongs to a live client, unless it was created for or moved   *)
(* to a client that was live when the call looked and deleted when it wrote. *)
LiveJobHasLiveClient ==
    \A j \in JobIds \ orphaned :
        job[j].row = "live" => client[job[j].client].row = "live"
=============================================================================
