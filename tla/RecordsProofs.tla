---------------------------- MODULE RecordsProofs ----------------------------
(***************************************************************************)
(* Proofs about the records: jobs and the counter of their clients,         *)
(* applications with their cache and counters, the tree of teams, accounts  *)
(* and their passwords, row-level permissions and their audit.              *)
(*                                                                         *)
(* The counters are sums over finite sets (MapThenSumSet).  What such a sum *)
(* is cannot be proved by the library's induction theorems, which take an   *)
(* operator; here it is proved from a minimal set of which it would not     *)
(* hold (WFMin).                                                            *)
(***************************************************************************)
EXTENDS Jobs, Applications, TeamTree, Accounts, RowAccess, SequenceTheorems,
        FiniteSetTheorems, TLAPS

-----------------------------------------------------------------------------
(* Sums over finite sets.  Sums(g, h, S) gives every part of S the sum of h  *)
(* over it, whichever element is taken first; MapThenSumSet takes AnyOf, so  *)
(* its iteration is a Tally.                                                 *)

AnyOf(s) == CHOOSE x \in s : TRUE
Sums(g, h, S) ==
    /\ g \in [SUBSET S -> Int] /\ g[{}] = 0
    /\ \A s \in SUBSET S : \A x \in s : g[s] = h[x] + g[s \ {x}]
Tally(i, h, S) ==
    i = [s \in SUBSET S |-> IF s = {} THEN 0 ELSE h[AnyOf(s)] + i[s \ {AnyOf(s)}]]

LEMMA MinimalPart ==
    ASSUME NEW S, IsFiniteSet(S), NEW Bad \in SUBSET (SUBSET S), Bad # {}
    PROVE  \E s \in Bad : \A x \in s : s \ {x} \notin Bad
<1>1. IsWellFoundedOn(StrictSubsetOrdering(S), SUBSET S)
  BY FS_StrictSubsetOrderingWellFounded, FS_FiniteSubsetsOfFinite
<1>2. PICK s \in Bad : \A t \in Bad : <<t, s>> \notin StrictSubsetOrdering(S)
  BY <1>1, WFMin
<1>3. ASSUME NEW x \in s PROVE <<s \ {x}, s>> \in StrictSubsetOrdering(S)
  BY <1>3 DEF StrictSubsetOrdering
<1>4. QED BY <1>2, <1>3

LEMMA AnyOfIn == \A s : s # {} => AnyOf(s) \in s
BY DEF AnyOf

LEMMA SumsExist ==
    ASSUME NEW S, IsFiniteSet(S), NEW h \in [S -> Int]
    PROVE  \E g : Sums(g, h, S)
<1>1. PICK Bad : Bad = {T \in SUBSET S : ~ \E g : Sums(g, h, T)}
  OBVIOUS
<1>2. ASSUME Bad # {} PROVE FALSE
  <2>1. PICK T \in Bad : \A x \in T : T \ {x} \notin Bad
    BY <1>1, <1>2, MinimalPart
  <2>2. CASE T = {}
    <3>1. PICK g : g = [s \in SUBSET {} |-> 0]
      OBVIOUS
    <3>2. Sums(g, h, {})
      BY <3>1 DEF Sums
    <3>3. QED BY <1>1, <2>1, <2>2, <3>2
  <2>3. CASE T # {}
    <3>1. PICK z \in T : TRUE
      BY <2>3
    <3>2. PICK g : Sums(g, h, T \ {z})
      BY <1>1, <2>1, <3>1
    <3>3. PICK f : f = [s \in SUBSET T |-> IF z \in s THEN h[z] + g[s \ {z}] ELSE g[s]]
      OBVIOUS
    <3>4. h[z] \in Int /\ T \in SUBSET S /\ \A x \in T : h[x] \in Int
      BY <1>1, <3>1
    <3>5. \A s \in SUBSET T : s \ {z} \in SUBSET (T \ {z}) /\ g[s \ {z}] \in Int
      BY <3>2 DEF Sums
    <3>6. \A s \in SUBSET T : z \notin s => g[s] \in Int
      BY <3>2 DEF Sums
    <3>7. f \in [SUBSET T -> Int]
      BY <3>3, <3>4, <3>5, <3>6
    <3>8. f[{}] = 0
      BY <3>2, <3>3 DEF Sums
    <3>9. ASSUME NEW s \in SUBSET T, NEW x \in s PROVE f[s] = h[x] + f[s \ {x}]
      <4>1. CASE x = z
        <5>1. z \notin s \ {x} /\ s \ {x} \in SUBSET T
          BY <4>1
        <5>2. f[s] = h[z] + g[s \ {z}] /\ f[s \ {x}] = g[s \ {x}]
          BY <3>3, <3>9, <4>1, <5>1
        <5>3. QED BY <4>1, <5>2
      <4>2. CASE x # z /\ z \in s
        <5>1. z \in s \ {x} /\ s \ {x} \in SUBSET T /\ x \in s \ {z}
          BY <3>9, <4>2
        <5>2. f[s] = h[z] + g[s \ {z}] /\ f[s \ {x}] = h[z] + g[(s \ {x}) \ {z}]
          BY <3>3, <4>2, <5>1
        <5>3. g[s \ {z}] = h[x] + g[(s \ {z}) \ {x}]
          BY <3>2, <3>5, <5>1 DEF Sums
        <5>4. (s \ {z}) \ {x} = (s \ {x}) \ {z}
          OBVIOUS
        <5>5. g[(s \ {x}) \ {z}] \in Int /\ h[x] \in Int
          BY <3>4, <3>5, <3>9, <5>1
        <5>6. PICK a \in Int, b \in Int, w \in Int :
                 a = h[x] /\ b = h[z] /\ w = g[(s \ {x}) \ {z}]
          BY <3>4, <5>5
        <5>7. f[s] = b + (a + w) /\ f[s \ {x}] = b + w
          BY <5>2, <5>3, <5>4, <5>6
        <5>8. QED BY <5>6, <5>7
      <4>3. CASE z \notin s
        <5>1. s \in SUBSET (T \ {z}) /\ z \notin s \ {x} /\ s \ {x} \in SUBSET T
          BY <4>3
        <5>2. f[s] = g[s] /\ f[s \ {x}] = g[s \ {x}]
          BY <3>3, <4>3, <5>1
        <5>3. g[s] = h[x] + g[s \ {x}]
          BY <3>2, <3>9, <5>1 DEF Sums
        <5>4. QED BY <5>2, <5>3
      <4>4. QED BY <4>1, <4>2, <4>3
    <3>10. Sums(f, h, T)
      BY <3>7, <3>8, <3>9 DEF Sums
    <3>11. QED BY <1>1, <2>1, <3>10
  <2>4. QED BY <2>2, <2>3
<1>3. S \in SUBSET S
  OBVIOUS
<1>4. QED BY <1>1, <1>2, <1>3

(* A tally agrees with every such function on the parts they share. *)
LEMMA TallyAgrees ==
    ASSUME NEW S, IsFiniteSet(S), NEW g, NEW h, Sums(g, h, S),
           NEW T \in SUBSET S, NEW i, NEW k, Tally(i, k, T), \A x \in T : k[x] = h[x]
    PROVE  i[T] = g[T]
<1>1. PICK Bad : Bad = {s \in SUBSET T : i[s] # g[s]}
  OBVIOUS
<1>2. IsFiniteSet(T)
  BY FS_Subset
<1>3. ASSUME Bad # {} PROVE FALSE
  <2>1. PICK s \in Bad : \A x \in s : s \ {x} \notin Bad
    BY <1>1, <1>2, <1>3, MinimalPart
  <2>2. s \in SUBSET T /\ s \in SUBSET S /\ i[s] # g[s]
    BY <1>1, <2>1
  <2>3. i[s] = IF s = {} THEN 0 ELSE k[AnyOf(s)] + i[s \ {AnyOf(s)}]
    BY <2>2 DEF Tally
  <2>4. CASE s = {}
    BY <2>2, <2>3, <2>4 DEF Sums
  <2>5. CASE s # {}
    <3>1. PICK x \in s : x = AnyOf(s)
      BY <2>5, AnyOfIn
    <3>2. i[s \ {x}] = g[s \ {x}] /\ k[x] = h[x]
      BY <1>1, <2>1, <2>2
    <3>3. g[s] = h[x] + g[s \ {x}]
      BY <2>2 DEF Sums
    <3>4. QED BY <2>2, <2>3, <2>5, <3>1, <3>2, <3>3
  <2>6. QED BY <2>4, <2>5
<1>4. QED BY <1>1, <1>3

LEMMA TallyExists ==
    ASSUME NEW S, NEW g, NEW h, Sums(g, h, S), NEW T \in SUBSET S
    PROVE  \E i : Tally(i, h, T)
<1>1. PICK i : i = [s \in SUBSET T |-> g[s]]
  OBVIOUS
<1>2. ASSUME NEW s \in SUBSET T
      PROVE  i[s] = IF s = {} THEN 0 ELSE h[AnyOf(s)] + i[s \ {AnyOf(s)}]
  <2>1. CASE s = {}
    BY <1>1, <2>1 DEF Sums
  <2>2. CASE s # {}
    <3>1. PICK x \in s : x = AnyOf(s)
      BY <2>2, AnyOfIn
    <3>2. g[s] = h[x] + g[s \ {x}]
      BY <1>2 DEF Sums
    <3>3. i[s] = g[s] /\ i[s \ {x}] = g[s \ {x}]
      BY <1>1, <1>2
    <3>4. QED BY <2>2, <3>1, <3>2, <3>3
  <2>3. QED BY <2>1, <2>2
<1>3. i = [s \in SUBSET T |-> i[s]]
  BY <1>1
<1>4. PICK t : t = [s \in SUBSET T |-> IF s = {} THEN 0 ELSE h[AnyOf(s)] + i[s \ {AnyOf(s)}]]
  OBVIOUS
<1>5. t = i
  BY <1>2, <1>3, <1>4
<1>6. QED BY <1>4, <1>5 DEF Tally

(* Functions that agree on a part have the same sum over it. *)
LEMMA SumsAgree ==
    ASSUME NEW S, IsFiniteSet(S), NEW g, NEW h, Sums(g, h, S), NEW f, NEW k, Sums(f, k, S),
           NEW T \in SUBSET S, \A x \in T : k[x] = h[x]
    PROVE  f[T] = g[T]
<1>1. PICK i : Tally(i, k, T)
  BY TallyExists
<1>2. i[T] = g[T]
  BY <1>1, TallyAgrees
<1>3. i[T] = f[T]
  BY <1>1, TallyAgrees
<1>4. QED BY <1>2, <1>3

-----------------------------------------------------------------------------
(* Jobs: types.  A call past its first await addresses a job or a client.    *)

JobCallFits(r) ==
    /\ r.pc \in {"client", "write", "count"} => r.job \in JobIds
    /\ r.pc \in {"jobs", "row", "client"} => r.client \in Clients
    /\ r.pc \in {"client", "write", "count"} => r.op # "deleteClient"
    /\ r.op = "create" /\ r.pc \in {"write", "count"} => r.client \in Clients
    /\ r.op # "create" /\ r.pc \in {"client", "write", "count"} => r.seen.client \in Clients
    /\ r.op = "create" => r.seen = NoRow /\ r.pc \in {"idle", "write", "count"}

Reads(r) == r.op # "create" /\ r.pc \in {"client", "write", "count"}

JobsTyped ==
    /\ JobsTypeOK
    /\ \A q \in JobCallers : JobCallFits(jobCall[q])
    /\ \A j \in JobIds : job[j].row # "none" => job[j].client \in Clients
    /\ \A q \in JobCallers : Reads(jobCall[q]) => job[jobCall[q].job].row # "none"

(* A row that is being created is blank and nobody else's.                   *)
CreatesAlone ==
    /\ \A j \in JobIds : job[j].row = "none" => job[j] = NoRow
    /\ \A q \in JobCallers : jobCall[q].op = "create" /\ jobCall[q].pc = "write" =>
          /\ job[jobCall[q].job].row = "none"
          /\ \A p \in JobCallers \ {q} :
                jobCall[p].pc # "idle" => jobCall[p].job # jobCall[q].job

LEMMA JobsInitTyped == JobsInit => JobsTyped /\ CreatesAlone
BY JobsAssumption DEF JobsInit, JobsTyped, JobsTypeOK, JobRow, JobCall, JobCallFits, NoRow,
   NoJobCall, Reads, Row, Statuses, JobOps, CreatesAlone

LEMMA JobMoves ==
    ASSUME JobsTyped, NEW q \in JobCallers, NEW call \in JobCall, JobCallFits(call),
           jobCall' = [jobCall EXCEPT ![q] = call],
           Reads(call) => job'[call.job].row # "none",
           \A j \in JobIds : job[j].row # "none" => job'[j].row # "none"
    PROVE  /\ jobCall' \in [JobCallers -> JobCall]
           /\ \A p \in JobCallers : JobCallFits(jobCall'[p])
           /\ \A p \in JobCallers : Reads(jobCall'[p]) => job'[jobCall'[p].job].row # "none"
<1>1. jobCall \in [JobCallers -> JobCall]
  BY DEF JobsTyped, JobsTypeOK
<1>2. jobCall' \in [JobCallers -> JobCall] /\ jobCall'[q] = call
  BY <1>1
<1>3. \A p \in JobCallers : p # q => jobCall'[p] = jobCall[p]
  BY <1>1
<1>4. ASSUME NEW p \in JobCallers, p # q, Reads(jobCall[p])
      PROVE  job'[jobCall[p].job].row # "none"
  <2>1. jobCall[p].job \in JobIds /\ job[jobCall[p].job].row # "none"
    BY <1>4 DEF JobsTyped, Reads, JobCallFits
  <2>2. QED BY <2>1
<1>5. ASSUME NEW p \in JobCallers
      PROVE  JobCallFits(jobCall'[p]) /\ (Reads(jobCall'[p]) => job'[jobCall'[p].job].row # "none")
  <2>1. CASE p = q
    BY <1>2, <2>1
  <2>2. CASE p # q
    BY <1>3, <1>4, <2>2 DEF JobsTyped
  <2>3. QED BY <2>1, <2>2
<1>6. QED BY <1>2, <1>5

LEMMA JobBegins ==
    ASSUME JobsTyped, NEW q \in JobCallers, NEW call \in JobCall, JobCallFits(call),
           Reads(call) => job[call.job].row # "none", BeginJobCall(q, call)
    PROVE  JobsTyped'
<1>1. /\ jobCall' = [jobCall EXCEPT ![q] = call] /\ jobCalls' = jobCalls + 1
      /\ jobCalls < MaxJobCalls /\ UNCHANGED <<client, job, miscounted, orphaned>>
  BY DEF BeginJobCall
<1>2. jobCalls' \in 0..MaxJobCalls
  BY <1>1, JobsAssumption DEF JobsTyped, JobsTypeOK
<1>3. /\ jobCall' \in [JobCallers -> JobCall]
      /\ \A p \in JobCallers : JobCallFits(jobCall'[p])
      /\ \A p \in JobCallers : Reads(jobCall'[p]) => job'[jobCall'[p].job].row # "none"
  BY <1>1, JobMoves
<1>4. QED BY <1>1, <1>2, <1>3 DEF JobsTyped, JobsTypeOK, JobCallFits, Reads

LEMMA NoJobCallFits == NoJobCall \in JobCall /\ JobCallFits(NoJobCall) /\ ~Reads(NoJobCall)
BY JobsAssumption DEF NoJobCall, NoRow, JobCall, JobCallFits, Reads, JobRow, Row, JobOps, Statuses

(* What a write makes of a row. *)
LEMMA WriteJobWrites ==
    ASSUME JobsTyped, NEW q \in JobCallers, WriteJob(q)
    PROVE  LET r == jobCall[q]  new == Written(r) IN
           /\ r \in JobCall /\ r.job \in JobIds /\ new \in JobRow
           /\ new.row # "none" /\ new.client \in Clients
           /\ Delta(r) \in Int /\ Counted(r) \in Clients
           /\ job' \in [JobIds -> JobRow] /\ job'[r.job] = new
           /\ \A j \in JobIds : j # r.job => job'[j] = job[j]
<1>1. PICK r \in JobCall : r = jobCall[q]
  BY DEF JobsTyped, JobsTypeOK
<1>2. r.job \in JobIds /\ JobCallFits(r) /\ r.pc = "write"
  BY <1>1 DEF WriteJob, JobsTyped, JobCallFits
<1>3. PICK old \in JobRow : old = job[r.job]
  BY <1>2 DEF JobsTyped, JobsTypeOK
<1>4. /\ Given(r.client, old.client) \in Clients \cup {Keep}
      /\ Given(r.status, old.status) \in Statuses
  BY JobsAssumption DEF Given, JobCall, JobRow
<1>5. PICK new : new = Written(r)
  OBVIOUS
<1>6. new \in JobRow
  <2>1. CASE r.op = "delete"
    <3>1. new = [old EXCEPT !.row = "deleted"]
      BY <1>3, <1>5, <2>1 DEF Written
    <3>2. QED BY <3>1 DEF JobRow, Row
  <2>2. CASE r.op # "delete"
    <3>1. PICK rw \in Row : rw = IF r.op = "create" THEN "live" ELSE old.row
      BY DEF JobRow, Row
    <3>2. new = [row |-> rw, client |-> Given(r.client, old.client),
                 status |-> Given(r.status, old.status)]
      BY <1>3, <1>5, <2>2, <3>1 DEF Written
    <3>3. QED BY <1>4, <3>2 DEF JobRow
  <2>3. QED BY <2>1, <2>2
<1>7. new.row # "none" /\ new.client \in Clients
  <2>1. CASE r.op = "create"
    <3>1. new.row = "live" /\ new.client = r.client /\ r.client \in Clients
      BY <1>2, <1>5, <2>1, JobsAssumption DEF Written, Given, JobCallFits
    <3>2. QED BY <3>1
  <2>2. CASE r.op # "create"
    <3>1. old.row # "none" /\ old.client \in Clients
      BY <1>1, <1>2, <1>3, <2>2 DEF JobsTyped, Reads
    <3>2. CASE r.op = "delete"
      <4>1. new = [old EXCEPT !.row = "deleted"]
        BY <1>3, <1>5, <3>2 DEF Written
      <4>2. QED BY <3>1, <4>1 DEF JobRow
    <3>3. CASE r.op # "delete"
      <4>1. new.row = old.row /\ new.client = Given(r.client, old.client)
        BY <1>3, <1>5, <2>2, <3>3 DEF Written
      <4>2. new.client \in Clients
        BY <3>1, <4>1 DEF Given, JobCall
      <4>3. QED BY <3>1, <4>1, <4>2
    <3>4. QED BY <3>2, <3>3
  <2>3. QED BY <2>1, <2>2
<1>8. Delta(r) \in Int
  BY DEF Delta, Open
<1>9. Counted(r) \in Clients
  BY <1>2 DEF Counted, JobCallFits
<1>10. job' = [job EXCEPT ![r.job] = new] /\ job \in [JobIds -> JobRow]
  BY <1>1, <1>5 DEF WriteJob, JobsTyped, JobsTypeOK
<1>11. /\ job' \in [JobIds -> JobRow] /\ job'[r.job] = new
       /\ \A j \in JobIds : j # r.job => job'[j] = job[j]
  BY <1>2, <1>6, <1>10
<1>12. QED BY <1>1, <1>2, <1>5, <1>6, <1>7, <1>8, <1>9, <1>11

LEMMA NoStaleCreate ==
    ASSUME JobsTyped, CreatesAlone, NEW q \in JobCallers, jobCall[q].pc = "write",
           jobCall[q].op = "create"
    PROVE  ~StaleWrite(jobCall[q]) /\ ~Moves(jobCall[q])
<1>1. jobCall[q].seen = NoRow /\ jobCall[q].job \in JobIds
  BY DEF JobsTyped, JobCallFits
<1>2. job[jobCall[q].job] = NoRow
  BY <1>1 DEF CreatesAlone
<1>3. QED BY <1>1, <1>2 DEF StaleWrite, Moves

LEMMA MiscountedClients ==
    ASSUME JobsTyped, CreatesAlone, NEW q \in JobCallers, WriteJob(q)
    PROVE  miscounted' \subseteq Clients
<1>1. PICK r \in JobCall : r = jobCall[q]
  BY DEF JobsTyped, JobsTypeOK
<1>2. r.pc = "write" /\ miscounted \subseteq Clients
  BY <1>1 DEF WriteJob, JobsTyped, JobsTypeOK
<1>3. CASE r.op = "create"
  <2>1. miscounted' = miscounted
    BY <1>1, <1>2, <1>3, NoStaleCreate DEF WriteJob
  <2>2. QED BY <1>2, <2>1
<1>4. CASE r.op # "create"
  <2>1. job[r.job].row # "none" /\ r.job \in JobIds
    BY <1>1, <1>2, <1>4 DEF JobsTyped, Reads, JobCallFits
  <2>2. job[r.job].client \in Clients
    BY <2>1 DEF JobsTyped
  <2>3. Written(r).client \in Clients /\ Counted(r) \in Clients
    BY <1>1, WriteJobWrites
  <2>4. \/ miscounted' = miscounted
        \/ miscounted' = miscounted \cup {job[r.job].client, Written(r).client, Counted(r)}
    BY <1>1 DEF WriteJob
  <2>5. QED BY <1>2, <2>2, <2>3, <2>4
<1>5. QED BY <1>3, <1>4

LEMMA CreateJobTyped ==
    ASSUME JobsTyped, NEW q \in JobCallers, NEW j \in JobIds, NEW c \in Clients,
           NEW s \in Statuses, CreateJob(q, j, c, s)
    PROVE  JobsTyped'
<1>1. PICK call : call = [pc |-> "write", op |-> "create", job |-> j, seen |-> NoRow,
                          client |-> c, status |-> s, alive |-> client[c].row = "live"]
  OBVIOUS
<1>2. NoRow \in JobRow
  BY DEF NoRow, JobRow, Row, Statuses
<1>3. call \in JobCall /\ JobCallFits(call) /\ ~Reads(call)
  BY <1>1, <1>2 DEF JobCall, JobCallFits, Reads, JobOps
<1>4. BeginJobCall(q, call)
  BY <1>1 DEF CreateJob
<1>5. QED BY <1>3, <1>4, JobBegins

LEMMA UpdateJobTyped ==
    ASSUME JobsTyped, NEW q \in JobCallers, NEW j \in JobIds, NEW c \in Clients \cup {Keep},
           NEW s \in Statuses \cup {Keep}, UpdateJob(q, j, c, s)
    PROVE  JobsTyped'
<1>1. job[j].row = "live" /\ job[j] \in JobRow /\ job[j].client \in Clients
  BY DEF UpdateJob, JobsTyped, JobsTypeOK
<1>2. PICK pc \in {"write", "client"} :
         pc = IF c \in {Keep, job[j].client} THEN "write" ELSE "client"
  OBVIOUS
<1>3. PICK alive \in BOOLEAN : alive = (c = job[j].client /\ client[c].row = "live")
  OBVIOUS
<1>4. PICK call : call = [pc |-> pc, op |-> "update", job |-> j, seen |-> job[j],
                          client |-> c, status |-> s, alive |-> alive]
  OBVIOUS
<1>5. call \in JobCall
  BY <1>1, <1>4 DEF JobCall, JobOps
<1>6. JobCallFits(call) /\ (Reads(call) => job[call.job].row # "none")
  BY <1>1, <1>2, <1>4 DEF JobCallFits, Reads
<1>7. BeginJobCall(q, call)
  BY <1>2, <1>3, <1>4 DEF UpdateJob
<1>8. QED BY <1>5, <1>6, <1>7, JobBegins

LEMMA OtherBeginningsTyped ==
    ASSUME JobsTyped, NEW q \in JobCallers,
           \/ \E j \in JobIds : DeleteJob(q, j)
           \/ \E j \in JobIds, s \in Statuses : ChangeStatus(q, j, s)
           \/ \E c \in Clients : DeleteClient(q, c)
    PROVE  JobsTyped'
<1>1. NoJobCall \in JobCall
  BY NoJobCallFits
<1>2. ASSUME NEW j \in JobIds, DeleteJob(q, j)
      PROVE  JobsTyped'
  <2>1. PICK call : call = [NoJobCall EXCEPT !.pc = "write", !.op = "delete", !.job = j,
                                             !.seen = job[j]]
    OBVIOUS
  <2>2. job[j].row = "live" /\ job[j] \in JobRow /\ job[j].client \in Clients
    BY <1>2 DEF DeleteJob, JobsTyped, JobsTypeOK
  <2>3. call \in JobCall /\ call.pc = "write" /\ call.op = "delete" /\ call.job = j
           /\ call.seen = job[j]
    BY <1>1, <2>1, <2>2 DEF JobCall, JobOps
  <2>4. JobCallFits(call) /\ (Reads(call) => job[call.job].row # "none")
    BY <2>2, <2>3 DEF JobCallFits, Reads
  <2>5. QED BY <1>2, <2>1, <2>3, <2>4, JobBegins DEF DeleteJob
<1>3. ASSUME NEW j \in JobIds, NEW s \in Statuses, ChangeStatus(q, j, s)
      PROVE  JobsTyped'
  <2>1. PICK call : call = [NoJobCall EXCEPT !.pc = "write", !.op = "changeStatus", !.job = j,
                                             !.seen = job[j], !.status = s]
    OBVIOUS
  <2>2. job[j].row = "live" /\ job[j] \in JobRow /\ job[j].client \in Clients
    BY <1>3 DEF ChangeStatus, JobsTyped, JobsTypeOK
  <2>3. call \in JobCall /\ call.pc = "write" /\ call.op = "changeStatus" /\ call.job = j
           /\ call.seen = job[j]
    BY <1>1, <2>1, <2>2 DEF JobCall, JobOps
  <2>4. JobCallFits(call) /\ (Reads(call) => job[call.job].row # "none")
    BY <2>2, <2>3 DEF JobCallFits, Reads
  <2>5. QED BY <1>3, <2>1, <2>3, <2>4, JobBegins DEF ChangeStatus
<1>4. ASSUME NEW c \in Clients, DeleteClient(q, c)
      PROVE  JobsTyped'
  <2>1. PICK call : call = [NoJobCall EXCEPT !.pc = "jobs", !.op = "deleteClient", !.client = c]
    OBVIOUS
  <2>2. call \in JobCall /\ call.pc = "jobs" /\ call.op = "deleteClient" /\ call.client = c
    BY <1>1, <2>1 DEF JobCall, JobOps
  <2>3. JobCallFits(call) /\ ~Reads(call)
    BY <2>2 DEF JobCallFits, Reads
  <2>4. QED BY <1>4, <2>1, <2>2, <2>3, JobBegins DEF DeleteClient
<1>5. QED BY <1>2, <1>3, <1>4

LEMMA JobsTypedKept ==
    ASSUME JobsTyped, CreatesAlone, [JobsNext]_jobsVars
    PROVE  JobsTyped'
<1>1. CASE UNCHANGED jobsVars
  BY <1>1 DEF JobsTyped, JobsTypeOK, JobCallFits, Reads, jobsVars
<1>2. ASSUME NEW q \in JobCallers, CheckNewClient(q) PROVE JobsTyped'
  <2>1. PICK r \in JobCall : r = jobCall[q]
    BY DEF JobsTyped, JobsTypeOK
  <2>2. PICK call : call = [r EXCEPT !.pc = "write", !.alive = client[r.client].row = "live"]
    OBVIOUS
  <2>3. r.pc = "client" /\ JobCallFits(r) /\ (Reads(r) => job[r.job].row # "none")
    BY <1>2, <2>1 DEF CheckNewClient, JobsTyped
  <2>4. call \in JobCall /\ call.pc = "write" /\ call.op = r.op /\ call.job = r.job
           /\ call.seen = r.seen /\ call.client = r.client
    BY <2>2 DEF JobCall
  <2>5. JobCallFits(call) /\ (Reads(call) => job[call.job].row # "none")
    BY <2>3, <2>4 DEF JobCallFits, Reads
  <2>6. /\ jobCall' = [jobCall EXCEPT ![q] = call]
        /\ UNCHANGED <<client, job, miscounted, orphaned, jobCalls>>
    BY <1>2, <2>1, <2>2 DEF CheckNewClient, JobsTyped, JobsTypeOK
  <2>7. QED BY <2>4, <2>5, <2>6, JobMoves DEF JobsTyped, JobsTypeOK
<1>3. ASSUME NEW q \in JobCallers, WriteJob(q) PROVE JobsTyped'
  <2>1. PICK r \in JobCall : r = jobCall[q]
    BY DEF JobsTyped, JobsTypeOK
  <2>2. PICK call : call = IF Delta(r) = 0 THEN NoJobCall ELSE [r EXCEPT !.pc = "count"]
    OBVIOUS
  <2>3. /\ r.job \in JobIds /\ job' \in [JobIds -> JobRow]
        /\ job'[r.job].row # "none" /\ job'[r.job].client \in Clients
        /\ \A j \in JobIds : j # r.job => job'[j] = job[j]
    BY <1>3, <2>1, WriteJobWrites
  <2>4. call \in JobCall /\ JobCallFits(call) /\ (Reads(call) => call.job = r.job)
    <3>1. [r EXCEPT !.pc = "count"] \in JobCall /\ r.pc = "write" /\ JobCallFits(r)
      BY <1>3, <2>1 DEF JobCall, WriteJob, JobsTyped
    <3>2. JobCallFits([r EXCEPT !.pc = "count"])
      BY <3>1 DEF JobCallFits, JobCall
    <3>3. [r EXCEPT !.pc = "count"].job = r.job
      BY DEF JobCall
    <3>4. QED BY <2>2, <3>1, <3>2, <3>3, NoJobCallFits
  <2>5. jobCall' = [jobCall EXCEPT ![q] = call] /\ UNCHANGED <<client, jobCalls>>
    BY <1>3, <2>1, <2>2 DEF WriteJob
  <2>6. /\ jobCall' \in [JobCallers -> JobCall]
        /\ \A p \in JobCallers : JobCallFits(jobCall'[p])
        /\ \A p \in JobCallers : Reads(jobCall'[p]) => job'[jobCall'[p].job].row # "none"
    BY <2>3, <2>4, <2>5, JobMoves
  <2>7. miscounted' \subseteq Clients
    BY <1>3, MiscountedClients
  <2>8. orphaned' \subseteq JobIds
    BY <1>3, <2>1, <2>3 DEF WriteJob, JobsTyped, JobsTypeOK
  <2>9. \A j \in JobIds : job'[j].row # "none" => job'[j].client \in Clients
    BY <2>3 DEF JobsTyped
  <2>10. QED BY <2>3, <2>5, <2>6, <2>7, <2>8, <2>9 DEF JobsTyped, JobsTypeOK
<1>4. ASSUME NEW q \in JobCallers, CountJob(q) PROVE JobsTyped'
  <2>1. PICK r \in JobCall : r = jobCall[q]
    BY DEF JobsTyped, JobsTypeOK
  <2>2. JobCallFits(r) /\ r.pc = "count"
    BY <1>4, <2>1 DEF CountJob, JobsTyped
  <2>3. Counted(r) \in Clients /\ Delta(r) \in Int
    BY <2>2 DEF Counted, JobCallFits, Delta, Open
  <2>4. client' \in [Clients -> [row : {"live", "deleted"}, active : Int]]
    <3>1. client[Counted(r)].active + Delta(r) \in Int
      BY <2>3 DEF JobsTyped, JobsTypeOK
    <3>2. client' = [client EXCEPT ![Counted(r)].active = client[Counted(r)].active + Delta(r)]
      BY <1>4, <2>1, <2>3 DEF CountJob
    <3>3. QED BY <2>3, <3>1, <3>2 DEF JobsTyped, JobsTypeOK
  <2>5. /\ jobCall' = [jobCall EXCEPT ![q] = NoJobCall]
        /\ UNCHANGED <<job, miscounted, orphaned, jobCalls>>
    BY <1>4, <2>1 DEF CountJob
  <2>6. QED BY <2>4, <2>5, JobMoves, NoJobCallFits DEF JobsTyped, JobsTypeOK
<1>5. ASSUME NEW q \in JobCallers, DeleteJobsOfClient(q) PROVE JobsTyped'
  <2>1. PICK r \in JobCall : r = jobCall[q]
    BY DEF JobsTyped, JobsTypeOK
  <2>2. JobCallFits(r) /\ r.pc = "jobs" /\ r.client \in Clients
    BY <1>5, <2>1 DEF DeleteJobsOfClient, JobsTyped, JobCallFits
  <2>3. PICK call : call = [r EXCEPT !.pc = "row"]
    OBVIOUS
  <2>4. call \in JobCall /\ JobCallFits(call) /\ ~Reads(call)
    BY <2>2, <2>3 DEF JobCall, JobCallFits, Reads
  <2>5. \A j \in JobIds : /\ job[j] \in JobRow /\ [job[j] EXCEPT !.row = "deleted"] \in JobRow
                          /\ [job[j] EXCEPT !.row = "deleted"].client = job[j].client
    BY DEF JobsTyped, JobsTypeOK, JobRow, Row
  <2>6. /\ job' \in [JobIds -> JobRow]
        /\ \A j \in JobIds : job'[j] = job[j] \/
              (job[j].row = "live" /\ job'[j] = [job[j] EXCEPT !.row = "deleted"])
    BY <1>5, <2>5 DEF DeleteJobsOfClient
  <2>7. \A j \in JobIds : /\ job[j].row # "none" => job'[j].row # "none"
                          /\ job'[j].row # "none" => job'[j].client \in Clients
    BY <2>5, <2>6 DEF JobsTyped, JobRow
  <2>8. /\ jobCall' = [jobCall EXCEPT ![q] = call] /\ miscounted' = miscounted \cup {r.client}
        /\ UNCHANGED <<client, orphaned, jobCalls>>
    BY <1>5, <2>1, <2>3 DEF DeleteJobsOfClient, JobsTyped, JobsTypeOK
  <2>9. QED BY <2>2, <2>4, <2>6, <2>7, <2>8, JobMoves DEF JobsTyped, JobsTypeOK
<1>6. ASSUME NEW q \in JobCallers, DeleteClientRow(q) PROVE JobsTyped'
  <2>1. /\ jobCall' = [jobCall EXCEPT ![q] = NoJobCall]
        /\ UNCHANGED <<job, miscounted, orphaned, jobCalls>>
        /\ client' = [client EXCEPT ![jobCall[q].client].row = "deleted"]
    BY <1>6 DEF DeleteClientRow
  <2>2. client' \in [Clients -> [row : {"live", "deleted"}, active : Int]]
    BY <2>1 DEF JobsTyped, JobsTypeOK
  <2>3. QED BY <2>1, <2>2, JobMoves, NoJobCallFits DEF JobsTyped, JobsTypeOK
<1>7. ASSUME NEW q \in JobCallers, JobCallStops(q) PROVE JobsTyped'
  <2>1. /\ jobCall' = [jobCall EXCEPT ![q] = NoJobCall]
        /\ UNCHANGED <<client, job, orphaned, jobCalls>>
    BY <1>7 DEF JobCallStops
  <2>2. jobCall[q].pc = "count" => Counted(jobCall[q]) \in Clients
    BY DEF Counted, JobsTyped, JobCallFits
  <2>3. miscounted' \subseteq Clients
    BY <1>7, <2>2 DEF JobCallStops, JobsTyped, JobsTypeOK
  <2>4. QED BY <2>1, <2>3, JobMoves, NoJobCallFits DEF JobsTyped, JobsTypeOK
<1>8. QED
  BY <1>1, <1>2, <1>3, <1>4, <1>5, <1>6, <1>7, CreateJobTyped, UpdateJobTyped,
     OtherBeginningsTyped DEF JobsNext

LEMMA CreatesAloneKept ==
    ASSUME JobsTyped, CreatesAlone, [JobsNext]_jobsVars
    PROVE  CreatesAlone'
<1>1. CASE UNCHANGED jobsVars
  BY <1>1 DEF CreatesAlone, jobsVars
<1>. DEFINE Others(q) == \A p \in JobCallers : p # q => jobCall'[p] = jobCall[p]
(* A call that goes on or ends; q creates no row after the step.             *)
<1>2. ASSUME NEW q \in JobCallers, UNCHANGED job, Others(q),
             ~(jobCall'[q].op = "create" /\ jobCall'[q].pc = "write"),
             \/ jobCall'[q].pc = "idle" \/ jobCall'[q].job \notin JobIds
             \/ jobCall'[q].job \in JobIds /\ job[jobCall'[q].job].row # "none"
             \/ jobCall[q].pc # "idle" /\ jobCall'[q].job = jobCall[q].job
      PROVE  CreatesAlone'
  <2>1. ASSUME NEW p \in JobCallers, jobCall'[p].op = "create", jobCall'[p].pc = "write"
        PROVE  /\ job'[jobCall'[p].job].row = "none"
               /\ \A o \in JobCallers \ {p} :
                     jobCall'[o].pc # "idle" => jobCall'[o].job # jobCall'[p].job
    <3>1. p # q /\ jobCall'[p] = jobCall[p]
      BY <1>2, <2>1
    <3>2. /\ job[jobCall[p].job].row = "none"
          /\ \A o \in JobCallers \ {p} : jobCall[o].pc # "idle" => jobCall[o].job # jobCall[p].job
          /\ jobCall[p].job \in JobIds
      BY <2>1, <3>1 DEF CreatesAlone, JobsTyped, JobCallFits
    <3>3. jobCall'[q].pc # "idle" => jobCall'[q].job # jobCall[p].job
      BY <1>2, <3>1, <3>2
    <3>4. QED BY <1>2, <3>1, <3>2, <3>3
  <2>2. QED BY <1>2, <2>1 DEF CreatesAlone
<1>3. ASSUME NEW q \in JobCallers, NEW j \in JobIds, NEW c \in Clients, NEW s \in Statuses,
             CreateJob(q, j, c, s)
      PROVE  CreatesAlone'
  <2>1. /\ job[j].row = "none" /\ UNCHANGED job /\ jobCall[q].pc = "idle"
        /\ \A p \in JobCallers : jobCall[p].pc # "idle" => jobCall[p].job # j
    BY <1>3 DEF CreateJob, BeginJobCall
  <2>2. jobCall'[q].job = j /\ jobCall'[q].op = "create"
    BY <1>3 DEF CreateJob, BeginJobCall, JobsTyped, JobsTypeOK
  <2>3. \A p \in JobCallers : p # q => jobCall'[p] = jobCall[p]
    BY <1>3 DEF CreateJob, BeginJobCall, JobsTyped, JobsTypeOK
  <2>4. QED BY <2>1, <2>2, <2>3 DEF CreatesAlone
<1>4. ASSUME NEW q \in JobCallers, NEW j \in JobIds, NEW c \in Clients \cup {Keep},
             NEW s \in Statuses \cup {Keep}, UpdateJob(q, j, c, s)
      PROVE  CreatesAlone'
  <2>1. UNCHANGED job /\ job[j].row = "live" /\ Others(q)
    BY <1>4 DEF UpdateJob, BeginJobCall, JobsTyped, JobsTypeOK
  <2>2. jobCall'[q].job = j /\ jobCall'[q].op = "update"
    BY <1>4 DEF UpdateJob, BeginJobCall, JobsTyped, JobsTypeOK
  <2>3. QED BY <1>2, <2>1, <2>2
<1>5. ASSUME NEW q \in JobCallers, NEW j \in JobIds, DeleteJob(q, j)
      PROVE  CreatesAlone'
  <2>1. UNCHANGED job /\ job[j].row = "live" /\ Others(q)
    BY <1>5 DEF DeleteJob, BeginJobCall, JobsTyped, JobsTypeOK
  <2>2. jobCall'[q].job = j /\ jobCall'[q].op = "delete"
    BY <1>5 DEF DeleteJob, BeginJobCall, JobsTyped, JobsTypeOK, NoJobCall
  <2>3. QED BY <1>2, <2>1, <2>2
<1>6. ASSUME NEW q \in JobCallers, NEW j \in JobIds, NEW s \in Statuses, ChangeStatus(q, j, s)
      PROVE  CreatesAlone'
  <2>1. UNCHANGED job /\ job[j].row = "live" /\ Others(q)
    BY <1>6 DEF ChangeStatus, BeginJobCall, JobsTyped, JobsTypeOK
  <2>2. jobCall'[q].job = j /\ jobCall'[q].op = "changeStatus"
    BY <1>6 DEF ChangeStatus, BeginJobCall, JobsTyped, JobsTypeOK, NoJobCall
  <2>3. QED BY <1>2, <2>1, <2>2
<1>7. ASSUME NEW q \in JobCallers, NEW c \in Clients, DeleteClient(q, c)
      PROVE  CreatesAlone'
  <2>1. UNCHANGED job /\ Others(q)
    BY <1>7 DEF DeleteClient, BeginJobCall, JobsTyped, JobsTypeOK
  <2>2. jobCall'[q].job = Keep /\ jobCall'[q].op = "deleteClient"
    BY <1>7 DEF DeleteClient, BeginJobCall, JobsTyped, JobsTypeOK, NoJobCall
  <2>3. QED BY <1>2, <2>1, <2>2, JobsAssumption
<1>8. ASSUME NEW q \in JobCallers, CheckNewClient(q) PROVE CreatesAlone'
  <2>1. UNCHANGED job /\ Others(q) /\ jobCall[q].pc = "client"
    BY <1>8 DEF CheckNewClient, JobsTyped, JobsTypeOK
  <2>2. jobCall'[q].job = jobCall[q].job /\ jobCall'[q].op = jobCall[q].op
    BY <1>8 DEF CheckNewClient, JobsTyped, JobsTypeOK, JobCall
  <2>3. jobCall[q].op # "create"
    BY <2>1 DEF JobsTyped, JobCallFits
  <2>4. QED BY <1>2, <2>1, <2>2, <2>3
<1>9. ASSUME NEW q \in JobCallers, CountJob(q) \/ DeleteClientRow(q) \/ JobCallStops(q)
      PROVE  CreatesAlone'
  <2>1. UNCHANGED job /\ Others(q) /\ jobCall'[q].pc = "idle"
    BY <1>9 DEF CountJob, DeleteClientRow, JobCallStops, JobsTyped, JobsTypeOK, NoJobCall
  <2>2. QED BY <1>2, <2>1
<1>10. ASSUME NEW q \in JobCallers, DeleteJobsOfClient(q) PROVE CreatesAlone'
  <2>1. Others(q) /\ jobCall[q].pc = "jobs" /\ jobCall'[q].pc = "row"
    BY <1>10 DEF DeleteJobsOfClient, JobsTyped, JobsTypeOK, JobCall
  <2>2. jobCall'[q].job = jobCall[q].job
    BY <1>10 DEF DeleteJobsOfClient, JobsTyped, JobsTypeOK, JobCall
  <2>3. \A j \in JobIds : /\ job[j].row = "none" => job'[j] = job[j]
                          /\ job'[j].row = "none" => job[j].row = "none"
    BY <1>10 DEF DeleteJobsOfClient, JobsTyped, JobsTypeOK, JobRow
  <2>4. \A p \in JobCallers : jobCall[p].op = "create" /\ jobCall[p].pc = "write" =>
                                 jobCall[p].job \in JobIds
    BY DEF JobsTyped, JobCallFits
  <2>5. QED BY <2>1, <2>2, <2>3, <2>4 DEF CreatesAlone
<1>11. ASSUME NEW q \in JobCallers, WriteJob(q) PROVE CreatesAlone'
  <2>1. /\ jobCall[q].job \in JobIds /\ job'[jobCall[q].job].row # "none"
        /\ \A j \in JobIds : j # jobCall[q].job => job'[j] = job[j]
    BY <1>11, WriteJobWrites
  <2>2. /\ Others(q) /\ jobCall[q].pc = "write"
        /\ jobCall'[q].pc # "write"
        /\ jobCall'[q].pc = "idle" \/ jobCall'[q].job = jobCall[q].job
    BY <1>11 DEF WriteJob, JobsTyped, JobsTypeOK, JobCall, NoJobCall
  <2>3. \A p \in JobCallers : jobCall[p].op = "create" /\ jobCall[p].pc = "write" =>
                                 jobCall[p].job \in JobIds
    BY DEF JobsTyped, JobCallFits
  <2>4. QED BY <2>1, <2>2, <2>3 DEF CreatesAlone
<1>12. QED
  BY <1>1, <1>3, <1>4, <1>5, <1>6, <1>7, <1>8, <1>9, <1>10, <1>11 DEF JobsNext

-----------------------------------------------------------------------------
(* Jobs: orphans.  A call that gives a job its client found it live, or the  *)
(* job is an orphan already; of a client whose row is about to be deleted    *)
(* only orphans are left.                                                    *)

GivesLiveClient(r) == r.pc = "write" /\ r.client # Keep => r.alive \/ r.job \in orphaned
LeavesOrphans(r) ==
    r.pc = "row" => \A j \in JobIds \ orphaned : job[j].row = "live" => job[j].client # r.client

OrphansKnown ==
    /\ LiveJobHasLiveClient
    /\ \A q \in JobCallers : GivesLiveClient(jobCall[q]) /\ LeavesOrphans(jobCall[q])

(* A call begins, goes on or ends, and the tables stay. *)
LEMMA OrphansStay ==
    ASSUME OrphansKnown, NEW q \in JobCallers, UNCHANGED job, orphaned' = orphaned,
           \A c \in Clients : client'[c].row = client[c].row,
           \A j \in JobIds : job[j].row # "none" => job[j].client \in Clients,
           \A p \in JobCallers : p # q => jobCall'[p] = jobCall[p],
           GivesLiveClient(jobCall'[q]), jobCall'[q].pc # "row"
    PROVE  OrphansKnown'
<1>1. LiveJobHasLiveClient'
  BY DEF OrphansKnown, LiveJobHasLiveClient
<1>2. ASSUME NEW p \in JobCallers
      PROVE  GivesLiveClient(jobCall[p])' /\ LeavesOrphans(jobCall[p])'
  <2>1. CASE p = q
    BY <2>1 DEF GivesLiveClient, LeavesOrphans
  <2>2. CASE p # q
    BY <2>2 DEF OrphansKnown, GivesLiveClient, LeavesOrphans
  <2>3. QED BY <2>1, <2>2
<1>3. QED BY <1>1, <1>2 DEF OrphansKnown

LEMMA BeginOrphans ==
    ASSUME JobsTyped, OrphansKnown, NEW q \in JobCallers, NEW call, BeginJobCall(q, call),
           GivesLiveClient(call), call.pc # "row"
    PROVE  OrphansKnown'
<1>1. jobCall'[q] = call /\ \A p \in JobCallers : p # q => jobCall'[p] = jobCall[p]
  BY DEF BeginJobCall, JobsTyped, JobsTypeOK
<1>2. UNCHANGED <<client, job, orphaned>>
  BY DEF BeginJobCall
<1>3. QED BY <1>1, <1>2, OrphansStay DEF JobsTyped

LEMMA WriteOrphans ==
    ASSUME JobsTyped, CreatesAlone, OrphansKnown, NEW q \in JobCallers, WriteJob(q)
    PROVE  OrphansKnown'
<1>1. PICK r \in JobCall : r = jobCall[q]
  BY DEF JobsTyped, JobsTypeOK
<1>2. /\ r.job \in JobIds /\ r.pc = "write" /\ JobCallFits(r) /\ GivesLiveClient(r)
      /\ UNCHANGED client
  BY <1>1 DEF WriteJob, JobsTyped, JobCallFits, OrphansKnown
<1>3. PICK new : new = Written(r)
  OBVIOUS
<1>4. /\ job'[r.job] = new /\ new.client \in Clients
      /\ \A j \in JobIds : j # r.job => job'[j] = job[j]
  BY <1>1, <1>3, WriteJobWrites
<1>5. /\ orphaned \subseteq orphaned'
      /\ r.client # Keep /\ r.alive /\ BeingDeleted(new.client) => r.job \in orphaned'
  BY <1>1, <1>3 DEF WriteJob
<1>6. /\ jobCall'[q].pc \notin {"write", "row"}
      /\ \A p \in JobCallers : p # q => jobCall'[p] = jobCall[p]
  BY <1>1 DEF WriteJob, JobsTyped, JobsTypeOK, JobCall, NoJobCall
(* The row is given a client that nobody deletes, keeps its own, or is       *)
(* known as an orphan.                                                       *)
<1>7. ASSUME new.row = "live", r.job \notin orphaned'
      PROVE  \/ ~BeingDeleted(new.client)
             \/ job[r.job].row = "live" /\ new.client = job[r.job].client
  <2>1. r.op # "delete"
    <3>1. CASE r.op = "delete"
      <4>1. new = [job[r.job] EXCEPT !.row = "deleted"] /\ job[r.job] \in JobRow
        BY <1>2, <1>3, <3>1 DEF Written, JobsTyped, JobsTypeOK
      <4>2. QED BY <1>7, <4>1 DEF JobRow
    <3>2. QED BY <3>1
  <2>2. CASE r.client # Keep
    BY <1>2, <1>5, <1>7, <2>2 DEF GivesLiveClient
  <2>3. CASE r.client = Keep
    <3>1. r.op # "create"
      BY <1>2, <2>3, JobsAssumption DEF JobCallFits
    <3>2. new.row = job[r.job].row /\ new.client = job[r.job].client
      BY <1>3, <2>1, <2>3, <3>1 DEF Written, Given
    <3>3. QED BY <1>7, <3>2
  <2>4. QED BY <2>2, <2>3
<1>8. LiveJobHasLiveClient'
  <2>1. ASSUME NEW j \in JobIds \ orphaned', job'[j].row = "live"
        PROVE  client'[job'[j].client].row = "live"
    <3>1. CASE j = r.job
      BY <1>2, <1>4, <1>5, <1>7, <2>1, <3>1 DEF BeingDeleted, OrphansKnown, LiveJobHasLiveClient
    <3>2. CASE j # r.job
      BY <1>2, <1>4, <1>5, <2>1, <3>2 DEF OrphansKnown, LiveJobHasLiveClient
    <3>3. QED BY <3>1, <3>2
  <2>2. QED BY <2>1 DEF LiveJobHasLiveClient
<1>9. ASSUME NEW p \in JobCallers
      PROVE  GivesLiveClient(jobCall[p])' /\ LeavesOrphans(jobCall[p])'
  <2>1. CASE p = q
    BY <1>6, <2>1 DEF GivesLiveClient, LeavesOrphans
  <2>2. CASE p # q
    <3>1. jobCall'[p] = jobCall[p] /\ GivesLiveClient(jobCall[p]) /\ LeavesOrphans(jobCall[p])
      BY <1>6, <2>2 DEF OrphansKnown
    <3>2. GivesLiveClient(jobCall[p])'
      BY <1>5, <3>1 DEF GivesLiveClient
    <3>3. ASSUME jobCall[p].pc = "row", NEW j \in JobIds \ orphaned', job'[j].row = "live"
          PROVE  job'[j].client # jobCall[p].client
      <4>1. CASE j = r.job
        BY <1>4, <1>5, <1>7, <3>1, <3>3, <4>1 DEF BeingDeleted, LeavesOrphans
      <4>2. CASE j # r.job
        BY <1>4, <1>5, <3>1, <3>3, <4>2 DEF LeavesOrphans
      <4>3. QED BY <4>1, <4>2
    <3>4. QED BY <3>1, <3>2, <3>3 DEF LeavesOrphans
  <2>3. QED BY <2>1, <2>2
<1>10. QED BY <1>8, <1>9 DEF OrphansKnown

LEMMA OrphansKept ==
    ASSUME JobsTyped, CreatesAlone, OrphansKnown, [JobsNext]_jobsVars
    PROVE  OrphansKnown'
<1>1. CASE UNCHANGED jobsVars
  BY <1>1 DEF OrphansKnown, LiveJobHasLiveClient, GivesLiveClient, LeavesOrphans, jobsVars
<1>2. ASSUME NEW q \in JobCallers, NEW j \in JobIds, NEW c \in Clients, NEW s \in Statuses,
             CreateJob(q, j, c, s)
      PROVE  OrphansKnown'
  <2>1. PICK call : call = [pc |-> "write", op |-> "create", job |-> j, seen |-> NoRow,
                            client |-> c, status |-> s, alive |-> client[c].row = "live"]
    OBVIOUS
  <2>2. BeginJobCall(q, call) /\ client[c].row = "live"
    BY <1>2, <2>1 DEF CreateJob
  <2>3. GivesLiveClient(call) /\ call.pc # "row"
    BY <2>1, <2>2 DEF GivesLiveClient
  <2>4. QED BY <2>2, <2>3, BeginOrphans
<1>3. ASSUME NEW q \in JobCallers, NEW j \in JobIds, NEW c \in Clients \cup {Keep},
             NEW s \in Statuses \cup {Keep}, UpdateJob(q, j, c, s)
      PROVE  OrphansKnown'
  <2>1. PICK pc : pc = IF c \in {Keep, job[j].client} THEN "write" ELSE "client"
    OBVIOUS
  <2>2. PICK alive \in BOOLEAN : alive = (c = job[j].client /\ client[c].row = "live")
    OBVIOUS
  <2>3. PICK call : call = [pc |-> pc, op |-> "update", job |-> j, seen |-> job[j],
                            client |-> c, status |-> s, alive |-> alive]
    OBVIOUS
  <2>4. BeginJobCall(q, call) /\ job[j].row = "live"
    BY <1>3, <2>1, <2>2, <2>3 DEF UpdateJob
  <2>5. call.pc = "write" /\ call.client # Keep => call.alive \/ call.job \in orphaned
    <3>1. SUFFICES ASSUME c = job[j].client, j \notin orphaned PROVE alive
      BY <2>1, <2>3
    <3>2. client[c].row = "live"
      BY <2>4, <3>1 DEF OrphansKnown, LiveJobHasLiveClient
    <3>3. QED BY <2>2, <3>1, <3>2
  <2>6. QED BY <2>1, <2>3, <2>4, <2>5, BeginOrphans DEF GivesLiveClient
<1>4. ASSUME NEW q \in JobCallers, NEW j \in JobIds, DeleteJob(q, j)
      PROVE  OrphansKnown'
  <2>1. PICK call : call = [NoJobCall EXCEPT !.pc = "write", !.op = "delete", !.job = j,
                                             !.seen = job[j]]
    OBVIOUS
  <2>2. BeginJobCall(q, call)
    BY <1>4, <2>1 DEF DeleteJob
  <2>3. GivesLiveClient(call) /\ call.pc # "row"
    BY <2>1 DEF GivesLiveClient, NoJobCall
  <2>4. QED BY <2>2, <2>3, BeginOrphans
<1>5. ASSUME NEW q \in JobCallers, NEW j \in JobIds, NEW s \in Statuses, ChangeStatus(q, j, s)
      PROVE  OrphansKnown'
  <2>1. PICK call : call = [NoJobCall EXCEPT !.pc = "write", !.op = "changeStatus", !.job = j,
                                             !.seen = job[j], !.status = s]
    OBVIOUS
  <2>2. BeginJobCall(q, call)
    BY <1>5, <2>1 DEF ChangeStatus
  <2>3. GivesLiveClient(call) /\ call.pc # "row"
    BY <2>1 DEF GivesLiveClient, NoJobCall
  <2>4. QED BY <2>2, <2>3, BeginOrphans
<1>6. ASSUME NEW q \in JobCallers, NEW c \in Clients, DeleteClient(q, c)
      PROVE  OrphansKnown'
  <2>1. PICK call : call = [NoJobCall EXCEPT !.pc = "jobs", !.op = "deleteClient", !.client = c]
    OBVIOUS
  <2>2. BeginJobCall(q, call)
    BY <1>6, <2>1 DEF DeleteClient
  <2>3. GivesLiveClient(call) /\ call.pc # "row"
    BY <2>1 DEF GivesLiveClient, NoJobCall
  <2>4. QED BY <2>2, <2>3, BeginOrphans
<1>7. ASSUME NEW q \in JobCallers, CheckNewClient(q) PROVE OrphansKnown'
  <2>1. PICK r \in JobCall : r = jobCall[q]
    BY DEF JobsTyped, JobsTypeOK
  <2>2. /\ UNCHANGED <<client, job, orphaned>> /\ client[r.client].row = "live"
        /\ jobCall' = [jobCall EXCEPT ![q].pc = "write", ![q].alive = TRUE]
    BY <1>7, <2>1 DEF CheckNewClient
  <2>3. jobCall'[q].pc = "write" /\ jobCall'[q].alive
    BY <2>2 DEF JobsTyped, JobsTypeOK, JobCall
  <2>4. \A p \in JobCallers : p # q => jobCall'[p] = jobCall[p]
    BY <2>2 DEF JobsTyped, JobsTypeOK
  <2>5. QED BY <2>2, <2>3, <2>4, OrphansStay DEF GivesLiveClient, JobsTyped
<1>8. ASSUME NEW q \in JobCallers, CountJob(q) \/ JobCallStops(q) PROVE OrphansKnown'
  <2>1. UNCHANGED <<job, orphaned>> /\ jobCall' = [jobCall EXCEPT ![q] = NoJobCall]
    BY <1>8 DEF CountJob, JobCallStops
  <2>2. jobCall'[q].pc = "idle" /\ \A p \in JobCallers : p # q => jobCall'[p] = jobCall[p]
    BY <2>1 DEF JobsTyped, JobsTypeOK, NoJobCall
  <2>3. \A c \in Clients : client'[c].row = client[c].row
    BY <1>8 DEF CountJob, JobCallStops, JobsTyped, JobsTypeOK
  <2>4. QED BY <2>1, <2>2, <2>3, OrphansStay DEF GivesLiveClient, JobsTyped
<1>9. ASSUME NEW q \in JobCallers, DeleteJobsOfClient(q) PROVE OrphansKnown'
  <2>1. PICK c : c = jobCall[q].client
    OBVIOUS
  <2>2. /\ jobCall'[q].pc = "row" /\ jobCall'[q].client = c
        /\ \A p \in JobCallers : p # q => jobCall'[p] = jobCall[p]
    BY <1>9, <2>1 DEF DeleteJobsOfClient, JobsTyped, JobsTypeOK, JobCall
  <2>3. \A j \in JobIds : job'[j].row = "live" => job'[j] = job[j] /\ job[j].client # c
    BY <1>9, <2>1 DEF DeleteJobsOfClient, JobsTyped, JobsTypeOK, JobRow
  <2>4. UNCHANGED <<client, orphaned>>
    BY <1>9 DEF DeleteJobsOfClient
  <2>5. LiveJobHasLiveClient'
    BY <2>3, <2>4 DEF OrphansKnown, LiveJobHasLiveClient
  <2>6. ASSUME NEW p \in JobCallers
        PROVE  GivesLiveClient(jobCall[p])' /\ LeavesOrphans(jobCall[p])'
    <3>1. CASE p = q
      BY <2>2, <2>3, <3>1 DEF GivesLiveClient, LeavesOrphans
    <3>2. CASE p # q
      BY <2>2, <2>3, <2>4, <3>2 DEF OrphansKnown, GivesLiveClient, LeavesOrphans
    <3>3. QED BY <3>1, <3>2
  <2>7. QED BY <2>5, <2>6 DEF OrphansKnown
<1>10. ASSUME NEW q \in JobCallers, DeleteClientRow(q) PROVE OrphansKnown'
  <2>1. PICK c \in Clients : c = jobCall[q].client
    BY <1>10 DEF DeleteClientRow, JobsTyped, JobCallFits
  <2>2. /\ jobCall[q].pc = "row" /\ UNCHANGED <<job, orphaned>>
        /\ \A b \in Clients : b # c => client'[b] = client[b]
    BY <1>10, <2>1 DEF DeleteClientRow, JobsTyped, JobsTypeOK
  <2>3. jobCall'[q].pc = "idle" /\ \A p \in JobCallers : p # q => jobCall'[p] = jobCall[p]
    BY <1>10 DEF DeleteClientRow, JobsTyped, JobsTypeOK, NoJobCall
  <2>4. \A j \in JobIds \ orphaned : job[j].row = "live" => job[j].client \in Clients \ {c}
    BY <2>1, <2>2 DEF OrphansKnown, LeavesOrphans, JobsTyped
  <2>5. LiveJobHasLiveClient'
    BY <2>2, <2>4 DEF OrphansKnown, LiveJobHasLiveClient
  <2>6. ASSUME NEW p \in JobCallers
        PROVE  GivesLiveClient(jobCall[p])' /\ LeavesOrphans(jobCall[p])'
    BY <2>2, <2>3 DEF OrphansKnown, GivesLiveClient, LeavesOrphans
  <2>7. QED BY <2>5, <2>6 DEF OrphansKnown
<1>11. QED
  BY <1>1, <1>2, <1>3, <1>4, <1>5, <1>6, <1>7, <1>8, <1>9, <1>10, WriteOrphans DEF JobsNext

(* Jobs: whatever calls overlap, a live job has a live client, unless it was *)
(* given one that was live when looked at and deleted when written           *)
(* (job.service.ts: create, update; client.service.ts: softDelete).          *)
THEOREM JobsKeepClients == JobsSpec => []LiveJobHasLiveClient
<1>1. JobsInit => JobsTyped /\ CreatesAlone /\ OrphansKnown
  <2>1. JobsInit => OrphansKnown
    BY DEF JobsInit, OrphansKnown, LiveJobHasLiveClient, GivesLiveClient, LeavesOrphans, NoRow,
       NoJobCall
  <2>2. QED BY <2>1, JobsInitTyped
<1>2. JobsTyped /\ CreatesAlone /\ OrphansKnown /\ [JobsNext]_jobsVars =>
         JobsTyped' /\ CreatesAlone' /\ OrphansKnown'
  BY JobsTypedKept, CreatesAloneKept, OrphansKept
<1>3. OrphansKnown => LiveJobHasLiveClient
  BY DEF OrphansKnown
<1>4. QED BY <1>1, <1>2, <1>3, PTL DEF JobsSpec

-----------------------------------------------------------------------------
(* Jobs: what running calls owe the counter of a client, and how it changes  *)
(* when one call does.                                                       *)

Owes(r, c) == r.pc = "count" /\ Counted(r) = c
OwedBy(calls, c) ==
    MapThenSumSet(LAMBDA q : Delta(calls[q]), {q \in JobCallers : Owes(calls[q], c)})
Owed(r, c) == IF Owes(r, c) THEN Delta(r) ELSE 0

LEMMA DeltaIs == \A r : Delta(r) \in {-1, 0, 1}
BY DEF Delta, Open

LEMMA OwedBySums ==
    ASSUME NEW calls, NEW c, NEW g, Sums(g, [q \in JobCallers |-> Delta(calls[q])], JobCallers)
    PROVE  OwedBy(calls, c) = g[{q \in JobCallers : Owes(calls[q], c)}]
<1>1. PICK D \in SUBSET JobCallers : D = {q \in JobCallers : Owes(calls[q], c)}
  OBVIOUS
<1>2. PICK h : h = [q \in JobCallers |-> Delta(calls[q])]
  OBVIOUS
<1>3. \A s \in SUBSET D : s # {} => AnyOf(s) \in JobCallers
  BY AnyOfIn
<1>4. \A i : i = [s \in SUBSET D |->
                    IF s = {} THEN 0 ELSE Delta(calls[AnyOf(s)]) + i[s \ {AnyOf(s)}]]
               <=> Tally(i, h, D)
  <2>1. ASSUME NEW i
        PROVE  [s \in SUBSET D |->
                    IF s = {} THEN 0 ELSE Delta(calls[AnyOf(s)]) + i[s \ {AnyOf(s)}]]
               = [s \in SUBSET D |-> IF s = {} THEN 0 ELSE h[AnyOf(s)] + i[s \ {AnyOf(s)}]]
    <3>1. \A s \in SUBSET D : s # {} => h[AnyOf(s)] = Delta(calls[AnyOf(s)])
      BY <1>2, <1>3
    <3>2. QED BY <3>1
  <2>2. QED BY <2>1 DEF Tally
<1>5. \E i : Tally(i, h, D)
  BY <1>2, TallyExists
<1>6. PICK i : i = CHOOSE t : t = [s \in SUBSET D |->
                    IF s = {} THEN 0 ELSE Delta(calls[AnyOf(s)]) + t[s \ {AnyOf(s)}]]
  OBVIOUS
<1>7. Tally(i, h, D)
  BY <1>4, <1>5, <1>6
<1>8. OwedBy(calls, c) = i[D]
  BY <1>1, <1>6 DEF OwedBy, MapThenSumSet, MapThenFoldSet, AnyOf
<1>9. i[D] = g[D]
  BY <1>2, <1>7, TallyAgrees, JobsAssumption
<1>10. QED BY <1>1, <1>8, <1>9

LEMMA OwedChanges ==
    ASSUME NEW was, NEW calls, NEW q \in JobCallers, NEW c,
           \A p \in JobCallers : p # q => calls[p] = was[p]
    PROVE  /\ OwedBy(was, c) \in Int
           /\ OwedBy(calls, c) = OwedBy(was, c) - Owed(was[q], c) + Owed(calls[q], c)
<1>1. PICK h : h = [p \in JobCallers |-> Delta(was[p])]
  OBVIOUS
<1>2. PICK k : k = [p \in JobCallers |-> Delta(calls[p])]
  OBVIOUS
<1>3. h \in [JobCallers -> Int] /\ k \in [JobCallers -> Int]
  BY <1>1, <1>2, DeltaIs
<1>4. PICK g : Sums(g, h, JobCallers)
  BY <1>3, SumsExist, JobsAssumption
<1>5. PICK f : Sums(f, k, JobCallers)
  BY <1>3, SumsExist, JobsAssumption
<1>6. PICK D \in SUBSET JobCallers : D = {p \in JobCallers : Owes(was[p], c)}
  OBVIOUS
<1>7. PICK E \in SUBSET JobCallers : E = {p \in JobCallers : Owes(calls[p], c)}
  OBVIOUS
<1>8. OwedBy(was, c) = g[D] /\ OwedBy(calls, c) = f[E]
  <2>1. Sums(g, [p \in JobCallers |-> Delta(was[p])], JobCallers)
    BY <1>1, <1>4
  <2>2. Sums(f, [p \in JobCallers |-> Delta(calls[p])], JobCallers)
    BY <1>2, <1>5
  <2>3. OwedBy(was, c) = g[{p \in JobCallers : Owes(was[p], c)}]
    BY <2>1, OwedBySums
  <2>4. OwedBy(calls, c) = f[{p \in JobCallers : Owes(calls[p], c)}]
    BY <2>2, OwedBySums
  <2>5. QED BY <1>6, <1>7, <2>3, <2>4
<1>9. PICK R \in SUBSET JobCallers : R = D \ {q}
  OBVIOUS
<1>10. R = E \ {q}
  BY <1>6, <1>7, <1>9
<1>11. f[R] = g[R]
  <2>1. \A x \in R : k[x] = h[x]
    BY <1>1, <1>2, <1>9
  <2>2. QED BY <1>4, <1>5, <2>1, SumsAgree, JobsAssumption
<1>12. g[R] \in Int /\ g[D] \in Int
  BY <1>4 DEF Sums
<1>13. g[D] = g[R] + Owed(was[q], c)
  <2>1. CASE q \in D
    <3>1. g[D] = h[q] + g[D \ {q}]
      BY <1>4, <2>1 DEF Sums
    <3>2. h[q] = Delta(was[q]) /\ Owed(was[q], c) = Delta(was[q])
      BY <1>1, <1>6, <2>1 DEF Owed
    <3>3. PICK a \in Int, b \in Int : a = g[R] /\ b = Delta(was[q])
      BY <1>12, DeltaIs
    <3>4. QED BY <1>9, <3>1, <3>2, <3>3
  <2>2. CASE q \notin D
    <3>1. R = D /\ Owed(was[q], c) = 0
      BY <1>6, <1>9, <2>2 DEF Owed
    <3>2. QED BY <1>12, <3>1
  <2>3. QED BY <2>1, <2>2
<1>14. f[E] = f[R] + Owed(calls[q], c)
  <2>1. CASE q \in E
    <3>1. f[E] = k[q] + f[E \ {q}]
      BY <1>5, <2>1 DEF Sums
    <3>2. k[q] = Delta(calls[q]) /\ Owed(calls[q], c) = Delta(calls[q])
      BY <1>2, <1>7, <2>1 DEF Owed
    <3>3. PICK a \in Int, b \in Int : a = f[R] /\ b = Delta(calls[q])
      BY <1>11, <1>12, DeltaIs
    <3>4. QED BY <1>10, <3>1, <3>2, <3>3
  <2>2. CASE q \notin E
    <3>1. R = E /\ Owed(calls[q], c) = 0
      BY <1>7, <1>10, <2>2 DEF Owed
    <3>2. QED BY <1>11, <1>12, <3>1
  <2>3. QED BY <2>1, <2>2
<1>15. Owed(was[q], c) \in Int /\ Owed(calls[q], c) \in Int
  BY DeltaIs DEF Owed
<1>16. QED BY <1>8, <1>11, <1>12, <1>13, <1>14, <1>15

LEMMA NothingOwed ==
    ASSUME NEW calls, NEW c, \A q \in JobCallers : calls[q].pc # "count"
    PROVE  OwedBy(calls, c) = 0
<1>1. PICK h : h = [p \in JobCallers |-> Delta(calls[p])]
  OBVIOUS
<1>2. h \in [JobCallers -> Int]
  BY <1>1, DeltaIs
<1>3. PICK g : Sums(g, h, JobCallers)
  BY <1>2, SumsExist, JobsAssumption
<1>4. {p \in JobCallers : Owes(calls[p], c)} = {}
  BY DEF Owes
<1>5. OwedBy(calls, c) = g[{}]
  BY <1>1, <1>3, <1>4, OwedBySums
<1>6. QED BY <1>3, <1>5 DEF Sums

-----------------------------------------------------------------------------
(* Jobs: the counter.  A call past its first await read a live row, and a    *)
(* change of status gives no client.                                         *)

ReadsLive(r) == r.pc \in {"client", "write"} =>
    /\ r.op # "create" => r.seen.row = "live"
    /\ r.op = "changeStatus" => r.client = Keep

JobsCounted ==
    /\ ActiveCountsOpenJobs
    /\ \A q \in JobCallers : ReadsLive(jobCall[q])

CountsAgree == \A c \in Clients \ miscounted :
    client[c].active + OwedBy(jobCall, c) = Cardinality(OpenJobs(c))

LEMMA CountsByOwed == ActiveCountsOpenJobs <=> CountsAgree
BY DEF CountsAgree, ActiveCountsOpenJobs, OwedBy, Owing, Owes

LEMMA CountsByOwedNext == CountsAgree' => ActiveCountsOpenJobs'
BY CountsByOwed, PTL

LEMMA OpenJobsFinite == \A c : IsFiniteSet(OpenJobs(c)) /\ Cardinality(OpenJobs(c)) \in Nat
<1>1. \A c : OpenJobs(c) \in SUBSET JobIds
  BY DEF OpenJobs
<1>2. QED BY <1>1, FS_Subset, FS_CardinalityType, JobsAssumption

(* One call changes what it owes a client and, by as much, the counter or    *)
(* the open jobs.                                                            *)
LEMMA CounterSteps ==
    ASSUME JobsTyped, NEW q \in JobCallers, NEW c \in Clients \ miscounted, NEW n \in Int,
           ActiveCountsOpenJobs,
           \A p \in JobCallers : p # q => jobCall'[p] = jobCall[p],
           Cardinality(OpenJobs(c))' = Cardinality(OpenJobs(c)) + n,
           client'[c].active + Owed(jobCall'[q], c)
              = client[c].active + Owed(jobCall[q], c) + n,
           client'[c].active \in Int
    PROVE  client'[c].active + OwedBy(jobCall', c) = Cardinality(OpenJobs(c))'
<1>1. PICK was : was = jobCall
  OBVIOUS
<1>2. PICK calls : calls = jobCall'
  OBVIOUS
<1>3. /\ OwedBy(was, c) \in Int
      /\ OwedBy(calls, c) = OwedBy(was, c) - Owed(was[q], c) + Owed(calls[q], c)
  BY <1>1, <1>2, OwedChanges
<1>4. client[c].active + OwedBy(was, c) = Cardinality(OpenJobs(c))
  BY <1>1, CountsByOwed DEF CountsAgree
<1>5. /\ client[c].active \in Int /\ Owed(was[q], c) \in Int /\ Owed(calls[q], c) \in Int
  BY DeltaIs DEF Owed, JobsTyped, JobsTypeOK
<1>6. PICK a \in Int, b \in Int, o \in Int, w \in Int, v \in Int :
        /\ a = client[c].active /\ b = client'[c].active /\ o = OwedBy(was, c)
        /\ w = Owed(was[q], c) /\ v = Owed(calls[q], c)
  BY <1>3, <1>5
<1>7. Cardinality(OpenJobs(c)) = a + o
  BY <1>4, <1>6
<1>8. Cardinality(OpenJobs(c))' = (a + o) + n
  BY <1>7
<1>9. b + v = a + w + n
  BY <1>1, <1>2, <1>6
<1>10. OwedBy(calls, c) = o - w + v
  BY <1>3, <1>6
<1>11. b + (o - w + v) = (a + o) + n
  BY <1>9
<1>12. QED BY <1>2, <1>6, <1>8, <1>10, <1>11

(* A call begins, goes on or ends, and neither counters nor open jobs change. *)
LEMMA CountsStay ==
    ASSUME JobsTyped, JobsCounted, NEW q \in JobCallers,
           \A p \in JobCallers : p # q => jobCall'[p] = jobCall[p],
           miscounted \subseteq miscounted',
           \A c \in Clients \ miscounted' :
              /\ client'[c].active = client[c].active /\ OpenJobs(c)' = OpenJobs(c)
              /\ Owed(jobCall'[q], c) = Owed(jobCall[q], c),
           ReadsLive(jobCall'[q])
    PROVE  JobsCounted'
<1>1. ASSUME NEW c \in Clients \ miscounted'
      PROVE  client'[c].active + OwedBy(jobCall', c) = Cardinality(OpenJobs(c))'
  <2>1. client[c].active \in Int /\ Owed(jobCall[q], c) \in Int
    BY DeltaIs DEF Owed, JobsTyped, JobsTypeOK
  <2>2. Cardinality(OpenJobs(c))' = Cardinality(OpenJobs(c)) + 0
    BY <1>1, OpenJobsFinite
  <2>3. client'[c].active + Owed(jobCall'[q], c) = client[c].active + Owed(jobCall[q], c) + 0
    BY <1>1, <2>1
  <2>4. c \in Clients \ miscounted /\ client'[c].active \in Int
    BY <1>1, <2>1
  <2>5. QED BY <2>2, <2>3, <2>4, CounterSteps DEF JobsCounted
<1>2. ActiveCountsOpenJobs'
  BY <1>1, CountsByOwedNext DEF CountsAgree
<1>3. \A p \in JobCallers : ReadsLive(jobCall'[p])
  BY DEF JobsCounted, ReadsLive
<1>4. QED BY <1>2, <1>3 DEF JobsCounted, ReadsLive

LEMMA BeginCounts ==
    ASSUME JobsTyped, JobsCounted, NEW q \in JobCallers, NEW call, BeginJobCall(q, call),
           ReadsLive(call), call.pc # "count"
    PROVE  JobsCounted'
<1>1. /\ jobCall[q].pc = "idle" /\ jobCall'[q] = call
      /\ \A p \in JobCallers : p # q => jobCall'[p] = jobCall[p]
  BY DEF BeginJobCall, JobsTyped, JobsTypeOK
<1>2. UNCHANGED <<client, job, miscounted>>
  BY DEF BeginJobCall
<1>3. \A c : OpenJobs(c)' = OpenJobs(c)
  BY <1>2 DEF OpenJobs
<1>4. \A c : Owed(jobCall'[q], c) = Owed(jobCall[q], c)
  BY <1>1 DEF Owed, Owes
<1>5. QED BY <1>1, <1>2, <1>3, <1>4, CountsStay

(* What a write that nobody overtook does to the open jobs of a client whose *)
(* counter stays right is what the call computed from the row it read.       *)
LEMMA WriteOpens ==
    ASSUME JobsTyped, CreatesAlone, JobsCounted, NEW q \in JobCallers, WriteJob(q),
           NEW c \in Clients \ miscounted'
    PROVE  LET r == jobCall[q] IN
           /\ OpenJobs(c)' \ {r.job} = OpenJobs(c) \ {r.job}
           /\ Counted(r) # c => (r.job \in OpenJobs(c)' <=> r.job \in OpenJobs(c))
           /\ Counted(r) = c => /\ r.job \in OpenJobs(c) <=> WasOpen(r)
                                /\ r.job \in OpenJobs(c)' <=> IsNowOpen(r)
<1>1. PICK r \in JobCall : r = jobCall[q]
  BY DEF JobsTyped, JobsTypeOK
<1>2. PICK new : new = Written(r)
  OBVIOUS
<1>3. PICK old \in JobRow : old = job[r.job]
  BY <1>1, WriteJobWrites DEF JobsTyped, JobsTypeOK
<1>4. /\ r.job \in JobIds /\ new \in JobRow /\ new.client \in Clients
      /\ job'[r.job] = new /\ \A j \in JobIds : j # r.job => job'[j] = job[j]
  BY <1>1, <1>2, WriteJobWrites
<1>5. r.pc = "write" /\ JobCallFits(r) /\ ReadsLive(r)
  BY <1>1 DEF WriteJob, JobsTyped, JobsCounted
<1>6. OpenJobs(c)' \ {r.job} = OpenJobs(c) \ {r.job}
  BY <1>4 DEF OpenJobs
<1>7. /\ r.job \in OpenJobs(c) <=> old.row = "live" /\ old.client = c /\ old.status = "OPEN"
      /\ r.job \in OpenJobs(c)' <=> new.row = "live" /\ new.client = c /\ new.status = "OPEN"
  BY <1>3, <1>4 DEF OpenJobs
<1>8. \/ c \notin {old.client, new.client, Counted(r)}
      \/ ~StaleWrite(r) /\ ~Moves(r)
  BY <1>1, <1>2, <1>3 DEF WriteJob
<1>9. CASE c \notin {old.client, new.client, Counted(r)}
  BY <1>1, <1>6, <1>7, <1>9
<1>10. CASE ~StaleWrite(r) /\ ~Moves(r)
  <2>1. old.row = r.seen.row /\ old.status = r.seen.status /\ old.client = r.seen.client
    BY <1>3, <1>10 DEF StaleWrite
  <2>2. CASE r.op = "create"
    <3>1. old = NoRow
      BY <1>1, <1>3, <1>4, <1>5, <2>2 DEF CreatesAlone
    <3>2. r.client \in Clients /\ r.seen = NoRow
      BY <1>5, <2>2 DEF JobCallFits
    <3>3. new.row = "live" /\ new.client = r.client /\ new.status = Given(r.status, "OPEN")
      BY <1>2, <1>3, <2>2, <3>1, <3>2, JobsAssumption DEF Written, Given, NoRow
    <3>4. Counted(r) = r.client /\ ~WasOpen(r) /\ (IsNowOpen(r) <=> new.status = "OPEN")
      BY <2>2, <3>2, <3>3 DEF Counted, WasOpen, IsNowOpen, NoRow
    <3>5. r.job \notin OpenJobs(c)
      BY <1>7, <3>1 DEF NoRow
    <3>6. QED BY <1>1, <1>6, <1>7, <3>3, <3>4, <3>5
  <2>3. CASE r.op = "delete"
    <3>1. new = [old EXCEPT !.row = "deleted"]
      BY <1>2, <1>3, <2>3 DEF Written
    <3>2. new.row = "deleted"
      BY <3>1 DEF JobRow
    <3>3. Counted(r) = old.client /\ ~IsNowOpen(r) /\ (WasOpen(r) <=> old.status = "OPEN")
      BY <2>1, <2>3 DEF Counted, WasOpen, IsNowOpen
    <3>4. old.row = "live"
      BY <1>5, <2>1, <2>3 DEF ReadsLive
    <3>5. QED BY <1>1, <1>6, <1>7, <3>2, <3>3, <3>4
  <2>4. CASE r.op \notin {"create", "delete"}
    <3>1. new.row = old.row /\ new.client = Given(r.client, old.client)
             /\ new.status = Given(r.status, old.status)
      BY <1>2, <1>3, <2>4 DEF Written
    <3>2. new.client = old.client
      BY <1>5, <1>10, <2>1, <2>4, <3>1 DEF Moves, ReadsLive, JobCall, JobOps, Given, JobCallFits
    <3>3. /\ Counted(r) = old.client /\ (WasOpen(r) <=> old.status = "OPEN")
          /\ IsNowOpen(r) <=> new.status = "OPEN"
      BY <2>1, <2>4, <3>1 DEF Counted, WasOpen, IsNowOpen
    <3>4. old.row = "live" /\ new.row = "live"
      BY <1>5, <2>1, <2>4, <3>1 DEF ReadsLive
    <3>5. QED BY <1>1, <1>6, <1>7, <3>2, <3>3, <3>4
  <2>5. QED BY <2>2, <2>3, <2>4
<1>11. QED BY <1>8, <1>9, <1>10

LEMMA OneMore ==
    ASSUME NEW A, NEW B, NEW x, IsFiniteSet(A), IsFiniteSet(B), A \ {x} = B \ {x}
    PROVE  Cardinality(B) = Cardinality(A) + Open(x \in B) - Open(x \in A)
<1>1. Cardinality(A) \in Nat /\ Cardinality(B) \in Nat
  BY FS_CardinalityType
<1>2. CASE x \in A /\ x \notin B
  <2>1. B = A \ {x}
    BY <1>2
  <2>2. Cardinality(B) = Cardinality(A) - 1
    BY <1>2, <2>1, FS_RemoveElement
  <2>3. QED BY <1>1, <1>2, <2>2 DEF Open
<1>3. CASE x \notin A /\ x \in B
  <2>1. A = B \ {x}
    BY <1>3
  <2>2. Cardinality(A) = Cardinality(B) - 1
    BY <1>3, <2>1, FS_RemoveElement
  <2>3. QED BY <1>1, <1>3, <2>2 DEF Open
<1>4. CASE x \in A <=> x \in B
  <2>1. A = B
    BY <1>4
  <2>2. QED BY <1>1, <2>1 DEF Open
<1>5. QED BY <1>2, <1>3, <1>4

LEMMA WriteCounts ==
    ASSUME JobsTyped, CreatesAlone, JobsCounted, NEW q \in JobCallers, WriteJob(q)
    PROVE  JobsCounted'
<1>1. PICK r \in JobCall : r = jobCall[q]
  BY DEF JobsTyped, JobsTypeOK
<1>2. /\ r.pc = "write" /\ UNCHANGED client /\ miscounted \subseteq miscounted'
      /\ \A p \in JobCallers : p # q => jobCall'[p] = jobCall[p]
      /\ jobCall'[q] = IF Delta(r) = 0 THEN NoJobCall ELSE [r EXCEPT !.pc = "count"]
  BY <1>1 DEF WriteJob, JobsTyped, JobsTypeOK
<1>3. PICK call : call = jobCall'[q]
  OBVIOUS
<1>4. call.pc = IF Delta(r) = 0 THEN "idle" ELSE "count"
  BY <1>2, <1>3 DEF JobCall, NoJobCall
<1>5. Delta(r) # 0 => call.op = r.op /\ call.seen = r.seen /\ call.client = r.client
                         /\ call.status = r.status
  BY <1>2, <1>3 DEF JobCall
<1>6. Delta(r) # 0 => Delta(call) = Delta(r) /\ Counted(call) = Counted(r)
  BY <1>5 DEF Delta, IsNowOpen, WasOpen, Counted
<1>7. ASSUME NEW c \in Clients \ miscounted'
      PROVE  client'[c].active + OwedBy(jobCall', c) = Cardinality(OpenJobs(c))'
  <2>1. PICK n \in Int : n = IF Counted(r) = c THEN Delta(r) ELSE 0
    BY DeltaIs
  <2>2. Owed(r, c) = 0 /\ Owed(call, c) = n
    BY <1>2, <1>4, <1>6, <2>1 DEF Owed, Owes
  <2>3. /\ OpenJobs(c)' \ {r.job} = OpenJobs(c) \ {r.job}
        /\ Counted(r) # c => (r.job \in OpenJobs(c)' <=> r.job \in OpenJobs(c))
        /\ Counted(r) = c => /\ r.job \in OpenJobs(c) <=> WasOpen(r)
                             /\ r.job \in OpenJobs(c)' <=> IsNowOpen(r)
    BY <1>1, <1>7, WriteOpens
  <2>4. PICK A \in SUBSET JobIds, B \in SUBSET JobIds : A = OpenJobs(c) /\ B = OpenJobs(c)'
    BY DEF OpenJobs
  <2>5. Cardinality(B) = Cardinality(A) + Open(r.job \in B) - Open(r.job \in A)
    BY <2>3, <2>4, OneMore, FS_Subset, JobsAssumption
  <2>6. Open(r.job \in B) - Open(r.job \in A) = n
    BY <2>1, <2>3, <2>4 DEF Open, Delta
  <2>7. Cardinality(A) \in Nat
    BY <2>4, OpenJobsFinite
  <2>8. Cardinality(OpenJobs(c))' = Cardinality(OpenJobs(c)) + n
    <3>1. PICK o \in {0, 1}, w \in {0, 1} : o = Open(r.job \in B) /\ w = Open(r.job \in A)
      BY DEF Open
    <3>2. Cardinality(B) = Cardinality(A) + n
      BY <2>5, <2>6, <2>7, <3>1
    <3>3. QED BY <2>4, <3>2
  <2>9. client[c].active \in Int /\ client'[c].active = client[c].active
    BY <1>2 DEF JobsTyped, JobsTypeOK
  <2>10. client'[c].active + Owed(jobCall'[q], c) = client[c].active + Owed(jobCall[q], c) + n
    BY <1>1, <1>3, <2>2, <2>9
  <2>11. c \in Clients \ miscounted
    BY <1>2, <1>7
  <2>12. QED BY <1>2, <2>8, <2>9, <2>10, <2>11, CounterSteps DEF JobsCounted
<1>8. ActiveCountsOpenJobs'
  BY <1>7, CountsByOwedNext DEF CountsAgree
<1>9. \A p \in JobCallers : ReadsLive(jobCall'[p])
  BY <1>2, <1>3, <1>4 DEF JobsCounted, ReadsLive
<1>10. QED BY <1>8, <1>9 DEF JobsCounted, ReadsLive

LEMMA CountCounts ==
    ASSUME JobsTyped, JobsCounted, NEW q \in JobCallers, CountJob(q)
    PROVE  JobsCounted'
<1>1. PICK r \in JobCall : r = jobCall[q]
  BY DEF JobsTyped, JobsTypeOK
<1>2. /\ r.pc = "count" /\ UNCHANGED <<job, miscounted>>
      /\ client' = [client EXCEPT ![Counted(r)].active = @ + Delta(r)]
      /\ jobCall'[q] = NoJobCall
      /\ \A p \in JobCallers : p # q => jobCall'[p] = jobCall[p]
  BY <1>1 DEF CountJob, JobsTyped, JobsTypeOK
<1>3. jobCall'[q].pc = "idle"
  BY <1>2 DEF NoJobCall
<1>4. ASSUME NEW c \in Clients \ miscounted'
      PROVE  client'[c].active + OwedBy(jobCall', c) = Cardinality(OpenJobs(c))'
  <2>1. OpenJobs(c)' = OpenJobs(c)
    BY <1>2 DEF OpenJobs
  <2>2. Cardinality(OpenJobs(c))' = Cardinality(OpenJobs(c)) + 0
    BY <2>1, OpenJobsFinite
  <2>3. Owed(jobCall'[q], c) = 0
    BY <1>3 DEF Owed, Owes
  <2>4. PICK a \in Int, d \in Int : a = client[c].active /\ d = Delta(r)
    BY DeltaIs DEF JobsTyped, JobsTypeOK
  <2>5. client'[c].active = a + Owed(r, c)
    <3>1. CASE Counted(r) = c
      <4>1. client'[c].active = client[c].active + Delta(r)
        BY <1>2, <1>4, <3>1 DEF JobsTyped, JobsTypeOK
      <4>2. QED BY <1>2, <2>4, <3>1, <4>1 DEF Owed, Owes
    <3>2. CASE Counted(r) # c
      <4>1. client'[c] = client[c]
        BY <1>2, <1>4, <3>2 DEF JobsTyped, JobsTypeOK
      <4>2. QED BY <2>4, <3>2, <4>1 DEF Owed, Owes
    <3>3. QED BY <3>1, <3>2
  <2>6. Owed(r, c) \in Int
    BY DeltaIs DEF Owed
  <2>7. /\ client'[c].active \in Int
        /\ client'[c].active + Owed(jobCall'[q], c) = client[c].active + Owed(jobCall[q], c) + 0
    BY <1>1, <2>3, <2>4, <2>5, <2>6
  <2>8. c \in Clients \ miscounted
    BY <1>2, <1>4
  <2>9. QED BY <1>2, <2>2, <2>7, <2>8, CounterSteps DEF JobsCounted
<1>5. ActiveCountsOpenJobs'
  BY <1>4, CountsByOwedNext DEF CountsAgree
<1>6. \A p \in JobCallers : ReadsLive(jobCall'[p])
  BY <1>2, <1>3 DEF JobsCounted, ReadsLive
<1>7. QED BY <1>5, <1>6 DEF JobsCounted, ReadsLive

LEMMA JobsCountedKept ==
    ASSUME JobsTyped, CreatesAlone, JobsCounted, [JobsNext]_jobsVars
    PROVE  JobsCounted'
<1>1. CASE UNCHANGED jobsVars
  <2>1. client' = client /\ job' = job /\ jobCall' = jobCall /\ miscounted' = miscounted
    BY <1>1 DEF jobsVars
  <2>2. PICK calls : calls = jobCall
    OBVIOUS
  <2>3. ASSUME NEW c \in Clients \ miscounted'
        PROVE  client'[c].active + OwedBy(jobCall', c) = Cardinality(OpenJobs(c))'
    <3>1. OpenJobs(c)' = OpenJobs(c)
      BY <2>1 DEF OpenJobs
    <3>2. client[c].active + OwedBy(jobCall, c) = Cardinality(OpenJobs(c))
      BY <2>1, <2>3, CountsByOwed DEF CountsAgree, JobsCounted
    <3>3. QED BY <2>1, <3>1, <3>2
  <2>4. ActiveCountsOpenJobs'
    BY <2>3, CountsByOwedNext DEF CountsAgree
  <2>5. QED BY <2>1, <2>4 DEF JobsCounted, ReadsLive
<1>2. ASSUME NEW q \in JobCallers, NEW j \in JobIds, NEW c \in Clients, NEW s \in Statuses,
             CreateJob(q, j, c, s)
      PROVE  JobsCounted'
  <2>1. PICK call : call = [pc |-> "write", op |-> "create", job |-> j, seen |-> NoRow,
                            client |-> c, status |-> s, alive |-> client[c].row = "live"]
    OBVIOUS
  <2>2. BeginJobCall(q, call) /\ ReadsLive(call) /\ call.pc # "count"
    BY <1>2, <2>1 DEF CreateJob, ReadsLive
  <2>3. QED BY <2>2, BeginCounts
<1>3. ASSUME NEW q \in JobCallers, NEW j \in JobIds, NEW c \in Clients \cup {Keep},
             NEW s \in Statuses \cup {Keep}, UpdateJob(q, j, c, s)
      PROVE  JobsCounted'
  <2>1. PICK pc : pc = IF c \in {Keep, job[j].client} THEN "write" ELSE "client"
    OBVIOUS
  <2>2. PICK alive \in BOOLEAN : alive = (c = job[j].client /\ client[c].row = "live")
    OBVIOUS
  <2>3. PICK call : call = [pc |-> pc, op |-> "update", job |-> j, seen |-> job[j],
                            client |-> c, status |-> s, alive |-> alive]
    OBVIOUS
  <2>4. BeginJobCall(q, call) /\ job[j].row = "live"
    BY <1>3, <2>1, <2>2, <2>3 DEF UpdateJob
  <2>5. ReadsLive(call) /\ call.pc # "count"
    BY <2>1, <2>3, <2>4 DEF ReadsLive
  <2>6. QED BY <2>4, <2>5, BeginCounts
<1>4. ASSUME NEW q \in JobCallers, NEW j \in JobIds, DeleteJob(q, j)
      PROVE  JobsCounted'
  <2>1. PICK call : call = [NoJobCall EXCEPT !.pc = "write", !.op = "delete", !.job = j,
                                             !.seen = job[j]]
    OBVIOUS
  <2>2. BeginJobCall(q, call) /\ job[j].row = "live"
    BY <1>4, <2>1 DEF DeleteJob
  <2>3. ReadsLive(call) /\ call.pc # "count"
    BY <2>1, <2>2 DEF ReadsLive, NoJobCall
  <2>4. QED BY <2>2, <2>3, BeginCounts
<1>5. ASSUME NEW q \in JobCallers, NEW j \in JobIds, NEW s \in Statuses, ChangeStatus(q, j, s)
      PROVE  JobsCounted'
  <2>1. PICK call : call = [NoJobCall EXCEPT !.pc = "write", !.op = "changeStatus", !.job = j,
                                             !.seen = job[j], !.status = s]
    OBVIOUS
  <2>2. BeginJobCall(q, call) /\ job[j].row = "live"
    BY <1>5, <2>1 DEF ChangeStatus
  <2>3. ReadsLive(call) /\ call.pc # "count"
    BY <2>1, <2>2 DEF ReadsLive, NoJobCall
  <2>4. QED BY <2>2, <2>3, BeginCounts
<1>6. ASSUME NEW q \in JobCallers, NEW c \in Clients, DeleteClient(q, c)
      PROVE  JobsCounted'
  <2>1. PICK call : call = [NoJobCall EXCEPT !.pc = "jobs", !.op = "deleteClient", !.client = c]
    OBVIOUS
  <2>2. BeginJobCall(q, call)
    BY <1>6, <2>1 DEF DeleteClient
  <2>3. ReadsLive(call) /\ call.pc # "count"
    BY <2>1 DEF ReadsLive, NoJobCall
  <2>4. QED BY <2>2, <2>3, BeginCounts
<1>7. ASSUME NEW q \in JobCallers, CheckNewClient(q) PROVE JobsCounted'
  <2>1. PICK r \in JobCall : r = jobCall[q]
    BY DEF JobsTyped, JobsTypeOK
  <2>2. /\ r.pc = "client" /\ ReadsLive(r) /\ UNCHANGED <<client, job, miscounted>>
        /\ jobCall' = [jobCall EXCEPT ![q].pc = "write",
                                      ![q].alive = client[r.client].row = "live"]
    BY <1>7, <2>1 DEF CheckNewClient, JobsCounted
  <2>3. /\ jobCall'[q].pc = "write" /\ jobCall'[q].op = r.op /\ jobCall'[q].seen = r.seen
        /\ jobCall'[q].client = r.client
        /\ \A p \in JobCallers : p # q => jobCall'[p] = jobCall[p]
    BY <2>1, <2>2 DEF JobsTyped, JobsTypeOK, JobCall
  <2>4. ReadsLive(jobCall'[q])
    BY <2>2, <2>3 DEF ReadsLive
  <2>5. \A c : OpenJobs(c)' = OpenJobs(c)
    BY <2>2 DEF OpenJobs
  <2>6. \A c : Owed(jobCall'[q], c) = Owed(jobCall[q], c)
    BY <2>1, <2>2, <2>3 DEF Owed, Owes
  <2>7. QED BY <2>2, <2>3, <2>4, <2>5, <2>6, CountsStay
<1>8. ASSUME NEW q \in JobCallers, DeleteJobsOfClient(q) PROVE JobsCounted'
  <2>1. PICK d : d = jobCall[q].client
    OBVIOUS
  <2>2. /\ jobCall[q].pc = "jobs" /\ jobCall'[q].pc = "row"
        /\ \A p \in JobCallers : p # q => jobCall'[p] = jobCall[p]
        /\ UNCHANGED client /\ miscounted' = miscounted \cup {d}
    BY <1>8, <2>1 DEF DeleteJobsOfClient, JobsTyped, JobsTypeOK, JobCall
  <2>3. ASSUME NEW c, c # d PROVE OpenJobs(c)' = OpenJobs(c)
    <3>1. ASSUME NEW j \in JobIds PROVE j \in OpenJobs(c)' <=> j \in OpenJobs(c)
      <4>1. CASE job[j].row = "live" /\ job[j].client = d
        <5>1. job'[j] = [job[j] EXCEPT !.row = "deleted"] /\ job[j] \in JobRow
          BY <1>8, <2>1, <4>1 DEF DeleteJobsOfClient, JobsTyped, JobsTypeOK
        <5>2. job'[j].row = "deleted"
          BY <5>1 DEF JobRow
        <5>3. QED BY <2>3, <4>1, <5>2 DEF OpenJobs
      <4>2. CASE ~(job[j].row = "live" /\ job[j].client = d)
        <5>1. job'[j] = job[j]
          BY <1>8, <2>1, <4>2 DEF DeleteJobsOfClient
        <5>2. QED BY <5>1 DEF OpenJobs
      <4>3. QED BY <4>1, <4>2
    <3>2. QED BY <3>1 DEF OpenJobs
  <2>4. \A c : Owed(jobCall'[q], c) = Owed(jobCall[q], c)
    BY <2>2 DEF Owed, Owes
  <2>5. ReadsLive(jobCall'[q])
    BY <2>2 DEF ReadsLive
  <2>6. QED BY <2>2, <2>3, <2>4, <2>5, CountsStay
<1>9. ASSUME NEW q \in JobCallers, DeleteClientRow(q) PROVE JobsCounted'
  <2>1. /\ jobCall[q].pc = "row" /\ jobCall'[q].pc = "idle"
        /\ \A p \in JobCallers : p # q => jobCall'[p] = jobCall[p]
        /\ UNCHANGED <<job, miscounted>>
    BY <1>9 DEF DeleteClientRow, JobsTyped, JobsTypeOK, NoJobCall
  <2>2. \A c \in Clients : client'[c].active = client[c].active
    BY <1>9 DEF DeleteClientRow, JobsTyped, JobsTypeOK
  <2>3. \A c : OpenJobs(c)' = OpenJobs(c)
    BY <2>1 DEF OpenJobs
  <2>4. \A c : Owed(jobCall'[q], c) = Owed(jobCall[q], c)
    BY <2>1 DEF Owed, Owes
  <2>5. ReadsLive(jobCall'[q])
    BY <2>1 DEF ReadsLive
  <2>6. QED BY <2>1, <2>2, <2>3, <2>4, <2>5, CountsStay
<1>10. ASSUME NEW q \in JobCallers, JobCallStops(q) PROVE JobsCounted'
  <2>1. PICK r \in JobCall : r = jobCall[q]
    BY DEF JobsTyped, JobsTypeOK
  <2>2. /\ jobCall'[q].pc = "idle" /\ UNCHANGED <<client, job>>
        /\ \A p \in JobCallers : p # q => jobCall'[p] = jobCall[p]
        /\ miscounted \subseteq miscounted'
        /\ r.pc = "count" => Counted(r) \in miscounted'
    BY <1>10, <2>1 DEF JobCallStops, JobsTyped, JobsTypeOK, NoJobCall
  <2>3. \A c : OpenJobs(c)' = OpenJobs(c)
    BY <2>2 DEF OpenJobs
  <2>4. \A c \in Clients \ miscounted' : Owed(jobCall'[q], c) = Owed(jobCall[q], c)
    BY <2>1, <2>2 DEF Owed, Owes
  <2>5. ReadsLive(jobCall'[q])
    BY <2>2 DEF ReadsLive
  <2>6. QED BY <2>2, <2>3, <2>4, <2>5, CountsStay
<1>11. QED
  BY <1>1, <1>2, <1>3, <1>4, <1>5, <1>6, <1>7, <1>8, <1>9, <1>10, WriteCounts, CountCounts
  DEF JobsNext

LEMMA CountersBegin == JobsInit => JobsCounted
<1> SUFFICES ASSUME JobsInit PROVE JobsCounted
  OBVIOUS
<1>1. \A q \in JobCallers : jobCall[q].pc = "idle"
  BY DEF JobsInit, NoJobCall
<1>2. ASSUME NEW c \in Clients
      PROVE  client[c].active + OwedBy(jobCall, c) = Cardinality(OpenJobs(c))
  <2>1. OpenJobs(c) = {}
    BY DEF JobsInit, OpenJobs, NoRow
  <2>2. PICK calls : calls = jobCall
    OBVIOUS
  <2>3. OwedBy(calls, c) = 0
    BY <1>1, <2>2, NothingOwed
  <2>4. client[c].active = 0
    BY DEF JobsInit
  <2>5. QED BY <2>1, <2>2, <2>3, <2>4, FS_EmptySet
<1>3. QED BY <1>1, <1>2, CountsByOwed DEF CountsAgree, JobsCounted, ReadsLive

(* Jobs: whatever calls overlap, the counter of a client and what running    *)
(* calls still owe it add up to its open jobs, unless a call overwrote a row *)
(* that had changed, moved a job, stopped before the counter or began to     *)
(* delete the client (job.service.ts: create, update, softDelete,            *)
(* changeStatus).                                                            *)
THEOREM CountersOfClients == JobsSpec => []ActiveCountsOpenJobs
<1>1. JobsInit => JobsTyped /\ CreatesAlone /\ JobsCounted
  BY JobsInitTyped, CountersBegin
<1>2. JobsTyped /\ CreatesAlone /\ JobsCounted /\ [JobsNext]_jobsVars =>
         JobsTyped' /\ CreatesAlone' /\ JobsCounted'
  BY JobsTypedKept, CreatesAloneKept, JobsCountedKept
<1>3. JobsCounted => ActiveCountsOpenJobs
  BY DEF JobsCounted
<1>4. QED BY <1>1, <1>2, <1>3, PTL DEF JobsSpec

-----------------------------------------------------------------------------
(* Applications: types.  A call past the choice of its application has one;  *)
(* one that counts has a counter.                                            *)

AppRow == [row : BOOLEAN, maxStage : StageTypes, isActive : BOOLEAN]

ApplicationsTyped ==
    /\ ApplicationsTypeOK
    /\ \A q \in StageCallers : LET r == stageCall[q] IN
          /\ r.pc # "idle" => r.app \in Apps
          /\ r.pc = "count" => CounterOf(r) \in Counters
          /\ r.pc = "cache" => r.op = "advance"

LEMMA AppsAre == \A a \in Apps : a[2] \in PostedJobs
BY DEF Apps

LEMMA StageCallBegins ==
    ASSUME ApplicationsTyped, NEW q \in StageCallers, NEW call \in StageCall,
           BeginStageCall(q, call), call.pc = "log", call.app \in Apps
    PROVE  /\ stageCall' \in [StageCallers -> StageCall] /\ stageCall'[q] = call
           /\ \A p \in StageCallers : p # q => stageCall'[p] = stageCall[p]
           /\ stageCalls' \in 0..MaxStageCalls
           /\ \A p \in StageCallers : LET r == stageCall'[p] IN
                 /\ r.pc # "idle" => r.app \in Apps
                 /\ r.pc = "count" => CounterOf(r) \in Counters
                 /\ r.pc = "cache" => r.op = "advance"
<1>1. stageCalls < MaxStageCalls /\ stageCalls' = stageCalls + 1
         /\ stageCall' = [stageCall EXCEPT ![q] = call]
  BY DEF BeginStageCall
<1>2. stageCalls' \in 0..MaxStageCalls
  BY <1>1, ApplicationsAssumption DEF ApplicationsTyped, ApplicationsTypeOK
<1>3. /\ stageCall' \in [StageCallers -> StageCall] /\ stageCall'[q] = call
      /\ \A p \in StageCallers : p # q => stageCall'[p] = stageCall[p]
  BY <1>1 DEF ApplicationsTyped, ApplicationsTypeOK
<1>4. QED BY <1>2, <1>3 DEF ApplicationsTyped

(* What a running call turns into. *)
LEMMA StageCallBecomes ==
    ASSUME ApplicationsTyped, NEW q \in StageCallers, NEW call \in StageCall,
           stageCall' = [stageCall EXCEPT ![q] = call],
           call.pc # "idle" => call.app \in Apps,
           call.pc = "count" => CounterOf(call) \in Counters,
           call.pc = "cache" => call.op = "advance"
    PROVE  /\ stageCall' \in [StageCallers -> StageCall] /\ stageCall'[q] = call
           /\ \A p \in StageCallers : p # q => stageCall'[p] = stageCall[p]
           /\ \A p \in StageCallers : LET r == stageCall'[p] IN
                 /\ r.pc # "idle" => r.app \in Apps
                 /\ r.pc = "count" => CounterOf(r) \in Counters
                 /\ r.pc = "cache" => r.op = "advance"
<1>1. /\ stageCall' \in [StageCallers -> StageCall] /\ stageCall'[q] = call
      /\ \A p \in StageCallers : p # q => stageCall'[p] = stageCall[p]
  BY DEF ApplicationsTyped, ApplicationsTypeOK
<1>2. QED BY <1>1 DEF ApplicationsTyped

LEMMA IdleStageCall == NoStageCall \in StageCall /\ NoStageCall.pc = "idle"
BY DEF NoStageCall, StageCall, StageTypes

LEMMA CreateApplicationSteps ==
    ASSUME ApplicationsTyped, NEW q \in StageCallers, NEW a \in Apps, CreateApplication(q, a)
    PROVE  /\ ApplicationsTyped'
           /\ stageCall'[q].pc = "log" /\ stageCall'[q].op = "create" /\ stageCall'[q].app = a
           /\ \A p \in StageCallers : p # q => stageCall'[p] = stageCall[p]
           /\ application'[a].row
           /\ \A b \in Apps : /\ b # a => application'[b] = application[b]
                              /\ application'[b].maxStage = application[b].maxStage
                              /\ application'[b].isActive = application[b].isActive
<1>1. PICK call : call = [NoStageCall EXCEPT !.pc = "log", !.app = a]
  OBVIOUS
<1>2. call \in StageCall /\ call.pc = "log" /\ call.app = a /\ call.op = "create"
  BY <1>1 DEF NoStageCall, StageCall, StageTypes
<1>3. BeginStageCall(q, call)
  BY <1>1 DEF CreateApplication
<1>4. application \in [Apps -> AppRow]
  BY DEF ApplicationsTyped, ApplicationsTypeOK, AppRow
<1>5. application' = [application EXCEPT ![a].row = TRUE]
  BY DEF CreateApplication
<1>6. application'[a] = [application[a] EXCEPT !.row = TRUE]
         /\ \A b \in Apps : b # a => application'[b] = application[b]
  BY <1>4, <1>5
<1>7. /\ application'[a] \in AppRow /\ application'[a].maxStage = application[a].maxStage
      /\ application'[a].isActive = application[a].isActive /\ application'[a].row
  BY <1>4, <1>6 DEF AppRow
<1>8. application' \in [Apps -> AppRow]
  BY <1>4, <1>5, <1>6, <1>7
<1>9. ApplicationsTyped'
  BY <1>2, <1>3, <1>8, StageCallBegins
  DEF CreateApplication, ApplicationsTyped, ApplicationsTypeOK, AppRow, CounterOf
<1>10. QED BY <1>2, <1>3, <1>6, <1>7, <1>9, StageCallBegins

LEMMA AdvanceStageSteps ==
    ASSUME ApplicationsTyped, NEW q \in StageCallers, NEW a \in Apps, NEW s \in StageTypes,
           AdvanceStage(q, a, s)
    PROVE  /\ ApplicationsTyped'
           /\ stageCall'[q] = [pc |-> "log", op |-> "advance", app |-> a, stage |-> s,
                               seen |-> application[a].maxStage]
           /\ \A p \in StageCallers : p # q => stageCall'[p] = stageCall[p]
<1>1. PICK call : call = [pc |-> "log", op |-> "advance", app |-> a, stage |-> s,
                          seen |-> application[a].maxStage]
  OBVIOUS
<1>2. application[a].maxStage \in StageTypes
  BY DEF ApplicationsTyped, ApplicationsTypeOK
<1>3. call \in StageCall /\ call.pc = "log" /\ call.app \in Apps
  BY <1>1, <1>2 DEF StageCall
<1>4. BeginStageCall(q, call)
  BY <1>1 DEF AdvanceStage
<1>5. ApplicationsTyped'
  BY <1>3, <1>4, StageCallBegins DEF AdvanceStage, ApplicationsTyped, ApplicationsTypeOK, CounterOf
<1>6. QED BY <1>1, <1>3, <1>4, <1>5, StageCallBegins

LEMMA LogStageSteps ==
    ASSUME ApplicationsTyped, NEW q \in StageCallers, NEW r, r = stageCall[q], LogStage(q)
    PROVE  /\ ApplicationsTyped'
           /\ stageLog'[r.app][r.stage] = stageLog[r.app][r.stage] + 1
           /\ \A a \in Apps : \A s \in StageTypes : <<a, s>> # <<r.app, r.stage>> =>
                 stageLog'[a][s] = stageLog[a][s]
           /\ stageCall'[q].pc = IF r.op = "create" THEN "count" ELSE "cache"
           /\ stageCall'[q].op = r.op /\ stageCall'[q].app = r.app
           /\ stageCall'[q].stage = r.stage /\ stageCall'[q].seen = r.seen
           /\ \A p \in StageCallers : p # q => stageCall'[p] = stageCall[p]
<1>1. r \in StageCall /\ r.pc = "log" /\ r.app \in Apps /\ r.stage \in StageTypes
  BY DEF LogStage, ApplicationsTyped, ApplicationsTypeOK, StageCall
<1>2. PICK call : call = [r EXCEPT !.pc = IF r.op = "create" THEN "count" ELSE "cache"]
  OBVIOUS
<1>3. /\ call \in StageCall /\ call.pc = (IF r.op = "create" THEN "count" ELSE "cache")
      /\ call.op = r.op /\ call.app = r.app /\ call.stage = r.stage /\ call.seen = r.seen
  BY <1>1, <1>2 DEF StageCall
<1>4. stageCall' = [stageCall EXCEPT ![q] = call]
  BY <1>2 DEF LogStage
<1>5. CounterOf(call) \in Counters \/ call.pc # "count"
  BY <1>3 DEF CounterOf, Counters
<1>6. call.pc = "cache" => call.op = "advance"
  BY <1>1, <1>3 DEF StageCall
<1>7. stageLog \in [Apps -> [StageTypes -> Nat]]
  BY DEF ApplicationsTyped, ApplicationsTypeOK
<1>8. stageLog' = [stageLog EXCEPT ![r.app][r.stage] = @ + 1]
  BY DEF LogStage
<1>9. PICK log : log = [stageLog[r.app] EXCEPT ![r.stage] = stageLog[r.app][r.stage] + 1]
  OBVIOUS
<1>10. stageLog' = [stageLog EXCEPT ![r.app] = log] /\ log \in [StageTypes -> Nat]
  BY <1>1, <1>7, <1>8, <1>9
<1>11. stageLog' \in [Apps -> [StageTypes -> Nat]]
  BY <1>1, <1>7, <1>10
<1>12. /\ stageLog'[r.app][r.stage] = stageLog[r.app][r.stage] + 1
       /\ \A a \in Apps : \A s \in StageTypes : <<a, s>> # <<r.app, r.stage>> =>
                 stageLog'[a][s] = stageLog[a][s]
  BY <1>1, <1>7, <1>9, <1>10
<1>13. ApplicationsTyped'
  <2>1. ApplicationsTypeOK'
    BY <1>1, <1>3, <1>4, <1>5, <1>6, <1>11, StageCallBecomes
    DEF LogStage, ApplicationsTyped, ApplicationsTypeOK
  <2>2. \A p \in StageCallers : LET s == stageCall'[p] IN
           /\ s.pc # "idle" => s.app \in Apps
           /\ s.pc = "count" => CounterOf(s) \in Counters
           /\ s.pc = "cache" => s.op = "advance"
    BY <1>1, <1>3, <1>4, <1>5, <1>6, StageCallBecomes
  <2>3. QED BY <2>1, <2>2 DEF ApplicationsTyped, CounterOf
<1>14. QED BY <1>1, <1>3, <1>4, <1>5, <1>6, <1>12, <1>13, StageCallBecomes

LEMMA CacheStageSteps ==
    ASSUME ApplicationsTyped, NEW q \in StageCallers, NEW r, r = stageCall[q], CacheStage(q)
    PROVE  /\ ApplicationsTyped'
           /\ application'[r.app].row = application[r.app].row
           /\ application'[r.app].maxStage =
                 IF Raises(r) THEN r.stage ELSE application[r.app].maxStage
           /\ application'[r.app].isActive =
                 (application[r.app].isActive /\ r.stage \notin FinalStages)
           /\ \A a \in Apps : a # r.app => application'[a] = application[a]
           /\ stageCall'[q].pc = IF r.stage \in Counters THEN "count" ELSE "idle"
           /\ r.stage \in Counters => /\ stageCall'[q].op = r.op /\ stageCall'[q].app = r.app
                                      /\ stageCall'[q].stage = r.stage
           /\ \A p \in StageCallers : p # q => stageCall'[p] = stageCall[p]
<1>1. r \in StageCall /\ r.pc = "cache" /\ r.app \in Apps /\ r.op = "advance"
  BY DEF CacheStage, ApplicationsTyped, ApplicationsTypeOK
<1>2. PICK call : call = IF r.stage \in Counters THEN [r EXCEPT !.pc = "count"] ELSE NoStageCall
  OBVIOUS
<1>3. /\ call \in StageCall /\ call.pc = (IF r.stage \in Counters THEN "count" ELSE "idle")
      /\ r.stage \in Counters => call.op = r.op /\ call.app = r.app /\ call.stage = r.stage
  BY <1>1, <1>2, IdleStageCall DEF StageCall
<1>4. stageCall' = [stageCall EXCEPT ![q] = call]
  BY <1>2 DEF CacheStage
<1>5. /\ call.pc # "idle" => call.app \in Apps
      /\ call.pc = "count" => CounterOf(call) \in Counters
      /\ call.pc = "cache" => call.op = "advance"
  BY <1>1, <1>3 DEF CounterOf
<1>6. application \in [Apps -> AppRow]
  BY DEF ApplicationsTyped, ApplicationsTypeOK, AppRow
<1>7. PICK old \in AppRow : old = application[r.app]
  BY <1>1, <1>6
<1>8. PICK new : new = [old EXCEPT !.maxStage = IF Raises(r) THEN r.stage ELSE @,
                                   !.isActive = @ /\ r.stage \notin FinalStages]
  OBVIOUS
<1>9. application' = [application EXCEPT ![r.app] = new]
  BY <1>1, <1>6, <1>7, <1>8 DEF CacheStage, AppRow
<1>10. new.row = old.row /\ new.maxStage = IF Raises(r) THEN r.stage ELSE old.maxStage
  BY <1>8 DEF AppRow
<1>11. new.isActive = (old.isActive /\ r.stage \notin FinalStages)
  BY <1>8, Zenon DEF AppRow
<1>12. new \in AppRow
  BY <1>1, <1>8 DEF AppRow, StageCall
<1>13. /\ application' \in [Apps -> AppRow] /\ application'[r.app] = new
       /\ \A a \in Apps : a # r.app => application'[a] = application[a]
  BY <1>1, <1>6, <1>9, <1>12
<1>14. uncached' \subseteq Apps
  BY <1>1 DEF CacheStage, ApplicationsTyped, ApplicationsTypeOK
<1>15. ApplicationsTyped'
  <2>1. ApplicationsTypeOK'
    <3>1. stageCall' \in [StageCallers -> StageCall]
      BY <1>3, <1>4, <1>5, StageCallBecomes
    <3>2. /\ stageLog' = stageLog /\ counter' = counter /\ uncounted' = uncounted
          /\ stageCalls' = stageCalls
      BY DEF CacheStage
    <3>3. QED BY <1>13, <1>14, <3>1, <3>2 DEF ApplicationsTyped, ApplicationsTypeOK, AppRow
  <2>2. \A p \in StageCallers : LET s == stageCall'[p] IN
           /\ s.pc # "idle" => s.app \in Apps
           /\ s.pc = "count" => CounterOf(s) \in Counters
           /\ s.pc = "cache" => s.op = "advance"
    BY <1>3, <1>4, <1>5, StageCallBecomes
  <2>3. QED BY <2>1, <2>2 DEF ApplicationsTyped, CounterOf
<1>16. QED BY <1>3, <1>4, <1>5, <1>7, <1>10, <1>11, <1>13, <1>15, StageCallBecomes

LEMMA CountStageSteps ==
    ASSUME ApplicationsTyped, NEW q \in StageCallers, NEW r, r = stageCall[q], CountStage(q)
    PROVE  /\ ApplicationsTyped'
           /\ counter'[r.app[2]][CounterOf(r)] = counter[r.app[2]][CounterOf(r)] + 1
           /\ \A j \in PostedJobs : \A f \in Counters : <<j, f>> # <<r.app[2], CounterOf(r)>> =>
                 counter'[j][f] = counter[j][f]
           /\ stageCall'[q] = NoStageCall
           /\ \A p \in StageCallers : p # q => stageCall'[p] = stageCall[p]
<1>1. r.pc = "count" /\ r.app \in Apps /\ CounterOf(r) \in Counters
  BY DEF CountStage, ApplicationsTyped
<1>2. PICK j \in PostedJobs : j = r.app[2]
  BY <1>1, AppsAre
<1>3. PICK f \in Counters : f = CounterOf(r)
  BY <1>1
<1>4. counter \in [PostedJobs -> [Counters -> Nat]]
  BY DEF ApplicationsTyped, ApplicationsTypeOK
<1>5. PICK new : new = [counter[j] EXCEPT ![f] = counter[j][f] + 1]
  OBVIOUS
<1>6. counter' = [counter EXCEPT ![j] = new] /\ new \in [Counters -> Nat]
  BY <1>2, <1>3, <1>4, <1>5 DEF CountStage
<1>7. /\ counter' \in [PostedJobs -> [Counters -> Nat]]
      /\ counter'[j][f] = counter[j][f] + 1
      /\ \A i \in PostedJobs : \A g \in Counters : <<i, g>> # <<j, f>> =>
            counter'[i][g] = counter[i][g]
  BY <1>4, <1>5, <1>6
<1>8. stageCall' = [stageCall EXCEPT ![q] = NoStageCall]
  BY DEF CountStage
<1>9. ApplicationsTyped'
  <2>1. ApplicationsTypeOK'
    <3>1. stageCall' \in [StageCallers -> StageCall]
      BY <1>8, IdleStageCall, StageCallBecomes
    <3>2. /\ stageLog' = stageLog /\ application' = application /\ uncounted' = uncounted
          /\ stageCalls' = stageCalls /\ uncached' = uncached
      BY DEF CountStage
    <3>3. QED BY <1>7, <3>1, <3>2 DEF ApplicationsTyped, ApplicationsTypeOK
  <2>2. \A p \in StageCallers : LET s == stageCall'[p] IN
           /\ s.pc # "idle" => s.app \in Apps
           /\ s.pc = "count" => CounterOf(s) \in Counters
           /\ s.pc = "cache" => s.op = "advance"
    BY <1>8, IdleStageCall, StageCallBecomes
  <2>3. QED BY <2>1, <2>2 DEF ApplicationsTyped, CounterOf
<1>10. /\ stageCall'[q] = NoStageCall
       /\ \A p \in StageCallers : p # q => stageCall'[p] = stageCall[p]
  BY <1>8, IdleStageCall, StageCallBecomes
<1>11. /\ counter'[r.app[2]][CounterOf(r)] = counter[r.app[2]][CounterOf(r)] + 1
       /\ \A i \in PostedJobs : \A g \in Counters : <<i, g>> # <<r.app[2], CounterOf(r)>> =>
             counter'[i][g] = counter[i][g]
  BY <1>2, <1>3, <1>7
<1>12. QED BY <1>9, <1>10, <1>11

LEMMA StageCallStopsSteps ==
    ASSUME ApplicationsTyped, NEW q \in StageCallers, StageCallStops(q)
    PROVE  /\ ApplicationsTyped'
           /\ stageCall'[q] = NoStageCall
           /\ \A p \in StageCallers : p # q => stageCall'[p] = stageCall[p]
<1>1. stageCall[q].pc # "idle" /\ stageCall[q].app \in Apps
  BY DEF StageCallStops, ApplicationsTyped
<1>2. stageCall' = [stageCall EXCEPT ![q] = NoStageCall]
  BY DEF StageCallStops
<1>3. stageCall[q].app[2] \in PostedJobs
  BY <1>1, AppsAre
<1>4. ApplicationsTyped'
  <2>1. ApplicationsTypeOK'
    <3>1. stageCall' \in [StageCallers -> StageCall]
      BY <1>2, IdleStageCall, StageCallBecomes
    <3>2. /\ stageLog' = stageLog /\ application' = application /\ counter' = counter
          /\ stageCalls' = stageCalls
      BY DEF StageCallStops
    <3>3. uncounted' \subseteq PostedJobs /\ uncached' \subseteq Apps
      BY <1>1, <1>3 DEF StageCallStops, ApplicationsTyped, ApplicationsTypeOK
    <3>4. QED BY <3>1, <3>2, <3>3 DEF ApplicationsTyped, ApplicationsTypeOK
  <2>2. \A p \in StageCallers : LET s == stageCall'[p] IN
           /\ s.pc # "idle" => s.app \in Apps
           /\ s.pc = "count" => CounterOf(s) \in Counters
           /\ s.pc = "cache" => s.op = "advance"
    BY <1>2, IdleStageCall, StageCallBecomes
  <2>3. QED BY <2>1, <2>2 DEF ApplicationsTyped, CounterOf
<1>5. QED BY <1>2, <1>4, IdleStageCall, StageCallBecomes

LEMMA ApplicationsTypedKept ==
    ASSUME ApplicationsTyped, [ApplicationsNext]_applicationsVars
    PROVE  ApplicationsTyped'
<1>1. CASE UNCHANGED applicationsVars
  BY <1>1 DEF ApplicationsTyped, ApplicationsTypeOK, CounterOf, applicationsVars
<1>2. ASSUME NEW q \in StageCallers, LogStage(q) \/ CacheStage(q) \/ CountStage(q)
      PROVE  ApplicationsTyped'
  BY <1>2, LogStageSteps, CacheStageSteps, CountStageSteps
<1>3. QED
  BY <1>1, <1>2, CreateApplicationSteps, AdvanceStageSteps, StageCallStopsSteps
  DEF ApplicationsNext

LEMMA ApplicationsTypedBegins == ApplicationsInit => ApplicationsTyped
<1>1. SUFFICES ASSUME ApplicationsInit PROVE ApplicationsTyped
  OBVIOUS
<1>2. "APPLIED" \in StageTypes
  BY DEF StageTypes
<1>3. ApplicationsTypeOK
  BY <1>1, <1>2, ApplicationsAssumption, IdleStageCall
  DEF ApplicationsInit, ApplicationsTypeOK
<1>4. \A q \in StageCallers : stageCall[q].pc = "idle"
  BY <1>1, IdleStageCall DEF ApplicationsInit
<1>5. QED BY <1>3, <1>4 DEF ApplicationsTyped

-----------------------------------------------------------------------------
(* Applications: the cache.  A logged stage is below the cached one, or a    *)
(* call is about to cache it; the row was read at no higher a stage than is  *)
(* there now.                                                                *)

AtMost(s, t) == StageOrder[s] <= StageOrder[t]
LoggedStages(a) == {s \in StageTypes : stageLog[a][s] > 0}

CacheFollows(a) ==
    /\ AtMost("APPLIED", application[a].maxStage)
    /\ \A q \in StageCallers : LET r == stageCall[q] IN
          r.app = a /\ r.op = "advance" /\ r.pc \in {"log", "cache"}
             => AtMost("APPLIED", r.seen) /\ AtMost(r.seen, application[a].maxStage)
    /\ \A q \in StageCallers : LET r == stageCall[q] IN
          r.app = a /\ r.op = "create" /\ r.pc = "log" => r.stage = "APPLIED"
    /\ \A q \in StageCallers : LET r == stageCall[q] IN
          r.app = a /\ r.pc = "cache" => r.stage \in LoggedStages(a)
    /\ \A s \in LoggedStages(a) : AtMost(s, application[a].maxStage) \/ s \in Uncached(a)
    /\ application[a].maxStage \in LoggedStages(a) \cup {"APPLIED"}
    /\ application[a].isActive => LoggedStages(a) \cap FinalStages \subseteq Uncached(a)
    /\ ~application[a].isActive => LoggedStages(a) \cap FinalStages # {}

CachesFollow == \A a \in Apps \ uncached : CacheFollows(a)

LEMMA StageOrders ==
    /\ \A s \in StageTypes : StageOrder[s] \in Int
    /\ \A s, t \in StageTypes : AtMost(s, t) /\ AtMost(t, s) => s = t
BY DEF StageTypes, StageOrder, AtMost

LEMMA CachesSummarise ==
    ASSUME ApplicationsTyped, CachesFollow
    PROVE  CacheSummarisesLog
<1> SUFFICES ASSUME NEW a \in Apps \ uncached, Uncached(a) = {}
             PROVE  /\ \A s \in CachedStages(a) :
                          StageOrder[s] <= StageOrder[application[a].maxStage]
                    /\ application[a].maxStage \in CachedStages(a) \cup {"APPLIED"}
                    /\ application[a].isActive = (CachedStages(a) \cap FinalStages = {})
  BY DEF CacheSummarisesLog
<1>1. CachedStages(a) = LoggedStages(a)
  BY DEF CachedStages, LoggedStages
<1>2. CacheFollows(a)
  BY DEF CachesFollow
<1>3. application[a].isActive \in BOOLEAN
  BY DEF ApplicationsTyped, ApplicationsTypeOK
<1>4. application[a].isActive <=> LoggedStages(a) \cap FinalStages = {}
  BY <1>2 DEF CacheFollows
<1>5. \A s \in LoggedStages(a) : StageOrder[s] <= StageOrder[application[a].maxStage]
  BY <1>2 DEF CacheFollows, AtMost
<1>6. application[a].maxStage \in LoggedStages(a) \cup {"APPLIED"}
  BY <1>2 DEF CacheFollows
<1>7. QED BY <1>1, <1>3, <1>4, <1>5, <1>6

(* An application whose row, log and calls between log and cache stay. *)
LEMMA CacheKept ==
    ASSUME ApplicationsTyped, NEW a \in Apps, CacheFollows(a),
           application'[a].maxStage = application[a].maxStage,
           application'[a].isActive = application[a].isActive,
           stageLog'[a] = stageLog[a],
           \A p \in StageCallers : LET r == stageCall[p] IN
              r.app = a /\ r.pc = "cache" => stageCall'[p] = r,
           \A p \in StageCallers : LET r == stageCall'[p] IN
              r.app = a /\ r.pc = "cache" => stageCall[p] = r,
           \A p \in StageCallers : LET r == stageCall'[p] IN
              r.app = a /\ r.pc = "log" =>
                 \/ stageCall[p] = r
                 \/ r.op = "advance" /\ r.seen = application[a].maxStage
                 \/ r.op = "create" /\ r.stage = "APPLIED"
    PROVE  CacheFollows(a)'
<1>1. LoggedStages(a)' = LoggedStages(a)
  BY DEF LoggedStages
<1>2. Uncached(a)' = Uncached(a)
  BY DEF Uncached
<1>3. AtMost(application[a].maxStage, application[a].maxStage)
  <2>1. application[a].maxStage \in StageTypes
    BY DEF ApplicationsTyped, ApplicationsTypeOK
  <2>2. QED BY <2>1, StageOrders DEF AtMost
<1>6. ASSUME NEW q \in StageCallers, NEW r, r = stageCall'[q], r.app = a
      PROVE  /\ r.op = "advance" /\ r.pc \in {"log", "cache"}
                   => AtMost("APPLIED", r.seen) /\ AtMost(r.seen, application[a].maxStage)
             /\ r.op = "create" /\ r.pc = "log" => r.stage = "APPLIED"
  BY <1>3, <1>6 DEF CacheFollows
<1>4. \A q \in StageCallers : LET r == stageCall'[q] IN
          r.app = a /\ r.pc = "cache" => r.stage \in LoggedStages(a)
  BY DEF CacheFollows
<1>5. QED BY <1>1, <1>2, <1>4, <1>6 DEF CacheFollows, AtMost

LEMMA LogStageCaches ==
    ASSUME ApplicationsTyped, CachesFollow, NEW q \in StageCallers, LogStage(q)
    PROVE  CachesFollow'
<1>1. PICK r : r = stageCall[q]
  OBVIOUS
<1>2. r \in StageCall /\ r.pc = "log" /\ r.app \in Apps /\ r.stage \in StageTypes
         /\ application' = application /\ uncached' = uncached
  BY <1>1 DEF LogStage, ApplicationsTyped, ApplicationsTypeOK, StageCall
<1>3. /\ stageLog'[r.app][r.stage] = stageLog[r.app][r.stage] + 1
      /\ \A a \in Apps : \A s \in StageTypes : <<a, s>> # <<r.app, r.stage>> =>
            stageLog'[a][s] = stageLog[a][s]
      /\ stageCall'[q].pc = IF r.op = "create" THEN "count" ELSE "cache"
      /\ stageCall'[q].op = r.op /\ stageCall'[q].app = r.app
      /\ stageCall'[q].stage = r.stage /\ stageCall'[q].seen = r.seen
      /\ \A p \in StageCallers : p # q => stageCall'[p] = stageCall[p]
  BY <1>1, LogStageSteps
<1>4. ASSUME NEW a \in Apps \ uncached PROVE CacheFollows(a)'
  <2>1. CacheFollows(a)
    BY DEF CachesFollow
  <2>2. CASE a # r.app
    <3>1. LoggedStages(a)' = LoggedStages(a)
      BY <1>3, <2>2 DEF LoggedStages
    <3>2. Uncached(a)' = Uncached(a)
      BY <1>1, <1>3, <2>2 DEF Uncached
    <3>3. \A p \in StageCallers : stageCall'[p].app = a => stageCall'[p] = stageCall[p]
      BY <1>3, <2>2
    <3>4. QED BY <1>2, <2>1, <3>1, <3>2, <3>3 DEF CacheFollows, AtMost
  <2>3. CASE a = r.app
    <3>1. stageLog[a][r.stage] \in Nat
      BY <1>2 DEF ApplicationsTyped, ApplicationsTypeOK
    <3>2. LoggedStages(a)' = LoggedStages(a) \cup {r.stage}
      BY <1>2, <1>3, <2>3, <3>1 DEF LoggedStages
    <3>3. PICK M : M = application[a].maxStage
      OBVIOUS
    <3>4. ASSUME NEW p \in StageCallers, NEW c, c = stageCall'[p], c.app = a
          PROVE  /\ c.op = "advance" /\ c.pc \in {"log", "cache"}
                       => AtMost("APPLIED", c.seen) /\ AtMost(c.seen, M)
                 /\ c.op = "create" /\ c.pc = "log" => c.stage = "APPLIED"
                 /\ c.pc = "cache" => c.stage \in LoggedStages(a) \cup {r.stage}
      <4>1. CASE p = q
        BY <1>1, <1>2, <1>3, <2>1, <2>3, <3>3, <3>4, <4>1 DEF CacheFollows, StageCall
      <4>2. CASE p # q
        BY <1>3, <2>1, <3>3, <3>4, <4>2 DEF CacheFollows
      <4>3. QED BY <4>1, <4>2
    <3>5. Uncached(a)' = Uncached(a) \cup (IF r.op = "create" THEN {} ELSE {r.stage})
      <4>1. \A s \in StageTypes : s \in Uncached(a)' <=>
               \E p \in StageCallers :
                  stageCall'[p].pc = "cache" /\ stageCall'[p].app = a /\ stageCall'[p].stage = s
        BY DEF Uncached
      <4>2. \A s \in StageTypes : s \in Uncached(a) <=>
               \E p \in StageCallers :
                  stageCall[p].pc = "cache" /\ stageCall[p].app = a /\ stageCall[p].stage = s
        BY DEF Uncached
      <4>3. \A s \in StageTypes : s \in Uncached(a)' <=>
               s \in Uncached(a) \/ (r.op # "create" /\ s = r.stage)
        BY <1>1, <1>2, <1>3, <2>3, <4>1, <4>2
      <4>4. Uncached(a) \subseteq StageTypes /\ Uncached(a)' \subseteq StageTypes
        BY DEF Uncached
      <4>5. QED BY <1>2, <4>3, <4>4
    <3>6. r.op = "create" => r.stage = "APPLIED" /\ "APPLIED" \notin FinalStages
      BY <1>1, <1>2, <2>1, <2>3 DEF CacheFollows, FinalStages
    <3>7. \A s \in LoggedStages(a)' : AtMost(s, M) \/ s \in Uncached(a)'
      BY <2>1, <3>2, <3>3, <3>5, <3>6 DEF CacheFollows
    <3>8. application[a].isActive => LoggedStages(a)' \cap FinalStages \subseteq Uncached(a)'
      BY <2>1, <3>2, <3>5, <3>6 DEF CacheFollows
    <3>9. ~application[a].isActive => LoggedStages(a)' \cap FinalStages # {}
      BY <2>1, <3>2 DEF CacheFollows
    <3>10. AtMost("APPLIED", M) /\ M \in LoggedStages(a)' \cup {"APPLIED"}
      BY <2>1, <3>2, <3>3 DEF CacheFollows
    <3>11. QED BY <1>2, <3>2, <3>3, <3>4, <3>7, <3>8, <3>9, <3>10 DEF CacheFollows, AtMost
  <2>4. QED BY <2>2, <2>3
<1>5. QED BY <1>2, <1>4 DEF CachesFollow

LEMMA AtMostOrders ==
    /\ \A s \in StageTypes : AtMost(s, s)
    /\ \A s, t, u \in StageTypes : AtMost(s, t) /\ AtMost(t, u) => AtMost(s, u)
    /\ \A s, t \in StageTypes : AtMost(s, t) \/ AtMost(t, s)
    /\ \A s, t \in StageTypes : StageOrder[s] > StageOrder[t] <=> ~AtMost(s, t)
    /\ \A s, t \in StageTypes : StageOrder[s] < StageOrder[t] <=> ~AtMost(t, s)
BY StageOrders DEF AtMost

LEMMA CacheStageCaches ==
    ASSUME ApplicationsTyped, CachesFollow, NEW q \in StageCallers, CacheStage(q)
    PROVE  CachesFollow'
<1>1. PICK r : r = stageCall[q]
  OBVIOUS
<1>2. /\ r \in StageCall /\ r.pc = "cache" /\ r.app \in Apps /\ r.op = "advance"
      /\ r.stage \in StageTypes /\ r.seen \in StageTypes
  BY <1>1 DEF CacheStage, ApplicationsTyped, ApplicationsTypeOK, StageCall
<1>3. PICK M : M = application[r.app].maxStage
  OBVIOUS
<1>4. PICK N : N = IF Raises(r) THEN r.stage ELSE M
  OBVIOUS
<1>5. /\ application'[r.app].maxStage = N
      /\ application'[r.app].isActive =
            (application[r.app].isActive /\ r.stage \notin FinalStages)
      /\ \A a \in Apps : a # r.app => application'[a] = application[a]
      /\ stageCall'[q].pc \in {"count", "idle"}
      /\ \A p \in StageCallers : p # q => stageCall'[p] = stageCall[p]
  BY <1>1, <1>3, <1>4, CacheStageSteps
<1>6. M \in StageTypes /\ N \in StageTypes /\ "APPLIED" \in StageTypes
  BY <1>2, <1>3, <1>4 DEF ApplicationsTyped, ApplicationsTypeOK, StageTypes
<1>7. stageLog' = stageLog /\ uncached \subseteq uncached'
  BY DEF CacheStage
<1>8. ASSUME NEW a \in Apps \ uncached', a # r.app PROVE CacheFollows(a)'
  <2>1. CacheFollows(a)
    BY <1>7, <1>8 DEF CachesFollow
  <2>2. \A p \in StageCallers : stageCall[p].app = a => stageCall'[p] = stageCall[p]
    BY <1>1, <1>5, <1>8
  <2>3. \A p \in StageCallers : stageCall'[p].pc \in {"log", "cache"} =>
           stageCall'[p] = stageCall[p]
    BY <1>5
  <2>4. QED BY <1>5, <1>7, <1>8, <2>1, <2>2, <2>3, CacheKept
<1>9. ASSUME NEW a, a = r.app, a \in Apps \ uncached' PROVE CacheFollows(a)'
  <2>1. CacheFollows(a) /\ a \notin uncached
    BY <1>7, <1>9 DEF CachesFollow
  <2>2. /\ AtMost("APPLIED", r.seen) /\ AtMost(r.seen, M) /\ r.stage \in LoggedStages(a)
        /\ AtMost("APPLIED", M)
    BY <1>1, <1>2, <1>3, <1>9, <2>1 DEF CacheFollows
  <2>3. ~Raises(r) \/ M = r.seen \/ AtMost(M, r.stage)
    BY <1>1, <1>2, <1>3, <1>6, <1>9, AtMostOrders DEF CacheStage
  <2>4. Raises(r) <=> ~AtMost(r.stage, r.seen)
    BY <1>2, AtMostOrders DEF Raises
  <2>5. AtMost(M, N) /\ AtMost(r.stage, N)
    BY <1>2, <1>4, <1>6, <2>2, <2>3, <2>4, AtMostOrders
  <2>6. LoggedStages(a)' = LoggedStages(a) /\ LoggedStages(a) \subseteq StageTypes
    BY <1>7 DEF LoggedStages
  <2>7. Uncached(a) \subseteq Uncached(a)' \cup {r.stage}
    BY <1>1, <1>5 DEF Uncached
  <2>8. \A s \in LoggedStages(a) : AtMost(s, N) \/ s \in Uncached(a)'
    <3>1. ASSUME NEW s \in LoggedStages(a) PROVE AtMost(s, N) \/ s \in Uncached(a)'
      <4>1. AtMost(s, M) \/ s \in Uncached(a)
        BY <1>3, <1>9, <2>1 DEF CacheFollows
      <4>2. QED BY <1>6, <2>5, <2>6, <2>7, <4>1, AtMostOrders
    <3>2. QED BY <3>1
  <2>9. AtMost("APPLIED", N) /\ N \in LoggedStages(a) \cup {"APPLIED"}
    <3>1. M \in LoggedStages(a) \cup {"APPLIED"}
      BY <1>3, <1>9, <2>1 DEF CacheFollows
    <3>2. QED BY <1>4, <1>6, <2>2, <2>5, <3>1, AtMostOrders
  <2>10. /\ application'[a].isActive => LoggedStages(a) \cap FinalStages \subseteq Uncached(a)'
         /\ ~application'[a].isActive => LoggedStages(a) \cap FinalStages # {}
    <3>1. CASE ~application[a].isActive
      <4>1. LoggedStages(a) \cap FinalStages # {} /\ ~application'[a].isActive
        BY <1>5, <1>9, <2>1, <3>1 DEF CacheFollows
      <4>2. QED BY <4>1
    <3>2. CASE application[a].isActive /\ r.stage \in FinalStages
      <4>1. ~application'[a].isActive
        BY <1>5, <1>9, <3>2
      <4>2. QED BY <2>2, <3>2, <4>1
    <3>3. CASE application[a].isActive /\ r.stage \notin FinalStages
      <4>1. application'[a].isActive
        BY <1>5, <1>9, <3>3
      <4>2. LoggedStages(a) \cap FinalStages \subseteq Uncached(a)
        BY <2>1, <3>3 DEF CacheFollows
      <4>3. QED BY <2>7, <3>3, <4>1, <4>2
    <3>4. QED BY <3>1, <3>2, <3>3
  <2>11. ASSUME NEW p \in StageCallers, NEW c, c = stageCall'[p], c.app = a
         PROVE  /\ c.op = "advance" /\ c.pc \in {"log", "cache"}
                       => AtMost("APPLIED", c.seen) /\ AtMost(c.seen, N)
                /\ c.op = "create" /\ c.pc = "log" => c.stage = "APPLIED"
                /\ c.pc = "cache" => c.stage \in LoggedStages(a)
    <3>1. CASE p = q
      BY <1>5, <2>11, <3>1
    <3>2. CASE p # q
      <4>1. c = stageCall[p] /\ c \in StageCall
        BY <1>5, <2>11, <3>2 DEF ApplicationsTyped, ApplicationsTypeOK
      <4>2. /\ c.op = "advance" /\ c.pc \in {"log", "cache"}
                       => AtMost("APPLIED", c.seen) /\ AtMost(c.seen, M)
            /\ c.op = "create" /\ c.pc = "log" => c.stage = "APPLIED"
            /\ c.pc = "cache" => c.stage \in LoggedStages(a)
        BY <1>3, <1>9, <2>1, <2>11, <4>1 DEF CacheFollows
      <4>3. c.seen \in StageTypes
        BY <4>1 DEF StageCall
      <4>4. QED BY <1>6, <2>5, <4>2, <4>3, AtMostOrders
    <3>3. QED BY <3>1, <3>2
  <2>12. application'[a].maxStage = N
    BY <1>5, <1>9
  <2>13. QED BY <2>6, <2>8, <2>9, <2>10, <2>11, <2>12 DEF CacheFollows, AtMost
<1>10. QED BY <1>8, <1>9 DEF CachesFollow

LEMMA OtherStepsCache ==
    ASSUME ApplicationsTyped, CachesFollow, NEW q \in StageCallers,
           \/ \E b \in Apps : CreateApplication(q, b) \/ \E s \in StageTypes : AdvanceStage(q, b, s)
           \/ CountStage(q) \/ StageCallStops(q)
    PROVE  CachesFollow'
<1>1. ASSUME NEW b \in Apps, CreateApplication(q, b) PROVE CachesFollow'
  <2>1. ASSUME NEW a \in Apps \ uncached' PROVE CacheFollows(a)'
    <3>1. CacheFollows(a) /\ stageLog' = stageLog
      BY <1>1 DEF CachesFollow, CreateApplication
    <3>2. /\ stageCall'[q].pc = "log" /\ stageCall'[q].op = "create"
          /\ \A p \in StageCallers : p # q => stageCall'[p] = stageCall[p]
          /\ application'[a].maxStage = application[a].maxStage
          /\ application'[a].isActive = application[a].isActive
      BY <1>1, CreateApplicationSteps
    <3>3. stageCall[q].pc = "idle" /\ stageCall'[q].stage = "APPLIED"
      BY <1>1
      DEF CreateApplication, BeginStageCall, NoStageCall, ApplicationsTyped, ApplicationsTypeOK
    <3>4. QED BY <3>1, <3>2, <3>3, CacheKept
  <2>2. QED BY <2>1 DEF CachesFollow
<1>2. ASSUME NEW b \in Apps, NEW s \in StageTypes, AdvanceStage(q, b, s) PROVE CachesFollow'
  <2>1. ASSUME NEW a \in Apps \ uncached' PROVE CacheFollows(a)'
    <3>1. CacheFollows(a) /\ stageLog' = stageLog /\ application' = application
      BY <1>2 DEF CachesFollow, AdvanceStage
    <3>2. /\ stageCall'[q] = [pc |-> "log", op |-> "advance", app |-> b, stage |-> s,
                              seen |-> application[b].maxStage]
          /\ \A p \in StageCallers : p # q => stageCall'[p] = stageCall[p]
      BY <1>2, AdvanceStageSteps
    <3>3. /\ stageCall'[q].pc = "log" /\ stageCall'[q].op = "advance" /\ stageCall'[q].app = b
          /\ stageCall'[q].seen = application[b].maxStage
      BY <3>2
    <3>4. stageCall[q].pc = "idle"
      BY <1>2 DEF AdvanceStage, BeginStageCall
    <3>5. QED BY <3>1, <3>2, <3>3, <3>4, CacheKept
  <2>2. QED BY <2>1 DEF CachesFollow
<1>3. ASSUME CountStage(q) PROVE CachesFollow'
  <2>1. ASSUME NEW a \in Apps \ uncached' PROVE CacheFollows(a)'
    <3>1. /\ CacheFollows(a) /\ stageLog' = stageLog /\ application' = application
          /\ stageCall[q].pc = "count"
      BY <1>3 DEF CachesFollow, CountStage
    <3>2. /\ stageCall'[q].pc = "idle"
          /\ \A p \in StageCallers : p # q => stageCall'[p] = stageCall[p]
      BY <1>3, CountStageSteps, IdleStageCall
    <3>3. QED BY <3>1, <3>2, CacheKept
  <2>2. QED BY <2>1 DEF CachesFollow
<1>4. ASSUME StageCallStops(q) PROVE CachesFollow'
  <2>1. ASSUME NEW a \in Apps \ uncached' PROVE CacheFollows(a)'
    <3>1. /\ CacheFollows(a) /\ stageLog' = stageLog /\ application' = application
          /\ ~(stageCall[q].pc = "cache" /\ stageCall[q].app = a)
      BY <1>4 DEF CachesFollow, StageCallStops
    <3>2. /\ stageCall'[q].pc = "idle"
          /\ \A p \in StageCallers : p # q => stageCall'[p] = stageCall[p]
      BY <1>4, StageCallStopsSteps, IdleStageCall
    <3>3. QED BY <3>1, <3>2, CacheKept
  <2>2. QED BY <2>1 DEF CachesFollow
<1>5. QED BY <1>1, <1>2, <1>3, <1>4

LEMMA CachesBegin == ApplicationsInit => CachesFollow
<1>1. SUFFICES ASSUME ApplicationsInit, NEW a \in Apps PROVE CacheFollows(a)
  BY DEF CachesFollow
<1>2. LoggedStages(a) = {}
  BY <1>1 DEF ApplicationsInit, LoggedStages
<1>3. application[a].maxStage = "APPLIED" /\ application[a].isActive = TRUE
  BY <1>1 DEF ApplicationsInit
<1>4. \A q \in StageCallers : stageCall[q].pc = "idle"
  BY <1>1, IdleStageCall DEF ApplicationsInit
<1>5. AtMost("APPLIED", "APPLIED")
  BY AtMostOrders DEF StageTypes
<1>6. QED BY <1>2, <1>3, <1>4, <1>5 DEF CacheFollows

(* Applications: the cached stage of an application is the highest one       *)
(* logged and a final stage ends it, unless a call stopped between log and   *)
(* cache or wrote over a higher stage (job-application.service.ts:           *)
(* advanceStage).                                                            *)
THEOREM CacheIsSummary == ApplicationsSpec => []CacheSummarisesLog
<1>1. ApplicationsInit => ApplicationsTyped /\ CachesFollow
  BY ApplicationsTypedBegins, CachesBegin
<1>2. ApplicationsTyped /\ CachesFollow /\ [ApplicationsNext]_applicationsVars
         => ApplicationsTyped' /\ CachesFollow'
  <2>1. SUFFICES ASSUME ApplicationsTyped, CachesFollow, [ApplicationsNext]_applicationsVars
                 PROVE  CachesFollow'
    BY ApplicationsTypedKept
  <2>2. CASE UNCHANGED applicationsVars
    BY <2>1, <2>2 DEF CachesFollow, CacheFollows, LoggedStages, Uncached, AtMost, applicationsVars
  <2>3. CASE ApplicationsNext
    BY <2>1, <2>3, LogStageCaches, CacheStageCaches, OtherStepsCache DEF ApplicationsNext
  <2>4. QED BY <2>1, <2>2, <2>3
<1>3. ApplicationsTyped /\ CachesFollow => CacheSummarisesLog
  BY CachesSummarise
<1>4. QED BY <1>1, <1>2, <1>3, PTL DEF ApplicationsSpec

-----------------------------------------------------------------------------
(* Applications: the counters.  What a counter of a job should have counted: *)
(* its applications, or the rows of a stage over all applicants.             *)

StagesLogged(log, j, f) == MapThenSumSet(LAMBDA k : log[<<k, j>>][f], Applicants)
Rows(j) == {a \in Apps : a[2] = j /\ application[a].row}
ToCount(j, f) ==
    IF f = "applications" THEN Cardinality(Rows(j)) ELSE StagesLogged(stageLog, j, f)

CountersMatch == \A j \in PostedJobs \ uncounted, f \in Counters :
    counter[j][f] + Cardinality(Uncounted(j, f)) = ToCount(j, f)

LEMMA CountersMatchIs == CountersMatchRows <=> CountersMatch
BY DEF CountersMatchRows, CountersMatch, Logged, ToCount, Rows, StagesLogged

LEMMA CountersMatchNext == CountersMatch' => CountersMatchRows'
BY CountersMatchIs, PTL

(* A call that creates an application logs that it was applied for.          *)
Applies(r) == r.op = "create" => r.stage = "APPLIED"
CountersFollow == CountersMatch /\ \A q \in StageCallers : Applies(stageCall[q])

LEMMA StagesLoggedSums ==
    ASSUME NEW log, NEW j, NEW f, NEW h, h = [k \in Applicants |-> log[<<k, j>>][f]],
           NEW g, Sums(g, h, Applicants)
    PROVE  StagesLogged(log, j, f) = g[Applicants]
<1>1. PICK D \in SUBSET Applicants : D = Applicants
  OBVIOUS
<1>2. \A s \in SUBSET D : s # {} => AnyOf(s) \in Applicants
  BY AnyOfIn
<1>3. \A i : i = [s \in SUBSET D |->
                    IF s = {} THEN 0 ELSE log[<<AnyOf(s), j>>][f] + i[s \ {AnyOf(s)}]]
               <=> Tally(i, h, D)
  <2>1. ASSUME NEW i
        PROVE  [s \in SUBSET D |->
                    IF s = {} THEN 0 ELSE log[<<AnyOf(s), j>>][f] + i[s \ {AnyOf(s)}]]
               = [s \in SUBSET D |-> IF s = {} THEN 0 ELSE h[AnyOf(s)] + i[s \ {AnyOf(s)}]]
    <3>1. \A s \in SUBSET D : s # {} => h[AnyOf(s)] = log[<<AnyOf(s), j>>][f]
      BY <1>2
    <3>2. QED BY <3>1
  <2>2. QED BY <2>1 DEF Tally
<1>4. \E i : Tally(i, h, D)
  BY TallyExists
<1>5. PICK i : i = CHOOSE t : t = [s \in SUBSET D |->
                    IF s = {} THEN 0 ELSE log[<<AnyOf(s), j>>][f] + t[s \ {AnyOf(s)}]]
  OBVIOUS
<1>6. Tally(i, h, D)
  BY <1>3, <1>4, <1>5
<1>7. StagesLogged(log, j, f) = i[D]
  BY <1>1, <1>5 DEF StagesLogged, MapThenSumSet, MapThenFoldSet, AnyOf
<1>8. i[D] = g[D]
  BY <1>6, TallyAgrees, ApplicationsAssumption
<1>9. QED BY <1>1, <1>7, <1>8

Logs == [Apps -> [StageTypes -> Nat]]

LEMMA StagesChange ==
    ASSUME NEW was \in Logs, NEW log \in Logs, NEW j \in PostedJobs, NEW f \in StageTypes,
           NEW x \in Applicants,
           \A y \in Applicants : y # x => log[<<y, j>>][f] = was[<<y, j>>][f]
    PROVE  /\ StagesLogged(was, j, f) \in Int
           /\ StagesLogged(log, j, f)
                 = StagesLogged(was, j, f) - was[<<x, j>>][f] + log[<<x, j>>][f]
<1>1. PICK h : h = [k \in Applicants |-> was[<<k, j>>][f]]
  OBVIOUS
<1>2. PICK k : k = [y \in Applicants |-> log[<<y, j>>][f]]
  OBVIOUS
<1>3. h \in [Applicants -> Int] /\ k \in [Applicants -> Int]
  <2>1. \A y \in Applicants : <<y, j>> \in Apps
    BY DEF Apps
  <2>2. \A y \in Applicants : was[<<y, j>>][f] \in Int /\ log[<<y, j>>][f] \in Int
    BY <2>1 DEF Logs
  <2>3. QED BY <1>1, <1>2, <2>2
<1>4. PICK g : Sums(g, h, Applicants)
  BY <1>3, SumsExist, ApplicationsAssumption
<1>5. PICK e : Sums(e, k, Applicants)
  BY <1>3, SumsExist, ApplicationsAssumption
<1>6. PICK R \in SUBSET Applicants : R = Applicants \ {x}
  OBVIOUS
<1>7. e[R] = g[R]
  <2>1. \A y \in R : k[y] = h[y]
    BY <1>1, <1>2, <1>6
  <2>2. QED BY <1>4, <1>5, <2>1, SumsAgree, ApplicationsAssumption
<1>8. g[R] \in Int /\ g[Applicants] \in Int
  <2>1. Applicants \in SUBSET Applicants
    OBVIOUS
  <2>2. QED BY <1>4, <2>1 DEF Sums
<1>9. g[Applicants] = h[x] + g[R] /\ e[Applicants] = k[x] + e[R]
  <2>1. Applicants \in SUBSET Applicants
    OBVIOUS
  <2>2. QED BY <1>4, <1>5, <1>6, <2>1 DEF Sums
<1>10. StagesLogged(was, j, f) = g[Applicants] /\ StagesLogged(log, j, f) = e[Applicants]
  BY <1>1, <1>2, <1>4, <1>5, StagesLoggedSums
<1>11. PICK a \in Int, b \in Int, c \in Int :
          a = was[<<x, j>>][f] /\ b = log[<<x, j>>][f] /\ c = g[R]
  BY <1>1, <1>2, <1>3, <1>8
<1>12. h[x] = a /\ k[x] = b
  BY <1>1, <1>2, <1>11
<1>13. g[Applicants] = a + c /\ e[Applicants] = b + c
  BY <1>7, <1>9, <1>11, <1>12
<1>14. b + c = (a + c) - a + b
  OBVIOUS
<1>15. QED BY <1>8, <1>10, <1>11, <1>13, <1>14

LEMMA StagesStay ==
    ASSUME NEW was \in Logs, NEW log \in Logs, NEW j \in PostedJobs, NEW f \in StageTypes,
           \A y \in Applicants : log[<<y, j>>][f] = was[<<y, j>>][f]
    PROVE  StagesLogged(log, j, f) = StagesLogged(was, j, f)
<1>1. PICK h : h = [k \in Applicants |-> was[<<k, j>>][f]]
  OBVIOUS
<1>2. h = [k \in Applicants |-> log[<<k, j>>][f]]
  BY <1>1
<1>3. h \in [Applicants -> Int]
  <2>1. \A y \in Applicants : <<y, j>> \in Apps
    BY DEF Apps
  <2>2. QED BY <1>1, <2>1 DEF Logs
<1>4. PICK g : Sums(g, h, Applicants)
  BY <1>3, SumsExist, ApplicationsAssumption
<1>5. QED BY <1>1, <1>2, <1>4, StagesLoggedSums

-----------------------------------------------------------------------------
(* Applications: one call changes what a counter should have counted, the    *)
(* counter and whether it is itself on its way to that counter.              *)

Due(r, j, f) ==
    /\ r.pc \in {"cache", "count"} \/ (r.pc = "log" /\ r.op = "create")
    /\ r.app[2] = j /\ CounterOf(r) = f

LEMMA UncountedDue ==
    \A j, f : /\ Uncounted(j, f) = {q \in StageCallers : Due(stageCall[q], j, f)}
              /\ IsFiniteSet(Uncounted(j, f))
<1>1. \A j, f : Uncounted(j, f) = {q \in StageCallers : Due(stageCall[q], j, f)}
  BY DEF Uncounted, Due
<1>2. \A j, f : Uncounted(j, f) \in SUBSET StageCallers
  BY DEF Uncounted
<1>3. QED BY <1>1, <1>2, FS_Subset, ApplicationsAssumption

LEMMA RowsFinite == \A j : IsFiniteSet(Rows(j))
<1>1. IsFiniteSet(Apps)
  BY FS_Product, ApplicationsAssumption DEF Apps
<1>2. \A j : Rows(j) \in SUBSET Apps
  BY DEF Rows
<1>3. QED BY <1>1, <1>2, FS_Subset

LEMMA ToCountInt ==
    ASSUME ApplicationsTyped, CountersMatch, NEW j \in PostedJobs \ uncounted, NEW f \in Counters
    PROVE  counter[j][f] \in Int /\ Cardinality(Uncounted(j, f)) \in Int /\ ToCount(j, f) \in Int
<1>1. counter[j][f] \in Nat
  BY DEF ApplicationsTyped, ApplicationsTypeOK
<1>2. Cardinality(Uncounted(j, f)) \in Nat
  BY UncountedDue, FS_CardinalityType
<1>3. ToCount(j, f) = counter[j][f] + Cardinality(Uncounted(j, f))
  BY DEF CountersMatch
<1>4. QED BY <1>1, <1>2, <1>3

LEMMA CounterMoves ==
    ASSUME ApplicationsTyped, CountersMatch, NEW q \in StageCallers,
           \A p \in StageCallers : p # q => stageCall'[p] = stageCall[p],
           NEW j \in PostedJobs \ uncounted, NEW f \in Counters, NEW n \in Int,
           ToCount(j, f)' = ToCount(j, f) + n,
           NEW m \in Int, counter'[j][f] = counter[j][f] + m,
           m + Open(Due(stageCall'[q], j, f)) = Open(Due(stageCall[q], j, f)) + n
    PROVE  counter'[j][f] + Cardinality(Uncounted(j, f))' = ToCount(j, f)'
<1>1. PICK A \in SUBSET StageCallers, B \in SUBSET StageCallers :
         A = Uncounted(j, f) /\ B = Uncounted(j, f)'
  BY DEF Uncounted
<1>2. A = {p \in StageCallers : Due(stageCall[p], j, f)}
  BY <1>1, UncountedDue
<1>3. B = {p \in StageCallers : Due(stageCall'[p], j, f)}
  BY <1>1 DEF Uncounted, Due
<1>4. A \ {q} = B \ {q}
  BY <1>2, <1>3
<1>5. IsFiniteSet(A) /\ IsFiniteSet(B)
  BY FS_Subset, ApplicationsAssumption
<1>6. Cardinality(B) = Cardinality(A) + Open(q \in B) - Open(q \in A)
  BY <1>4, <1>5, OneMore
<1>7. (q \in A <=> Due(stageCall[q], j, f)) /\ (q \in B <=> Due(stageCall'[q], j, f))
  BY <1>2, <1>3
<1>8. PICK a \in {0, 1}, b \in {0, 1} : a = Open(q \in A) /\ b = Open(q \in B)
  BY DEF Open
<1>9. m + b = a + n
  BY <1>7, <1>8 DEF Open
<1>10. /\ counter[j][f] \in Int /\ Cardinality(A) \in Int
       /\ counter[j][f] + Cardinality(A) = ToCount(j, f)
  BY <1>1, ToCountInt DEF CountersMatch
<1>11. PICK c \in Int, d \in Int : c = counter[j][f] /\ d = Cardinality(A)
  BY <1>10
<1>12. Cardinality(B) = d + b - a
  BY <1>6, <1>8, <1>11
<1>13. ToCount(j, f)' = (c + d) + n
  BY <1>10, <1>11
<1>14. (c + m) + (d + b - a) = (c + d) + n
  BY <1>9
<1>15. QED BY <1>1, <1>11, <1>12, <1>13, <1>14

(* What there is to count of a pair that a step does not touch. *)
LEMMA ToCountStays ==
    ASSUME stageLog \in Logs, stageLog' \in Logs, NEW j \in PostedJobs, NEW f \in Counters,
           f = "applications" => Rows(j)' = Rows(j),
           f # "applications" =>
              \A y \in Applicants : stageLog'[<<y, j>>][f] = stageLog[<<y, j>>][f]
    PROVE  ToCount(j, f)' = ToCount(j, f)
<1>1. CASE f = "applications"
  BY <1>1 DEF ToCount
<1>2. CASE f # "applications"
  <2>1. f \in StageTypes
    BY <1>2 DEF Counters, StageTypes
  <2>2. PICK was \in Logs, log \in Logs : was = stageLog /\ log = stageLog'
    OBVIOUS
  <2>3. StagesLogged(log, j, f) = StagesLogged(was, j, f)
    BY <1>2, <2>1, <2>2, StagesStay
  <2>4. QED BY <1>2, <2>2, <2>3 DEF ToCount
<1>3. QED BY <1>1, <1>2

LEMMA LogsTyped ==
    /\ ApplicationsTyped => stageLog \in Logs
    /\ ApplicationsTyped' => stageLog' \in Logs
BY DEF ApplicationsTyped, ApplicationsTypeOK, Logs

LEMMA CreateCounts ==
    ASSUME ApplicationsTyped, CountersFollow, NEW q \in StageCallers, NEW a \in Apps,
           CreateApplication(q, a)
    PROVE  CountersFollow'
<1>1. /\ ApplicationsTyped'
      /\ stageCall'[q].pc = "log" /\ stageCall'[q].op = "create" /\ stageCall'[q].app = a
      /\ \A p \in StageCallers : p # q => stageCall'[p] = stageCall[p]
      /\ application'[a].row
      /\ \A b \in Apps : b # a => application'[b] = application[b]
  BY CreateApplicationSteps
<1>2. /\ ~application[a].row /\ stageCall[q].pc = "idle" /\ stageCall'[q].stage = "APPLIED"
      /\ stageLog' = stageLog /\ counter' = counter /\ uncounted' = uncounted
  BY DEF CreateApplication, BeginStageCall, NoStageCall, ApplicationsTyped, ApplicationsTypeOK
<1>3. stageLog \in Logs /\ stageLog' \in Logs
  BY <1>1, LogsTyped
<1>4. ASSUME NEW j \in PostedJobs \ uncounted', NEW f \in Counters
      PROVE  counter'[j][f] + Cardinality(Uncounted(j, f))' = ToCount(j, f)'
  <2>1. j \in PostedJobs \ uncounted /\ ToCount(j, f) \in Int /\ counter[j][f] \in Int
    BY <1>2, <1>4, ToCountInt DEF CountersFollow
  <2>2. counter'[j][f] = counter[j][f] + 0
    BY <1>2, <2>1
  <2>3. Due(stageCall[q], j, f) = FALSE
    BY <1>2 DEF Due
  <2>4. CASE a[2] = j /\ f = "applications"
    <3>1. PICK R : R = Rows(j)
      OBVIOUS
    <3>2. Rows(j)' = R \cup {a} /\ a \notin R
      BY <1>1, <1>2, <2>4, <3>1 DEF Rows
    <3>3. Cardinality(R \cup {a}) = Cardinality(R) + 1
      BY <3>1, <3>2, RowsFinite, FS_AddElement
    <3>4. ToCount(j, f)' = ToCount(j, f) + 1
      BY <2>4, <3>1, <3>2, <3>3 DEF ToCount
    <3>5. Due(stageCall'[q], j, f)
      BY <1>1, <2>4 DEF Due, CounterOf
    <3>6. 0 + Open(Due(stageCall'[q], j, f)) = Open(Due(stageCall[q], j, f)) + 1
      BY <2>3, <3>5 DEF Open
    <3>7. QED BY <1>1, <2>1, <2>2, <3>4, <3>6, CounterMoves DEF CountersFollow
  <2>5. CASE ~(a[2] = j /\ f = "applications")
    <3>1. f = "applications" => Rows(j)' = Rows(j)
      BY <1>1, <2>5 DEF Rows
    <3>2. ToCount(j, f)' = ToCount(j, f) + 0
      BY <1>2, <1>3, <2>1, <3>1, ToCountStays
    <3>3. Due(stageCall'[q], j, f) = FALSE
      BY <1>1, <2>5 DEF Due, CounterOf
    <3>4. 0 + Open(Due(stageCall'[q], j, f)) = Open(Due(stageCall[q], j, f)) + 0
      BY <2>3, <3>3 DEF Open
    <3>5. QED BY <1>1, <2>1, <2>2, <3>2, <3>4, CounterMoves DEF CountersFollow
  <2>6. QED BY <2>4, <2>5
<1>5. \A p \in StageCallers : Applies(stageCall'[p])
  BY <1>1, <1>2 DEF CountersFollow, Applies
<1>6. QED BY <1>4, <1>5 DEF CountersFollow, CountersMatch, Applies

LEMMA LogCounts ==
    ASSUME ApplicationsTyped, CountersFollow, NEW q \in StageCallers, LogStage(q)
    PROVE  CountersFollow'
<1>1. PICK r \in StageCall : r = stageCall[q]
  BY DEF ApplicationsTyped, ApplicationsTypeOK
<1>2. /\ r.pc = "log" /\ r.app \in Apps /\ r.stage \in StageTypes /\ Applies(r)
      /\ application' = application /\ counter' = counter /\ uncounted' = uncounted
  BY <1>1 DEF LogStage, ApplicationsTyped, StageCall, CountersFollow
<1>3. /\ ApplicationsTyped'
      /\ stageLog'[r.app][r.stage] = stageLog[r.app][r.stage] + 1
      /\ \A a \in Apps : \A s \in StageTypes : <<a, s>> # <<r.app, r.stage>> =>
            stageLog'[a][s] = stageLog[a][s]
      /\ stageCall'[q].pc = IF r.op = "create" THEN "count" ELSE "cache"
      /\ stageCall'[q].op = r.op /\ stageCall'[q].app = r.app
      /\ stageCall'[q].stage = r.stage
      /\ \A p \in StageCallers : p # q => stageCall'[p] = stageCall[p]
  BY <1>1, LogStageSteps
<1>4. stageLog \in Logs /\ stageLog' \in Logs
  BY <1>3, LogsTyped
<1>5. PICK x \in Applicants, i \in PostedJobs : r.app = <<x, i>>
  BY <1>2 DEF Apps
<1>6. ASSUME NEW j \in PostedJobs \ uncounted', NEW f \in Counters
      PROVE  counter'[j][f] + Cardinality(Uncounted(j, f))' = ToCount(j, f)'
  <2>1. j \in PostedJobs \ uncounted /\ ToCount(j, f) \in Int /\ counter[j][f] \in Int
    BY <1>2, <1>6, ToCountInt DEF CountersFollow
  <2>2. counter'[j][f] = counter[j][f] + 0
    BY <1>2, <2>1
  <2>3. CASE j = i /\ f = r.stage
    <3>1. r.op = "advance" /\ f # "applications" /\ f \in StageTypes
      BY <1>2, <2>3 DEF Applies, Counters, StageCall, StageTypes
    <3>2. PICK was \in Logs, log \in Logs : was = stageLog /\ log = stageLog'
      BY <1>4
    <3>3. \A y \in Applicants : y # x => log[<<y, j>>][f] = was[<<y, j>>][f]
      <4>1. ASSUME NEW y \in Applicants, y # x PROVE log[<<y, j>>][f] = was[<<y, j>>][f]
        <5>1. <<y, j>> \in Apps /\ <<y, j>> # r.app
          BY <1>5, <4>1 DEF Apps
        <5>2. QED BY <1>3, <3>1, <3>2, <5>1
      <4>2. QED BY <4>1
    <3>4. /\ StagesLogged(was, j, f) \in Int
          /\ StagesLogged(log, j, f)
                = StagesLogged(was, j, f) - was[<<x, j>>][f] + log[<<x, j>>][f]
      BY <3>1, <3>3, StagesChange
    <3>5. log[<<x, j>>][f] = was[<<x, j>>][f] + 1
      BY <1>3, <1>5, <2>3, <3>2
    <3>6. <<x, j>> \in Apps
      BY DEF Apps
    <3>7. PICK a \in Int, b \in Int : a = StagesLogged(was, j, f) /\ b = was[<<x, j>>][f]
      BY <3>1, <3>4, <3>6 DEF Logs
    <3>8. StagesLogged(log, j, f) = StagesLogged(was, j, f) + 1
      <4>1. a - b + (b + 1) = a + 1
        OBVIOUS
      <4>2. QED BY <3>4, <3>5, <3>7, <4>1
    <3>9. ToCount(j, f)' = ToCount(j, f) + 1
      BY <3>1, <3>2, <3>8 DEF ToCount
    <3>10. ~Due(r, j, f)
      BY <1>2, <3>1 DEF Due
    <3>11. Due(stageCall'[q], j, f)
      BY <1>3, <1>5, <2>3, <3>1 DEF Due, CounterOf
    <3>12. 0 + Open(Due(stageCall'[q], j, f)) = Open(Due(stageCall[q], j, f)) + 1
      BY <1>1, <3>10, <3>11 DEF Open
    <3>13. QED BY <1>3, <2>1, <2>2, <3>9, <3>12, CounterMoves DEF CountersFollow
  <2>4. CASE ~(j = i /\ f = r.stage)
    <3>1. Rows(j)' = Rows(j)
      BY <1>2 DEF Rows
    <3>2. f # "applications" =>
             \A y \in Applicants : stageLog'[<<y, j>>][f] = stageLog[<<y, j>>][f]
      <4>1. ASSUME f # "applications", NEW y \in Applicants
            PROVE  stageLog'[<<y, j>>][f] = stageLog[<<y, j>>][f]
        <5>1. <<y, j>> \in Apps /\ f \in StageTypes
          BY <4>1 DEF Apps, Counters, StageTypes
        <5>2. <<<<y, j>>, f>> # <<r.app, r.stage>>
          BY <1>5, <2>4
        <5>3. QED BY <1>3, <5>1, <5>2
      <4>2. QED BY <4>1
    <3>3. ToCount(j, f)' = ToCount(j, f) + 0
      BY <1>4, <2>1, <3>1, <3>2, ToCountStays
    <3>4. Due(stageCall'[q], j, f) <=> Due(r, j, f)
      BY <1>2, <1>3, <1>5, <2>4 DEF Due, CounterOf, StageCall
    <3>5. 0 + Open(Due(stageCall'[q], j, f)) = Open(Due(stageCall[q], j, f)) + 0
      BY <1>1, <3>4 DEF Open
    <3>6. QED BY <1>3, <2>1, <2>2, <3>3, <3>5, CounterMoves DEF CountersFollow
  <2>5. QED BY <2>3, <2>4
<1>7. \A p \in StageCallers : Applies(stageCall'[p])
  BY <1>1, <1>2, <1>3 DEF CountersFollow, Applies
<1>8. QED BY <1>6, <1>7 DEF CountersFollow, CountersMatch, Applies

(* A step that neither logs a stage nor creates an application. *)
LEMMA CountersStay ==
    ASSUME ApplicationsTyped, ApplicationsTyped', CountersFollow, NEW q \in StageCallers,
           \A p \in StageCallers : p # q => stageCall'[p] = stageCall[p],
           stageLog' = stageLog, \A a \in Apps : application'[a].row = application[a].row,
           uncounted \subseteq uncounted', Applies(stageCall'[q]),
           \A j \in PostedJobs \ uncounted' : \A f \in Counters :
              counter'[j][f] + Open(Due(stageCall'[q], j, f))
                 = counter[j][f] + Open(Due(stageCall[q], j, f))
    PROVE  CountersFollow'
<1>1. stageLog \in Logs /\ stageLog' \in Logs
  BY LogsTyped
<1>2. ASSUME NEW j \in PostedJobs \ uncounted', NEW f \in Counters
      PROVE  counter'[j][f] + Cardinality(Uncounted(j, f))' = ToCount(j, f)'
  <2>1. j \in PostedJobs \ uncounted /\ ToCount(j, f) \in Int /\ counter[j][f] \in Int
    BY <1>2, ToCountInt DEF CountersFollow
  <2>2. counter'[j][f] \in Int
    BY <1>2 DEF ApplicationsTyped, ApplicationsTypeOK
  <2>3. PICK m \in Int : m = counter'[j][f] - counter[j][f]
    BY <2>1, <2>2
  <2>4. counter'[j][f] = counter[j][f] + m
    BY <2>1, <2>2, <2>3
  <2>5. Rows(j)' = Rows(j)
    BY DEF Rows
  <2>6. ToCount(j, f)' = ToCount(j, f) + 0
    BY <1>1, <2>1, <2>5, ToCountStays
  <2>7. PICK a \in Int, b \in Int :
          a = Open(Due(stageCall'[q], j, f)) /\ b = Open(Due(stageCall[q], j, f))
    BY DEF Open
  <2>8. counter'[j][f] + a = counter[j][f] + b
    BY <1>2, <2>7
  <2>9. m + a = b + 0
    BY <2>1, <2>2, <2>4, <2>8
  <2>10. QED BY <2>1, <2>4, <2>6, <2>7, <2>9, CounterMoves DEF CountersFollow
<1>3. \A p \in StageCallers : Applies(stageCall'[p])
  BY DEF CountersFollow, Applies
<1>4. QED BY <1>2, <1>3 DEF CountersFollow, CountersMatch, Applies

LEMMA OtherStepsCount ==
    ASSUME ApplicationsTyped, CountersFollow, NEW q \in StageCallers,
           \/ \E a \in Apps, s \in StageTypes : AdvanceStage(q, a, s)
           \/ CacheStage(q) \/ CountStage(q) \/ StageCallStops(q)
    PROVE  CountersFollow'
<1>1. PICK r \in StageCall : r = stageCall[q]
  BY DEF ApplicationsTyped, ApplicationsTypeOK
<1>2. ASSUME NEW a \in Apps, NEW s \in StageTypes, AdvanceStage(q, a, s) PROVE CountersFollow'
  <2>1. PICK call : call = [pc |-> "log", op |-> "advance", app |-> a, stage |-> s,
                            seen |-> application[a].maxStage]
    OBVIOUS
  <2>2. /\ ApplicationsTyped' /\ stageCall'[q] = call
        /\ \A p \in StageCallers : p # q => stageCall'[p] = stageCall[p]
    BY <1>2, <2>1, AdvanceStageSteps
  <2>3. /\ stageLog' = stageLog /\ application' = application /\ counter' = counter
        /\ uncounted' = uncounted /\ stageCall[q].pc = "idle"
    BY <1>2 DEF AdvanceStage, BeginStageCall
  <2>4. \A j, f : ~Due(stageCall'[q], j, f) /\ ~Due(stageCall[q], j, f)
    BY <2>1, <2>2, <2>3 DEF Due
  <2>5. Applies(stageCall'[q])
    BY <2>1, <2>2 DEF Applies
  <2>6. \A j, f : Open(Due(stageCall'[q], j, f)) = Open(Due(stageCall[q], j, f))
    BY <2>4 DEF Open
  <2>7. QED BY <2>2, <2>3, <2>5, <2>6, CountersStay
<1>3. ASSUME CacheStage(q) PROVE CountersFollow'
  <2>1. /\ ApplicationsTyped'
        /\ application'[r.app].row = application[r.app].row
        /\ \A a \in Apps : a # r.app => application'[a] = application[a]
        /\ stageCall'[q].pc = IF r.stage \in Counters THEN "count" ELSE "idle"
        /\ r.stage \in Counters => /\ stageCall'[q].op = r.op /\ stageCall'[q].app = r.app
                                   /\ stageCall'[q].stage = r.stage
        /\ \A p \in StageCallers : p # q => stageCall'[p] = stageCall[p]
    BY <1>1, <1>3, CacheStageSteps
  <2>2. /\ r.pc = "cache" /\ r.op = "advance" /\ stageLog' = stageLog /\ counter' = counter
        /\ uncounted' = uncounted
    BY <1>1, <1>3 DEF CacheStage, ApplicationsTyped
  <2>3. \A j : \A f \in Counters : Due(stageCall'[q], j, f) <=> Due(r, j, f)
    BY <2>1, <2>2 DEF Due, CounterOf
  <2>4. Applies(stageCall'[q])
    <3>1. CASE r.stage \in Counters
      BY <2>1, <2>2, <3>1 DEF Applies
    <3>2. CASE r.stage \notin Counters
      <4>1. stageCall'[q] = NoStageCall
        BY <1>1, <1>3, <3>2 DEF CacheStage, ApplicationsTyped, ApplicationsTypeOK
      <4>2. QED BY <4>1 DEF Applies, NoStageCall
    <3>3. QED BY <3>1, <3>2
  <2>5. \A j : \A f \in Counters : Open(Due(stageCall'[q], j, f)) = Open(Due(stageCall[q], j, f))
    BY <1>1, <2>3 DEF Open
  <2>6. QED BY <2>1, <2>2, <2>4, <2>5, CountersStay
<1>4. ASSUME CountStage(q) PROVE CountersFollow'
  <2>1. /\ ApplicationsTyped'
        /\ counter'[r.app[2]][CounterOf(r)] = counter[r.app[2]][CounterOf(r)] + 1
        /\ \A j \in PostedJobs : \A f \in Counters : <<j, f>> # <<r.app[2], CounterOf(r)>> =>
              counter'[j][f] = counter[j][f]
        /\ stageCall'[q] = NoStageCall
        /\ \A p \in StageCallers : p # q => stageCall'[p] = stageCall[p]
    BY <1>1, <1>4, CountStageSteps
  <2>2. /\ r.pc = "count" /\ stageLog' = stageLog /\ application' = application
        /\ uncounted' = uncounted
    BY <1>1, <1>4 DEF CountStage
  <2>3. \A j, f : ~Due(stageCall'[q], j, f)
    BY <2>1 DEF Due, NoStageCall
  <2>4. \A j, f : Due(r, j, f) <=> r.app[2] = j /\ CounterOf(r) = f
    BY <2>2 DEF Due
  <2>5. ASSUME NEW j \in PostedJobs, NEW f \in Counters
        PROVE  counter'[j][f] + Open(Due(stageCall'[q], j, f))
                  = counter[j][f] + Open(Due(stageCall[q], j, f))
    <3>1. counter[j][f] \in Int
      BY DEF ApplicationsTyped, ApplicationsTypeOK
    <3>2. Open(Due(stageCall'[q], j, f)) = 0
      BY <2>3 DEF Open
    <3>3. CASE <<j, f>> = <<r.app[2], CounterOf(r)>>
      <4>1. counter'[j][f] = counter[j][f] + 1 /\ Open(Due(stageCall[q], j, f)) = 1
        BY <1>1, <2>1, <2>4, <3>3 DEF Open
      <4>2. QED BY <3>1, <3>2, <4>1
    <3>4. CASE <<j, f>> # <<r.app[2], CounterOf(r)>>
      <4>1. counter'[j][f] = counter[j][f] /\ Open(Due(stageCall[q], j, f)) = 0
        BY <1>1, <2>1, <2>4, <3>4 DEF Open
      <4>2. QED BY <3>1, <3>2, <4>1
    <3>5. QED BY <3>3, <3>4
  <2>6. Applies(stageCall'[q])
    BY <2>1 DEF Applies, NoStageCall
  <2>7. QED BY <2>1, <2>2, <2>5, <2>6, CountersStay
<1>5. ASSUME StageCallStops(q) PROVE CountersFollow'
  <2>1. /\ ApplicationsTyped' /\ stageCall'[q] = NoStageCall
        /\ \A p \in StageCallers : p # q => stageCall'[p] = stageCall[p]
    BY <1>5, StageCallStopsSteps
  <2>2. /\ stageLog' = stageLog /\ application' = application /\ counter' = counter
        /\ uncounted' = IF r.pc = "log" /\ r.op = "advance" THEN uncounted
                        ELSE uncounted \cup {r.app[2]}
    BY <1>1, <1>5 DEF StageCallStops
  <2>3. \A j, f : ~Due(stageCall'[q], j, f)
    BY <2>1 DEF Due, NoStageCall
  <2>4. \A j \in PostedJobs \ uncounted' : \A f : ~Due(r, j, f)
    BY <2>2 DEF Due
  <2>5. Applies(stageCall'[q])
    BY <2>1 DEF Applies, NoStageCall
  <2>6. \A j \in PostedJobs \ uncounted' : \A f :
           Open(Due(stageCall'[q], j, f)) = Open(Due(stageCall[q], j, f))
    BY <1>1, <2>3, <2>4 DEF Open
  <2>7. QED BY <2>1, <2>2, <2>5, <2>6, CountersStay
<1>6. QED BY <1>2, <1>3, <1>4, <1>5

LEMMA CountersFollowBegin == ApplicationsInit => CountersFollow
<1> SUFFICES ASSUME ApplicationsInit PROVE CountersFollow
  OBVIOUS
<1>1. \A q \in StageCallers : stageCall[q] = NoStageCall
  BY DEF ApplicationsInit
<1>2. ASSUME NEW j \in PostedJobs, NEW f \in Counters
      PROVE  counter[j][f] + Cardinality(Uncounted(j, f)) = ToCount(j, f)
  <2>1. Uncounted(j, f) = {}
    BY <1>1 DEF Uncounted, NoStageCall
  <2>2. Rows(j) = {}
    BY DEF ApplicationsInit, Rows
  <2>3. ASSUME f # "applications" PROVE ToCount(j, f) = 0
    <3>1. f \in StageTypes
      BY <2>3 DEF Counters, StageTypes
    <3>2. \A y \in Applicants : stageLog[<<y, j>>][f] = 0
      <4>1. \A y \in Applicants : <<y, j>> \in Apps
        BY DEF Apps
      <4>2. QED BY <3>1, <4>1 DEF ApplicationsInit
    <3>3. PICK log : log = stageLog
      OBVIOUS
    <3>4. PICK h : h = [k \in Applicants |-> log[<<k, j>>][f]]
      OBVIOUS
    <3>5. h \in [Applicants -> Int] /\ \A y \in Applicants : h[y] = 0
      BY <3>2, <3>3, <3>4
    <3>6. PICK g : g = [s \in SUBSET Applicants |-> 0]
      OBVIOUS
    <3>7. Sums(g, h, Applicants)
      BY <3>5, <3>6 DEF Sums
    <3>8. StagesLogged(log, j, f) = g[Applicants]
      BY <3>4, <3>7, StagesLoggedSums
    <3>9. g[Applicants] = 0
      BY <3>6
    <3>10. QED BY <2>3, <3>3, <3>8, <3>9 DEF ToCount
  <2>4. ToCount(j, f) = 0
    BY <2>2, <2>3, FS_EmptySet DEF ToCount
  <2>5. counter[j][f] = 0
    BY DEF ApplicationsInit
  <2>6. QED BY <2>1, <2>4, <2>5, FS_EmptySet
<1>3. QED BY <1>1, <1>2 DEF CountersFollow, CountersMatch, Applies, NoStageCall

(* Applications: the counters of a job are the rows they count, but for      *)
(* calls on their way to the counter and jobs with a call that stopped       *)
(* before it (job-application.service.ts: create, advanceStage).             *)
THEOREM CountersOfJobs == ApplicationsSpec => []CountersMatchRows
<1>1. ApplicationsInit => ApplicationsTyped /\ CountersFollow
  BY ApplicationsTypedBegins, CountersFollowBegin
<1>2. ApplicationsTyped /\ CountersFollow /\ [ApplicationsNext]_applicationsVars
         => ApplicationsTyped' /\ CountersFollow'
  <2>1. SUFFICES ASSUME ApplicationsTyped, CountersFollow, [ApplicationsNext]_applicationsVars
                 PROVE  CountersFollow'
    BY ApplicationsTypedKept
  <2>2. CASE UNCHANGED applicationsVars
    <3>1. /\ application' = application /\ stageLog' = stageLog /\ counter' = counter
          /\ stageCall' = stageCall /\ uncounted' = uncounted
      BY <2>2 DEF applicationsVars
    <3>2. /\ \A j, f : ToCount(j, f)' = ToCount(j, f)
          /\ \A j, f : Uncounted(j, f)' = Uncounted(j, f)
      BY <3>1 DEF ToCount, Rows, Uncounted
    <3>3. QED BY <2>1, <3>1, <3>2 DEF CountersFollow, CountersMatch, Applies
  <2>3. CASE ApplicationsNext
    BY <2>1, <2>3, CreateCounts, LogCounts, OtherStepsCount DEF ApplicationsNext
  <2>4. QED BY <2>1, <2>2, <2>3
<1>3. CountersFollow => CountersMatchRows
  BY CountersMatchIs DEF CountersFollow
<1>4. QED BY <1>1, <1>2, <1>3, PTL DEF ApplicationsSpec

-----------------------------------------------------------------------------
(* Teams: types.  A call past its first await has a team, and a parent that  *)
(* was created; a team that is being created is nobody else's.               *)

TeamCall == [pc : {"idle", "insert", "parent", "expand", "move", "delete"},
             team : TreeTeams \cup {Root}, parent : TreeTeams \cup {Root}]

Created(t) == t # Root => team[t].row # "none"

TeamCallFits(r) ==
    /\ r.pc # "idle" => r.team \in TreeTeams
    /\ r.pc \in {"parent", "expand"} => r.parent \in TreeTeams
    /\ r.pc \in {"insert", "expand", "move"} => Created(r.parent)
    /\ r.pc = "insert" => team[r.team].row = "none"
    /\ r.pc \in {"parent", "expand", "move", "delete"} => Created(r.team)

TeamsTyped ==
    /\ TeamTreeTypeOK
    /\ \A t \in TreeTeams : team[t].row # "none" => Created(team[t].parent)
    /\ \A q \in TeamCallers :
          /\ TeamCallFits(teamCall[q])
          /\ teamCall[q].pc = "insert" =>
                \A p \in TeamCallers \ {q} : teamCall[p].team # teamCall[q].team

LEMMA NoTeamCallFits == NoTeamCall \in TeamCall /\ TeamCallFits(NoTeamCall)
BY DEF NoTeamCall, TeamCall, TeamCallFits

(* The call of q becomes another of the same team, or of one that exists, or *)
(* ends; rows are created and deleted, and no other call sees its team come. *)
LEMMA TeamMoves ==
    ASSUME TeamsTyped, NEW q \in TeamCallers, NEW call \in TeamCall,
           teamCall' = [teamCall EXCEPT ![q] = call],
           TeamCallFits(call)', call.pc # "insert",
           call.team \in {Root, teamCall[q].team} \/ Created(call.team),
           \A t \in TreeTeams : Created(t) => Created(t)',
           \A t \in TreeTeams : t # teamCall[q].team => (Created(t)' => Created(t))
    PROVE  /\ teamCall' \in [TeamCallers -> TeamCall]
           /\ \A p \in TeamCallers :
                 /\ TeamCallFits(teamCall[p])'
                 /\ teamCall'[p].pc = "insert" =>
                       \A o \in TeamCallers \ {p} : teamCall'[o].team # teamCall'[p].team
<1>1. teamCall \in [TeamCallers -> TeamCall]
  BY DEF TeamsTyped, TeamTreeTypeOK, TeamCall
<1>2. /\ teamCall' \in [TeamCallers -> TeamCall] /\ teamCall'[q] = call
      /\ \A p \in TeamCallers : p # q => teamCall'[p] = teamCall[p]
  BY <1>1
<1>3. ASSUME NEW p \in TeamCallers
      PROVE  /\ TeamCallFits(teamCall[p])'
             /\ teamCall'[p].pc = "insert" =>
                   \A o \in TeamCallers \ {p} : teamCall'[o].team # teamCall'[p].team
  <2>1. CASE p = q
    <3>1. PICK z : z = teamCall'[p]
      OBVIOUS
    <3>2. TeamCallFits(call)' /\ z = call
      BY <1>2, <2>1, <3>1
    <3>3. QED BY <3>1, <3>2 DEF TeamCallFits
  <2>2. CASE p # q
    <3>1. PICK r \in TeamCall : r = teamCall[p] /\ teamCall'[p] = r
      BY <1>1, <1>2, <2>2
    <3>2. TeamCallFits(r)
      BY <3>1 DEF TeamsTyped
    <3>3. r.pc = "insert" => /\ \A o \in TeamCallers \ {p} : teamCall[o].team # r.team
                             /\ r.team \in TreeTeams /\ team[r.team].row = "none"
      BY <3>1, <3>2 DEF TeamsTyped, TeamCallFits
    <3>4. r.pc = "insert" => team'[r.team].row = "none"
      BY <2>2, <3>3, TeamTreeAssumption DEF Created
    <3>5. r.parent \in TreeTeams \cup {Root} /\ (Created(r.parent) => Created(r.parent)')
      BY DEF TeamCall, Created
    <3>6. TeamCallFits(teamCall[p])'
      BY <3>1, <3>2, <3>4, <3>5 DEF TeamCallFits, Created
    <3>7. r.pc = "insert" => call.team # r.team
      BY <2>2, <3>3, TeamTreeAssumption DEF Created
    <3>8. QED BY <1>2, <3>1, <3>3, <3>6, <3>7
  <2>3. QED BY <2>1, <2>2
<1>4. QED BY <1>2, <1>3

LEMMA TeamBegins ==
    ASSUME TeamsTyped, NEW q \in TeamCallers, NEW call \in TeamCall, TeamCallFits(call),
           BeginTeamCall(q, call),
           \/ call.pc # "insert" /\ Created(call.team)
           \/ call.pc = "insert" /\ \A r \in TeamCallers : teamCall[r].team # call.team
    PROVE  TeamsTyped'
<1>1. /\ teamCall' = [teamCall EXCEPT ![q] = call] /\ UNCHANGED <<team, overtaken>>
      /\ teamCalls' = teamCalls + 1 /\ teamCalls < MaxTeamCalls
  BY DEF BeginTeamCall
<1>2. teamCalls' \in 0..MaxTeamCalls
  BY <1>1, TeamTreeAssumption DEF TeamsTyped, TeamTreeTypeOK
<1>3. teamCall \in [TeamCallers -> TeamCall]
  BY DEF TeamsTyped, TeamTreeTypeOK, TeamCall
<1>4. /\ teamCall' \in [TeamCallers -> TeamCall] /\ teamCall'[q] = call
      /\ \A p \in TeamCallers : p # q => teamCall'[p] = teamCall[p]
  BY <1>1, <1>3
<1>5. \A p \in TeamCallers : TeamCallFits(teamCall[p])'
  BY <1>1, <1>4 DEF TeamsTyped, TeamCallFits, Created
<1>6. ASSUME NEW p \in TeamCallers, teamCall'[p].pc = "insert", NEW o \in TeamCallers \ {p}
      PROVE  teamCall'[o].team # teamCall'[p].team
  <2>1. CASE p = q
    BY <1>4, <1>6, <2>1
  <2>2. CASE p # q
    <3>1. /\ teamCall'[p] = teamCall[p] /\ teamCall[p].team \in TreeTeams
          /\ team[teamCall[p].team].row = "none"
          /\ \A x \in TeamCallers \ {p} : teamCall[x].team # teamCall[p].team
      BY <1>4, <1>6, <2>2 DEF TeamsTyped, TeamCallFits
    <3>2. call.team # teamCall[p].team
      BY <3>1, TeamTreeAssumption DEF Created
    <3>3. QED BY <1>4, <3>1, <3>2
  <2>3. QED BY <2>1, <2>2
<1>7. QED
  BY <1>1, <1>2, <1>4, <1>5, <1>6 DEF TeamsTyped, TeamTreeTypeOK, TeamCall, Created

LEMMA TeamsTypedKept ==
    ASSUME TeamsTyped, [TeamTreeNext]_teamTreeVars
    PROVE  TeamsTyped'
<1>1. CASE UNCHANGED teamTreeVars
  BY <1>1 DEF TeamsTyped, TeamTreeTypeOK, TeamCallFits, Created, teamTreeVars
<1>2. ASSUME NEW q \in TeamCallers, NEW t \in TreeTeams, NEW p \in TreeTeams \cup {Root},
             CreateTeam(q, t, p)
      PROVE  TeamsTyped'
  <2>1. PICK call : call = [pc |-> "insert", team |-> t, parent |-> p]
    OBVIOUS
  <2>2. call \in TeamCall /\ TeamCallFits(call)
    BY <1>2, <2>1 DEF TeamCall, TeamCallFits, CreateTeam, Created, IsLive
  <2>3. QED BY <1>2, <2>1, <2>2, TeamBegins DEF CreateTeam
<1>3. ASSUME NEW q \in TeamCallers, NEW t \in TreeTeams, NEW p \in TreeTeams \cup {Root},
             MoveTeam(q, t, p)
      PROVE  TeamsTyped'
  <2>1. PICK call : call = [pc |-> IF p = Root THEN "move" ELSE "parent", team |-> t, parent |-> p]
    OBVIOUS
  <2>2. call \in TeamCall /\ TeamCallFits(call) /\ Created(t) /\ call.pc # "insert"
    BY <1>3, <2>1 DEF TeamCall, TeamCallFits, MoveTeam, Created, IsLive
  <2>3. QED BY <1>3, <2>1, <2>2, TeamBegins DEF MoveTeam
<1>4. ASSUME NEW q \in TeamCallers, NEW t \in TreeTeams, DeleteTeam(q, t) PROVE TeamsTyped'
  <2>1. PICK call : call = [pc |-> "delete", team |-> t, parent |-> Root]
    OBVIOUS
  <2>2. call \in TeamCall /\ TeamCallFits(call) /\ Created(t)
    BY <1>4, <2>1 DEF TeamCall, TeamCallFits, DeleteTeam, Created, IsLive
  <2>3. QED BY <1>4, <2>1, <2>2, TeamBegins DEF DeleteTeam
<1>5. ASSUME NEW q \in TeamCallers, FindNewParent(q) \/ CheckCycle(q) PROVE TeamsTyped'
  <2>1. PICK r \in TeamCall : r = teamCall[q]
    BY DEF TeamsTyped, TeamTreeTypeOK, TeamCall
  <2>2. TeamCallFits(r) /\ r.pc \in {"parent", "expand"}
    BY <1>5, <2>1 DEF TeamsTyped, FindNewParent, CheckCycle
  <2>3. PICK call : /\ teamCall' = [teamCall EXCEPT ![q] = call]
                    /\ \/ call = NoTeamCall
                       \/ r.pc = "parent" /\ call = [r EXCEPT !.pc = "expand"] /\ IsLive(r.parent)
                       \/ r.pc = "expand" /\ call = [r EXCEPT !.pc = "move"]
    BY <1>5, <2>1 DEF FindNewParent, CheckCycle, TeamsTyped, TeamTreeTypeOK
  <2>4. UNCHANGED <<team, overtaken, teamCalls>>
    BY <1>5 DEF FindNewParent, CheckCycle
  <2>5. call \in TeamCall /\ TeamCallFits(call) /\ call.pc # "insert"
           /\ call.team \in {Root, r.team}
    <3>1. CASE call = NoTeamCall
      BY <3>1, NoTeamCallFits DEF NoTeamCall
    <3>2. CASE r.pc = "parent" /\ call = [r EXCEPT !.pc = "expand"] /\ IsLive(r.parent)
      BY <2>2, <3>2 DEF TeamCall, TeamCallFits, Created, IsLive
    <3>3. CASE r.pc = "expand" /\ call = [r EXCEPT !.pc = "move"]
      BY <2>2, <3>3 DEF TeamCall, TeamCallFits
    <3>4. QED BY <2>3, <3>1, <3>2, <3>3
  <2>6. TeamCallFits(call)'
    BY <2>4, <2>5 DEF TeamCallFits, Created
  <2>7. \A t \in TreeTeams : Created(t)' <=> Created(t)
    BY <2>4 DEF Created
  <2>8. /\ teamCall' \in [TeamCallers -> TeamCall]
        /\ \A p \in TeamCallers :
              /\ TeamCallFits(teamCall[p])'
              /\ teamCall'[p].pc = "insert" =>
                    \A o \in TeamCallers \ {p} : teamCall'[o].team # teamCall'[p].team
    BY <2>1, <2>3, <2>5, <2>6, <2>7, TeamMoves
  <2>9. QED BY <2>4, <2>8 DEF TeamsTyped, TeamTreeTypeOK, TeamCall, Created
<1>6. ASSUME NEW q \in TeamCallers, WriteTeam(q) PROVE TeamsTyped'
  <2>1. PICK r \in TeamCall : r = teamCall[q]
    BY DEF TeamsTyped, TeamTreeTypeOK, TeamCall
  <2>2. /\ r.pc \in {"insert", "move", "delete"} /\ TeamCallFits(r) /\ r.team \in TreeTeams
        /\ r.parent \in TreeTeams \cup {Root}
    BY <1>6, <2>1 DEF TeamsTyped, WriteTeam, TeamCallFits, TeamCall
  <2>3. PICK old \in [row : {"none", "live", "deleted"}, parent : TreeTeams \cup {Root}] :
           old = team[r.team]
    BY <2>2 DEF TeamsTyped, TeamTreeTypeOK
  <2>4. PICK new : new = IF r.pc = "delete" THEN [old EXCEPT !.row = "deleted"]
                         ELSE [row |-> IF r.pc = "insert" THEN "live" ELSE old.row,
                               parent |-> r.parent]
    OBVIOUS
  <2>4a. /\ new \in [row : {"none", "live", "deleted"}, parent : TreeTeams \cup {Root}]
         /\ old.row # "none" \/ r.pc = "insert" => new.row # "none"
         /\ new.parent = IF r.pc = "delete" THEN old.parent ELSE r.parent
    BY <2>2, <2>4
  <2>4b. team' = [team EXCEPT ![r.team] = new]
    BY <1>6, <2>1, <2>3, <2>4 DEF WriteTeam
  <2>5. /\ team' \in [TreeTeams -> [row : {"none", "live", "deleted"},
                                    parent : TreeTeams \cup {Root}]]
        /\ team'[r.team] = new /\ \A t \in TreeTeams : t # r.team => team'[t] = team[t]
    BY <2>2, <2>4a, <2>4b DEF TeamsTyped, TeamTreeTypeOK
  <2>6. old.row # "none" => new.row # "none"
    BY <2>4a
  <2>7. \A t \in TreeTeams \cup {Root} : /\ Created(t) => Created(t)'
                                         /\ t # r.team => (Created(t)' => Created(t))
    BY <2>3, <2>5, <2>6 DEF Created
  <2>8. /\ teamCall' = [teamCall EXCEPT ![q] = NoTeamCall] /\ teamCalls' = teamCalls
        /\ overtaken' \in BOOLEAN
    BY <1>6 DEF WriteTeam, TeamsTyped, TeamTreeTypeOK
  <2>9. TeamCallFits(NoTeamCall)' /\ NoTeamCall.team = Root /\ NoTeamCall.pc = "idle"
    BY DEF NoTeamCall, TeamCallFits
  <2>10. /\ teamCall' \in [TeamCallers -> TeamCall]
         /\ \A p \in TeamCallers :
               /\ TeamCallFits(teamCall[p])'
               /\ teamCall'[p].pc = "insert" =>
                     \A o \in TeamCallers \ {p} : teamCall'[o].team # teamCall'[p].team
    BY <2>1, <2>7, <2>8, <2>9, NoTeamCallFits, TeamMoves
  <2>11. ASSUME NEW t \in TreeTeams, team'[t].row # "none"
         PROVE  Created(team[t].parent)'
    <3>1. CASE t = r.team
      <4>1. new.row # "none" /\ team'[t].parent = new.parent
        BY <2>5, <2>11, <3>1
      <4>2. new.parent \in TreeTeams \cup {Root} /\ Created(new.parent)
        <5>1. CASE r.pc = "delete"
          <6>1. new.parent = old.parent /\ old.row # "none"
            BY <2>2, <2>3, <2>4a, <5>1, TeamTreeAssumption DEF TeamCallFits, Created
          <6>2. QED BY <2>2, <2>3, <6>1 DEF TeamsTyped
        <5>2. CASE r.pc # "delete"
          BY <2>2, <2>4a, <5>2 DEF TeamCallFits
        <5>3. QED BY <5>1, <5>2
      <4>3. QED BY <2>7, <4>1, <4>2 DEF Created
    <3>2. CASE t # r.team
      <4>1. /\ team'[t] = team[t] /\ Created(team[t].parent)
            /\ team[t].parent \in TreeTeams \cup {Root}
        BY <2>5, <2>11, <3>2 DEF TeamsTyped, TeamTreeTypeOK
      <4>2. QED BY <2>7, <4>1 DEF Created
    <3>3. QED BY <3>1, <3>2
  <2>12. QED
    BY <2>5, <2>8, <2>10, <2>11 DEF TeamsTyped, TeamTreeTypeOK, TeamCall
<1>7. QED BY <1>1, <1>2, <1>3, <1>4, <1>5, <1>6 DEF TeamTreeNext

-----------------------------------------------------------------------------
(* Teams: the tree.  A move that was checked comes with a set that has the   *)
(* team and all below it, and not the new parent.                            *)

LiveTeams == {t \in TreeTeams : IsLive(t)}
Tree == \A S \in SUBSET LiveTeams : S # {} => \E t \in S : team[t].parent \notin S
Below(T, t) == T \in SUBSET TreeTeams /\ HoldsTree(T, t)
MayMove(r) == r.pc = "move" /\ r.parent # Root => \E T : Below(T, r.team) /\ r.parent \notin T

TreeKept ==
    ~overtaken => Tree /\ \A q \in TeamCallers : MayMove(teamCall[q])

LEMMA TreeStays ==
    ASSUME TreeKept, UNCHANGED <<team, overtaken>>, NEW q \in TeamCallers,
           \A p \in TeamCallers : p # q => teamCall'[p] = teamCall[p],
           ~overtaken => MayMove(teamCall'[q])
    PROVE  TreeKept'
<1>1. ASSUME NEW p \in TeamCallers, ~overtaken
      PROVE  MayMove(teamCall[p])'
  <2>1. PICK z : z = teamCall'[p]
    OBVIOUS
  <2>2. MayMove(z)
    <3>1. CASE p = q
      BY <1>1, <2>1, <3>1
    <3>2. CASE p # q
      BY <1>1, <2>1, <3>2 DEF TreeKept
    <3>3. QED BY <3>1, <3>2
  <2>3. QED BY <2>1, <2>2 DEF MayMove, Below, HoldsTree, IsLive
<1>2. QED BY <1>1 DEF TreeKept, Tree, LiveTeams, IsLive

(* What a write makes of the rows. *)
LEMMA TeamWrites ==
    ASSUME TeamsTyped, NEW q \in TeamCallers, WriteTeam(q), NEW r, r = teamCall[q]
    PROVE  /\ r.pc \in {"insert", "move", "delete"} /\ r.team \in TreeTeams
           /\ r.parent \in TreeTeams \cup {Root}
           /\ \A t \in TreeTeams : t # r.team => team'[t] = team[t]
           /\ team'[r.team].parent = IF r.pc = "delete" THEN team[r.team].parent ELSE r.parent
           /\ r.pc = "insert" => team[r.team].row = "none"
           /\ r.pc = "delete" => team'[r.team].row # "live"
           /\ r.pc = "move" => team'[r.team].row = team[r.team].row
           /\ \A p \in TeamCallers : p # q => teamCall'[p] = teamCall[p]
           /\ teamCall'[q].pc = "idle"
<1>1. /\ r.pc \in {"insert", "move", "delete"} /\ r.team \in TreeTeams
      /\ r.parent \in TreeTeams \cup {Root}
      /\ r.pc = "insert" => team[r.team].row = "none"
  BY DEF WriteTeam, TeamsTyped, TeamCallFits, TeamTreeTypeOK
<1>2. team \in [TreeTeams -> [row : {"none", "live", "deleted"}, parent : TreeTeams \cup {Root}]]
  BY DEF TeamsTyped, TeamTreeTypeOK
<1>3. PICK old : old = team[r.team] /\ old = [row |-> old.row, parent |-> old.parent]
  BY <1>1, <1>2
<1>4. PICK new : new = IF r.pc = "delete" THEN [old EXCEPT !.row = "deleted"]
                       ELSE [row |-> IF r.pc = "insert" THEN "live" ELSE old.row,
                             parent |-> r.parent]
  OBVIOUS
<1>5. team' = [team EXCEPT ![r.team] = new]
  BY <1>1, <1>3, <1>4 DEF WriteTeam
<1>6. team'[r.team] = new /\ \A t \in TreeTeams : t # r.team => team'[t] = team[t]
  BY <1>1, <1>2, <1>5
<1>7. /\ new.parent = IF r.pc = "delete" THEN old.parent ELSE r.parent
      /\ r.pc = "delete" => new.row = "deleted"
      /\ r.pc = "move" => new.row = old.row
  BY <1>1, <1>3, <1>4
<1>8. teamCall'[q].pc = "idle" /\ \A p \in TeamCallers : p # q => teamCall'[p] = teamCall[p]
  BY DEF WriteTeam, TeamsTyped, TeamTreeTypeOK, NoTeamCall
<1>9. QED BY <1>1, <1>3, <1>6, <1>7, <1>8

(* The tree stays one: a new team is a leaf; a moved one goes outside what   *)
(* is below it.                                                              *)
LEMMA WriteKeepsTree ==
    ASSUME TeamsTyped, Tree, NEW q \in TeamCallers, WriteTeam(q), MayMove(teamCall[q])
    PROVE  Tree'
<1>1. PICK r : r = teamCall[q]
  OBVIOUS
<1>2. /\ r.pc \in {"insert", "move", "delete"} /\ r.team \in TreeTeams
      /\ r.parent \in TreeTeams \cup {Root}
      /\ \A t \in TreeTeams : t # r.team => team'[t] = team[t]
      /\ team'[r.team].parent = IF r.pc = "delete" THEN team[r.team].parent ELSE r.parent
      /\ r.pc = "insert" => team[r.team].row = "none"
      /\ r.pc = "delete" => team'[r.team].row # "live"
      /\ r.pc = "move" => team'[r.team].row = team[r.team].row
  BY <1>1, TeamWrites
<1>3. TeamCallFits(r)
  BY <1>1 DEF TeamsTyped
<1>. SUFFICES ASSUME NEW S \in SUBSET LiveTeams', S # {}
              PROVE  \E t \in S : team'[t].parent \notin S
  BY DEF Tree
<1>4. ASSUME NEW t \in S, t # r.team
      PROVE  t \in LiveTeams /\ team'[t].parent = team[t].parent
  BY <1>2, <1>4 DEF LiveTeams, IsLive
<1>5. CASE r.team \notin S
  <2>1. S \in SUBSET LiveTeams
    BY <1>4, <1>5
  <2>2. PICK t \in S : team[t].parent \notin S
    BY <2>1 DEF Tree
  <2>3. QED BY <1>4, <1>5, <2>2
<1>6. CASE r.team \in S /\ r.parent \notin S /\ r.pc # "delete"
  BY <1>2, <1>6
<1>7. CASE r.team \in S /\ r.parent \in S /\ r.pc = "insert"
  <2>1. PICK U : U = S \ {r.team}
    OBVIOUS
  <2>2. U \in SUBSET LiveTeams
    BY <1>4, <2>1
  <2>3. r.parent \in U
    BY <1>2, <1>3, <1>7, <2>1, TeamTreeAssumption DEF TeamCallFits, Created, LiveTeams
  <2>4. PICK t \in U : team[t].parent \notin U
    BY <2>2, <2>3 DEF Tree
  <2>5. team[t].parent # r.team
    <3>1. t \in TreeTeams /\ team[t].row = "live"
      BY <2>2, <2>4 DEF LiveTeams, IsLive
    <3>2. Created(team[t].parent)
      BY <3>1 DEF TeamsTyped
    <3>3. QED BY <1>2, <1>7, <3>2, TeamTreeAssumption DEF Created
  <2>6. QED BY <1>4, <2>1, <2>4, <2>5
<1>8. CASE r.team \in S /\ r.parent \in S /\ r.pc = "move"
  <2>1. r.parent # Root
    BY <1>8, TeamTreeAssumption DEF LiveTeams
  <2>2. PICK T : Below(T, r.team) /\ r.parent \notin T
    BY <1>1, <1>8, <2>1 DEF MayMove
  <2>3. r.team \in T
    BY <1>2, <1>8, <2>2 DEF Below, HoldsTree, LiveTeams, IsLive
  <2>4. PICK U : U = S \ T
    OBVIOUS
  <2>5. U \in SUBSET LiveTeams /\ r.parent \in U /\ r.team \notin U
    BY <1>4, <1>8, <2>2, <2>3, <2>4
  <2>6. PICK t \in U : team[t].parent \notin U
    BY <2>5 DEF Tree
  <2>7. team[t].parent \notin T
    BY <2>2, <2>4, <2>5, <2>6 DEF Below, HoldsTree, LiveTeams
  <2>8. QED BY <1>4, <2>4, <2>5, <2>6, <2>7
<1>9. r.team \in S => r.pc # "delete"
  BY <1>2 DEF LiveTeams, IsLive
<1>10. QED BY <1>2, <1>5, <1>6, <1>7, <1>8, <1>9

(* Another move that was checked stays right, unless this one overtook it.   *)
LEMMA WriteKeepsMoves ==
    ASSUME TeamsTyped, NEW q \in TeamCallers, WriteTeam(q), ~overtaken',
           NEW p \in TeamCallers, MayMove(teamCall[p])
    PROVE  MayMove(teamCall[p])'
<1>1. PICK r : r = teamCall[q]
  OBVIOUS
<1>2. /\ r.pc \in {"insert", "move", "delete"} /\ r.team \in TreeTeams
      /\ r.parent \in TreeTeams \cup {Root}
      /\ \A t \in TreeTeams : t # r.team => team'[t] = team[t]
      /\ team'[r.team].parent = IF r.pc = "delete" THEN team[r.team].parent ELSE r.parent
      /\ r.pc = "insert" => team[r.team].row = "none"
      /\ r.pc = "delete" => team'[r.team].row # "live"
      /\ r.pc = "move" => team'[r.team].row = team[r.team].row
      /\ \A o \in TeamCallers : o # q => teamCall'[o] = teamCall[o]
      /\ teamCall'[q].pc = "idle"
  BY <1>1, TeamWrites
<1>3. SUFFICES ASSUME p # q, teamCall[p].pc = "move", teamCall[p].parent # Root
               PROVE  \E T : Below(T, teamCall[p].team)' /\ teamCall[p].parent \notin T
  BY <1>2 DEF MayMove
<1>4. PICK T : Below(T, teamCall[p].team) /\ teamCall[p].parent \notin T
  BY <1>3 DEF MayMove
<1>5. PICK s \in TreeTeams : s = teamCall[p].team
  BY <1>3 DEF TeamsTyped, TeamCallFits
<1>6. T \in SUBSET TreeTeams
  BY <1>4 DEF Below
<1>7. CASE r.pc = "insert"
  <2>1. PICK U \in SUBSET TreeTeams : U = T \cup {r.team}
    BY <1>2, <1>6
  <2>2. teamCall[p].parent # r.team
    BY <1>2, <1>3, <1>7, TeamTreeAssumption DEF TeamsTyped, TeamCallFits, Created
  <2>3. ASSUME NEW t \in TreeTeams, team'[t].row = "live", team'[t].parent \in U
        PROVE  t \in U
    <3>1. CASE t = r.team
      BY <2>1, <3>1
    <3>2. CASE t # r.team
      <4>1. team[t].row = "live" /\ team[t].parent \in U
        BY <1>2, <2>3, <3>2
      <4>2. team[t].parent # r.team
        BY <1>2, <1>7, <4>1, TeamTreeAssumption DEF TeamsTyped, Created
      <4>3. t \in T
        BY <1>4, <2>1, <4>1, <4>2 DEF Below, HoldsTree, IsLive
      <4>4. QED BY <2>1, <4>3
    <3>3. QED BY <3>1, <3>2
  <2>4. team'[s].row = "live" => s \in U
    BY <1>2, <1>4, <1>5, <2>1 DEF Below, HoldsTree, IsLive
  <2>5. Below(U, s)'
    BY <2>1, <2>3, <2>4 DEF Below, HoldsTree, IsLive
  <2>6. teamCall'[p] = teamCall[p]
    BY <1>2, <1>3
  <2>7. QED BY <1>4, <1>5, <2>1, <2>2, <2>5, <2>6 DEF Below, HoldsTree, IsLive
<1>8. CASE r.pc # "insert"
  <2>1. r.pc = "delete" \/ r.parent = Root
    BY <1>1, <1>2, <1>3, <1>8 DEF WriteTeam
  <2>2. ASSUME NEW t \in TreeTeams, team'[t].row = "live", team'[t].parent \in T
        PROVE  t \in T
    <3>1. t # r.team
      BY <1>2, <1>6, <1>8, <2>1, <2>2, TeamTreeAssumption
    <3>2. team[t].row = "live" /\ team[t].parent \in T
      BY <1>2, <2>2, <3>1
    <3>3. QED BY <1>4, <3>2 DEF Below, HoldsTree, IsLive
  <2>3. team'[s].row = "live" => s \in T
    BY <1>2, <1>4, <1>5, <1>8 DEF Below, HoldsTree, IsLive
  <2>4. Below(T, s)'
    BY <1>6, <2>2, <2>3 DEF Below, HoldsTree, IsLive
  <2>5. teamCall'[p] = teamCall[p]
    BY <1>2, <1>3
  <2>6. QED BY <1>4, <1>5, <2>4, <2>5 DEF Below, HoldsTree, IsLive
<1>9. QED BY <1>7, <1>8

LEMMA TreeKeptKept ==
    ASSUME TeamsTyped, TreeKept, [TeamTreeNext]_teamTreeVars
    PROVE  TreeKept'
<1>1. CASE UNCHANGED teamTreeVars
  BY <1>1 DEF TreeKept, Tree, LiveTeams, MayMove, Below, HoldsTree, IsLive, teamTreeVars
<1>2. ASSUME NEW q \in TeamCallers, NEW call, BeginTeamCall(q, call),
             call.pc # "move" \/ call.parent = Root
      PROVE  TreeKept'
  <2>1. /\ UNCHANGED <<team, overtaken>> /\ teamCall'[q] = call
        /\ \A p \in TeamCallers : p # q => teamCall'[p] = teamCall[p]
    BY <1>2 DEF BeginTeamCall, TeamsTyped, TeamTreeTypeOK
  <2>2. QED BY <1>2, <2>1, TreeStays DEF MayMove
<1>3. ASSUME NEW q \in TeamCallers, NEW t \in TreeTeams, NEW p \in TreeTeams \cup {Root},
             CreateTeam(q, t, p)
      PROVE  TreeKept'
  BY <1>2, <1>3 DEF CreateTeam
<1>4. ASSUME NEW q \in TeamCallers, NEW t \in TreeTeams, NEW p \in TreeTeams \cup {Root},
             MoveTeam(q, t, p)
      PROVE  TreeKept'
  <2>1. PICK call : /\ call = [pc |-> IF p = Root THEN "move" ELSE "parent",
                               team |-> t, parent |-> p]
                    /\ BeginTeamCall(q, call)
    BY <1>4 DEF MoveTeam
  <2>2. call.pc # "move" \/ call.parent = Root
    BY <2>1
  <2>3. QED BY <1>2, <2>1, <2>2
<1>5. ASSUME NEW q \in TeamCallers, NEW t \in TreeTeams, DeleteTeam(q, t) PROVE TreeKept'
  BY <1>2, <1>5 DEF DeleteTeam
<1>6. ASSUME NEW q \in TeamCallers, FindNewParent(q) PROVE TreeKept'
  <2>1. /\ UNCHANGED <<team, overtaken>> /\ teamCall'[q].pc # "move"
        /\ \A p \in TeamCallers : p # q => teamCall'[p] = teamCall[p]
    BY <1>6 DEF FindNewParent, TeamsTyped, TeamTreeTypeOK, NoTeamCall
  <2>2. QED BY <2>1, TreeStays DEF MayMove
<1>7. ASSUME NEW q \in TeamCallers, CheckCycle(q) PROVE TreeKept'
  <2>1. PICK r \in TeamCall : r = teamCall[q]
    BY DEF TeamsTyped, TeamTreeTypeOK, TeamCall
  <2>2. /\ UNCHANGED <<team, overtaken>>
        /\ \A p \in TeamCallers : p # q => teamCall'[p] = teamCall[p]
        /\ \/ teamCall'[q] = NoTeamCall
           \/ /\ r.parent \notin ExpandTeamTree(r.team)
              /\ teamCall'[q] = [r EXCEPT !.pc = "move"]
    BY <1>7, <2>1 DEF CheckCycle, TeamsTyped, TeamTreeTypeOK
  <2>3. MayMove(teamCall'[q])
    <3>1. CASE teamCall'[q] = NoTeamCall
      BY <3>1 DEF MayMove, NoTeamCall
    <3>2. CASE /\ r.parent \notin ExpandTeamTree(r.team)
               /\ teamCall'[q] = [r EXCEPT !.pc = "move"]
      <4>1. teamCall'[q].team = r.team /\ teamCall'[q].parent = r.parent
        BY <3>2 DEF TeamCall
      <4>2. r.parent \in TreeTeams
        BY <1>7, <2>1 DEF CheckCycle, TeamsTyped, TeamCallFits
      <4>3. CASE IsLive(r.parent)
        <5>1. PICK T \in SUBSET TreeTeams : HoldsTree(T, r.team) /\ r.parent \notin T
          BY <3>2, <4>2, <4>3 DEF ExpandTeamTree
        <5>2. QED BY <4>1, <5>1 DEF MayMove, Below
      <4>4. CASE ~IsLive(r.parent)
        <5>1. PICK T : T = LiveTeams
          OBVIOUS
        <5>2. Below(T, r.team) /\ r.parent \notin T
          BY <4>4, <5>1 DEF Below, HoldsTree, LiveTeams, IsLive
        <5>3. QED BY <4>1, <5>2 DEF MayMove
      <4>5. QED BY <4>3, <4>4
    <3>3. QED BY <2>2, <3>1, <3>2
  <2>4. QED BY <2>2, <2>3, TreeStays
<1>8. ASSUME NEW q \in TeamCallers, WriteTeam(q) PROVE TreeKept'
  <2>. SUFFICES ASSUME ~overtaken' PROVE Tree' /\ \A p \in TeamCallers : MayMove(teamCall[p])'
    BY DEF TreeKept
  <2>1. ~overtaken
    BY <1>8 DEF WriteTeam
  <2>2. Tree /\ \A p \in TeamCallers : MayMove(teamCall[p])
    BY <2>1 DEF TreeKept
  <2>3. QED BY <1>8, <2>2, WriteKeepsTree, WriteKeepsMoves
<1>9. QED BY <1>1, <1>3, <1>4, <1>5, <1>6, <1>7, <1>8 DEF TeamTreeNext

LEMMA TeamsBegin == TeamTreeInit => TeamsTyped /\ TreeKept
<1> SUFFICES ASSUME TeamTreeInit PROVE TeamsTyped /\ TreeKept
  OBVIOUS
<1>1. \A q \in TeamCallers : teamCall[q] = NoTeamCall /\ NoTeamCall.pc = "idle"
  BY DEF TeamTreeInit, NoTeamCall
<1>2. TeamTreeTypeOK
  <2>1. team \in [TreeTeams -> [row : {"none", "live", "deleted"},
                                parent : TreeTeams \cup {Root}]]
    BY DEF TeamTreeInit
  <2>2. teamCall \in [TeamCallers -> TeamCall]
    BY NoTeamCallFits DEF TeamTreeInit
  <2>3. overtaken \in BOOLEAN
    BY DEF TeamTreeInit
  <2>4. teamCalls \in 0..MaxTeamCalls
    BY TeamTreeAssumption DEF TeamTreeInit
  <2>5. QED BY <2>1, <2>2, <2>3, <2>4 DEF TeamTreeTypeOK, TeamCall
<1>3. TeamsTyped
  BY <1>1, <1>2, NoTeamCallFits DEF TeamsTyped, TeamTreeInit
<1>4. LiveTeams = {}
  BY DEF LiveTeams, IsLive, TeamTreeInit
<1>5. QED BY <1>1, <1>3, <1>4 DEF TreeKept, Tree, MayMove

(* Teams: no chain of parents among live teams returns to where it began,    *)
(* however creations, moves and deletions interleave, unless one move was    *)
(* written while another had been checked (team.service.ts: update).         *)
THEOREM TeamsStayATree == TeamTreeSpec => []LiveTeamsAreATree
<1>1. TeamTreeInit => TeamsTyped /\ TreeKept
  BY TeamsBegin
<1>2. TeamsTyped /\ TreeKept /\ [TeamTreeNext]_teamTreeVars => TeamsTyped' /\ TreeKept'
  BY TeamsTypedKept, TreeKeptKept
<1>3. TreeKept => LiveTeamsAreATree
  BY DEF TreeKept, Tree, LiveTeams, LiveTeamsAreATree
<1>4. QED BY <1>1, <1>2, <1>3, PTL DEF TeamTreeSpec

-----------------------------------------------------------------------------
(* Accounts: types.  A call past the first look at the identity has one.     *)

ResetPcs == {"read", "check", "save", "overflow", "trim", "set", "use"}
AccountPcs == {"idle", "identify", "identity", "user", "roles", "link", "expire", "lookup"}
                 \cup ResetPcs
AccountCall == [pc : AccountPcs, tenant : Tenants \cup {Unset}, link : Nat,
                password : Passwords \cup {Unset}, seen : Passwords \cup {Unset}, cut : Int]

AccountCallFits(r) ==
    /\ r.pc \in {"identify", "identity", "user"} => r.tenant \in tenants
    /\ r.pc \in {"user", "roles", "link"} \cup ResetPcs => identity.row
    /\ r.pc = "trim" => r.cut <= Len(past)

AccountCallsTyped ==
    /\ accountCall \in [AccountCallers -> AccountCall]
    /\ \A q \in AccountCallers : AccountCallFits(accountCall[q])

AccountsTyped ==
    /\ AccountsTypeOK
    /\ AccountCallsTyped
    /\ asked \in [count : Nat, expires : BOOLEAN]
    /\ usable # {} => identity.row
    /\ ~identity.row => had = <<>> /\ past = <<>>

LEMMA NoAccountCallFits ==
    NoAccountCall \in AccountCall /\ AccountCallFits(NoAccountCall) /\ NoAccountCall.pc = "idle"
BY DEF NoAccountCall, AccountCall, AccountCallFits, AccountPcs, ResetPcs

LEMMA AccountTablesTyped ==
    ASSUME NEW ts \in SUBSET Tenants, NEW known \in BOOLEAN, NEW p \in Passwords \cup {Unset},
           AccountTables(ts, known, p)
    PROVE  AccountsTyped
<1>1. /\ tenants = ts /\ users = IF known THEN ts ELSE {}
      /\ identity = [row |-> known, password |-> p]
      /\ past = <<>> /\ forgot = 0
      /\ links = (IF known THEN 1 ELSE 0) /\ usable = 1..links
      /\ asked = [count |-> links, expires |-> known]
      /\ accountCall = [q \in AccountCallers |-> NoAccountCall]
      /\ had = IF known THEN <<p>> ELSE <<>>
      /\ crowded = FALSE /\ stuck = FALSE /\ accountCalls = 0
  BY DEF AccountTables
<1>2. users \subseteq tenants /\ tenants \subseteq Tenants
  BY <1>1
<1>3. identity \in [row : BOOLEAN, password : Passwords \cup {Unset}]
  BY <1>1
<1>4. past \in Seq(Passwords \cup {Unset}) /\ forgot \in 0..Len(past)
  BY <1>1
<1>5. had \in Seq(Passwords \cup {Unset})
  <2>1. <<p>> \in Seq(Passwords \cup {Unset}) /\ <<>> \in Seq(Passwords \cup {Unset})
    OBVIOUS
  <2>2. CASE known
    BY <1>1, <2>1, <2>2
  <2>3. CASE ~known
    BY <1>1, <2>1, <2>3
  <2>4. QED BY <2>2, <2>3
<1>6. links \in 0..MaxLinks /\ usable \subseteq 1..links
  BY <1>1, AccountsAssumption
<1>7. asked.count \in 0..RequestLimit + 1 /\ asked.count \in Nat
  BY <1>1, AccountsAssumption
<1>8. asked.expires \in BOOLEAN
  BY <1>1
<1>9. accountCalls \in 0..MaxAccountCalls
  BY <1>1, AccountsAssumption
<1>10. crowded \in BOOLEAN
  BY <1>1
<1>11. stuck \in BOOLEAN
  BY <1>1
<1>12. AccountsTypeOK
  BY <1>2, <1>3, <1>4, <1>5, <1>6, <1>7, <1>8, <1>9, <1>10, <1>11 DEF AccountsTypeOK
<1>13. asked \in [count : Nat, expires : BOOLEAN]
  BY <1>1, <1>7
<1>14. /\ accountCall \in [AccountCallers -> AccountCall]
       /\ \A q \in AccountCallers : AccountCallFits(accountCall[q])
  BY <1>1, NoAccountCallFits
<1>15. (usable # {} => identity.row) /\ (~identity.row => had = <<>> /\ past = <<>>)
  BY <1>1
<1>16. QED BY <1>12, <1>13, <1>14, <1>15 DEF AccountsTyped, AccountCallsTyped

(* The call of q becomes another that fits; tables only grow. *)
LEMMA AccountMoves ==
    ASSUME AccountsTyped, NEW q \in AccountCallers, NEW call \in AccountCall,
           AccountCallFits(call)', accountCall' = [accountCall EXCEPT ![q] = call],
           tenants \subseteq tenants', identity.row => identity'.row, Len(past) <= Len(past')
    PROVE  AccountCallsTyped'
<1>1. accountCall \in [AccountCallers -> AccountCall]
  BY DEF AccountsTyped, AccountCallsTyped
<1>2. accountCall' \in [AccountCallers -> AccountCall] /\ accountCall'[q] = call
  BY <1>1
<1>3. \A p \in AccountCallers : p # q => accountCall'[p] = accountCall[p]
  BY <1>1
<1>4. ASSUME NEW p \in AccountCallers PROVE AccountCallFits(accountCall[p])'
  <2>1. CASE p = q
    BY <1>2, <2>1
  <2>2. CASE p # q
    <3>1. PICK r \in AccountCall : r = accountCall[p]
      BY <1>1
    <3>2. AccountCallFits(r) /\ accountCall'[p] = r
      BY <1>3, <2>2, <3>1 DEF AccountsTyped, AccountCallsTyped
    <3>3. Len(past) \in Nat /\ Len(past') \in Int
      BY DEF AccountsTyped, AccountsTypeOK
    <3>4. AccountCallFits(r)'
      BY <3>2, <3>3 DEF AccountCallFits, AccountCall
    <3>5. QED BY <3>2, <3>4
  <2>3. QED BY <2>1, <2>2
<1>5. QED BY <1>2, <1>4 DEF AccountCallsTyped

LEMMA AccountStops ==
    ASSUME AccountsTyped, NEW q \in AccountCallers, Stops(q),
           tenants \subseteq tenants', identity.row => identity'.row, Len(past) <= Len(past')
    PROVE  AccountCallsTyped'
<1>1. PICK call : call = NoAccountCall
  OBVIOUS
<1>2. call \in AccountCall /\ call.pc = "idle"
  BY <1>1, NoAccountCallFits
<1>3. AccountCallFits(call)'
  BY <1>2 DEF AccountCallFits, ResetPcs
<1>4. accountCall' = [accountCall EXCEPT ![q] = call]
  BY <1>1 DEF Stops
<1>5. QED BY <1>2, <1>3, <1>4, AccountMoves

LEMMA AccountGoes ==
    ASSUME AccountsTyped, NEW q \in AccountCallers, NEW pc \in AccountPcs \ {"trim"}, Goes(q, pc),
           tenants \subseteq tenants', identity.row => identity'.row, Len(past) <= Len(past'),
           pc \in {"identify", "identity", "user"} =>
              accountCall[q].pc \in {"identify", "identity", "user"},
           pc \in {"user", "roles", "link"} \cup ResetPcs => identity'.row
    PROVE  AccountCallsTyped'
<1>1. PICK r \in AccountCall : r = accountCall[q]
  BY DEF AccountsTyped, AccountCallsTyped
<1>2. PICK call : call = [r EXCEPT !.pc = pc]
  OBVIOUS
<1>3. AccountCallFits(r)
  BY <1>1 DEF AccountsTyped, AccountCallsTyped
<1>4. call \in AccountCall /\ call.pc = pc /\ call.tenant = r.tenant
  BY <1>2 DEF AccountCall
<1>5. AccountCallFits(call)'
  BY <1>1, <1>3, <1>4 DEF AccountCallFits
<1>6. accountCall' = [accountCall EXCEPT ![q] = call]
  BY <1>1, <1>2 DEF Goes, AccountsTyped, AccountCallsTyped
<1>7. QED BY <1>4, <1>5, <1>6, AccountMoves

LEMMA AccountBegins ==
    ASSUME AccountsTyped, NEW q \in AccountCallers, NEW call \in AccountCall,
           AccountCallFits(call)', BeginAccountCall(q, call), Len(past) <= Len(past')
    PROVE  AccountCallsTyped' /\ accountCalls' \in 0..MaxAccountCalls
<1>1. /\ accountCall' = [accountCall EXCEPT ![q] = call] /\ accountCalls' = accountCalls + 1
      /\ accountCalls < MaxAccountCalls /\ tenants' = tenants /\ identity' = identity
  BY DEF BeginAccountCall
<1>2. AccountCallsTyped'
  BY <1>1, AccountMoves
<1>3. accountCalls' \in 0..MaxAccountCalls
  BY <1>1, AccountsAssumption DEF AccountsTyped, AccountsTypeOK
<1>4. QED BY <1>2, <1>3

(* Invitations, tenants and links: types. *)
LEMMA InvitingTyped ==
    ASSUME AccountsTyped, NEW q \in AccountCallers,
           \/ \E t \in Tenants : Invite(q, t)
           \/ FindIdentity(q) \/ CreateIdentity(q) \/ CreateUser(q) \/ GiveRoles(q)
           \/ CreateLink(q)
    PROVE  AccountsTyped'
<1>. PICK r \in AccountCall : r = accountCall[q]
  BY DEF AccountsTyped, AccountCallsTyped
<1>0. AccountCallFits(r) /\ Len(past) \in Nat
  BY DEF AccountsTyped, AccountsTypeOK, AccountCallsTyped
<1>1. ASSUME NEW t \in Tenants, Invite(q, t) PROVE AccountsTyped'
  <2>1. PICK call : call = [NoAccountCall EXCEPT !.pc = "identify", !.tenant = t]
    OBVIOUS
  <2>2. call \in AccountCall /\ call.pc = "identify" /\ call.tenant = t
    BY <2>1, NoAccountCallFits DEF AccountCall, AccountPcs
  <2>3. /\ BeginAccountCall(q, call) /\ t \in tenants
        /\ UNCHANGED <<passwordVars, linkVars, askedVars>>
    BY <1>1, <2>1 DEF Invite
  <2>4. UNCHANGED <<tenants, users, identity, past, forgot, had, crowded, links, usable,
                    asked, stuck>>
    BY <2>3 DEF BeginAccountCall, passwordVars, linkVars, askedVars
  <2>5. AccountCallFits(call)'
    BY <2>2, <2>3, <2>4 DEF AccountCallFits, ResetPcs
  <2>6. AccountCallsTyped' /\ accountCalls' \in 0..MaxAccountCalls
    BY <1>0, <2>2, <2>3, <2>4, <2>5, AccountBegins
  <2>7. QED BY <2>4, <2>6 DEF AccountsTyped, AccountsTypeOK
<1>2. CASE FindIdentity(q)
  <2>1. UNCHANGED <<tenants, users, identity, past, forgot, had, crowded, links, usable,
                    asked, stuck, accountCalls>>
    BY <1>2 DEF FindIdentity, passwordVars, linkVars, askedVars
  <2>2. accountCall[q].pc = "identify"
    BY <1>2 DEF FindIdentity
  <2>3. AccountCallsTyped'
    <3>1. CASE ~identity.row
      BY <1>0, <1>2, <2>1, <2>2, <3>1, AccountGoes DEF FindIdentity, AccountPcs, ResetPcs
    <3>2. CASE identity.row /\ users = {}
      BY <1>0, <1>2, <2>1, <2>2, <3>2, AccountGoes DEF FindIdentity, AccountPcs, ResetPcs
    <3>3. CASE identity.row /\ users # {}
      BY <1>0, <1>2, <2>1, <3>3, AccountStops DEF FindIdentity
    <3>4. QED BY <3>1, <3>2, <3>3
  <2>4. QED BY <2>1, <2>3 DEF AccountsTyped, AccountsTypeOK
<1>3. CASE CreateIdentity(q)
  <2>1. UNCHANGED <<tenants, users, past, forgot, crowded, links, usable, asked, stuck,
                    accountCalls>>
    BY <1>3 DEF CreateIdentity, linkVars, askedVars
  <2>2. CASE identity.row
    <3>1. Stops(q) /\ UNCHANGED <<identity, had>>
      BY <1>3, <2>2 DEF CreateIdentity
    <3>2. AccountCallsTyped'
      BY <1>0, <2>1, <3>1, AccountStops
    <3>3. QED BY <2>1, <3>1, <3>2 DEF AccountsTyped, AccountsTypeOK
  <2>3. CASE ~identity.row
    <3>1. /\ Goes(q, "user") /\ identity' = [row |-> TRUE, password |-> Unset]
          /\ had' = <<Unset>> /\ accountCall[q].pc = "identity"
      BY <1>3, <2>3 DEF CreateIdentity
    <3>2. AccountCallsTyped'
      BY <1>0, <2>1, <2>3, <3>1, AccountGoes DEF AccountPcs, ResetPcs
    <3>3. had' \in Seq(Passwords \cup {Unset})
      BY <3>1
    <3>4. identity' \in [row : BOOLEAN, password : Passwords \cup {Unset}] /\ identity'.row
      BY <3>1
    <3>5. QED BY <2>1, <3>2, <3>3, <3>4 DEF AccountsTyped, AccountsTypeOK
  <2>4. QED BY <2>2, <2>3
<1>4. CASE CreateUser(q)
  <2>1. UNCHANGED <<tenants, identity, past, forgot, had, crowded, links, usable,
                    asked, stuck, accountCalls>>
    BY <1>4 DEF CreateUser, passwordVars, linkVars, askedVars
  <2>2. r.pc = "user" /\ r.tenant \in tenants /\ identity.row
    BY <1>0, <1>4 DEF CreateUser, AccountCallFits
  <2>3. users' \subseteq tenants'
    BY <1>4, <2>1, <2>2 DEF CreateUser, AccountsTyped, AccountsTypeOK
  <2>4. AccountCallsTyped'
    <3>1. CASE Stops(q)
      BY <1>0, <2>1, <3>1, AccountStops
    <3>2. CASE Goes(q, "roles")
      BY <1>0, <2>1, <2>2, <3>2, AccountGoes DEF AccountPcs, ResetPcs
    <3>3. QED BY <1>4, <3>1, <3>2 DEF CreateUser
  <2>5. QED BY <2>1, <2>3, <2>4 DEF AccountsTyped, AccountsTypeOK
<1>5. CASE GiveRoles(q)
  <2>1. UNCHANGED <<tenants, users, identity, past, forgot, had, crowded, links, usable,
                    asked, stuck, accountCalls>>
    BY <1>5 DEF GiveRoles, passwordVars, linkVars, askedVars
  <2>2. r.pc = "roles" /\ identity.row
    BY <1>0, <1>5 DEF GiveRoles, AccountCallFits
  <2>3. AccountCallsTyped'
    <3>1. CASE Stops(q)
      BY <1>0, <2>1, <3>1, AccountStops
    <3>2. CASE Goes(q, "link")
      BY <1>0, <2>1, <2>2, <3>2, AccountGoes DEF AccountPcs, ResetPcs
    <3>3. QED BY <1>5, <3>1, <3>2 DEF GiveRoles
  <2>4. QED BY <2>1, <2>3 DEF AccountsTyped, AccountsTypeOK
<1>6. CASE CreateLink(q)
  <2>1. UNCHANGED <<tenants, users, identity, past, forgot, had, crowded,
                    asked, stuck, accountCalls>>
    BY <1>6 DEF CreateLink, passwordVars, askedVars
  <2>2. Stops(q) /\ links' = links + 1 /\ usable' = usable \cup {links + 1} /\ links < MaxLinks
    BY <1>6 DEF CreateLink, MakeLink
  <2>3. identity.row
    BY <1>0, <1>6 DEF CreateLink, AccountCallFits
  <2>4. links' \in 0..MaxLinks /\ usable' \subseteq 1..links'
    BY <2>2, AccountsAssumption DEF AccountsTyped, AccountsTypeOK
  <2>5. AccountCallsTyped'
    BY <1>0, <2>1, <2>2, AccountStops
  <2>6. QED BY <2>1, <2>3, <2>4, <2>5 DEF AccountsTyped, AccountsTypeOK
<1>7. QED BY <1>1, <1>2, <1>3, <1>4, <1>5, <1>6

(* Requests of a link, and what time ends: types. *)
LEMMA RequestingTyped ==
    ASSUME AccountsTyped,
           \/ \E t \in Tenants : CreateTenant(t)
           \/ \E q \in AccountCallers : IncrementRateLimit(q) \/ SetExpiry(q) \/ LookUpIdentity(q)
           \/ WindowEnds
           \/ \E n \in 1..MaxLinks : LinkExpires(n)
    PROVE  AccountsTyped'
<1>0. /\ Len(past) \in Nat /\ asked.count \in 0..RequestLimit + 1
      /\ asked \in [count : Nat, expires : BOOLEAN] /\ RequestLimit \in Nat \ {0}
  BY AccountsAssumption DEF AccountsTyped, AccountsTypeOK
<1>1. ASSUME NEW t \in Tenants, CreateTenant(t) PROVE AccountsTyped'
  <2>1. UNCHANGED <<identity, past, forgot, had, crowded, links, usable, asked, stuck,
                    accountCall>>
    BY <1>1 DEF CreateTenant, passwordVars, linkVars, askedVars
  <2>2. /\ tenants' = tenants \cup {t} /\ users' = users \cup {t}
        /\ accountCalls' = accountCalls + 1 /\ accountCalls < MaxAccountCalls
    BY <1>1 DEF CreateTenant
  <2>3. AccountCallsTyped'
    BY <2>1, <2>2 DEF AccountsTyped, AccountCallsTyped, AccountCallFits
  <2>4. accountCalls' \in 0..MaxAccountCalls
    BY <2>2, AccountsAssumption DEF AccountsTyped, AccountsTypeOK
  <2>5. users' \subseteq tenants' /\ tenants' \subseteq Tenants
    BY <2>2 DEF AccountsTyped, AccountsTypeOK
  <2>6. QED BY <2>1, <2>3, <2>4, <2>5 DEF AccountsTyped, AccountsTypeOK
<1>2. ASSUME NEW q \in AccountCallers, IncrementRateLimit(q) PROVE AccountsTyped'
  <2>1. PICK pc \in {"expire", "idle", "lookup"} :
           pc = IF Expires(asked.count + 1) THEN "expire"
                ELSE IF asked.count + 1 > RequestLimit THEN "idle" ELSE "lookup"
    OBVIOUS
  <2>2. PICK call : call = [NoAccountCall EXCEPT !.pc = pc]
    OBVIOUS
  <2>3. call \in AccountCall /\ call.pc = pc
    BY <2>2, NoAccountCallFits DEF AccountCall, AccountPcs
  <2>4. /\ BeginAccountCall(q, call) /\ asked' = [asked EXCEPT !.count = asked.count + 1]
        /\ asked.count <= RequestLimit /\ UNCHANGED <<passwordVars, linkVars, stuck>>
    BY <1>2, <2>1, <2>2 DEF IncrementRateLimit
  <2>5. UNCHANGED <<tenants, users, identity, past, forgot, had, crowded, links, usable, stuck>>
    BY <2>4 DEF BeginAccountCall, passwordVars, linkVars
  <2>6. AccountCallFits(call)'
    BY <2>3 DEF AccountCallFits, ResetPcs
  <2>7. AccountCallsTyped' /\ accountCalls' \in 0..MaxAccountCalls
    BY <1>0, <2>3, <2>4, <2>5, <2>6, AccountBegins
  <2>8. asked' \in [count : Nat, expires : BOOLEAN] /\ asked'.count \in 0..RequestLimit + 1
    BY <1>0, <2>4
  <2>9. asked'.expires \in BOOLEAN
    BY <2>8
  <2>10. QED BY <2>5, <2>7, <2>8, <2>9 DEF AccountsTyped, AccountsTypeOK
<1>3. ASSUME NEW q \in AccountCallers, SetExpiry(q) PROVE AccountsTyped'
  <2>1. UNCHANGED <<tenants, users, identity, past, forgot, had, crowded, links, usable, stuck,
                    accountCalls>>
    BY <1>3 DEF SetExpiry, passwordVars, linkVars
  <2>2. Goes(q, "lookup")
    BY <1>3 DEF SetExpiry
  <2>3. AccountCallsTyped'
    BY <1>0, <2>1, <2>2, AccountGoes DEF AccountPcs, ResetPcs
  <2>4. asked' = asked \/ asked' = [asked EXCEPT !.expires = TRUE]
    BY <1>3 DEF SetExpiry
  <2>5. asked' \in [count : Nat, expires : BOOLEAN] /\ asked'.count \in 0..RequestLimit + 1
    BY <1>0, <2>4
  <2>6. asked'.expires \in BOOLEAN
    BY <2>5
  <2>7. QED BY <2>1, <2>3, <2>5, <2>6 DEF AccountsTyped, AccountsTypeOK
<1>4. ASSUME NEW q \in AccountCallers, LookUpIdentity(q) PROVE AccountsTyped'
  <2>1. UNCHANGED <<tenants, users, identity, past, forgot, had, crowded, links, usable,
                    asked, stuck, accountCalls>>
    BY <1>4 DEF LookUpIdentity, passwordVars, linkVars, askedVars
  <2>2. AccountCallsTyped'
    <3>1. CASE identity.row
      BY <1>0, <1>4, <2>1, <3>1, AccountGoes DEF LookUpIdentity, AccountPcs, ResetPcs
    <3>2. CASE ~identity.row
      BY <1>0, <1>4, <2>1, <3>2, AccountStops DEF LookUpIdentity
    <3>3. QED BY <3>1, <3>2
  <2>3. QED BY <2>1, <2>2 DEF AccountsTyped, AccountsTypeOK
<1>5. CASE WindowEnds
  <2>1. UNCHANGED <<tenants, users, identity, past, forgot, had, crowded, links, usable, stuck,
                    accountCall, accountCalls>>
    BY <1>5 DEF WindowEnds, passwordVars, linkVars
  <2>2. asked' = [count |-> 0, expires |-> FALSE]
    BY <1>5 DEF WindowEnds
  <2>3. asked' \in [count : Nat, expires : BOOLEAN] /\ asked'.count \in 0..RequestLimit + 1
    BY <1>0, <2>2
  <2>4. asked'.expires \in BOOLEAN
    BY <2>3
  <2>5. AccountCallsTyped'
    BY <2>1 DEF AccountsTyped, AccountCallsTyped, AccountCallFits
  <2>6. QED BY <2>1, <2>3, <2>4, <2>5 DEF AccountsTyped, AccountsTypeOK
<1>6. ASSUME NEW n \in 1..MaxLinks, LinkExpires(n) PROVE AccountsTyped'
  <2>1. UNCHANGED <<tenants, users, identity, past, forgot, had, crowded, links, asked, stuck,
                    accountCall, accountCalls>>
    BY <1>6 DEF LinkExpires, passwordVars, askedVars
  <2>2. usable' \subseteq usable
    BY <1>6 DEF LinkExpires
  <2>3. AccountCallsTyped'
    BY <2>1 DEF AccountsTyped, AccountCallsTyped, AccountCallFits
  <2>4. QED BY <2>1, <2>2, <2>3 DEF AccountsTyped, AccountsTypeOK
<1>7. QED BY <1>1, <1>2, <1>3, <1>4, <1>5, <1>6

(* The reset of a password: types. *)
LEMMA ResettingTyped ==
    ASSUME AccountsTyped, NEW q \in AccountCallers,
           \/ \E n \in 1..MaxLinks, p \in Passwords : ConfirmReset(q, n, p)
           \/ ReadPassword(q) \/ CheckHistory(q) \/ SaveToHistory(q) \/ FindOverflow(q)
           \/ TrimHistory(q) \/ SetPassword(q) \/ UseLink(q) \/ AccountCallStops(q)
    PROVE  AccountsTyped'
<1>. PICK r \in AccountCall : r = accountCall[q]
  BY DEF AccountsTyped, AccountCallsTyped
<1>0. /\ AccountCallFits(r) /\ Len(past) \in Nat /\ HistorySize \in Nat \ {0}
      /\ past \in Seq(Passwords \cup {Unset}) /\ had \in Seq(Passwords \cup {Unset})
      /\ forgot \in 0..Len(past)
      /\ identity \in [row : BOOLEAN, password : Passwords \cup {Unset}]
  BY AccountsAssumption DEF AccountsTyped, AccountsTypeOK, AccountCallsTyped
<1>a. r.password \in Passwords \cup {Unset} /\ r.seen \in Passwords \cup {Unset} /\ r.cut \in Int
  BY DEF AccountCall
<1>1. ASSUME NEW n \in 1..MaxLinks, NEW p \in Passwords, ConfirmReset(q, n, p)
      PROVE  AccountsTyped'
  <2>1. PICK call : call = [NoAccountCall EXCEPT !.pc = "read", !.link = n, !.password = p]
    OBVIOUS
  <2>2. n \in Nat
    BY AccountsAssumption
  <2>3. call \in AccountCall /\ call.pc = "read"
    BY <2>1, <2>2, NoAccountCallFits DEF AccountCall, AccountPcs, ResetPcs
  <2>4. BeginAccountCall(q, call) /\ n \in usable
    BY <1>1, <2>1 DEF ConfirmReset
  <2>5. UNCHANGED <<tenants, users, identity, past, forgot, had, links, usable, asked, stuck>>
    BY <1>1, <2>4 DEF ConfirmReset, BeginAccountCall, linkVars, askedVars
  <2>6. crowded' \in BOOLEAN
    BY <1>1 DEF ConfirmReset, AccountsTyped, AccountsTypeOK
  <2>7. AccountCallFits(call)'
    BY <2>3, <2>4, <2>5 DEF AccountCallFits, AccountsTyped
  <2>8. AccountCallsTyped' /\ accountCalls' \in 0..MaxAccountCalls
    BY <1>0, <2>3, <2>4, <2>5, <2>7, AccountBegins
  <2>9. QED BY <2>5, <2>6, <2>8 DEF AccountsTyped, AccountsTypeOK
<1>2. CASE ReadPassword(q)
  <2>1. UNCHANGED <<tenants, users, identity, past, forgot, had, crowded, links, usable,
                    asked, stuck, accountCalls>>
    BY <1>2 DEF ReadPassword, passwordVars, linkVars, askedVars
  <2>2. PICK call : call = [r EXCEPT !.pc = "check", !.seen = identity.password]
    OBVIOUS
  <2>3. call \in AccountCall /\ call.pc = "check"
    BY <1>0, <2>2 DEF AccountCall, AccountPcs, ResetPcs
  <2>4. identity.row
    BY <1>0, <1>2 DEF ReadPassword, AccountCallFits, ResetPcs
  <2>5. AccountCallFits(call)'
    BY <2>1, <2>3, <2>4 DEF AccountCallFits
  <2>6. accountCall' = [accountCall EXCEPT ![q] = call]
    BY <1>2, <2>2 DEF ReadPassword, AccountsTyped, AccountCallsTyped
  <2>d. Len(past) <= Len(past') /\ tenants \subseteq tenants' /\ (identity.row => identity'.row)
    BY <1>0, <2>1
  <2>7. AccountCallsTyped'
    BY <2>3, <2>d, <2>5, <2>6, AccountMoves
  <2>8. QED BY <2>1, <2>7 DEF AccountsTyped, AccountsTypeOK
<1>3. CASE CheckHistory(q)
  <2>1. UNCHANGED <<tenants, users, identity, past, forgot, had, crowded, links, usable,
                    asked, stuck, accountCalls>>
    BY <1>3 DEF CheckHistory, passwordVars, linkVars, askedVars
  <2>2. identity.row
    BY <1>0, <1>3 DEF CheckHistory, AccountCallFits, ResetPcs
  <2>3. AccountCallsTyped'
    <3>1. CASE Stops(q)
      BY <1>0, <2>1, <3>1, AccountStops
    <3>2. CASE Goes(q, "save")
      BY <1>0, <2>1, <2>2, <3>2, AccountGoes DEF AccountPcs, ResetPcs
    <3>3. QED BY <1>3, <3>1, <3>2 DEF CheckHistory
  <2>4. QED BY <2>1, <2>3 DEF AccountsTyped, AccountsTypeOK
<1>4. CASE SaveToHistory(q)
  <2>1. UNCHANGED <<tenants, users, identity, forgot, had, crowded, links, usable,
                    asked, stuck, accountCalls>>
    BY <1>4 DEF SaveToHistory, linkVars, askedVars
  <2>2. identity.row /\ past' = Append(past, r.seen) /\ Goes(q, "overflow")
    BY <1>0, <1>4 DEF SaveToHistory, AccountCallFits, ResetPcs
  <2>3. /\ past' \in Seq(Passwords \cup {Unset}) /\ Len(past') = Len(past) + 1
        /\ Len(past) <= Len(past')
    BY <1>0, <1>a, <2>2
  <2>4. AccountCallsTyped'
    BY <1>0, <2>1, <2>2, <2>3, AccountGoes DEF AccountPcs, ResetPcs
  <2>5. forgot' \in 0..Len(past')
    BY <1>0, <2>1, <2>3
  <2>6. QED BY <2>1, <2>2, <2>3, <2>4, <2>5 DEF AccountsTyped, AccountsTypeOK
<1>5. CASE FindOverflow(q)
  <2>1. UNCHANGED <<tenants, users, identity, past, forgot, had, crowded, links, usable,
                    asked, stuck, accountCalls>>
    BY <1>5 DEF FindOverflow, passwordVars, linkVars, askedVars
  <2>a. PICK cut \in Int : cut = Len(past) - HistorySize
    BY <1>0
  <2>2. PICK call : call = [r EXCEPT !.pc = "trim", !.cut = cut]
    OBVIOUS
  <2>b. "trim" \in AccountPcs
    BY DEF AccountPcs, ResetPcs
  <2>c. call \in AccountCall /\ call.pc = "trim" /\ call.cut = cut
    BY <2>2, <2>b DEF AccountCall
  <2>3. call.cut <= Len(past)
    BY <1>0, <2>a, <2>c
  <2>4. identity.row
    BY <1>0, <1>5 DEF FindOverflow, AccountCallFits, ResetPcs
  <2>5. AccountCallFits(call)'
    BY <2>1, <2>3, <2>4, <2>c DEF AccountCallFits
  <2>6. accountCall' = [accountCall EXCEPT ![q] = call]
    BY <1>5, <2>2, <2>a DEF FindOverflow, AccountsTyped, AccountCallsTyped
  <2>d. Len(past) <= Len(past') /\ tenants \subseteq tenants' /\ (identity.row => identity'.row)
    BY <1>0, <2>1
  <2>7. AccountCallsTyped'
    BY <2>c, <2>d, <2>5, <2>6, AccountMoves
  <2>8. QED BY <2>1, <2>7 DEF AccountsTyped, AccountsTypeOK
<1>6. CASE TrimHistory(q)
  <2>1. UNCHANGED <<tenants, users, identity, past, had, crowded, links, usable,
                    asked, stuck, accountCalls>>
    BY <1>6 DEF TrimHistory, linkVars, askedVars
  <2>2. identity.row /\ Goes(q, "set") /\ r.cut <= Len(past)
    BY <1>0, <1>6 DEF TrimHistory, AccountCallFits, ResetPcs
  <2>3. forgot' \in 0..Len(past')
    BY <1>0, <1>6, <1>a, <2>1, <2>2 DEF TrimHistory
  <2>4. AccountCallsTyped'
    BY <1>0, <2>1, <2>2, AccountGoes DEF AccountPcs, ResetPcs
  <2>5. QED BY <2>1, <2>3, <2>4 DEF AccountsTyped, AccountsTypeOK
<1>7. CASE SetPassword(q)
  <2>1. UNCHANGED <<tenants, users, past, forgot, crowded, links, usable,
                    asked, stuck, accountCalls>>
    BY <1>7 DEF SetPassword, linkVars, askedVars
  <2>2. /\ identity.row /\ Goes(q, "use") /\ had' = Append(had, r.password)
        /\ identity' = [identity EXCEPT !.password = r.password]
    BY <1>0, <1>7 DEF SetPassword, AccountCallFits, ResetPcs
  <2>3. had' \in Seq(Passwords \cup {Unset})
    BY <1>0, <1>a, <2>2
  <2>4. identity' \in [row : BOOLEAN, password : Passwords \cup {Unset}] /\ identity'.row
    BY <1>0, <1>a, <2>2
  <2>5. AccountCallsTyped'
    BY <1>0, <2>1, <2>2, <2>4, AccountGoes DEF AccountPcs, ResetPcs
  <2>6. QED BY <2>1, <2>3, <2>4, <2>5 DEF AccountsTyped, AccountsTypeOK
<1>8. CASE UseLink(q)
  <2>1. UNCHANGED <<tenants, users, identity, past, forgot, had, crowded, links,
                    asked, stuck, accountCalls>>
    BY <1>8 DEF UseLink, passwordVars, askedVars
  <2>2. usable' \subseteq usable /\ Stops(q)
    BY <1>8 DEF UseLink
  <2>3. AccountCallsTyped'
    BY <1>0, <2>1, <2>2, AccountStops
  <2>4. QED BY <2>1, <2>2, <2>3 DEF AccountsTyped, AccountsTypeOK
<1>9. CASE AccountCallStops(q)
  <2>1. UNCHANGED <<tenants, users, identity, past, forgot, had, links, usable,
                    asked, accountCalls>>
    BY <1>9 DEF AccountCallStops, linkVars
  <2>2. Stops(q)
    BY <1>9 DEF AccountCallStops
  <2>3. crowded' \in BOOLEAN
    BY <1>9 DEF AccountCallStops, AccountsTyped, AccountsTypeOK
  <2>4. stuck' \in BOOLEAN
    BY <1>9 DEF AccountCallStops, AccountsTyped, AccountsTypeOK
  <2>5. AccountCallsTyped'
    BY <1>0, <2>1, <2>2, AccountStops
  <2>6. QED BY <2>1, <2>3, <2>4, <2>5 DEF AccountsTyped, AccountsTypeOK
<1>10. QED BY <1>1, <1>2, <1>3, <1>4, <1>5, <1>6, <1>7, <1>8, <1>9

LEMMA AccountsTypedKept ==
    ASSUME AccountsTyped, [AccountsNext]_accountsVars
    PROVE  AccountsTyped'
<1>1. CASE UNCHANGED accountsVars
  BY <1>1 DEF AccountsTyped, AccountsTypeOK, AccountCallsTyped, AccountCallFits, accountsVars
<1>2. CASE AccountsNext
  BY <1>2, InvitingTyped, RequestingTyped, ResettingTyped DEF AccountsNext
<1>3. QED BY <1>1, <1>2

(* A step of one call leaves the others where they are. *)
ResetSteps(q) ==
    \/ \E n \in 1..MaxLinks, p \in Passwords : ConfirmReset(q, n, p)
    \/ ReadPassword(q) \/ CheckHistory(q) \/ SaveToHistory(q) \/ FindOverflow(q)
    \/ TrimHistory(q) \/ SetPassword(q) \/ UseLink(q) \/ AccountCallStops(q)
InviteSteps(q) ==
    \/ \E t \in Tenants : Invite(q, t)
    \/ FindIdentity(q) \/ CreateIdentity(q) \/ CreateUser(q) \/ GiveRoles(q) \/ CreateLink(q)
RequestSteps(q) == IncrementRateLimit(q) \/ SetExpiry(q) \/ LookUpIdentity(q)

LEMMA OnlyCallOf ==
    ASSUME AccountsTyped, NEW q \in AccountCallers,
           ResetSteps(q) \/ InviteSteps(q) \/ RequestSteps(q)
    PROVE  \A p \in AccountCallers \ {q} : accountCall'[p] = accountCall[p]
<1>1. accountCall \in [AccountCallers -> AccountCall]
  BY DEF AccountsTyped, AccountCallsTyped
<1>2. \/ \E call : accountCall' = [accountCall EXCEPT ![q] = call]
      \/ \E pc : accountCall' = [accountCall EXCEPT ![q].pc = pc]
      \/ \E pc, seen : accountCall' = [accountCall EXCEPT ![q].pc = pc, ![q].seen = seen]
      \/ \E pc, cut : accountCall' = [accountCall EXCEPT ![q].pc = pc, ![q].cut = cut]
  <2>1. CASE ResetSteps(q)
    BY <2>1 DEF ResetSteps, ConfirmReset, BeginAccountCall, ReadPassword, CheckHistory,
       SaveToHistory, FindOverflow, TrimHistory, SetPassword, UseLink, AccountCallStops, Goes, Stops
  <2>2. CASE InviteSteps(q)
    BY <2>2 DEF InviteSteps, Invite, BeginAccountCall, FindIdentity, CreateIdentity, CreateUser,
       GiveRoles, CreateLink, Goes, Stops
  <2>3. CASE RequestSteps(q)
    BY <2>3 DEF RequestSteps, IncrementRateLimit, BeginAccountCall, SetExpiry, LookUpIdentity,
       Goes, Stops
  <2>4. QED BY <2>1, <2>2, <2>3
<1>3. QED BY <1>1, <1>2

-----------------------------------------------------------------------------
(* Accounts: the count of requests passes, or a call is about to see to it.  *)

LimitPasses ==
    \/ asked.count = 0 \/ asked.expires \/ stuck
    \/ \E q \in AccountCallers : accountCall[q].pc = "expire"

LEMMA LimitKept ==
    ASSUME AccountsTyped, LimitPasses, NEW q \in AccountCallers, accountCall[q].pc # "expire",
           \A p \in AccountCallers \ {q} : accountCall'[p] = accountCall[p],
           asked' = asked, stuck' = stuck
    PROVE  LimitPasses'
BY DEF LimitPasses

LEMMA LimitPassesKept ==
    ASSUME AccountsTyped, LimitPasses, [AccountsNext]_accountsVars
    PROVE  LimitPasses'
<1>0. /\ accountCall \in [AccountCallers -> AccountCall]
      /\ asked \in [count : Nat, expires : BOOLEAN]
  BY DEF AccountsTyped, AccountCallsTyped
<1>1. CASE UNCHANGED accountsVars
  BY <1>1 DEF LimitPasses, accountsVars
<1>2. ASSUME NEW q \in AccountCallers, InviteSteps(q) PROVE LimitPasses'
  <2>1. accountCall[q].pc # "expire" /\ asked' = asked /\ stuck' = stuck
    BY <1>2 DEF InviteSteps, Invite, BeginAccountCall, FindIdentity, CreateIdentity, CreateUser,
       GiveRoles, CreateLink, askedVars
  <2>2. QED BY <1>2, <2>1, OnlyCallOf, LimitKept
<1>3. ASSUME NEW q \in AccountCallers, ResetSteps(q), ~AccountCallStops(q) PROVE LimitPasses'
  <2>1. accountCall[q].pc # "expire" /\ asked' = asked /\ stuck' = stuck
    BY <1>3 DEF ResetSteps, ConfirmReset, BeginAccountCall, ReadPassword, CheckHistory,
       SaveToHistory, FindOverflow, TrimHistory, SetPassword, UseLink, askedVars
  <2>2. QED BY <1>3, <2>1, OnlyCallOf, LimitKept
<1>4. ASSUME NEW q \in AccountCallers, AccountCallStops(q) PROVE LimitPasses'
  <2>1. CASE accountCall[q].pc = "expire"
    BY <1>4, <2>1 DEF AccountCallStops, LimitPasses
  <2>2. CASE accountCall[q].pc # "expire"
    <3>1. asked' = asked /\ stuck' = stuck
      BY <1>4, <2>2 DEF AccountCallStops, AccountsTyped, AccountsTypeOK
    <3>2. QED BY <1>4, <2>2, <3>1, OnlyCallOf, LimitKept DEF ResetSteps
  <2>3. QED BY <2>1, <2>2
<1>5. ASSUME NEW q \in AccountCallers, IncrementRateLimit(q) PROVE LimitPasses'
  <2>1. accountCall[q].pc = "idle" /\ stuck' = stuck /\ asked'.expires = asked.expires
    BY <1>0, <1>5 DEF IncrementRateLimit, BeginAccountCall
  <2>2. CASE asked.count = 0
    <3>1. accountCall' = [accountCall EXCEPT ![q] = [NoAccountCall EXCEPT !.pc = "expire"]]
      BY <1>5, <2>2 DEF IncrementRateLimit, BeginAccountCall, Expires
    <3>2. accountCall'[q].pc = "expire"
      BY <1>0, <3>1, NoAccountCallFits DEF AccountCall
    <3>3. QED BY <3>2 DEF LimitPasses
  <2>3. CASE asked.count # 0
    <3>1. asked.expires \/ stuck \/ \E p \in AccountCallers \ {q} : accountCall[p].pc = "expire"
      BY <2>1, <2>3 DEF LimitPasses
    <3>2. \A p \in AccountCallers \ {q} : accountCall'[p] = accountCall[p]
      BY <1>5, OnlyCallOf DEF RequestSteps
    <3>3. QED BY <2>1, <3>1, <3>2 DEF LimitPasses
  <2>4. QED BY <2>2, <2>3
<1>6. ASSUME NEW q \in AccountCallers, SetExpiry(q) PROVE LimitPasses'
  <2>1. asked' = IF asked.count = 0 THEN asked ELSE [asked EXCEPT !.expires = TRUE]
    BY <1>6 DEF SetExpiry
  <2>2. asked'.count = 0 \/ asked'.expires
    BY <1>0, <2>1
  <2>3. QED BY <2>2 DEF LimitPasses
<1>7. ASSUME NEW q \in AccountCallers, LookUpIdentity(q) PROVE LimitPasses'
  <2>1. accountCall[q].pc # "expire" /\ asked' = asked /\ stuck' = stuck
    BY <1>7 DEF LookUpIdentity, askedVars
  <2>2. QED BY <1>7, <2>1, OnlyCallOf, LimitKept DEF RequestSteps
<1>8. ASSUME NEW t \in Tenants, CreateTenant(t) PROVE LimitPasses'
  BY <1>8 DEF CreateTenant, LimitPasses, askedVars
<1>9. CASE WindowEnds
  BY <1>9 DEF WindowEnds, LimitPasses
<1>10. ASSUME NEW n \in 1..MaxLinks, LinkExpires(n) PROVE LimitPasses'
  BY <1>10 DEF LinkExpires, LimitPasses, askedVars
<1>11. QED
  BY <1>1, <1>2, <1>3, <1>4, <1>5, <1>6, <1>7, <1>8, <1>9, <1>10
  DEF AccountsNext, ResetSteps, InviteSteps

LEMMA AccountsInitTyped == AccountsInit => AccountsTyped /\ LimitPasses
<1> SUFFICES ASSUME AccountsInit PROVE AccountsTyped /\ LimitPasses
  OBVIOUS
<1>1. PICK t \in Tenants, known \in BOOLEAN, p \in Passwords \cup {Unset} :
         AccountTables({t}, known, p)
  BY DEF AccountsInit
<1>2. AccountsTyped
  BY <1>1, AccountTablesTyped
<1>3. links = (IF known THEN 1 ELSE 0) /\ asked = [count |-> links, expires |-> known]
  BY <1>1 DEF AccountTables
<1>4. asked.count = 0 \/ asked.expires
  <2>1. CASE known
    BY <1>3, <2>1
  <2>2. CASE ~known
    BY <1>3, <2>2
  <2>3. QED BY <2>1, <2>2
<1>5. QED BY <1>2, <1>4 DEF LimitPasses

LEMMA LimitPassesGetsIn ==
    ASSUME AccountsTyped, LimitPasses
    PROVE  UsersCanGetIn
BY AccountsAssumption DEF LimitPasses, UsersCanGetIn, AccountsTyped

(* Accounts: a user whose invitation lost its link still gets in, by asking  *)
(* for a reset, however the hour's count of requests stands, unless a        *)
(* request ended between INCR and EXPIRE (user.service.ts, auth.service.ts). *)
THEOREM AccountsReachable == AccountsSpec => []UsersCanGetIn
<1>1. AccountsInit => AccountsTyped /\ LimitPasses
  BY AccountsInitTyped
<1>2. AccountsTyped /\ LimitPasses /\ [AccountsNext]_accountsVars => AccountsTyped' /\ LimitPasses'
  BY AccountsTypedKept, LimitPassesKept
<1>3. AccountsTyped /\ LimitPasses => UsersCanGetIn
  BY LimitPassesGetsIn
<1>4. QED BY <1>1, <1>2, <1>3, PTL DEF AccountsSpec

-----------------------------------------------------------------------------
(* Accounts: the history is what the identity had before the password of     *)
(* now, and what a running reset knows of it.                                *)

NotRecent(p) == \A j \in DOMAIN had : j \in Len(had) - HistorySize .. Len(had) - 1 => had[j] # p

ResetFits(r) ==
    /\ r.pc \in {"read", "check", "save", "use"} =>
          Len(past) + 1 = Len(had) /\ Len(past) - forgot <= HistorySize
    /\ r.pc \in {"overflow", "trim", "set"} => Len(past) = Len(had)
    /\ r.pc \in {"check", "save"} => r.seen = identity.password
    /\ r.pc \in {"save", "overflow", "trim", "set"} => NotRecent(r.password)
    /\ r.pc = "trim" => r.cut = Len(past) - HistorySize
    /\ r.pc = "set" => Len(past) - forgot <= HistorySize

AtRest ==
    /\ identity.row => Len(past) + 1 = Len(had)
    /\ Len(past) - forgot <= HistorySize

Distinct == \A i \in DOMAIN had : \A j \in DOMAIN had :
               j \in i - 1 - HistorySize .. i - 2 => had[j] # had[i]

Remembered ==
    /\ forgot = 0 \/ forgot <= Len(past) - HistorySize
    /\ \A i \in DOMAIN past : i \in DOMAIN had /\ past[i] = had[i]
    /\ identity.row => had # <<>> /\ had[Len(had)] = identity.password
    /\ Distinct

ResetsInTurn ==
    ~crowded =>
        /\ Remembered
        /\ \A p, q \in Resetting : p = q
        /\ Resetting = {} => AtRest
        /\ \A q \in Resetting : ResetFits(accountCall[q])

LEMMA AccountTablesInTurn ==
    ASSUME NEW ts \in SUBSET Tenants, NEW known \in BOOLEAN, NEW p \in Passwords \cup {Unset},
           AccountTables(ts, known, p)
    PROVE  ResetsInTurn
<1>1. /\ identity = [row |-> known, password |-> p] /\ past = <<>> /\ forgot = 0
      /\ accountCall = [q \in AccountCallers |-> NoAccountCall]
      /\ had = IF known THEN <<p>> ELSE <<>>
  BY DEF AccountTables
<1>2. Resetting = {}
  BY <1>1, NoAccountCallFits DEF Resetting
<1>3. Remembered /\ AtRest
  <2>1. CASE known
    <3>1. had = <<p>> /\ Len(had) = 1 /\ had[1] = p /\ DOMAIN had = {1}
      BY <1>1, <2>1
    <3>2. Distinct
      BY <3>1, AccountsAssumption DEF Distinct
    <3>3. QED BY <1>1, <2>1, <3>1, <3>2, AccountsAssumption DEF Remembered, AtRest
  <2>2. CASE ~known
    <3>1. had = <<>> /\ DOMAIN had = {}
      BY <1>1, <2>2
    <3>2. Distinct
      BY <3>1 DEF Distinct
    <3>3. QED BY <1>1, <2>2, <3>1, <3>2, AccountsAssumption DEF Remembered, AtRest
  <2>3. QED BY <2>1, <2>2
<1>4. QED BY <1>2, <1>3 DEF ResetsInTurn

(* A step that leaves passwords and resets alone. *)
LEMMA ResetsUndisturbed ==
    ASSUME AccountsTyped, ResetsInTurn,
           past' = past, forgot' = forgot, had' = had, crowded' = crowded, identity' = identity,
           \A p \in AccountCallers : accountCall'[p] = accountCall[p] \/
              (accountCall[p].pc \notin ResetPcs /\ accountCall'[p].pc \notin ResetPcs)
    PROVE  ResetsInTurn'
<1>1. Resetting = {p \in AccountCallers : accountCall[p].pc \in ResetPcs}
  BY DEF Resetting, ResetPcs
<1>2. Resetting' = {p \in AccountCallers : accountCall'[p].pc \in ResetPcs}
  BY DEF Resetting, ResetPcs
<1>3. Resetting' = Resetting /\ \A p \in Resetting : accountCall'[p] = accountCall[p]
  BY <1>1, <1>2
<1>4. Remembered => Remembered'
  BY DEF Remembered, Distinct
<1>5. AtRest => AtRest'
  BY DEF AtRest
<1>6. ASSUME NEW p \in Resetting, ResetFits(accountCall[p]) PROVE ResetFits(accountCall[p])'
  BY <1>3, <1>6 DEF ResetFits, NotRecent
<1>7. QED BY <1>3, <1>4, <1>5, <1>6 DEF ResetsInTurn

LEMMA InvitesKeepTurn ==
    ASSUME AccountsTyped, ResetsInTurn, NEW q \in AccountCallers,
           InviteSteps(q) \/ RequestSteps(q)
    PROVE  ResetsInTurn'
<1>1. PICK r \in AccountCall : r = accountCall[q]
  BY DEF AccountsTyped, AccountCallsTyped
<1>2. accountCall \in [AccountCallers -> AccountCall]
  BY DEF AccountsTyped, AccountCallsTyped
<1>3. r.pc \notin ResetPcs
  BY <1>1 DEF InviteSteps, Invite, BeginAccountCall, FindIdentity, CreateIdentity, CreateUser,
     GiveRoles, CreateLink, RequestSteps, IncrementRateLimit, SetExpiry, LookUpIdentity, ResetPcs
<1>4. accountCall'[q].pc \notin ResetPcs
  <2>1. "idle" \notin ResetPcs /\ \A pc \in AccountPcs \ ResetPcs : pc \notin ResetPcs
    BY DEF ResetPcs
  <2>2. ASSUME NEW pc, pc \notin ResetPcs, Goes(q, pc) PROVE accountCall'[q].pc \notin ResetPcs
    BY <1>1, <1>2, <2>2 DEF Goes, AccountCall
  <2>3. ASSUME Stops(q) PROVE accountCall'[q].pc \notin ResetPcs
    BY <1>2, <2>1, <2>3, NoAccountCallFits DEF Stops
  <2>4. ASSUME NEW call \in AccountCall, call.pc \notin ResetPcs, BeginAccountCall(q, call)
        PROVE  accountCall'[q].pc \notin ResetPcs
    BY <1>2, <2>4 DEF BeginAccountCall
  <2>5. ASSUME NEW t \in Tenants, Invite(q, t) PROVE accountCall'[q].pc \notin ResetPcs
    <3>1. PICK call : call = [NoAccountCall EXCEPT !.pc = "identify", !.tenant = t]
      OBVIOUS
    <3>2. call \in AccountCall /\ call.pc = "identify"
      BY <3>1, NoAccountCallFits DEF AccountCall, AccountPcs
    <3>3. QED BY <2>4, <2>5, <3>1, <3>2 DEF Invite, ResetPcs
  <2>6. ASSUME IncrementRateLimit(q) PROVE accountCall'[q].pc \notin ResetPcs
    <3>1. PICK pc \in {"expire", "idle", "lookup"} :
             pc = IF Expires(asked.count + 1) THEN "expire"
                  ELSE IF asked.count + 1 > RequestLimit THEN "idle" ELSE "lookup"
      OBVIOUS
    <3>2. PICK call : call = [NoAccountCall EXCEPT !.pc = pc]
      OBVIOUS
    <3>3. call \in AccountCall /\ call.pc = pc
      BY <3>2, NoAccountCallFits DEF AccountCall, AccountPcs
    <3>4. BeginAccountCall(q, call)
      BY <2>6, <3>1, <3>2 DEF IncrementRateLimit
    <3>5. QED BY <2>4, <3>3, <3>4 DEF ResetPcs
  <2>7. CASE FindIdentity(q) \/ CreateIdentity(q) \/ CreateUser(q) \/ GiveRoles(q)
               \/ CreateLink(q) \/ SetExpiry(q) \/ LookUpIdentity(q)
    <3>1. Stops(q) \/ \E pc \in {"identity", "user", "roles", "link", "lookup"} : Goes(q, pc)
      BY <2>7 DEF FindIdentity, CreateIdentity, CreateUser, GiveRoles, CreateLink, SetExpiry,
         LookUpIdentity
    <3>2. QED BY <2>2, <2>3, <3>1 DEF ResetPcs
  <2>8. QED BY <2>5, <2>6, <2>7 DEF InviteSteps, RequestSteps
<1>5. \A p \in AccountCallers : accountCall'[p] = accountCall[p] \/
         (accountCall[p].pc \notin ResetPcs /\ accountCall'[p].pc \notin ResetPcs)
  BY <1>1, <1>3, <1>4, OnlyCallOf
<1>6. past' = past /\ forgot' = forgot /\ crowded' = crowded
  BY DEF InviteSteps, Invite, BeginAccountCall, FindIdentity, CreateIdentity, CreateUser,
     GiveRoles, CreateLink, RequestSteps, IncrementRateLimit, SetExpiry, LookUpIdentity,
     passwordVars
<1>7. CASE had' = had /\ identity' = identity
  BY <1>5, <1>6, <1>7, ResetsUndisturbed
<1>8. CASE CreateIdentity(q) /\ ~identity.row
  <2>1. /\ identity' = [row |-> TRUE, password |-> Unset] /\ had' = <<Unset>>
        /\ past = <<>> /\ past' = past
    BY <1>6, <1>8 DEF CreateIdentity, AccountsTyped
  <2>2. Resetting = {}
    BY <1>8 DEF Resetting, AccountsTyped, AccountCallsTyped, AccountCallFits, ResetPcs
  <2>3. Resetting' = {}
    BY <1>5, <2>2 DEF Resetting, ResetPcs
  <2>4. Len(had') = 1 /\ had'[1] = Unset /\ DOMAIN had' = {1} /\ Len(past') = 0
           /\ DOMAIN past' = {}
    BY <2>1
  <2>5. Distinct'
    BY <2>4, AccountsAssumption DEF Distinct
  <2>6. forgot' = 0
    BY <1>6, <2>1 DEF AccountsTyped, AccountsTypeOK
  <2>7. Remembered'
    BY <2>1, <2>4, <2>5, <2>6 DEF Remembered
  <2>8. AtRest'
    BY <2>4, <2>6, AccountsAssumption DEF AtRest
  <2>9. QED BY <2>3, <2>7, <2>8 DEF ResetsInTurn
<1>9. QED
  BY <1>7, <1>8 DEF InviteSteps, Invite, BeginAccountCall, FindIdentity, CreateIdentity, CreateUser,
     GiveRoles, CreateLink, RequestSteps, IncrementRateLimit, SetExpiry, LookUpIdentity,
     passwordVars

LEMMA TurnTaken ==
    ASSUME AccountsTyped, ResetsInTurn, ~crowded, NEW q \in AccountCallers,
           accountCall[q].pc \in ResetPcs \/ Resetting = {},
           \A p \in AccountCallers \ {q} : accountCall'[p] = accountCall[p],
           Remembered',
           accountCall'[q].pc \in ResetPcs => ResetFits(accountCall[q])',
           accountCall'[q].pc \notin ResetPcs => AtRest'
    PROVE  ResetsInTurn'
<1>1. Resetting = {p \in AccountCallers : accountCall[p].pc \in ResetPcs}
  BY DEF Resetting, ResetPcs
<1>2. Resetting' = {p \in AccountCallers : accountCall'[p].pc \in ResetPcs}
  BY DEF Resetting, ResetPcs
<1>3. \A p \in AccountCallers \ {q} : p \notin Resetting
  BY <1>1 DEF ResetsInTurn
<1>4. \A p \in Resetting' : p = q
  BY <1>1, <1>2, <1>3
<1>5. Resetting' = {} => AtRest'
  BY <1>2
<1>6. \A p \in Resetting' : ResetFits(accountCall[p])'
  BY <1>2, <1>4
<1>7. QED BY <1>4, <1>5, <1>6 DEF ResetsInTurn

(* A step of a reset, in the state its turn promises. *)
LEMMA ResetsKeepTurn ==
    ASSUME AccountsTyped, ResetsInTurn, NEW q \in AccountCallers, ResetSteps(q)
    PROVE  ResetsInTurn'
<1> SUFFICES ASSUME ~crowded' PROVE ResetsInTurn'
  BY DEF ResetsInTurn
<1>1. PICK r \in AccountCall : r = accountCall[q]
  BY DEF AccountsTyped, AccountCallsTyped
<1>2. /\ accountCall \in [AccountCallers -> AccountCall] /\ AccountCallFits(r)
      /\ HistorySize \in Nat \ {0} /\ forgot \in Nat
      /\ past \in Seq(Passwords \cup {Unset}) /\ had \in Seq(Passwords \cup {Unset})
      /\ identity \in [row : BOOLEAN, password : Passwords \cup {Unset}]
  BY <1>1, AccountsAssumption DEF AccountsTyped, AccountsTypeOK, AccountCallsTyped
<1>3. /\ Len(past) \in Nat /\ DOMAIN past = 1..Len(past)
      /\ Len(had) \in Nat /\ DOMAIN had = 1..Len(had)
  BY <1>2
<1>4. ~crowded
  BY DEF ResetSteps, ConfirmReset, ReadPassword, CheckHistory, SaveToHistory, FindOverflow,
     TrimHistory, SetPassword, UseLink, AccountCallStops, passwordVars
<1>5. Remembered
  BY <1>4 DEF ResetsInTurn
<1>6. r.pc \in ResetPcs => ResetFits(r) /\ identity.row
  BY <1>1, <1>2, <1>4 DEF ResetsInTurn, Resetting, ResetPcs, AccountCallFits
<1>7. \A p \in AccountCallers \ {q} : accountCall'[p] = accountCall[p]
  BY OnlyCallOf
<1>8. ASSUME past' = past, forgot' = forgot, had' = had, identity' = identity
      PROVE  (Remembered' <=> Remembered) /\ (AtRest' <=> AtRest)
  BY <1>8 DEF Remembered, Distinct, AtRest
<1>9. ASSUME NEW n \in 1..MaxLinks, NEW p \in Passwords, ConfirmReset(q, n, p)
      PROVE  ResetsInTurn'
  <2>1. PICK call : call = [NoAccountCall EXCEPT !.pc = "read", !.link = n, !.password = p]
    OBVIOUS
  <2>2. call.pc = "read"
    BY <2>1 DEF NoAccountCall
  <2>3. BeginAccountCall(q, call) /\ n \in usable /\ Resetting = {}
    BY <1>4, <1>9, <2>1 DEF ConfirmReset
  <2>4. past' = past /\ forgot' = forgot /\ had' = had /\ identity' = identity /\ identity.row
    BY <1>9, <2>3 DEF ConfirmReset, BeginAccountCall, AccountsTyped
  <2>5. accountCall'[q] = call
    BY <1>2, <2>3 DEF BeginAccountCall
  <2>6. AtRest
    BY <1>4, <2>3 DEF ResetsInTurn
  <2>7. ResetFits(accountCall[q])'
    BY <2>2, <2>4, <2>5, <2>6 DEF ResetFits, AtRest
  <2>8. "read" \in ResetPcs
    BY DEF ResetPcs
  <2>9. QED BY <1>4, <1>5, <1>7, <1>8, <2>2, <2>3, <2>4, <2>5, <2>7, <2>8, TurnTaken
<1>10. CASE ReadPassword(q)
  <2>1. past' = past /\ forgot' = forgot /\ had' = had /\ identity' = identity /\ r.pc = "read"
    BY <1>1, <1>10 DEF ReadPassword, passwordVars
  <2>2. /\ accountCall'[q].pc = "check" /\ accountCall'[q].seen = identity.password
    BY <1>1, <1>2, <1>10 DEF ReadPassword, AccountCall
  <2>3. r.pc \in ResetPcs /\ accountCall'[q].pc \in ResetPcs
    BY <2>1, <2>2 DEF ResetPcs
  <2>4. ResetFits(accountCall[q])'
    BY <1>6, <2>1, <2>2, <2>3 DEF ResetFits
  <2>5. QED BY <1>1, <1>4, <1>5, <1>7, <1>8, <2>1, <2>3, <2>4, TurnTaken
<1>11. CASE CheckHistory(q)
  <2>1. past' = past /\ forgot' = forgot /\ had' = had /\ identity' = identity /\ r.pc = "check"
    BY <1>1, <1>11 DEF CheckHistory, passwordVars
  <2>2. r.pc \in ResetPcs
    BY <2>1 DEF ResetPcs
  <2>3. Len(past) + 1 = Len(had) /\ Len(past) - forgot <= HistorySize /\ r.seen = identity.password
    BY <1>6, <2>1, <2>2 DEF ResetFits
  <2>4. CASE r.password \in Newest
    <3>1. accountCall'[q].pc = "idle"
      BY <1>1, <1>2, <1>11, <2>4, NoAccountCallFits DEF CheckHistory, Stops
    <3>2. AtRest' /\ accountCall'[q].pc \notin ResetPcs
      BY <1>8, <2>1, <2>3, <3>1 DEF AtRest, ResetPcs
    <3>3. QED BY <1>1, <1>4, <1>5, <1>7, <1>8, <2>1, <2>2, <3>2, TurnTaken
  <2>5. CASE r.password \notin Newest
    <3>1. /\ accountCall'[q].pc = "save" /\ accountCall'[q].seen = r.seen
          /\ accountCall'[q].password = r.password
      BY <1>1, <1>2, <1>11, <2>5 DEF CheckHistory, Goes, AccountCall
    <3>2. ASSUME NEW j \in DOMAIN had, j \in Len(had) - HistorySize .. Len(had) - 1
          PROVE  had[j] # r.password
      <4>1. j \in DOMAIN past /\ j > Len(past) - HistorySize /\ j > 0
        BY <1>2, <1>3, <2>3, <3>2
      <4>2. j > forgot
        BY <1>2, <1>3, <1>5, <4>1 DEF Remembered
      <4>3. past[j] \in Newest /\ past[j] = had[j]
        BY <1>5, <4>1, <4>2 DEF Newest, Remembered
      <4>4. QED BY <2>5, <4>3
    <3>3. NotRecent(r.password)
      BY <3>2 DEF NotRecent
    <3>4. NotRecent(r.password)'
      BY <2>1, <3>3 DEF NotRecent
    <3>5. ResetFits(accountCall[q])' /\ accountCall'[q].pc \in ResetPcs
      BY <2>1, <2>3, <3>1, <3>4 DEF ResetFits, ResetPcs
    <3>6. QED BY <1>1, <1>4, <1>5, <1>7, <1>8, <2>1, <2>2, <3>5, TurnTaken
  <2>6. QED BY <2>4, <2>5
<1>12. CASE SaveToHistory(q)
  <2>1. /\ past' = Append(past, r.seen) /\ forgot' = forgot /\ had' = had
        /\ identity' = identity /\ r.pc = "save"
    BY <1>1, <1>12 DEF SaveToHistory
  <2>2. r.pc \in ResetPcs
    BY <2>1 DEF ResetPcs
  <2>3. /\ Len(past) + 1 = Len(had) /\ r.seen = identity.password
        /\ NotRecent(r.password) /\ identity.row
    BY <1>6, <2>1, <2>2 DEF ResetFits
  <2>4. accountCall'[q].pc = "overflow" /\ accountCall'[q].password = r.password
    BY <1>1, <1>2, <1>12 DEF SaveToHistory, Goes, AccountCall
  <2>5. r.seen \in Passwords \cup {Unset}
    BY DEF AccountCall
  <2>6. /\ Len(past') = Len(past) + 1 /\ DOMAIN past' = 1..Len(past) + 1
        /\ \A i \in 1..Len(past) : past'[i] = past[i]
        /\ past'[Len(past) + 1] = r.seen
    BY <1>2, <2>1, <2>5
  <2>7. had[Len(had)] = r.seen
    BY <1>5, <2>3 DEF Remembered
  <2>8. \A i \in DOMAIN past' : i \in DOMAIN had' /\ past'[i] = had'[i]
    BY <1>3, <1>5, <2>1, <2>3, <2>6, <2>7 DEF Remembered
  <2>9. forgot' = 0 \/ forgot' <= Len(past') - HistorySize
    BY <1>2, <1>3, <1>5, <2>1, <2>6 DEF Remembered
  <2>10. Distinct'
    BY <1>5, <2>1 DEF Remembered, Distinct
  <2>11. Remembered'
    BY <1>5, <2>1, <2>8, <2>9, <2>10 DEF Remembered
  <2>12. NotRecent(r.password)' /\ Len(past') = Len(had')
    BY <2>1, <2>3, <2>6 DEF NotRecent
  <2>13. ResetFits(accountCall[q])' /\ accountCall'[q].pc \in ResetPcs
    BY <2>4, <2>12 DEF ResetFits, ResetPcs
  <2>14. QED BY <1>1, <1>4, <1>7, <2>2, <2>11, <2>13, TurnTaken
<1>13. CASE FindOverflow(q)
  <2>1. past' = past /\ forgot' = forgot /\ had' = had /\ identity' = identity
           /\ r.pc = "overflow"
    BY <1>1, <1>13 DEF FindOverflow, passwordVars
  <2>2. r.pc \in ResetPcs
    BY <2>1 DEF ResetPcs
  <2>3. Len(past) = Len(had) /\ NotRecent(r.password)
    BY <1>6, <2>1, <2>2 DEF ResetFits
  <2>4. /\ accountCall'[q].pc = "trim" /\ accountCall'[q].password = r.password
        /\ accountCall'[q].cut = Len(past) - HistorySize
    BY <1>1, <1>2, <1>13 DEF FindOverflow, AccountCall
  <2>5. NotRecent(r.password)'
    BY <2>1, <2>3 DEF NotRecent
  <2>6. ResetFits(accountCall[q])' /\ accountCall'[q].pc \in ResetPcs
    BY <2>1, <2>3, <2>4, <2>5 DEF ResetFits, ResetPcs
  <2>7. QED BY <1>1, <1>4, <1>5, <1>7, <1>8, <2>1, <2>2, <2>6, TurnTaken
<1>14. CASE TrimHistory(q)
  <2>1. /\ past' = past /\ had' = had /\ identity' = identity /\ r.pc = "trim"
        /\ forgot' = IF r.cut > forgot THEN r.cut ELSE forgot
    BY <1>1, <1>14 DEF TrimHistory
  <2>2. r.pc \in ResetPcs
    BY <2>1 DEF ResetPcs
  <2>3. Len(past) = Len(had) /\ NotRecent(r.password) /\ r.cut = Len(past) - HistorySize
    BY <1>6, <2>1, <2>2 DEF ResetFits
  <2>4. accountCall'[q].pc = "set" /\ accountCall'[q].password = r.password
    BY <1>1, <1>2, <1>14 DEF TrimHistory, Goes, AccountCall
  <2>5. NotRecent(r.password)'
    BY <2>1, <2>3 DEF NotRecent
  <2>6. /\ Len(past') - forgot' <= HistorySize
        /\ forgot' = 0 \/ forgot' <= Len(past') - HistorySize
    BY <1>2, <1>3, <1>5, <2>1, <2>3 DEF Remembered
  <2>7. Distinct'
    BY <1>5, <2>1 DEF Remembered, Distinct
  <2>8. Remembered'
    BY <1>5, <2>1, <2>6, <2>7 DEF Remembered
  <2>9. ResetFits(accountCall[q])' /\ accountCall'[q].pc \in ResetPcs
    BY <2>1, <2>3, <2>4, <2>5, <2>6 DEF ResetFits, ResetPcs
  <2>10. QED BY <1>1, <1>4, <1>7, <2>2, <2>8, <2>9, TurnTaken
<1>15. CASE SetPassword(q)
  <2>1. /\ past' = past /\ forgot' = forgot /\ had' = Append(had, r.password)
        /\ identity' = [identity EXCEPT !.password = r.password] /\ r.pc = "set"
    BY <1>1, <1>15 DEF SetPassword
  <2>2. r.pc \in ResetPcs
    BY <2>1 DEF ResetPcs
  <2>3. Len(past) = Len(had) /\ NotRecent(r.password) /\ Len(past) - forgot <= HistorySize
    BY <1>6, <2>1, <2>2 DEF ResetFits
  <2>4. accountCall'[q].pc = "use"
    BY <1>1, <1>2, <1>15 DEF SetPassword, Goes, AccountCall
  <2>5. r.password \in Passwords \cup {Unset}
    BY DEF AccountCall
  <2>6. /\ Len(had') = Len(had) + 1 /\ DOMAIN had' = 1..Len(had) + 1
        /\ \A i \in 1..Len(had) : had'[i] = had[i]
        /\ had'[Len(had) + 1] = r.password
    BY <1>2, <2>1, <2>5
  <2>7. identity'.password = r.password
    BY <1>2, <2>1
  <2>8. had' # <<>> /\ had'[Len(had')] = identity'.password
    BY <1>3, <2>6, <2>7
  <2>9. \A i \in DOMAIN past' : i \in DOMAIN had' /\ past'[i] = had'[i]
    BY <1>3, <1>5, <2>1, <2>6 DEF Remembered
  <2>10. ASSUME NEW i \in DOMAIN had', NEW j \in DOMAIN had', j \in i - 1 - HistorySize .. i - 2
         PROVE  had'[j] # had'[i]
    <3>1. i \in 1..Len(had) + 1 /\ j \in 1..Len(had) + 1 /\ j <= i - 2
      BY <1>2, <2>6, <2>10
    <3>2. j \in DOMAIN had /\ had'[j] = had[j]
      BY <1>3, <2>6, <3>1
    <3>3. CASE i = Len(had) + 1
      <4>1. j \in Len(had) - HistorySize .. Len(had) - 1
        BY <1>2, <1>3, <2>10, <3>3
      <4>2. had[j] # r.password
        BY <2>3, <3>2, <4>1 DEF NotRecent
      <4>3. QED BY <2>6, <3>2, <3>3, <4>2
    <3>4. CASE i # Len(had) + 1
      <4>1. i \in DOMAIN had /\ had'[i] = had[i]
        BY <1>3, <2>6, <3>1, <3>4
      <4>2. QED BY <1>5, <2>10, <3>2, <4>1 DEF Remembered, Distinct
    <3>5. QED BY <3>3, <3>4
  <2>11. Distinct'
    BY <2>10 DEF Distinct
  <2>12. Remembered'
    BY <1>5, <2>1, <2>8, <2>9, <2>11 DEF Remembered
  <2>13. Len(past') + 1 = Len(had') /\ Len(past') - forgot' <= HistorySize
    BY <2>1, <2>3, <2>6
  <2>14. ResetFits(accountCall[q])' /\ accountCall'[q].pc \in ResetPcs
    BY <2>4, <2>13 DEF ResetFits, ResetPcs
  <2>15. QED BY <1>1, <1>4, <1>7, <2>2, <2>12, <2>14, TurnTaken
<1>16. CASE UseLink(q)
  <2>1. past' = past /\ forgot' = forgot /\ had' = had /\ identity' = identity /\ r.pc = "use"
    BY <1>1, <1>16 DEF UseLink, passwordVars
  <2>2. r.pc \in ResetPcs
    BY <2>1 DEF ResetPcs
  <2>3. AtRest
    BY <1>6, <2>1, <2>2 DEF ResetFits, AtRest
  <2>4. accountCall'[q].pc = "idle"
    BY <1>2, <1>16, NoAccountCallFits DEF UseLink, Stops
  <2>5. accountCall'[q].pc \notin ResetPcs
    BY <2>4 DEF ResetPcs
  <2>6. QED BY <1>1, <1>4, <1>5, <1>7, <1>8, <2>1, <2>2, <2>3, <2>5, TurnTaken
<1>17. CASE AccountCallStops(q)
  <2>1. past' = past /\ forgot' = forgot /\ had' = had /\ identity' = identity
    BY <1>17 DEF AccountCallStops
  <2>2. crowded' = crowded /\ r.pc \notin {"overflow", "trim", "set"}
    BY <1>1, <1>4, <1>17 DEF AccountCallStops, AccountsTyped, AccountsTypeOK
  <2>3. accountCall'[q].pc = "idle"
    BY <1>2, <1>17, NoAccountCallFits DEF AccountCallStops, Stops
  <2>4. accountCall'[q].pc \notin ResetPcs
    BY <2>3 DEF ResetPcs
  <2>5. CASE r.pc \in ResetPcs
    <3>1. AtRest
      BY <1>6, <2>2, <2>5 DEF ResetFits, AtRest, ResetPcs
    <3>2. QED BY <1>1, <1>4, <1>5, <1>7, <1>8, <2>1, <2>4, <2>5, <3>1, TurnTaken
  <2>6. CASE r.pc \notin ResetPcs
    <3>1. \A p \in AccountCallers : accountCall'[p] = accountCall[p] \/
             (accountCall[p].pc \notin ResetPcs /\ accountCall'[p].pc \notin ResetPcs)
      BY <1>1, <1>7, <2>4, <2>6
    <3>2. QED BY <2>1, <2>2, <3>1, ResetsUndisturbed
  <2>7. QED BY <2>5, <2>6
<1>18. QED
  BY <1>9, <1>10, <1>11, <1>12, <1>13, <1>14, <1>15, <1>16, <1>17 DEF ResetSteps

LEMMA ResetsInTurnKept ==
    ASSUME AccountsTyped, ResetsInTurn, [AccountsNext]_accountsVars
    PROVE  ResetsInTurn'
<1>1. CASE UNCHANGED accountsVars
  BY <1>1, ResetsUndisturbed DEF accountsVars
<1>2. CASE (\E t \in Tenants : CreateTenant(t)) \/ WindowEnds
              \/ \E n \in 1..MaxLinks : LinkExpires(n)
  BY <1>2, ResetsUndisturbed DEF CreateTenant, WindowEnds, LinkExpires, passwordVars
<1>3. QED
  BY <1>1, <1>2, InvitesKeepTurn, ResetsKeepTurn
  DEF AccountsNext, ResetSteps, InviteSteps, RequestSteps

(* Accounts: a reset never sets one of the HistorySize passwords before the  *)
(* one it replaces, and the history keeps no more rows than those, unless    *)
(* resets overlapped or one stopped midway (password.service.ts).            *)
THEOREM PasswordsNotReused == AccountsSpec => []RecentPasswordsRefused
<1>1. AccountsInit => AccountsTyped /\ ResetsInTurn
  BY AccountsInitTyped, AccountTablesInTurn DEF AccountsInit
<1>2. AccountsTyped /\ ResetsInTurn /\ [AccountsNext]_accountsVars
         => AccountsTyped' /\ ResetsInTurn'
  BY AccountsTypedKept, ResetsInTurnKept
<1>3. ResetsInTurn => RecentPasswordsRefused
  BY DEF ResetsInTurn, Remembered, Distinct, AtRest, RecentPasswordsRefused
<1>4. QED BY <1>1, <1>2, <1>3, PTL DEF AccountsSpec

-----------------------------------------------------------------------------
(* Row access: types.  What a running grant or revocation may be, and that   *)
(* those of one request are of different keys.                               *)

LevelsOrNone == Levels \cup {"NONE"}
Persona == [creator : People \cup {Nobody}, owner : People \cup {Nobody},
            assigned : People \cup {Nobody}]

GrantFits(g) ==
    /\ g \in GrantRecord
    /\ g.op = "grant" => g.level \in Levels /\ g.pc # "delete"
    /\ g.op = "revoke" => /\ g.pc \in {"audit", "delete"}
                          /\ g.level = "NONE" /\ g.seen.level # "NONE"
    /\ g.pc \in {"find", "create"} => g.seen = NoPerm
    /\ g.pc \in {"reread", "update"} => g.seen.level # "NONE"

AccessTyped ==
    /\ RowAccessTypeOK
    /\ audit \in [Keys -> Seq(AuditRecord)]
    /\ grants \in [AccessCallers -> SUBSET GrantRecord]
    /\ \A x \in Types : row[x] = Absent \/ (row[x].creator \in People /\ row[x].owner \in People)
    /\ \A q \in AccessCallers : \A g \in grants[q] : GrantFits(g)
    /\ \A q \in AccessCallers : \A g, h \in grants[q] : g.key = h.key => g = h

LEMMA GrantsFit ==
    ASSUME NEW k \in Keys, NEW l \in Levels
    PROVE  /\ GrantFits(Grant(k, l)) /\ Grant(k, l).key = k /\ Grant(k, l).level = l
           /\ Grant(k, l).pc = "find" /\ Grant(k, l).op = "grant"
BY DEF GrantFits, Grant, GrantRecord, NoPerm

(* What a new job or candidate grants: a grant for each of some people, and  *)
(* no key twice.                                                             *)
GrantsOf(todo) ==
    /\ \A g \in todo : GrantFits(g) /\ g.pc = "find" /\ g.op = "grant"
    /\ \A g, h \in todo : g.key = h.key => g = h

LEMMA KeyIs ==
    ASSUME NEW u \in Grantees, NEW x \in Types
    PROVE  <<u, x>> \in Keys /\ \A v, y : <<u, x>> = <<v, y>> => u = v /\ x = y
BY DEF Keys

LEMMA JobGrantsFit ==
    ASSUME NEW u \in People, NEW owner \in People, NEW bd \in People
    PROVE  /\ GrantsOf(JobGrants(u, owner, bd))
           /\ \A g \in JobGrants(u, owner, bd) :
                 \/ g = Grant(<<u, "Job">>, "OWNER")
                 \/ owner # u /\ g = Grant(<<owner, "Job">>, "EDIT")
                 \/ bd \notin {u, owner} /\ g = Grant(<<bd, "Job">>, "VIEW")
           /\ Grant(<<u, "Job">>, "OWNER") \in JobGrants(u, owner, bd)
           /\ owner # u => Grant(<<owner, "Job">>, "EDIT") \in JobGrants(u, owner, bd)
<1>1. u \in Grantees /\ owner \in Grantees /\ bd \in Grantees /\ "Job" \in Types
  BY DEF Grantees, Types
<1>2. "OWNER" \in Levels /\ "EDIT" \in Levels /\ "VIEW" \in Levels
  BY DEF Levels
<1>3. \A v \in Grantees : <<v, "Job">> \in Keys
  BY <1>1, KeyIs
<1>4. \A g \in JobGrants(u, owner, bd) :
         \/ g = Grant(<<u, "Job">>, "OWNER")
         \/ owner # u /\ g = Grant(<<owner, "Job">>, "EDIT")
         \/ bd \notin {u, owner} /\ g = Grant(<<bd, "Job">>, "VIEW")
  BY DEF JobGrants
<1>5. \A g \in JobGrants(u, owner, bd) : GrantFits(g) /\ g.pc = "find" /\ g.op = "grant"
  BY <1>1, <1>2, <1>3, <1>4, GrantsFit
<1>6. /\ Grant(<<u, "Job">>, "OWNER").key = <<u, "Job">>
      /\ Grant(<<owner, "Job">>, "EDIT").key = <<owner, "Job">>
      /\ Grant(<<bd, "Job">>, "VIEW").key = <<bd, "Job">>
  BY DEF Grant
<1>7. \A v, w \in Grantees : <<v, "Job">> = <<w, "Job">> => v = w
  OBVIOUS
<1>8. \A g, h \in JobGrants(u, owner, bd) : g.key = h.key => g = h
  BY <1>1, <1>4, <1>6, <1>7
<1>9. /\ Grant(<<u, "Job">>, "OWNER") \in JobGrants(u, owner, bd)
      /\ owner # u => Grant(<<owner, "Job">>, "EDIT") \in JobGrants(u, owner, bd)
  BY DEF JobGrants
<1>10. QED BY <1>4, <1>5, <1>8, <1>9 DEF GrantsOf

LEMMA CandidateGrantsFit ==
    ASSUME NEW u \in People
    PROVE  /\ GrantsOf(CandidateGrants(u))
           /\ \A g \in CandidateGrants(u) :
                 \/ g = Grant(<<u, "Candidate">>, "OWNER")
                 \/ g = Grant(<<Team, "Candidate">>, "VIEW")
           /\ Grant(<<u, "Candidate">>, "OWNER") \in CandidateGrants(u)
<1>1. u \in Grantees /\ Team \in Grantees /\ "Candidate" \in Types /\ u # Team
  BY RowAccessAssumption DEF Grantees, Types
<1>2. "OWNER" \in Levels /\ "VIEW" \in Levels
  BY DEF Levels
<1>3. <<u, "Candidate">> \in Keys /\ <<Team, "Candidate">> \in Keys
  BY <1>1, KeyIs
<1>4. \A g \in CandidateGrants(u) :
         \/ g = Grant(<<u, "Candidate">>, "OWNER")
         \/ g = Grant(<<Team, "Candidate">>, "VIEW")
  BY DEF CandidateGrants
<1>5. \A g \in CandidateGrants(u) : GrantFits(g) /\ g.pc = "find" /\ g.op = "grant"
  BY <1>2, <1>3, <1>4, GrantsFit
<1>6. /\ Grant(<<u, "Candidate">>, "OWNER").key = <<u, "Candidate">>
      /\ Grant(<<Team, "Candidate">>, "VIEW").key = <<Team, "Candidate">>
  BY DEF Grant
<1>7. <<u, "Candidate">> # <<Team, "Candidate">>
  BY <1>1
<1>8. \A g, h \in CandidateGrants(u) : g.key = h.key => g = h
  BY <1>4, <1>6, <1>7
<1>9. Grant(<<u, "Candidate">>, "OWNER") \in CandidateGrants(u)
  BY DEF CandidateGrants
<1>10. QED BY <1>4, <1>5, <1>8, <1>9 DEF GrantsOf

LEMMA OneGrantFits ==
    ASSUME NEW u \in People, NEW x \in Types, NEW l \in Levels
    PROVE  /\ GrantsOf({Grant(<<u, x>>, l)})
           /\ Grant(<<u, x>>, l).key = <<u, x>> /\ Grant(<<u, x>>, l).level = l
<1>1. <<u, x>> \in Keys
  BY DEF Keys, Grantees
<1>2. QED BY <1>1, GrantsFit DEF GrantsOf

(* What a grant turns into; the others stay. *)
LEMMA GrantBecomes ==
    ASSUME AccessTyped, NEW q \in AccessCallers, NEW g \in grants[q], NEW new,
           Becomes(q, g, new),
           new = {} \/ \E h : new = {h} /\ GrantFits(h) /\ h.key = g.key
    PROVE  /\ grants' \in [AccessCallers -> SUBSET GrantRecord]
           /\ \A p \in AccessCallers : \A h \in grants'[p] :
                 GrantFits(h) /\ \/ p = q /\ h \in new
                                 \/ h \in grants[p] /\ ~(p = q /\ h.key = g.key)
           /\ \A p \in AccessCallers : \A h, i \in grants'[p] : h.key = i.key => h = i
           /\ \A p \in AccessCallers : \A h \in grants[p] : h \in grants'[p] \/ (p = q /\ h = g)
           /\ new \subseteq grants'[q]
<1>1. grants \in [AccessCallers -> SUBSET GrantRecord]
  BY DEF AccessTyped
<1>2. PICK todo : todo = (grants[q] \ {g}) \cup new
  OBVIOUS
<1>3. grants' = [grants EXCEPT ![q] = todo]
  BY <1>1, <1>2 DEF Becomes
<1>4. todo \subseteq GrantRecord
  BY <1>1, <1>2 DEF GrantFits
<1>5. /\ grants' \in [AccessCallers -> SUBSET GrantRecord] /\ grants'[q] = todo
      /\ \A p \in AccessCallers : p # q => grants'[p] = grants[p]
  BY <1>1, <1>3, <1>4
<1>6. \A h \in grants[q] : GrantFits(h) /\ (h.key = g.key => h = g)
  BY DEF AccessTyped
<1>7. \A h \in todo : GrantFits(h) /\ (h \in new \/ (h \in grants[q] /\ h.key # g.key))
  BY <1>2, <1>6
<1>8. \A h, i \in todo : h.key = i.key => h = i
  BY <1>2, <1>6 DEF AccessTyped
<1>9. \A p \in AccessCallers : p # q => \A h \in grants[p] : GrantFits(h)
  BY DEF AccessTyped
<1>10. \A p \in AccessCallers : p # q => \A h, i \in grants[p] : h.key = i.key => h = i
  BY DEF AccessTyped
<1>11. \A p \in AccessCallers : \A h \in grants'[p] :
          GrantFits(h) /\ \/ p = q /\ h \in new
                          \/ h \in grants[p] /\ ~(p = q /\ h.key = g.key)
  BY <1>5, <1>7, <1>9
<1>12. \A p \in AccessCallers : \A h, i \in grants'[p] : h.key = i.key => h = i
  BY <1>5, <1>8, <1>10
<1>13. \A p \in AccessCallers : \A h \in grants[p] : h \in grants'[p] \/ (p = q /\ h = g)
  BY <1>2, <1>5
<1>14. QED BY <1>2, <1>5, <1>11, <1>12, <1>13

LEMMA BeginGrantsTyped ==
    ASSUME AccessTyped, NEW q \in AccessCallers, NEW x \in Types, NEW people \in Persona,
           NEW todo, NEW ignored \in SUBSET (People \X Types), GrantsOf(todo),
           BeginGrants(q, x, people, todo, ignored),
           people.creator \in People /\ people.owner \in People
    PROVE  AccessTyped'
<1>1. /\ grants[q] = {} /\ accessCalls < MaxAccessCalls /\ accessCalls' = accessCalls + 1
      /\ row' = [row EXCEPT ![x] = people] /\ grants' = [grants EXCEPT ![q] = todo]
      /\ ungranted' = ungranted \cup ignored /\ perm' = perm /\ audit' = audit
  BY DEF BeginGrants
<1>2. grants \in [AccessCallers -> SUBSET GrantRecord] /\ todo \subseteq GrantRecord
  BY DEF AccessTyped, GrantsOf, GrantFits
<1>3. /\ grants' \in [AccessCallers -> SUBSET GrantRecord] /\ grants'[q] = todo
      /\ \A p \in AccessCallers : p # q => grants'[p] = grants[p]
  BY <1>1, <1>2
<1>4. row \in [Types -> Persona]
  BY DEF AccessTyped, RowAccessTypeOK, Persona
<1>5. /\ row' \in [Types -> Persona] /\ row'[x] = people
      /\ \A y \in Types : y # x => row'[y] = row[y]
  BY <1>1, <1>4
<1>6. torn' \subseteq Keys
  <2>1. torn' \subseteq torn \cup {g.key : g \in todo}
    BY DEF BeginGrants
  <2>2. \A g \in todo : g.key \in Keys
    BY DEF GrantsOf, GrantFits, GrantRecord
  <2>3. QED BY <2>1, <2>2 DEF AccessTyped, RowAccessTypeOK
<1>7. ungranted' \subseteq People \X Types
  BY <1>1 DEF AccessTyped, RowAccessTypeOK
<1>8. accessCalls' \in 0..MaxAccessCalls
  BY <1>1, RowAccessAssumption DEF AccessTyped, RowAccessTypeOK
<1>9. \A p \in AccessCallers : \A g \in grants'[p] : GrantFits(g)
  BY <1>3 DEF AccessTyped, GrantsOf
<1>10. \A p \in AccessCallers : \A g, h \in grants'[p] : g.key = h.key => g = h
  BY <1>3 DEF AccessTyped, GrantsOf
<1>11. \A y \in Types : row'[y] = Absent \/ (row'[y].creator \in People /\ row'[y].owner \in People)
  BY <1>5 DEF AccessTyped
<1>12. RowAccessTypeOK'
  BY <1>1, <1>3, <1>5, <1>6, <1>7, <1>8 DEF AccessTyped, RowAccessTypeOK, Persona
<1>13. QED BY <1>1, <1>3, <1>9, <1>10, <1>11, <1>12 DEF AccessTyped, Absent

(* The operations that begin grants, and what they grant. *)
Begins(q, x, people, todo, ignored) ==
    /\ x \in Types /\ people \in Persona /\ ignored \subseteq People \X Types
    /\ GrantsOf(todo) /\ BeginGrants(q, x, people, todo, ignored)
    /\ people.creator \in People /\ people.owner \in People

LEMMA NewRowsBegin ==
    ASSUME AccessTyped, NEW q \in AccessCallers, NEW u \in People, NEW v \in People
    PROVE  /\ NewClient(q, u, v) =>
                 Begins(q, "Client", Persons(u, v), {Grant(<<v, "Client">>, "OWNER")}, {})
           /\ NewCandidate(q, u, v) =>
                 Begins(q, "Candidate", Persons(u, v), CandidateGrants(u), {})
           /\ NewApplication(q, u, v) =>
                 Begins(q, "JobApplication", Persons(u, v),
                        {Grant(<<v, "JobApplication">>, "EDIT")}, {})
<1>1. /\ Persons(u, v) \in Persona
      /\ Persons(u, v).creator \in People /\ Persons(u, v).owner \in People
  BY DEF Persons, Persona
<1>2. GrantsOf({Grant(<<v, "Client">>, "OWNER")})
  BY OneGrantFits DEF Types, Levels
<1>3. GrantsOf({Grant(<<v, "JobApplication">>, "EDIT")})
  BY OneGrantFits DEF Types, Levels
<1>4. GrantsOf(CandidateGrants(u))
  BY CandidateGrantsFit
<1>5. {} \subseteq People \X Types /\ "Client" \in Types /\ "Candidate" \in Types
         /\ "JobApplication" \in Types
  BY DEF Types
<1>6. QED BY <1>1, <1>2, <1>3, <1>4, <1>5 DEF Begins, NewClient, NewCandidate, NewApplication

LEMMA NewJobBegins ==
    ASSUME AccessTyped, NEW q \in AccessCallers, NEW u \in People, NEW v \in People,
           NEW w \in People \cup {Nobody}, NewJob(q, u, v, w)
    PROVE  /\ row["Client"].owner \in People
           /\ Begins(q, "Job", [Persons(u, v) EXCEPT !.assigned = w],
                     JobGrants(u, v, row["Client"].owner), {<<w, "Job">>} \ {<<Nobody, "Job">>})
<1>1. PICK people : people = [Persons(u, v) EXCEPT !.assigned = w]
  OBVIOUS
<1>2. people \in Persona /\ people.creator \in People /\ people.owner \in People
  BY <1>1 DEF Persons, Persona
<1>3. row["Client"].owner \in People
  BY DEF NewJob, AccessTyped, Exist, Types
<1>4. GrantsOf(JobGrants(u, v, row["Client"].owner))
  <2>1. PICK bd \in People : bd = row["Client"].owner
    BY <1>3
  <2>2. GrantsOf(JobGrants(u, v, bd))
    BY JobGrantsFit
  <2>3. QED BY <2>1, <2>2
<1>5. {<<w, "Job">>} \ {<<Nobody, "Job">>} \subseteq People \X Types
  BY DEF Types
<1>6. "Job" \in Types
  BY DEF Types
<1>7. QED BY <1>1, <1>2, <1>3, <1>4, <1>5, <1>6 DEF Begins, NewJob

LEMMA AssignJobBegins ==
    ASSUME AccessTyped, NEW q \in AccessCallers, NEW u \in People \cup {Nobody}, AssignJob(q, u)
    PROVE  /\ Begins(q, "Job", [row["Job"] EXCEPT !.assigned = u],
                     {Grant(<<v, "Job">>, "EDIT") : v \in {u} \ {Nobody}}, {})
           /\ Exist("Job") /\ row["Job"] \in Persona
<1>1. PICK people : people = [row["Job"] EXCEPT !.assigned = u]
  OBVIOUS
<1>2. "Job" \in Types /\ row["Job"] \in Persona
  BY DEF AccessTyped, RowAccessTypeOK, Persona, Types
<1>3. row["Job"].creator \in People /\ row["Job"].owner \in People /\ Exist("Job")
  BY <1>2 DEF AssignJob, AccessTyped, Exist
<1>4. people \in Persona /\ people.creator \in People /\ people.owner \in People
  BY <1>1, <1>2, <1>3 DEF Persona
<1>5. GrantsOf({Grant(<<v, "Job">>, "EDIT") : v \in {u} \ {Nobody}})
  <2>1. CASE u = Nobody
    BY <2>1 DEF GrantsOf
  <2>2. CASE u # Nobody
    <3>1. {Grant(<<v, "Job">>, "EDIT") : v \in {u} \ {Nobody}} = {Grant(<<u, "Job">>, "EDIT")}
      BY <2>2
    <3>2. QED BY <2>2, <3>1, OneGrantFits DEF Types, Levels
  <2>3. QED BY <2>1, <2>2
<1>6. {} \subseteq People \X Types
  OBVIOUS
<1>7. QED BY <1>1, <1>2, <1>3, <1>4, <1>5, <1>6 DEF Begins, AssignJob

LEMMA PutOnTyped ==
    ASSUME AccessTyped, NEW u \in People, NEW x \in Types,
           ChangeOwner(x, u) \/ ChangeAssignee(u)
    PROVE  AccessTyped'
<1>0. PICK y \in Types : \E people : /\ PutOn(y, u, people)
                                     /\ \/ people = [row[y] EXCEPT !.owner = u]
                                        \/ people = [row[y] EXCEPT !.assigned = u]
  BY DEF ChangeOwner, ChangeAssignee, Types
<1>1. PICK people : /\ PutOn(y, u, people)
                    /\ \/ people = [row[y] EXCEPT !.owner = u]
                       \/ people = [row[y] EXCEPT !.assigned = u]
  BY <1>0
<1>2. row \in [Types -> Persona]
  BY DEF AccessTyped, RowAccessTypeOK, Persona
<1>3. row[y].creator \in People /\ row[y].owner \in People
  BY <1>1 DEF PutOn, Exist, AccessTyped
<1>4. people \in Persona /\ people.creator \in People /\ people.owner \in People
  BY <1>1, <1>2, <1>3 DEF Persona
<1>5. /\ accessCalls < MaxAccessCalls /\ accessCalls' = accessCalls + 1
      /\ row' = [row EXCEPT ![y] = people] /\ ungranted' = ungranted \cup {<<u, y>>}
      /\ perm' = perm /\ audit' = audit /\ grants' = grants /\ torn' = torn
  BY <1>1 DEF PutOn
<1>6. /\ row' \in [Types -> Persona] /\ row'[y] = people
      /\ \A z \in Types : z # y => row'[z] = row[z]
  BY <1>2, <1>4, <1>5
<1>7. accessCalls' \in 0..MaxAccessCalls
  BY <1>5, RowAccessAssumption DEF AccessTyped, RowAccessTypeOK
<1>8. ungranted' \subseteq People \X Types
  BY <1>5 DEF AccessTyped, RowAccessTypeOK
<1>9. RowAccessTypeOK'
  BY <1>5, <1>6, <1>7, <1>8 DEF AccessTyped, RowAccessTypeOK, Persona
<1>10. \A z \in Types : row'[z] = Absent \/ (row'[z].creator \in People /\ row'[z].owner \in People)
  BY <1>4, <1>6 DEF AccessTyped
<1>11. QED BY <1>5, <1>9, <1>10 DEF AccessTyped, GrantFits, Absent

LEMMA RevokeTyped ==
    ASSUME AccessTyped, NEW q \in AccessCallers, NEW k \in Keys, Revoke(q, k)
    PROVE  AccessTyped'
<1>1. PICK g : g = [pc |-> "audit", op |-> "revoke", key |-> k, level |-> "NONE", seen |-> perm[k]]
  OBVIOUS
<1>2. /\ perm[k].level # "NONE" /\ accessCalls < MaxAccessCalls /\ accessCalls' = accessCalls + 1
      /\ grants' = [grants EXCEPT ![q] = {g}]
      /\ row' = row /\ perm' = perm /\ audit' = audit /\ torn' = torn /\ ungranted' = ungranted
  BY <1>1 DEF Revoke
<1>3. perm[k] \in [id : Nat, level : LevelsOrNone]
  BY DEF AccessTyped, RowAccessTypeOK, LevelsOrNone
<1>4. g \in GrantRecord
  BY <1>1, <1>3 DEF GrantRecord, LevelsOrNone
<1>5. GrantFits(g)
  BY <1>1, <1>2, <1>4 DEF GrantFits
<1>6. grants \in [AccessCallers -> SUBSET GrantRecord]
  BY DEF AccessTyped
<1>7. /\ grants' \in [AccessCallers -> SUBSET GrantRecord] /\ grants'[q] = {g}
      /\ \A p \in AccessCallers : p # q => grants'[p] = grants[p]
  BY <1>2, <1>4, <1>6
<1>8. accessCalls' \in 0..MaxAccessCalls
  BY <1>2, RowAccessAssumption DEF AccessTyped, RowAccessTypeOK
<1>9. RowAccessTypeOK'
  BY <1>2, <1>7, <1>8 DEF AccessTyped, RowAccessTypeOK
<1>10. \A p \in AccessCallers : \A h \in grants'[p] : GrantFits(h)
  BY <1>5, <1>7 DEF AccessTyped
<1>11. \A p \in AccessCallers : \A h, i \in grants'[p] : h.key = i.key => h = i
  BY <1>7 DEF AccessTyped
<1>12. QED BY <1>2, <1>7, <1>9, <1>10, <1>11 DEF AccessTyped, Absent

(* The steps of a grant: what it turns into, and what that leaves of it.     *)
GrantSteps(q, g) ==
    \/ FindPermission(q, g) \/ RereadPermission(q, g) \/ WritePermission(q, g)
    \/ WriteAudit(q, g) \/ GrantFails(q, g)

Follows(q, g, h) ==
    /\ h.key = g.key /\ h.op = g.op /\ h.level = g.level
    /\ h.pc = "delete" => WriteAudit(q, g) /\ g.op = "revoke"

LEMMA GrantTurnsInto ==
    ASSUME AccessTyped, NEW q \in AccessCallers, NEW g \in grants[q], GrantSteps(q, g)
    PROVE  \E new : /\ Becomes(q, g, new)
                    /\ new = {} \/ \E h : new = {h} /\ GrantFits(h) /\ Follows(q, g, h)
<1>1. GrantFits(g) /\ g \in GrantRecord /\ g.key \in Keys
  BY DEF AccessTyped, GrantFits, GrantRecord
<1>2. PICK now \in [id : Nat, level : LevelsOrNone] : now = perm[g.key]
  BY <1>1 DEF AccessTyped, RowAccessTypeOK, LevelsOrNone
<1>3. \A pc \in {"create", "audit", "delete"} :
         LET h == [g EXCEPT !.pc = pc] IN
         h \in GrantRecord /\ h.key = g.key /\ h.pc = pc /\ h.op = g.op /\ h.level = g.level
            /\ h.seen = g.seen
  BY <1>1 DEF GrantRecord
<1>4. \A pc \in {"reread", "update"} :
         LET h == [g EXCEPT !.pc = pc, !.seen = now] IN
         h \in GrantRecord /\ h.key = g.key /\ h.pc = pc /\ h.op = g.op /\ h.level = g.level
            /\ h.seen = now
  BY <1>1 DEF GrantRecord, LevelsOrNone
<1>5. CASE FindPermission(q, g)
  <2>1. g.pc = "find" /\ g.op = "grant"
    BY <1>1, <1>5 DEF FindPermission, GrantFits, GrantRecord
  <2>2. GrantFits([g EXCEPT !.pc = "create"])
    BY <1>1, <1>3, <2>1 DEF GrantFits
  <2>3. now.level # "NONE" => GrantFits([g EXCEPT !.pc = "reread", !.seen = now])
    BY <1>1, <1>4, <2>1 DEF GrantFits
  <2>4. \/ Becomes(q, g, {[g EXCEPT !.pc = "create"]}) \/ Becomes(q, g, {})
        \/ now.level # "NONE" /\ Becomes(q, g, {[g EXCEPT !.pc = "reread", !.seen = now]})
    <3>1. CASE now.level = "NONE"
      <4>1. g.level # "NONE"
        BY <1>1, <2>1 DEF GrantFits, Levels
      <4>2. QED BY <1>2, <1>5, <3>1, <4>1 DEF FindPermission
    <3>2. CASE now.level # "NONE" /\ now.level = g.level
      BY <1>2, <1>5, <3>2 DEF FindPermission
    <3>3. CASE now.level # "NONE" /\ now.level # g.level
      BY <1>2, <1>5, <3>3 DEF FindPermission
    <3>4. QED BY <3>1, <3>2, <3>3
  <2>5. QED BY <1>3, <1>4, <2>2, <2>3, <2>4 DEF Follows
<1>6. CASE RereadPermission(q, g)
  <2>1. g.pc = "reread" /\ g.op = "grant"
    BY <1>1, <1>6 DEF RereadPermission, GrantFits, GrantRecord
  <2>2. now.level # "NONE" => GrantFits([g EXCEPT !.pc = "update", !.seen = now])
    BY <1>1, <1>4, <2>1 DEF GrantFits
  <2>3. \/ Becomes(q, g, {})
        \/ now.level # "NONE" /\ Becomes(q, g, {[g EXCEPT !.pc = "update", !.seen = now]})
    BY <1>2, <1>6 DEF RereadPermission
  <2>4. QED BY <1>4, <2>2, <2>3 DEF Follows
<1>7. CASE WritePermission(q, g)
  <2>1. g.pc \in {"create", "update", "delete"}
    BY <1>7 DEF WritePermission
  <2>2. g.pc # "delete" => GrantFits([g EXCEPT !.pc = "audit"])
    BY <1>1, <1>3, <2>1 DEF GrantFits, GrantRecord
  <2>3. Becomes(q, g, IF g.pc = "delete" THEN {} ELSE {[g EXCEPT !.pc = "audit"]})
    BY <1>7 DEF WritePermission
  <2>4. QED BY <1>3, <2>2, <2>3 DEF Follows
<1>8. CASE WriteAudit(q, g)
  <2>1. g.op = "revoke" => GrantFits([g EXCEPT !.pc = "delete"])
    BY <1>1, <1>3 DEF GrantFits
  <2>2. Becomes(q, g, IF g.op = "revoke" THEN {[g EXCEPT !.pc = "delete"]} ELSE {})
    BY <1>8 DEF WriteAudit
  <2>3. QED BY <1>3, <1>8, <2>1, <2>2 DEF Follows
<1>9. CASE GrantFails(q, g)
  BY <1>9 DEF GrantFails
<1>10. QED BY <1>5, <1>6, <1>7, <1>8, <1>9 DEF GrantSteps

(* A write changes one permission, an audit row is appended to one log.      *)
LEMMA WritePermissionWrites ==
    ASSUME AccessTyped, NEW q \in AccessCallers, NEW g \in grants[q], WritePermission(q, g)
    PROVE  /\ perm' \in [Keys -> [id : Nat, level : LevelsOrNone]]
           /\ perm'[g.key].level = g.level
           /\ \A k \in Keys : k # g.key => perm'[k] = perm[k]
           /\ audit' = audit
<1>1. GrantFits(g) /\ g.key \in Keys /\ g.level \in LevelsOrNone
  BY DEF AccessTyped, GrantFits, GrantRecord, LevelsOrNone
<1>2. PICK now \in [id : Nat, level : LevelsOrNone] : now = perm[g.key]
  BY <1>1 DEF AccessTyped, RowAccessTypeOK, LevelsOrNone
<1>3. PICK id \in Nat : id = IF g.pc = "create" THEN now.id + 1 ELSE now.id
  OBVIOUS
<1>4. perm' = [perm EXCEPT ![g.key] = [id |-> id, level |-> g.level]] /\ audit' = audit
  BY <1>2, <1>3 DEF WritePermission
<1>5. perm \in [Keys -> [id : Nat, level : LevelsOrNone]]
  BY DEF AccessTyped, RowAccessTypeOK, LevelsOrNone
<1>6. QED BY <1>1, <1>4, <1>5

AuditOf(g) == [action |-> ActionOf(g), from |-> g.seen.level, to |-> g.level]

LEMMA WriteAuditWrites ==
    ASSUME AccessTyped, NEW q \in AccessCallers, NEW g \in grants[q], WriteAudit(q, g)
    PROVE  /\ audit' \in [Keys -> Seq(AuditRecord)]
           /\ AuditOf(g) \in AuditRecord
           /\ audit'[g.key] = Append(audit[g.key], AuditOf(g))
           /\ \A k \in Keys : k # g.key => audit'[k] = audit[k]
           /\ perm' = perm
<1>1. GrantFits(g) /\ g.key \in Keys /\ g.level \in LevelsOrNone /\ g.seen.level \in LevelsOrNone
  BY DEF AccessTyped, GrantFits, GrantRecord, LevelsOrNone
<1>2. ActionOf(g) \in {"GRANT", "UPGRADE", "DOWNGRADE", "REVOKE"}
  BY DEF ActionOf
<1>3. AuditOf(g) \in AuditRecord
  BY <1>1, <1>2 DEF AuditOf, AuditRecord, LevelsOrNone
<1>4. audit \in [Keys -> Seq(AuditRecord)] /\ audit[g.key] \in Seq(AuditRecord)
  BY <1>1 DEF AccessTyped
<1>5. Append(audit[g.key], AuditOf(g)) \in Seq(AuditRecord)
  BY <1>3, <1>4
<1>6. /\ audit' = [audit EXCEPT ![g.key] = Append(audit[g.key], AuditOf(g))]
      /\ perm' = perm
  BY <1>1, <1>4 DEF WriteAudit, AuditOf
<1>7. QED BY <1>1, <1>3, <1>4, <1>5, <1>6

LEMMA GrantStepsTyped ==
    ASSUME AccessTyped, NEW q \in AccessCallers, NEW g \in grants[q], GrantSteps(q, g)
    PROVE  AccessTyped'
<1>1. PICK new : /\ Becomes(q, g, new)
                 /\ new = {} \/ \E h : new = {h} /\ GrantFits(h) /\ h.key = g.key
  BY GrantTurnsInto DEF Follows
<1>2. /\ grants' \in [AccessCallers -> SUBSET GrantRecord]
      /\ \A p \in AccessCallers : \A h \in grants'[p] : GrantFits(h)
      /\ \A p \in AccessCallers : \A h, i \in grants'[p] : h.key = i.key => h = i
  BY <1>1, GrantBecomes
<1>3. g.key \in Keys
  BY DEF AccessTyped, GrantFits, GrantRecord
<1>4. row' = row /\ ungranted' = ungranted /\ accessCalls' = accessCalls
  BY DEF GrantSteps, FindPermission, RereadPermission, WritePermission, WriteAudit, GrantFails
<1>5. torn' \subseteq Keys
  BY <1>3 DEF GrantSteps, FindPermission, RereadPermission, WritePermission, WriteAudit, GrantFails,
     Tears, AccessTyped, RowAccessTypeOK
<1>6. /\ perm' \in [Keys -> [id : Nat, level : LevelsOrNone]]
      /\ audit' \in [Keys -> Seq(AuditRecord)]
  <2>1. CASE WritePermission(q, g)
    BY <2>1, WritePermissionWrites DEF AccessTyped
  <2>2. CASE WriteAudit(q, g)
    BY <2>2, WriteAuditWrites DEF AccessTyped, RowAccessTypeOK, LevelsOrNone
  <2>3. CASE FindPermission(q, g) \/ RereadPermission(q, g) \/ GrantFails(q, g)
    <3>1. perm' = perm /\ audit' = audit
      BY <2>3 DEF FindPermission, RereadPermission, GrantFails
    <3>2. QED BY <3>1 DEF AccessTyped, RowAccessTypeOK, LevelsOrNone
  <2>4. QED BY <2>1, <2>2, <2>3 DEF GrantSteps
<1>7. \A k \in Keys : \A i \in DOMAIN audit'[k] : audit'[k][i] \in AuditRecord
  BY <1>6
<1>8. RowAccessTypeOK'
  BY <1>2, <1>4, <1>5, <1>6, <1>7 DEF AccessTyped, RowAccessTypeOK, LevelsOrNone
<1>9. QED BY <1>2, <1>4, <1>6, <1>8 DEF AccessTyped

LEMMA AccessTypedKept ==
    ASSUME AccessTyped, [RowAccessNext]_rowAccessVars
    PROVE  AccessTyped'
<1>1. CASE UNCHANGED rowAccessVars
  BY <1>1 DEF AccessTyped, RowAccessTypeOK, GrantFits, rowAccessVars
<1>2. ASSUME NEW q \in AccessCallers, NEW x, NEW people, NEW todo, NEW ignored,
             Begins(q, x, people, todo, ignored)
      PROVE  AccessTyped'
  BY <1>2, BeginGrantsTyped DEF Begins
<1>3. ASSUME NEW q \in AccessCallers, NEW u \in People, NEW v \in People,
             NewClient(q, u, v) \/ NewCandidate(q, u, v) \/ NewApplication(q, u, v)
      PROVE  AccessTyped'
  BY <1>2, <1>3, NewRowsBegin
<1>4. ASSUME NEW q \in AccessCallers, NEW u \in People, NEW v \in People,
             NEW w \in People \cup {Nobody}, NewJob(q, u, v, w)
      PROVE  AccessTyped'
  <2>1. PICK people, todo, ignored : Begins(q, "Job", people, todo, ignored)
    BY <1>4, NewJobBegins
  <2>2. QED BY <1>2, <2>1
<1>5. ASSUME NEW q \in AccessCallers, NEW u \in People \cup {Nobody}, AssignJob(q, u)
      PROVE  AccessTyped'
  BY <1>2, <1>5, AssignJobBegins
<1>6. ASSUME NEW u \in People, ChangeAssignee(u) \/ \E x \in Types : ChangeOwner(x, u)
      PROVE  AccessTyped'
  <2>1. "Job" \in Types
    BY DEF Types
  <2>2. QED BY <1>6, <2>1, PutOnTyped
<1>7. QED
  BY <1>1, <1>3, <1>4, <1>5, <1>6, RevokeTyped, GrantStepsTyped DEF RowAccessNext, GrantSteps

-----------------------------------------------------------------------------
(* Row access: the log of a key that no overlap has torn.  A grant or a      *)
(* revocation is halfway between the permission and its audit row, and only  *)
(* one is; one that has read the permission still sees what is there.        *)

Halfway(g) == (g.op = "grant" /\ g.pc = "audit") \/ g.pc = "delete"
Reading(g) == g.pc \in {"reread", "update", "delete"} \/ (g.op = "revoke" /\ g.pc = "audit")

LevelBefore(log, i) == IF i = 1 THEN "NONE" ELSE log[i - 1].to
LastLevel(log) == IF Len(log) = 0 THEN "NONE" ELSE log[Len(log)].to
ActionBetween(from, to) ==
    IF from = "NONE" THEN "GRANT"
    ELSE IF to = "NONE" THEN "REVOKE"
    ELSE IF AtLeast(from, to) THEN "DOWNGRADE" ELSE "UPGRADE"
Chained(log) ==
    \A i \in DOMAIN log :
        /\ log[i].from = LevelBefore(log, i)
        /\ log[i].action = ActionBetween(log[i].from, log[i].to)

LogFollows(k) ==
    /\ Chained(audit[k])
    /\ \A q \in AccessCallers : \A g \in grants[q] :
          g.key = k /\ Reading(g) => g.seen = perm[k]
    /\ \A q, p \in AccessCallers : \A g \in grants[q] : \A h \in grants[p] :
          g.key = k /\ h.key = k /\ Halfway(g) /\ Halfway(h) => q = p
    /\ \A q \in AccessCallers : \A g \in grants[q] : g.key = k /\ Halfway(g) =>
          IF g.op = "grant" THEN /\ LastLevel(audit[k]) = g.seen.level
                                 /\ perm[k].level = g.level
                            ELSE LastLevel(audit[k]) = "NONE"
    /\ (\A q \in AccessCallers : \A g \in grants[q] : g.key = k => ~Halfway(g))
          => LastLevel(audit[k]) = perm[k].level

LogsFollow == \A k \in Keys \ torn : LogFollows(k)

LEMMA LogsExplain ==
    ASSUME AccessTyped, LogsFollow
    PROVE  AuditExplainsTable
<1> SUFFICES ASSUME NEW k \in Keys \ torn, ~Writing(k)
             PROVE  LET log == audit[k]
                        levels == <<"NONE">> \o [i \in DOMAIN log |-> log[i].to]
                    IN  /\ \A i \in DOMAIN log :
                              /\ log[i].from = levels[i]
                              /\ log[i].action = IF levels[i] = "NONE" THEN "GRANT"
                                          ELSE IF log[i].to = "NONE" THEN "REVOKE"
                                          ELSE IF AtLeast(levels[i], log[i].to) THEN "DOWNGRADE"
                                          ELSE "UPGRADE"
                        /\ levels[Len(levels)] = perm[k].level
  BY DEF AuditExplainsTable
<1>1. PICK log \in Seq(AuditRecord) : log = audit[k]
  BY DEF AccessTyped
<1>2. PICK tos : tos = [i \in DOMAIN log |-> log[i].to]
  OBVIOUS
<1>3. tos \in Seq(LevelsOrNone) /\ Len(tos) = Len(log) /\ \A i \in 1..Len(log) : tos[i] = log[i].to
  <2>1. Len(log) \in Nat /\ DOMAIN log = 1..Len(log)
    OBVIOUS
  <2>2. \A i \in 1..Len(log) : log[i].to \in LevelsOrNone
    <3>1. \A i \in 1..Len(log) : log[i] \in AuditRecord
      BY <2>1
    <3>2. \A a \in AuditRecord : a.to \in LevelsOrNone
      BY DEF AuditRecord, LevelsOrNone
    <3>3. QED BY <3>1, <3>2
  <2>3. tos \in [1..Len(log) -> LevelsOrNone]
    BY <1>2, <2>1, <2>2
  <2>4. QED BY <1>2, <2>1, <2>3
<1>4. PICK levels : levels = <<"NONE">> \o tos
  OBVIOUS
<1>5. <<"NONE">> \in Seq(LevelsOrNone) /\ Len(<<"NONE">>) = 1
  BY DEF LevelsOrNone
<1>6. Len(levels) = Len(log) + 1
  BY <1>3, <1>4, <1>5
<1>7. \A i \in 1..Len(log) + 1 : levels[i] = LevelBefore(log, i)
  <2>1. levels[1] = "NONE"
    BY <1>3, <1>4, <1>5
  <2>2. ASSUME NEW i \in 1..Len(log) + 1, i # 1 PROVE levels[i] = log[i - 1].to
    <3>1. i - 1 \in 1..Len(log)
      BY <2>2
    <3>2. levels[i] = tos[i - 1]
      BY <1>3, <1>4, <1>5, <2>2, <3>1
    <3>3. QED BY <1>3, <3>1, <3>2
  <2>3. QED BY <2>1, <2>2 DEF LevelBefore
<1>8. LogFollows(k)
  BY DEF LogsFollow
<1>9. \A q \in AccessCallers : \A g \in grants[q] : g.key = k => ~Halfway(g)
  BY DEF Writing, Halfway
<1>10. Chained(log) /\ LastLevel(log) = perm[k].level
  BY <1>1, <1>8, <1>9 DEF LogFollows
<1>11. levels[Len(levels)] = perm[k].level
  <2>1. Len(log) \in Nat
    OBVIOUS
  <2>2. levels[Len(levels)] = LevelBefore(log, Len(log) + 1)
    BY <1>6, <1>7, <2>1
  <2>3. LevelBefore(log, Len(log) + 1) = LastLevel(log)
    BY <2>1 DEF LevelBefore, LastLevel
  <2>4. QED BY <1>10, <2>2, <2>3
<1>12. ASSUME NEW i \in DOMAIN log
       PROVE  /\ log[i].from = levels[i]
              /\ log[i].action = ActionBetween(levels[i], log[i].to)
  <2>1. i \in 1..Len(log) + 1
    OBVIOUS
  <2>2. QED BY <1>7, <1>10, <2>1 DEF Chained
<1>13. QED BY <1>1, <1>2, <1>4, <1>11, <1>12 DEF ActionBetween

(* A step that writes neither the permission nor the log of k.               *)
LEMMA LogKept ==
    ASSUME AccessTyped, NEW k \in Keys, LogFollows(k),
           perm'[k] = perm[k], audit'[k] = audit[k],
           \A p \in AccessCallers : \A h \in grants'[p] : h.key = k =>
              h \in grants[p] \/ (~Halfway(h) /\ (Reading(h) => h.seen = perm[k])),
           \A p \in AccessCallers : \A h \in grants[p] :
              h.key = k /\ Halfway(h) => h \in grants'[p]
    PROVE  LogFollows(k)'
<1>1. Chained(audit[k])'
  BY DEF LogFollows, Chained, LevelBefore
<1>2. \A p \in AccessCallers : \A h \in grants'[p] :
         h.key = k /\ Reading(h) => h.seen = perm'[k]
  BY DEF LogFollows
<1>3. \A p \in AccessCallers : \A h \in grants'[p] :
         h.key = k /\ Halfway(h) => h \in grants[p]
  OBVIOUS
<1>4. LastLevel(audit'[k]) = LastLevel(audit[k])
  BY DEF LastLevel
<1>5. \A q, p \in AccessCallers : \A g \in grants'[q] : \A h \in grants'[p] :
          g.key = k /\ h.key = k /\ Halfway(g) /\ Halfway(h) => q = p
  BY <1>3 DEF LogFollows
<1>6. \A q \in AccessCallers : \A g \in grants'[q] : g.key = k /\ Halfway(g) =>
          IF g.op = "grant" THEN /\ LastLevel(audit'[k]) = g.seen.level
                                 /\ perm'[k].level = g.level
                            ELSE LastLevel(audit'[k]) = "NONE"
  BY <1>3, <1>4 DEF LogFollows
<1>7. (\A q \in AccessCallers : \A g \in grants'[q] : g.key = k => ~Halfway(g))
          => LastLevel(audit'[k]) = perm'[k].level
  BY <1>4 DEF LogFollows
<1>8. QED BY <1>1, <1>2, <1>5, <1>6, <1>7 DEF LogFollows, Reading, Halfway, LastLevel

LEMMA BeginGrantsLogs ==
    ASSUME AccessTyped, LogsFollow, NEW q \in AccessCallers, NEW x, NEW people, NEW todo,
           NEW ignored, Begins(q, x, people, todo, ignored)
    PROVE  LogsFollow'
<1>1. /\ grants[q] = {} /\ grants' = [grants EXCEPT ![q] = todo] /\ perm' = perm
      /\ audit' = audit /\ torn \subseteq torn'
      /\ \A g \in todo : g.pc = "find"
  BY DEF Begins, BeginGrants, GrantsOf
<1>2. /\ grants'[q] = todo /\ \A p \in AccessCallers : p # q => grants'[p] = grants[p]
  BY <1>1 DEF AccessTyped
<1>3. \A g \in todo : ~Halfway(g) /\ ~Reading(g)
  BY <1>1 DEF Halfway, Reading
<1>4. ASSUME NEW k \in Keys \ torn' PROVE LogFollows(k)'
  <2>1. LogFollows(k)
    BY <1>1, <1>4 DEF LogsFollow
  <2>2. \A p \in AccessCallers : \A h \in grants'[p] : h.key = k =>
              h \in grants[p] \/ (~Halfway(h) /\ (Reading(h) => h.seen = perm[k]))
    BY <1>2, <1>3
  <2>3. \A p \in AccessCallers : \A h \in grants[p] :
              h.key = k /\ Halfway(h) => h \in grants'[p]
    BY <1>1, <1>2
  <2>4. QED BY <1>1, <2>1, <2>2, <2>3, LogKept
<1>5. QED BY <1>4 DEF LogsFollow

LEMMA RevokeLogs ==
    ASSUME AccessTyped, LogsFollow, NEW q \in AccessCallers, NEW l \in Keys, Revoke(q, l)
    PROVE  LogsFollow'
<1>1. PICK g : g = [pc |-> "audit", op |-> "revoke", key |-> l, level |-> "NONE", seen |-> perm[l]]
  OBVIOUS
<1>2. /\ grants[q] = {} /\ grants' = [grants EXCEPT ![q] = {g}] /\ perm' = perm
      /\ audit' = audit /\ torn' = torn
  BY <1>1 DEF Revoke
<1>3. /\ grants'[q] = {g} /\ \A p \in AccessCallers : p # q => grants'[p] = grants[p]
  BY <1>2 DEF AccessTyped
<1>4. ~Halfway(g) /\ g.key = l /\ g.seen = perm[l]
  BY <1>1 DEF Halfway
<1>5. ASSUME NEW k \in Keys \ torn' PROVE LogFollows(k)'
  <2>1. LogFollows(k)
    BY <1>2, <1>5 DEF LogsFollow
  <2>2. \A p \in AccessCallers : \A h \in grants'[p] : h.key = k =>
              h \in grants[p] \/ (~Halfway(h) /\ (Reading(h) => h.seen = perm[k]))
    BY <1>3, <1>4
  <2>3. \A p \in AccessCallers : \A h \in grants[p] :
              h.key = k /\ Halfway(h) => h \in grants'[p]
    BY <1>2, <1>3
  <2>4. QED BY <1>2, <2>1, <2>2, <2>3, LogKept
<1>6. QED BY <1>5 DEF LogsFollow

(* The key of a grant that steps, when nothing has torn it. *)
LEMMA AloneOnKey ==
    ASSUME AccessTyped, NEW q \in AccessCallers, NEW g \in grants[q],
           Tears(q, g), g.key \notin torn'
    PROVE  \A p \in AccessCallers : \A h \in grants[p] :
              h.key = g.key /\ h.pc # "find" => p = q /\ h = g
<1>1. ~Overlapped(q, g)
  BY DEF Tears
<1>2. QED BY <1>1 DEF Overlapped, AccessTyped

LEMMA WritePermissionLog ==
    ASSUME AccessTyped, NEW q \in AccessCallers, NEW g \in grants[q],
           WritePermission(q, g), g.key \notin torn', LogFollows(g.key)
    PROVE  LogFollows(g.key)'
<1>1. PICK k \in Keys : k = g.key
  BY DEF AccessTyped, GrantFits, GrantRecord
<1>2. GrantFits(g) /\ g.pc \in {"create", "update", "delete"}
  BY DEF AccessTyped, WritePermission
<1>3. \A p \in AccessCallers : \A h \in grants[p] : h.key = k /\ h.pc # "find" => p = q /\ h = g
  BY <1>1, AloneOnKey DEF WritePermission
<1>4. perm'[k].level = g.level /\ audit' = audit
  BY <1>1, WritePermissionWrites
<1>5. PICK new : new = IF g.pc = "delete" THEN {} ELSE {[g EXCEPT !.pc = "audit"]}
  OBVIOUS
<1>6. Becomes(q, g, new)
  BY <1>5 DEF WritePermission
<1>7. ASSUME g.pc # "delete"
      PROVE  \E h : /\ new = {h} /\ GrantFits(h) /\ h.key = k /\ h.pc = "audit" /\ h.op = "grant"
                    /\ h.level = g.level /\ h.seen = g.seen
  <2>1. g.op = "grant" /\ g \in GrantRecord
    BY <1>2, <1>7 DEF GrantFits, GrantRecord
  <2>2. PICK h : h = [g EXCEPT !.pc = "audit"]
    OBVIOUS
  <2>3. /\ h \in GrantRecord /\ h.key = k /\ h.pc = "audit" /\ h.op = "grant"
        /\ h.level = g.level /\ h.seen = g.seen
    BY <1>1, <2>1, <2>2 DEF GrantRecord
  <2>4. GrantFits(h)
    BY <1>2, <2>1, <2>3 DEF GrantFits
  <2>5. QED BY <1>5, <1>7, <2>2, <2>3, <2>4
<1>8. new = {} \/ \E h : new = {h} /\ GrantFits(h) /\ h.key = g.key
  BY <1>1, <1>5, <1>7
<1>9. \A p \in AccessCallers : \A h \in grants'[p] :
         \/ p = q /\ h \in new
         \/ h \in grants[p] /\ ~(p = q /\ h.key = g.key)
  BY <1>6, <1>8, GrantBecomes
<1>10. new \subseteq grants'[q]
  BY <1>6, <1>8, GrantBecomes
<1>11. \A p \in AccessCallers : \A h \in grants'[p] :
          h.key = k => (p = q /\ h \in new) \/ h.pc = "find"
  BY <1>1, <1>3, <1>9
<1>12. Chained(audit'[k])
  BY <1>1, <1>4 DEF LogFollows
<1>13. \A p \in AccessCallers : \A h \in grants'[p] : h.key = k => ~Reading(h)
  <2>1. ASSUME NEW h \in new PROVE h.pc = "audit" /\ h.op = "grant"
    BY <1>5, <1>7
  <2>2. QED BY <1>11, <2>1 DEF Reading
<1>14. \A p \in AccessCallers : \A h \in grants'[p] : h.key = k /\ Halfway(h) => p = q /\ h \in new
  BY <1>11 DEF Halfway, GrantRecord
<1>15. CASE g.pc = "delete"
  <2>1. new = {}
    BY <1>5, <1>15
  <2>2. Halfway(g) /\ g.op = "revoke"
    BY <1>2, <1>15 DEF Halfway, GrantFits, GrantRecord
  <2>3. LastLevel(audit[k]) = "NONE" /\ g.level = "NONE"
    BY <1>1, <1>2, <2>2 DEF LogFollows, GrantFits
  <2>4. LastLevel(audit'[k]) = perm'[k].level
    BY <1>4, <2>3
  <2>5. \A p \in AccessCallers : \A h \in grants'[p] : h.key = k => ~Halfway(h)
    BY <1>14, <2>1
  <2>6. LogFollows(k)'
    BY <1>12, <1>13, <2>4, <2>5 DEF LogFollows, Chained, LevelBefore, Reading, Halfway, LastLevel,
       ActionBetween, AtLeast
  <2>7. QED BY <1>1, <2>6
<1>16. CASE g.pc # "delete"
  <2>1. PICK h : /\ new = {h} /\ h.key = k /\ h.pc = "audit" /\ h.op = "grant"
                 /\ h.level = g.level /\ h.seen = g.seen
    BY <1>7, <1>16
  <2>2. \A p \in AccessCallers : \A i \in grants[p] : i.key = k => ~Halfway(i)
    <3>1. ~Halfway(g)
      BY <1>2, <1>16 DEF Halfway
    <3>2. QED BY <1>3, <3>1 DEF Halfway
  <2>3. LastLevel(audit[k]) = perm[k].level
    BY <1>1, <2>2 DEF LogFollows
  <2>4. g.seen.level = perm[k].level
    <3>1. CASE g.pc = "create"
      BY <1>1, <1>2, <3>1 DEF WritePermission, GrantFits, NoPerm
    <3>2. CASE g.pc = "update"
      BY <1>1, <3>2 DEF LogFollows, Reading
    <3>3. QED BY <1>2, <1>16, <3>1, <3>2
  <2>5. LastLevel(audit'[k]) = h.seen.level /\ perm'[k].level = h.level
    BY <1>4, <2>1, <2>3, <2>4
  <2>6. \A p \in AccessCallers : \A i \in grants'[p] : i.key = k /\ Halfway(i) => p = q /\ i = h
    BY <1>14, <2>1
  <2>7. h \in grants'[q] /\ Halfway(h)
    BY <1>10, <2>1 DEF Halfway
  <2>8. \A p, r \in AccessCallers : \A i \in grants'[p] : \A j \in grants'[r] :
           i.key = k /\ j.key = k /\ Halfway(i) /\ Halfway(j) => p = r
    BY <2>6
  <2>9. \A p \in AccessCallers : \A i \in grants'[p] : i.key = k /\ Halfway(i) =>
          IF i.op = "grant" THEN /\ LastLevel(audit'[k]) = i.seen.level
                                 /\ perm'[k].level = i.level
                            ELSE LastLevel(audit'[k]) = "NONE"
    BY <2>1, <2>5, <2>6
  <2>10. ~ \A p \in AccessCallers : \A i \in grants'[p] : i.key = k => ~Halfway(i)
    BY <2>1, <2>7
  <2>11. LogFollows(k)'
    BY <1>12, <1>13, <2>8, <2>9, <2>10 DEF LogFollows, Chained, LevelBefore, Reading, Halfway,
       LastLevel, ActionBetween, AtLeast
  <2>12. QED BY <1>1, <2>11
<1>17. QED BY <1>15, <1>16

LEMMA LevelOrderIs == \A l \in LevelsOrNone : LevelOrder[l] \in Int
BY DEF LevelsOrNone, Levels, LevelOrder

LEMMA AuditOfBetween ==
    ASSUME NEW g, GrantFits(g), g.pc = "audit"
    PROVE  AuditOf(g).action = ActionBetween(g.seen.level, g.level)
<1>1. g.seen.level \in LevelsOrNone /\ g.level \in LevelsOrNone
  BY DEF GrantFits, GrantRecord, LevelsOrNone
<1>2. LevelOrder[g.seen.level] \in Int /\ LevelOrder[g.level] \in Int
  BY <1>1, LevelOrderIs
<1>3. CASE g.op = "revoke"
  BY <1>3 DEF GrantFits, AuditOf, ActionOf, ActionBetween
<1>4. CASE g.op = "grant"
  <2>1. g.level # "NONE" /\ g.op # "revoke"
    BY <1>4 DEF GrantFits, Levels
  <2>2. ActionOf(g) = ActionBetween(g.seen.level, g.level)
    BY <1>2, <2>1 DEF ActionOf, ActionBetween, AtLeast
  <2>3. QED BY <2>2 DEF AuditOf
<1>5. QED BY <1>3, <1>4 DEF GrantFits, GrantRecord

LEMMA ChainedAppend ==
    ASSUME NEW log \in Seq(AuditRecord), NEW a \in AuditRecord, Chained(log),
           a.from = LastLevel(log), a.action = ActionBetween(a.from, a.to)
    PROVE  Chained(Append(log, a)) /\ LastLevel(Append(log, a)) = a.to
<1>1. PICK n \in Nat : n = Len(log)
  OBVIOUS
<1>2. PICK new \in Seq(AuditRecord) : new = Append(log, a)
  <2>1. Append(log, a) \in Seq(AuditRecord)
    OBVIOUS
  <2>2. QED BY <2>1
<1>3. /\ Len(new) = n + 1 /\ DOMAIN new = 1..n + 1 /\ new[n + 1] = a
      /\ \A i \in 1..n : new[i] = log[i]
      /\ DOMAIN log = 1..n
  BY <1>1, <1>2
<1>4. LastLevel(new) = a.to
  BY <1>1, <1>3 DEF LastLevel
<1>5. ASSUME NEW i \in 1..n
      PROVE  /\ new[i].from = LevelBefore(new, i)
             /\ new[i].action = ActionBetween(new[i].from, new[i].to)
  <2>1. log[i].from = LevelBefore(log, i) /\ log[i].action = ActionBetween(log[i].from, log[i].to)
    BY <1>3 DEF Chained
  <2>2. LevelBefore(new, i) = LevelBefore(log, i)
    <3>1. CASE i = 1
      BY <3>1 DEF LevelBefore
    <3>2. CASE i # 1
      <4>1. i - 1 \in 1..n
        BY <1>1, <3>2
      <4>2. QED BY <1>3, <3>2, <4>1 DEF LevelBefore
    <3>3. QED BY <3>1, <3>2
  <2>3. QED BY <1>3, <2>1, <2>2
<1>6. LevelBefore(new, n + 1) = LastLevel(log)
  <2>1. CASE n = 0
    BY <1>1, <2>1 DEF LevelBefore, LastLevel
  <2>2. CASE n # 0
    <3>1. n \in 1..n /\ n + 1 # 1 /\ (n + 1) - 1 = n
      BY <1>1, <2>2
    <3>2. QED BY <1>1, <1>3, <2>2, <3>1 DEF LevelBefore, LastLevel
  <2>3. QED BY <2>1, <2>2
<1>7. \A i \in 1..n + 1 : i \in 1..n \/ i = n + 1
  BY <1>1
<1>8. Chained(new)
  BY <1>3, <1>5, <1>6, <1>7 DEF Chained
<1>9. QED BY <1>2, <1>4, <1>8

LEMMA WriteAuditLog ==
    ASSUME AccessTyped, NEW q \in AccessCallers, NEW g \in grants[q],
           WriteAudit(q, g), g.key \notin torn', LogFollows(g.key)
    PROVE  LogFollows(g.key)'
<1>1. PICK k \in Keys : k = g.key
  BY DEF AccessTyped, GrantFits, GrantRecord
<1>2. GrantFits(g) /\ g.pc = "audit" /\ g \in GrantRecord
  BY DEF AccessTyped, WriteAudit, GrantFits
<1>3. \A p \in AccessCallers : \A h \in grants[p] : h.key = k /\ h.pc # "find" => p = q /\ h = g
  BY <1>1, AloneOnKey DEF WriteAudit
<1>4. /\ perm' = perm /\ audit'[k] = Append(audit[k], AuditOf(g))
      /\ AuditOf(g) \in AuditRecord
  BY <1>1, WriteAuditWrites
<1>5. PICK new : new = IF g.op = "revoke" THEN {[g EXCEPT !.pc = "delete"]} ELSE {}
  OBVIOUS
<1>6. Becomes(q, g, new)
  BY <1>5 DEF WriteAudit
<1>7. ASSUME g.op = "revoke"
      PROVE  \E h : /\ new = {h} /\ GrantFits(h) /\ h.key = k /\ h.pc = "delete"
                    /\ h.op = "revoke" /\ h.seen = g.seen
  <2>1. PICK h : h = [g EXCEPT !.pc = "delete"]
    OBVIOUS
  <2>2. /\ h \in GrantRecord /\ h.key = k /\ h.pc = "delete" /\ h.op = "revoke"
        /\ h.level = g.level /\ h.seen = g.seen
    BY <1>1, <1>2, <1>7, <2>1 DEF GrantRecord
  <2>3. GrantFits(h)
    BY <1>2, <1>7, <2>2 DEF GrantFits
  <2>4. QED BY <1>5, <1>7, <2>1, <2>2, <2>3
<1>8. new = {} \/ \E h : new = {h} /\ GrantFits(h) /\ h.key = g.key
  BY <1>1, <1>5, <1>7
<1>9. \A p \in AccessCallers : \A h \in grants'[p] :
         \/ p = q /\ h \in new
         \/ h \in grants[p] /\ ~(p = q /\ h.key = g.key)
  BY <1>6, <1>8, GrantBecomes
<1>10. new \subseteq grants'[q]
  BY <1>6, <1>8, GrantBecomes
<1>11. \A p \in AccessCallers : \A h \in grants'[p] :
          h.key = k => (p = q /\ h \in new) \/ h.pc = "find"
  BY <1>1, <1>3, <1>9
<1>12. LastLevel(audit[k]) = g.seen.level
  <2>1. CASE g.op = "grant"
    BY <1>1, <1>2, <2>1 DEF LogFollows, Halfway
  <2>2. CASE g.op # "grant"
    <3>1. ~Halfway(g) /\ Reading(g)
      BY <1>2, <2>2 DEF Halfway, Reading, GrantRecord
    <3>2. \A p \in AccessCallers : \A i \in grants[p] : i.key = k => ~Halfway(i)
      BY <1>3, <3>1 DEF Halfway
    <3>3. LastLevel(audit[k]) = perm[k].level /\ g.seen = perm[k]
      BY <1>1, <3>1, <3>2 DEF LogFollows
    <3>4. QED BY <3>3
  <2>3. QED BY <2>1, <2>2
<1>13. Chained(audit'[k]) /\ LastLevel(audit'[k]) = g.level
  <2>1. PICK log \in Seq(AuditRecord) : log = audit[k]
    BY DEF AccessTyped
  <2>2. PICK a \in AuditRecord : a = AuditOf(g)
    BY <1>4
  <2>3. Chained(log) /\ a.from = LastLevel(log) /\ a.to = g.level
    BY <1>1, <1>12, <2>1, <2>2 DEF LogFollows, AuditOf
  <2>4. a.action = ActionBetween(a.from, a.to)
    BY <1>2, <2>2, AuditOfBetween DEF AuditOf
  <2>5. QED BY <1>4, <2>1, <2>2, <2>3, <2>4, ChainedAppend
<1>14. \A p \in AccessCallers : \A h \in grants'[p] : h.key = k /\ Halfway(h) => p = q /\ h \in new
  BY <1>11 DEF Halfway, GrantRecord
<1>15. \A p \in AccessCallers : \A h \in grants'[p] : h.key = k /\ Reading(h) => p = q /\ h \in new
  BY <1>11 DEF Reading, GrantRecord
<1>16. CASE g.op = "revoke"
  <2>1. PICK h : /\ new = {h} /\ h.key = k /\ h.pc = "delete" /\ h.op = "revoke"
                 /\ h.seen = g.seen
    BY <1>7, <1>16
  <2>2. g.seen = perm'[k]
    BY <1>1, <1>2, <1>4, <1>16 DEF LogFollows, Reading
  <2>3. \A p \in AccessCallers : \A i \in grants'[p] :
           i.key = k /\ Reading(i) => i.seen = perm'[k]
    BY <1>15, <2>1, <2>2
  <2>4. \A p, r \in AccessCallers : \A i \in grants'[p] : \A j \in grants'[r] :
           i.key = k /\ j.key = k /\ Halfway(i) /\ Halfway(j) => p = r
    BY <1>14
  <2>5. LastLevel(audit'[k]) = "NONE"
    BY <1>2, <1>13, <1>16 DEF GrantFits
  <2>6. \A p \in AccessCallers : \A i \in grants'[p] : i.key = k /\ Halfway(i) =>
          IF i.op = "grant" THEN /\ LastLevel(audit'[k]) = i.seen.level
                                 /\ perm'[k].level = i.level
                            ELSE LastLevel(audit'[k]) = "NONE"
    BY <1>14, <2>1, <2>5
  <2>7. ~ \A p \in AccessCallers : \A i \in grants'[p] : i.key = k => ~Halfway(i)
    BY <1>10, <2>1 DEF Halfway
  <2>8. LogFollows(k)'
    BY <1>13, <2>3, <2>4, <2>6, <2>7 DEF LogFollows, Chained, LevelBefore, Reading, Halfway,
       LastLevel, ActionBetween, AtLeast
  <2>9. QED BY <1>1, <2>8
<1>17. CASE g.op # "revoke"
  <2>1. new = {} /\ g.op = "grant"
    BY <1>2, <1>5, <1>17 DEF GrantRecord
  <2>2. \A p \in AccessCallers : \A h \in grants'[p] : h.key = k => ~Halfway(h) /\ ~Reading(h)
    BY <1>14, <1>15, <2>1
  <2>3. perm'[k].level = g.level
    BY <1>1, <1>2, <1>4, <2>1 DEF LogFollows, Halfway
  <2>4. LogFollows(k)'
    BY <1>13, <2>2, <2>3 DEF LogFollows, Chained, LevelBefore, Reading, Halfway,
       LastLevel, ActionBetween, AtLeast
  <2>5. QED BY <1>1, <2>4
<1>18. QED BY <1>16, <1>17

LEMMA GrantStepsLogs ==
    ASSUME AccessTyped, LogsFollow, NEW q \in AccessCallers, NEW g \in grants[q], GrantSteps(q, g)
    PROVE  LogsFollow'
<1>1. g.key \in Keys /\ GrantFits(g)
  BY DEF AccessTyped, GrantFits, GrantRecord
<1>2. torn \subseteq torn' /\ (GrantFails(q, g) => g.key \in torn')
  BY DEF GrantSteps, FindPermission, RereadPermission, WritePermission, WriteAudit, GrantFails,
     Tears
<1>3. PICK new : /\ Becomes(q, g, new)
                 /\ new = {} \/ \E h : new = {h} /\ GrantFits(h) /\ h.key = g.key
  BY GrantTurnsInto DEF Follows
<1>4. \A p \in AccessCallers : \A h \in grants'[p] :
         \/ p = q /\ h \in new
         \/ h \in grants[p] /\ ~(p = q /\ h.key = g.key)
  BY <1>3, GrantBecomes
<1>5. \A p \in AccessCallers : \A h \in grants[p] : h \in grants'[p] \/ (p = q /\ h = g)
  BY <1>3, GrantBecomes
<1>6. ASSUME NEW k \in Keys \ torn', k # g.key PROVE LogFollows(k)'
  <2>1. LogFollows(k)
    BY <1>2, <1>6 DEF LogsFollow
  <2>2. perm'[k] = perm[k] /\ audit'[k] = audit[k]
    <3>1. CASE WritePermission(q, g)
      BY <1>6, <3>1, WritePermissionWrites
    <3>2. CASE WriteAudit(q, g)
      BY <1>6, <3>2, WriteAuditWrites
    <3>3. CASE FindPermission(q, g) \/ RereadPermission(q, g) \/ GrantFails(q, g)
      BY <3>3 DEF FindPermission, RereadPermission, GrantFails
    <3>4. QED BY <3>1, <3>2, <3>3 DEF GrantSteps
  <2>3. \A p \in AccessCallers : \A h \in grants'[p] : h.key = k => h \in grants[p]
    BY <1>3, <1>4, <1>6
  <2>4. \A p \in AccessCallers : \A h \in grants[p] : h.key = k => h \in grants'[p]
    BY <1>5, <1>6
  <2>5. QED BY <2>1, <2>2, <2>3, <2>4, LogKept
<1>7. ASSUME g.key \notin torn', FindPermission(q, g) \/ RereadPermission(q, g)
      PROVE  LogFollows(g.key)'
  <2>1. PICK now : now = perm[g.key]
    OBVIOUS
  <2>2. perm' = perm /\ audit' = audit /\ ~Halfway(g) /\ g \in GrantRecord
    BY <1>1, <1>7 DEF FindPermission, RereadPermission, Halfway, GrantFits
  <2>3. PICK to : /\ Becomes(q, g, to)
                  /\ \/ to = {}
                     \/ to = {[g EXCEPT !.pc = "create"]}
                     \/ to = {[g EXCEPT !.pc = "reread", !.seen = now]}
                     \/ to = {[g EXCEPT !.pc = "update", !.seen = now]}
    <3>1. CASE RereadPermission(q, g)
      BY <2>1, <3>1 DEF RereadPermission
    <3>2. CASE FindPermission(q, g)
      <4>1. CASE now.level = "NONE"
        <5>1. g.level # "NONE"
          BY <1>1, <3>2 DEF FindPermission, GrantFits, GrantRecord, Levels
        <5>2. QED BY <2>1, <3>2, <4>1, <5>1 DEF FindPermission
      <4>2. CASE now.level # "NONE" /\ now.level = g.level
        BY <2>1, <3>2, <4>2 DEF FindPermission
      <4>3. CASE now.level # "NONE" /\ now.level # g.level
        BY <2>1, <3>2, <4>3 DEF FindPermission
      <4>4. QED BY <4>1, <4>2, <4>3
    <3>3. QED BY <1>7, <3>1, <3>2
  <2>4. \A h \in to : ~Halfway(h) /\ (Reading(h) => h.seen = perm[g.key])
    <3>1. g.op = "grant"
      BY <1>1, <1>7 DEF FindPermission, RereadPermission, GrantFits, GrantRecord
    <3>2. PICK c : c = [g EXCEPT !.pc = "create"]
      OBVIOUS
    <3>3. PICK r : r = [g EXCEPT !.pc = "reread", !.seen = now]
      OBVIOUS
    <3>4. PICK u : u = [g EXCEPT !.pc = "update", !.seen = now]
      OBVIOUS
    <3>5. c.pc = "create" /\ c.op = "grant" /\ r.pc = "reread" /\ r.op = "grant" /\ r.seen = now
             /\ u.pc = "update" /\ u.op = "grant" /\ u.seen = now
      BY <2>2, <3>1, <3>2, <3>3, <3>4 DEF GrantRecord
    <3>6. /\ ~Halfway(c) /\ ~Reading(c) /\ ~Halfway(r) /\ ~Halfway(u)
      BY <3>5 DEF Halfway, Reading
    <3>7. r.seen = perm[g.key] /\ u.seen = perm[g.key]
      BY <2>1, <3>5
    <3>8. to = {} \/ to = {c} \/ to = {r} \/ to = {u}
      BY <2>3, <3>2, <3>3, <3>4
    <3>9. \A h \in to : h = c \/ h = r \/ h = u
      BY <3>8
    <3>10. QED BY <3>6, <3>7, <3>9
  <2>5. grants' = [grants EXCEPT ![q] = (grants[q] \ {g}) \cup to]
    BY <2>3 DEF Becomes, AccessTyped
  <2>6. /\ grants'[q] = (grants[q] \ {g}) \cup to
        /\ \A p \in AccessCallers : p # q => grants'[p] = grants[p]
    BY <2>5 DEF AccessTyped
  <2>7. \A p \in AccessCallers : \A h \in grants'[p] : h.key = g.key =>
              h \in grants[p] \/ (~Halfway(h) /\ (Reading(h) => h.seen = perm[g.key]))
    BY <2>4, <2>6
  <2>8. \A p \in AccessCallers : \A h \in grants[p] : Halfway(h) => h \in grants'[p]
    BY <2>2, <2>6
  <2>9. LogFollows(g.key)
    BY <1>1, <1>2, <1>7 DEF LogsFollow
  <2>10. PICK k \in Keys : k = g.key
    BY <1>1
  <2>11. LogFollows(k)'
    BY <2>2, <2>7, <2>8, <2>9, <2>10, LogKept
  <2>12. QED BY <2>10, <2>11
<1>8. ASSUME g.key \notin torn' PROVE LogFollows(g.key)'
  <2>1. LogFollows(g.key)
    BY <1>1, <1>2, <1>8 DEF LogsFollow
  <2>2. QED BY <1>2, <1>7, <1>8, <2>1, WritePermissionLog, WriteAuditLog DEF GrantSteps
<1>9. QED BY <1>6, <1>8 DEF LogsFollow

(* The tables at the start: each permission was granted once. *)
GrantRow(l) == [action |-> "GRANT", from |-> "NONE", to |-> l]

LEMMA HoldsWhatWasGiven ==
    ASSUME NEW rows, NEW given, Holds(rows, given), GrantsOf(given), NEW k \in Keys
    PROVE  \/ /\ \A g \in given : g.key # k
              /\ perm[k] = NoPerm /\ audit[k] = <<>>
           \/ \E g \in given : /\ g.key = k /\ g.level \in Levels
                               /\ perm[k] = [id |-> 1, level |-> g.level]
                               /\ audit[k] = <<GrantRow(g.level)>>
<1>1. PICK S : S = {g.level : g \in {h \in given : h.key = k}}
  OBVIOUS
<1>2. PICK l : l = CHOOSE x \in S : TRUE
  OBVIOUS
<1>3. /\ perm[k] = IF S = {} THEN NoPerm ELSE [id |-> 1, level |-> l]
      /\ audit[k] = IF S = {} THEN <<>> ELSE <<GrantRow(l)>>
  BY <1>1, <1>2 DEF Holds, GrantRow
<1>4. CASE S = {}
  <2>1. \A g \in given : g.key # k
    BY <1>1, <1>4
  <2>2. QED BY <1>3, <1>4, <2>1
<1>5. CASE S # {}
  <2>1. l \in S
    BY <1>2, <1>5
  <2>2. PICK g \in given : g.key = k /\ l = g.level
    BY <1>1, <2>1
  <2>3. g.level \in Levels
    BY <2>2 DEF GrantsOf, GrantFits
  <2>4. QED BY <1>3, <1>5, <2>2, <2>3
<1>6. QED BY <1>4, <1>5

LEMMA HoldsTyped ==
    ASSUME NEW rows \in [Types -> Persona], NEW given, Holds(rows, given), GrantsOf(given),
           \A x \in Types :
              rows[x] = Absent \/ (rows[x].creator \in People /\ rows[x].owner \in People)
    PROVE  AccessTyped /\ LogsFollow
<1>1. /\ row = rows /\ grants = [q \in AccessCallers |-> {}] /\ torn = {} /\ ungranted = {}
      /\ accessCalls = 0
  BY DEF Holds
<1>2. ASSUME NEW k \in Keys
      PROVE  /\ perm[k] \in [id : Nat, level : LevelsOrNone] /\ audit[k] \in Seq(AuditRecord)
             /\ Chained(audit[k]) /\ LastLevel(audit[k]) = perm[k].level
  <2>1. CASE perm[k] = NoPerm /\ audit[k] = <<>>
    <3>1. NoPerm \in [id : Nat, level : LevelsOrNone] /\ NoPerm.level = "NONE"
      BY DEF NoPerm, LevelsOrNone
    <3>2. <<>> \in Seq(AuditRecord) /\ Len(<<>>) = 0 /\ DOMAIN <<>> = {}
      OBVIOUS
    <3>3. Chained(<<>>) /\ LastLevel(<<>>) = "NONE"
      BY <3>2 DEF Chained, LastLevel
    <3>4. QED BY <2>1, <3>1, <3>2, <3>3
  <2>2. ASSUME NEW l \in Levels, perm[k] = [id |-> 1, level |-> l], audit[k] = <<GrantRow(l)>>
        PROVE  /\ perm[k] \in [id : Nat, level : LevelsOrNone] /\ audit[k] \in Seq(AuditRecord)
               /\ Chained(audit[k]) /\ LastLevel(audit[k]) = perm[k].level
    <3>1. GrantRow(l) \in AuditRecord /\ GrantRow(l).to = l /\ GrantRow(l).from = "NONE"
             /\ GrantRow(l).action = "GRANT"
      BY DEF GrantRow, AuditRecord
    <3>2. PICK a \in AuditRecord : a = GrantRow(l)
      BY <3>1
    <3>3. <<a>> \in Seq(AuditRecord)
      OBVIOUS
    <3>4. PICK log \in Seq(AuditRecord) : log = <<a>>
      BY <3>3
    <3>5. Len(log) = 1 /\ DOMAIN log = {1} /\ log[1] = a
      BY <3>4
    <3>6. LastLevel(log) = l
      BY <3>1, <3>2, <3>5 DEF LastLevel
    <3>7. Chained(log)
      BY <3>1, <3>2, <3>5 DEF Chained, LevelBefore, ActionBetween
    <3>8. [id |-> 1, level |-> l] \in [id : Nat, level : LevelsOrNone]
      BY DEF LevelsOrNone
    <3>9. perm[k].level = l
      BY <2>2
    <3>10. audit[k] = log
      BY <2>2, <3>2, <3>4
    <3>11. perm[k] \in [id : Nat, level : LevelsOrNone] /\ perm[k].level = l
      BY <2>2, <3>8, <3>9
    <3>12. audit[k] \in Seq(AuditRecord) /\ Chained(audit[k]) /\ LastLevel(audit[k]) = l
      BY <3>6, <3>7, <3>10
    <3>13. LastLevel(audit[k]) = perm[k].level
      BY <3>11, <3>12
    <3>14. QED BY <3>11, <3>12, <3>13, Zenon
  <2>3. \/ /\ \A g \in given : g.key # k
           /\ perm[k] = NoPerm /\ audit[k] = <<>>
        \/ \E g \in given : /\ g.key = k /\ g.level \in Levels
                           /\ perm[k] = [id |-> 1, level |-> g.level]
                           /\ audit[k] = <<GrantRow(g.level)>>
    BY HoldsWhatWasGiven
  <2>4. ASSUME perm[k] # NoPerm \/ audit[k] # <<>>
        PROVE  \E l \in Levels : perm[k] = [id |-> 1, level |-> l] /\ audit[k] = <<GrantRow(l)>>
    <3>1. PICK g \in given : /\ g.level \in Levels
                             /\ perm[k] = [id |-> 1, level |-> g.level]
                             /\ audit[k] = <<GrantRow(g.level)>>
      BY <2>3, <2>4
    <3>2. PICK l \in Levels : l = g.level
      BY <3>1
    <3>3. QED BY <3>1, <3>2
  <2>5. QED BY <2>1, <2>2, <2>4
<1>3. perm = [k \in Keys |-> perm[k]] /\ audit = [k \in Keys |-> audit[k]]
  BY DEF Holds
<1>4. perm \in [Keys -> [id : Nat, level : LevelsOrNone]] /\ audit \in [Keys -> Seq(AuditRecord)]
  BY <1>2, <1>3
<1>5. \A k \in Keys : \A i \in DOMAIN audit[k] : audit[k][i] \in AuditRecord
  BY <1>4
<1>6. accessCalls \in 0..MaxAccessCalls
  BY <1>1, RowAccessAssumption
<1>7. RowAccessTypeOK
  BY <1>1, <1>4, <1>5, <1>6 DEF RowAccessTypeOK, Persona, LevelsOrNone
<1>8. AccessTyped
  BY <1>1, <1>4, <1>7 DEF AccessTyped
<1>9. \A k \in Keys : LogFollows(k)
  BY <1>1, <1>2 DEF LogFollows
<1>10. QED BY <1>8, <1>9 DEF LogsFollow

RowsAtStart(bd, u, v) ==
    [Client |-> Persons(bd, bd), Job |-> Persons(u, v), Candidate |-> Persons(u, u),
     JobApplication |-> Absent]
GivenAtStart(bd, u, v) ==
    {Grant(<<bd, "Client">>, "OWNER")} \cup JobGrants(u, v, bd) \cup CandidateGrants(u)

LEMMA GivenAtStartFits ==
    ASSUME NEW bd \in People, NEW u \in People, NEW v \in People
    PROVE  GrantsOf(GivenAtStart(bd, u, v))
<1>1. /\ GrantsOf({Grant(<<bd, "Client">>, "OWNER")})
      /\ Grant(<<bd, "Client">>, "OWNER").key = <<bd, "Client">>
  BY OneGrantFits DEF Types, Levels
<1>2. GrantsOf(JobGrants(u, v, bd)) /\ \A g \in JobGrants(u, v, bd) : \E w : g.key = <<w, "Job">>
  <2>1. GrantsOf(JobGrants(u, v, bd))
    BY JobGrantsFit
  <2>2. \A g \in JobGrants(u, v, bd) : \E w : g.key = <<w, "Job">>
    BY DEF JobGrants, Grant
  <2>3. QED BY <2>1, <2>2
<1>3. /\ GrantsOf(CandidateGrants(u))
      /\ \A g \in CandidateGrants(u) : \E w : g.key = <<w, "Candidate">>
  <2>1. GrantsOf(CandidateGrants(u))
    BY CandidateGrantsFit
  <2>2. \A g \in CandidateGrants(u) : \E w : g.key = <<w, "Candidate">>
    BY DEF CandidateGrants, Grant
  <2>3. QED BY <2>1, <2>2
<1>4. \A w, w2 : /\ <<w, "Client">> # <<w2, "Job">> /\ <<w, "Client">> # <<w2, "Candidate">>
                 /\ <<w, "Job">> # <<w2, "Candidate">>
  OBVIOUS
<1>5. \A g \in GivenAtStart(bd, u, v) : GrantFits(g) /\ g.pc = "find" /\ g.op = "grant"
  BY <1>1, <1>2, <1>3 DEF GivenAtStart, GrantsOf
<1>6. ASSUME NEW g \in GivenAtStart(bd, u, v), NEW h \in GivenAtStart(bd, u, v), g.key = h.key
      PROVE  g = h
  BY <1>1, <1>2, <1>3, <1>4, <1>6 DEF GivenAtStart, GrantsOf
<1>7. QED BY <1>5, <1>6 DEF GrantsOf

LEMMA AccessBegins == RowAccessInit => AccessTyped /\ LogsFollow
<1>1. ASSUME NoRows PROVE AccessTyped /\ LogsFollow
  <2>1. PICK rows : rows = [x \in Types |-> Absent]
    OBVIOUS
  <2>2. Absent \in Persona
    BY DEF Absent, Persona
  <2>3. rows \in [Types -> Persona] /\ \A x \in Types : rows[x] = Absent
    BY <2>1, <2>2
  <2>4. GrantsOf({}) /\ Holds(rows, {})
    BY <1>1, <2>1 DEF GrantsOf, NoRows
  <2>5. QED BY <2>3, <2>4, HoldsTyped
<1>2. ASSUME NEW bd \in People, NEW u \in People, NEW v \in People,
             Holds(RowsAtStart(bd, u, v), GivenAtStart(bd, u, v))
      PROVE  AccessTyped /\ LogsFollow
  <2>1. PICK rows : rows = RowsAtStart(bd, u, v)
    OBVIOUS
  <2>2. \A a, b \in People : /\ Persons(a, b) \in Persona
                             /\ Persons(a, b).creator \in People /\ Persons(a, b).owner \in People
    BY DEF Persons, Persona
  <2>3. Absent \in Persona
    BY DEF Absent, Persona
  <2>4. rows \in [Types -> Persona]
    BY <2>1, <2>2, <2>3 DEF RowsAtStart, Types
  <2>5. \A x \in Types :
           rows[x] = Absent \/ (rows[x].creator \in People /\ rows[x].owner \in People)
    BY <2>1, <2>2 DEF RowsAtStart, Types
  <2>6. QED BY <1>2, <2>1, <2>4, <2>5, GivenAtStartFits, HoldsTyped
<1>3. QED BY <1>1, <1>2 DEF RowAccessInit, RowsAtStart, GivenAtStart

LEMMA LogsFollowKept ==
    ASSUME AccessTyped, LogsFollow, [RowAccessNext]_rowAccessVars
    PROVE  LogsFollow'
<1>1. ASSUME grants' = grants, perm' = perm, audit' = audit, torn' = torn
      PROVE  LogsFollow'
  BY <1>1 DEF LogsFollow, LogFollows, Chained, LevelBefore, Reading, Halfway, LastLevel,
     ActionBetween, AtLeast
<1>2. CASE UNCHANGED rowAccessVars
  BY <1>1, <1>2 DEF rowAccessVars
<1>3. ASSUME NEW q \in AccessCallers, NEW u \in People, NEW v \in People,
             NewClient(q, u, v) \/ NewCandidate(q, u, v) \/ NewApplication(q, u, v)
      PROVE  LogsFollow'
  BY <1>3, NewRowsBegin, BeginGrantsLogs
<1>4. ASSUME NEW q \in AccessCallers, NEW u \in People, NEW v \in People,
             NEW w \in People \cup {Nobody}, NewJob(q, u, v, w)
      PROVE  LogsFollow'
  <2>1. \E people, todo, ignored : Begins(q, "Job", people, todo, ignored)
    BY <1>4, NewJobBegins
  <2>2. QED BY <2>1, BeginGrantsLogs
<1>5. ASSUME NEW q \in AccessCallers, NEW u \in People \cup {Nobody}, AssignJob(q, u)
      PROVE  LogsFollow'
  BY <1>5, AssignJobBegins, BeginGrantsLogs
<1>6. ASSUME NEW u \in People, ChangeAssignee(u) \/ \E x \in Types : ChangeOwner(x, u)
      PROVE  LogsFollow'
  <2>1. grants' = grants /\ perm' = perm /\ audit' = audit /\ torn' = torn
    BY <1>6 DEF ChangeAssignee, ChangeOwner, PutOn
  <2>2. QED BY <1>1, <2>1
<1>7. QED
  BY <1>2, <1>3, <1>4, <1>5, <1>6, RevokeLogs, GrantStepsLogs DEF RowAccessNext, GrantSteps

(* Row access: the audit rows of a grantee and row tell how the permission   *)
(* came to its level, unless calls overlapped on it or one stopped halfway   *)
(* (permission.service.ts: grant, adjustLevel, revoke).                      *)
THEOREM AuditTellsTable == RowAccessSpec => []AuditExplainsTable
<1>1. RowAccessInit => AccessTyped /\ LogsFollow
  BY AccessBegins
<1>2. AccessTyped /\ LogsFollow /\ [RowAccessNext]_rowAccessVars => AccessTyped' /\ LogsFollow'
  BY AccessTypedKept, LogsFollowKept
<1>3. AccessTyped /\ LogsFollow => AuditExplainsTable
  BY LogsExplain
<1>4. QED BY <1>1, <1>2, <1>3, PTL DEF RowAccessSpec

-----------------------------------------------------------------------------
(* Row access: whoever answers for a row has a grant that lets them edit it, *)
(* or one on its way, and only such grants; or is one of the exceptions.     *)

Strong == {"EDIT", "OWNER"}
Revoked(k) == \E i \in DOMAIN audit[k] : audit[k][i].action = "REVOKE"
Exempt(k) == k \in ungranted \/ k \in torn \/ Revoked(k)
Coming(k) == \E q \in AccessCallers : \E g \in grants[q] :
                g.key = k /\ g.op = "grant" /\ g.pc # "audit"
Backed(k) ==
    /\ \A q \in AccessCallers : \A g \in grants[q] :
          g.key = k /\ g.op = "grant" => g.level \in Strong
    /\ perm[k].level \in Strong \/ Coming(k)

AnsweredFor ==
    /\ \A x \in Types : \A u \in Responsible(x) \ {Nobody} : Exempt(<<u, x>>) \/ Backed(<<u, x>>)
    /\ \A q \in AccessCallers : \A g \in grants[q] : g.pc = "delete" => Revoked(g.key)

LEMMA ResponsibleAre ==
    ASSUME AccessTyped, NEW x \in Types, NEW u \in Responsible(x) \ {Nobody}
    PROVE  u \in People /\ <<u, x>> \in Keys
<1>1. row[x].creator \in People \cup {Nobody} /\ row[x].owner \in People \cup {Nobody}
         /\ row[x].assigned \in People \cup {Nobody}
  BY DEF AccessTyped, RowAccessTypeOK
<1>2. u \in {row[x].creator, row[x].owner, row[x].assigned}
  BY DEF Responsible, Types
<1>3. QED BY <1>1, <1>2 DEF Keys, Grantees

LEMMA StrongMayEdit ==
    ASSUME AccessTyped, NEW x \in Types, NEW u \in People, perm[<<u, x>>].level \in Strong
    PROVE  Lists(u, x) /\ Can(u, x, "EDIT")
<1>1. PICK l \in Strong : l = perm[<<u, x>>].level
  OBVIOUS
<1>2. u \in GranteesOf(u) /\ u # Team /\ GranteesOf(u) \subseteq Grantees
  BY RowAccessAssumption DEF GranteesOf, Grantees
<1>3. l # "NONE" /\ Capped(u, u, l) = l
  BY <1>2 DEF Strong, Capped
<1>4. l \in Direct(u, x)
  BY <1>1, <1>2, <1>3 DEF Direct
<1>5. ASSUME NEW m \in Direct(u, x) PROVE m \in Levels
  <2>1. PICK g \in GranteesOf(u) : perm[<<g, x>>].level # "NONE"
                                      /\ m = Capped(u, g, perm[<<g, x>>].level)
    BY <1>5 DEF Direct
  <2>2. <<g, x>> \in Keys
    BY <1>2, <2>1 DEF Keys
  <2>3. perm[<<g, x>>].level \in Levels \cup {"NONE"}
    BY <2>2 DEF AccessTyped, RowAccessTypeOK
  <2>4. QED BY <2>1, <2>3 DEF Capped, Levels
<1>6. LevelOrder["VIEW"] = 1 /\ LevelOrder["EDIT"] = 2 /\ LevelOrder["OWNER"] = 3
  BY DEF LevelOrder
<1>7. \E m \in Direct(u, x) : \A n \in Direct(u, x) : LevelOrder[n] <= LevelOrder[m]
  <2>1. CASE "OWNER" \in Direct(u, x)
    <3>1. \A n \in Direct(u, x) : LevelOrder[n] <= LevelOrder["OWNER"]
      BY <1>5, <1>6 DEF Levels
    <3>2. QED BY <2>1, <3>1
  <2>2. CASE "OWNER" \notin Direct(u, x)
    <3>1. "EDIT" \in Direct(u, x)
      BY <1>4, <2>2 DEF Strong
    <3>2. \A n \in Direct(u, x) : LevelOrder[n] <= LevelOrder["EDIT"]
      BY <1>5, <1>6, <2>2 DEF Levels
    <3>3. QED BY <3>1, <3>2
  <2>3. QED BY <2>1, <2>2
<1>8. PICK top : top = Highest(Direct(u, x))
  OBVIOUS
<1>9. top \in Direct(u, x) /\ \A n \in Direct(u, x) : LevelOrder[n] <= LevelOrder[top]
  BY <1>7, <1>8 DEF Highest
<1>10. LevelOrder[l] <= LevelOrder[top] /\ top \in Levels /\ LevelOrder[l] >= 2
  BY <1>4, <1>5, <1>6, <1>9 DEF Strong
<1>11. AtLeast(top, "EDIT")
  BY <1>6, <1>10 DEF AtLeast, Strong, Levels
<1>12. EffectiveLevels(u, x) = {top}
  BY <1>4, <1>8 DEF EffectiveLevels
<1>13. Can(u, x, "EDIT")
  BY <1>11, <1>12 DEF Can
<1>14. Lists(u, x)
  <2>1. Direct(u, x) # {}
    BY <1>4
  <2>2. CASE x = "Client"
    BY <2>1, <2>2 DEF Lists, ListsClient, ListedBy
  <2>3. CASE x = "Job"
    BY <2>1, <2>3 DEF Lists, ListsJob, ListedBy
  <2>4. CASE x = "Candidate"
    BY <2>1, <2>4 DEF Lists, ListsCandidate, ListedBy
  <2>5. CASE x = "JobApplication"
    BY <2>5 DEF Lists
  <2>6. QED BY <2>2, <2>3, <2>4, <2>5 DEF Types
<1>15. QED BY <1>13, <1>14

LEMMA AnsweredMayEdit ==
    ASSUME AccessTyped, AnsweredFor
    PROVE  ResponsibleMayEdit
<1> SUFFICES ASSUME NEW x \in Types, NEW u \in Responsible(x) \ {Nobody},
                    <<u, x>> \notin ungranted, Settled(u, x)
             PROVE  Lists(u, x) /\ Can(u, x, "EDIT")
  BY DEF ResponsibleMayEdit
<1>1. ~Exempt(<<u, x>>) /\ ~Coming(<<u, x>>)
  BY DEF Settled, Exempt, Revoked, Coming
<1>2. perm[<<u, x>>].level \in Strong
  BY <1>1 DEF AnsweredFor, Backed
<1>3. QED BY <1>2, ResponsibleAre, StrongMayEdit

(* What a revoked key was, it stays; a key whose grants, permission and log  *)
(* a step leaves alone stays backed.                                         *)
LEMMA RevokedStays ==
    ASSUME AccessTyped, NEW k \in Keys, Revoked(k),
           \/ audit'[k] = audit[k]
           \/ \E a \in AuditRecord : audit'[k] = Append(audit[k], a)
    PROVE  Revoked(k)'
<1>1. PICK log \in Seq(AuditRecord) : log = audit[k]
  BY DEF AccessTyped
<1>2. PICK i \in DOMAIN log : log[i].action = "REVOKE"
  BY <1>1 DEF Revoked
<1>3. CASE audit'[k] = audit[k]
  BY <1>3 DEF Revoked
<1>4. CASE \E a \in AuditRecord : audit'[k] = Append(audit[k], a)
  <2>1. PICK a \in AuditRecord : audit'[k] = Append(log, a)
    BY <1>1, <1>4
  <2>2. i \in 1..Len(log) /\ Append(log, a)[i] = log[i] /\ i \in DOMAIN Append(log, a)
    BY <1>2
  <2>3. QED BY <1>2, <2>1, <2>2 DEF Revoked
<1>5. QED BY <1>3, <1>4

LEMMA BackedStays ==
    ASSUME NEW k, Backed(k), perm'[k] = perm[k],
           \A p \in AccessCallers : \A h \in grants'[p] : h.key = k /\ h.op = "grant" =>
              h \in grants[p],
           \A p \in AccessCallers : \A h \in grants[p] : h.key = k => h \in grants'[p]
    PROVE  Backed(k)'
BY DEF Backed, Coming

LEMMA BeginGrantsAnswer ==
    ASSUME AccessTyped, AnsweredFor, NEW q \in AccessCallers, NEW x, NEW people, NEW todo,
           NEW ignored, Begins(q, x, people, todo, ignored),
           \A g \in todo : \E w : g.key = <<w, x>>,
           \A u \in Responsible(x)' \ {Nobody} :
              \/ <<u, x>> \in ignored
              \/ \E g \in todo : g.key = <<u, x>> /\ g.level \in Strong
              \/ u \in Responsible(x) /\ \A g \in todo : g.key # <<u, x>>
    PROVE  AnsweredFor'
<1>1. /\ grants[q] = {} /\ grants' = [grants EXCEPT ![q] = todo] /\ perm' = perm
      /\ audit' = audit /\ torn \subseteq torn' /\ ungranted' = ungranted \cup ignored
      /\ row' = [row EXCEPT ![x] = people] /\ x \in Types
      /\ \A g \in todo : g.pc = "find" /\ g.op = "grant"
      /\ \A g, h \in todo : g.key = h.key => g = h
  BY DEF Begins, BeginGrants, GrantsOf
<1>2. /\ grants'[q] = todo /\ \A p \in AccessCallers : p # q => grants'[p] = grants[p]
  BY <1>1 DEF AccessTyped
<1>3. \A k : Revoked(k) => Revoked(k)'
  BY <1>1 DEF Revoked
<1>4. \A k : Exempt(k) => Exempt(k)'
  BY <1>1, <1>3 DEF Exempt
<1>5. ASSUME NEW k, Backed(k), \A g \in todo : g.key # k PROVE Backed(k)'
  <2>1. \A p \in AccessCallers : \A h \in grants'[p] : h.key = k => h \in grants[p]
    BY <1>2, <1>5
  <2>2. \A p \in AccessCallers : \A h \in grants[p] : h \in grants'[p]
    BY <1>1, <1>2
  <2>3. QED BY <1>1, <1>5, <2>1, <2>2, BackedStays
<1>6. ASSUME NEW y \in Types, NEW u \in Responsible(y)' \ {Nobody}
      PROVE  (Exempt(<<u, y>>) \/ Backed(<<u, y>>))'
  <2>1. CASE y # x
    <3>1. row'[y] = row[y]
      BY <1>1, <2>1 DEF AccessTyped, RowAccessTypeOK
    <3>2. u \in Responsible(y)
      BY <1>6, <3>1 DEF Responsible
    <3>3. \A g \in todo : g.key # <<u, y>>
      BY <2>1
    <3>4. QED BY <1>4, <1>5, <3>2, <3>3 DEF AnsweredFor
  <2>2. CASE y = x /\ <<u, x>> \in ignored
    BY <1>1, <2>2 DEF Exempt
  <2>3. CASE y = x /\ u \in Responsible(x) /\ \A g \in todo : g.key # <<u, x>>
    BY <1>4, <1>5, <2>3 DEF AnsweredFor
  <2>4. CASE y = x /\ \E g \in todo : g.key = <<u, x>> /\ g.level \in Strong
    <3>1. PICK g \in todo : g.key = <<u, x>> /\ g.level \in Strong
      BY <2>4
    <3>2. CASE \E p \in AccessCallers : \E i \in grants[p] : i.key = g.key
      <4>1. g.key \in torn'
        BY <3>1, <3>2 DEF Begins, BeginGrants
      <4>2. QED BY <2>4, <3>1, <4>1 DEF Exempt
    <3>3. CASE ~ \E p \in AccessCallers : \E i \in grants[p] : i.key = g.key
      <4>1. \A p \in AccessCallers : \A i \in grants'[p] : i.key = g.key => i = g
        BY <1>1, <1>2, <3>1, <3>3
      <4>2. g \in grants'[q] /\ g.op = "grant" /\ g.pc # "audit"
        BY <1>1, <1>2
      <4>3. PICK k : k = g.key
        OBVIOUS
      <4>4. Backed(k)'
        BY <3>1, <4>1, <4>2, <4>3 DEF Backed, Coming
      <4>5. QED BY <2>4, <3>1, <4>3, <4>4
    <3>4. QED BY <3>2, <3>3
  <2>5. QED BY <1>6, <2>1, <2>2, <2>3, <2>4
<1>7. \A p \in AccessCallers : \A g \in grants'[p] : g.pc = "delete" => Revoked(g.key)'
  BY <1>1, <1>2, <1>3 DEF AnsweredFor
<1>8. QED BY <1>6, <1>7 DEF AnsweredFor, Revoked

LEMMA NewRowsAnswer ==
    ASSUME AccessTyped, AnsweredFor, NEW q \in AccessCallers, NEW u \in People, NEW v \in People,
           \/ NewClient(q, u, v) \/ NewCandidate(q, u, v) \/ NewApplication(q, u, v)
           \/ \E w \in People \cup {Nobody} : NewJob(q, u, v, w)
    PROVE  AnsweredFor'
<1>0. row \in [Types -> Persona] /\ "OWNER" \in Strong /\ "EDIT" \in Strong
  BY DEF AccessTyped, RowAccessTypeOK, Persona, Strong
<1>1. ASSUME NewClient(q, u, v) PROVE AnsweredFor'
  <2>1. PICK todo : todo = {Grant(<<v, "Client">>, "OWNER")}
    OBVIOUS
  <2>2. Begins(q, "Client", Persons(u, v), todo, {})
    BY <1>1, <2>1, NewRowsBegin
  <2>3. Grant(<<v, "Client">>, "OWNER").key = <<v, "Client">>
           /\ Grant(<<v, "Client">>, "OWNER").level = "OWNER"
    BY DEF Grant
  <2>4. row'["Client"] = Persons(u, v)
    BY <1>0, <2>2 DEF Begins, BeginGrants
  <2>5. Responsible("Client")' = {v}
    BY <2>4 DEF Responsible, Persons
  <2>6. \A g \in todo : \E w : g.key = <<w, "Client">>
    BY <2>1, <2>3
  <2>7. \E g \in todo : g.key = <<v, "Client">> /\ g.level \in Strong
    BY <1>0, <2>1, <2>3
  <2>8. QED BY <2>2, <2>5, <2>6, <2>7, BeginGrantsAnswer
<1>2. ASSUME NewApplication(q, u, v) PROVE AnsweredFor'
  <2>1. PICK todo : todo = {Grant(<<v, "JobApplication">>, "EDIT")}
    OBVIOUS
  <2>2. Begins(q, "JobApplication", Persons(u, v), todo, {})
    BY <1>2, <2>1, NewRowsBegin
  <2>3. Grant(<<v, "JobApplication">>, "EDIT").key = <<v, "JobApplication">>
           /\ Grant(<<v, "JobApplication">>, "EDIT").level = "EDIT"
    BY DEF Grant
  <2>4. row'["JobApplication"] = Persons(u, v)
    BY <1>0, <2>2 DEF Begins, BeginGrants
  <2>5. Responsible("JobApplication")' = {v}
    BY <2>4 DEF Responsible, Persons
  <2>6. \A g \in todo : \E w : g.key = <<w, "JobApplication">>
    BY <2>1, <2>3
  <2>7. \E g \in todo : g.key = <<v, "JobApplication">> /\ g.level \in Strong
    BY <1>0, <2>1, <2>3
  <2>8. QED BY <2>2, <2>5, <2>6, <2>7, BeginGrantsAnswer
<1>3. ASSUME NewCandidate(q, u, v) PROVE AnsweredFor'
  <2>1. PICK todo : todo = CandidateGrants(u)
    OBVIOUS
  <2>2. Begins(q, "Candidate", Persons(u, v), todo, {})
    BY <1>3, <2>1, NewRowsBegin
  <2>3. Grant(<<u, "Candidate">>, "OWNER").key = <<u, "Candidate">>
           /\ Grant(<<u, "Candidate">>, "OWNER").level = "OWNER"
           /\ Grant(<<Team, "Candidate">>, "VIEW").key = <<Team, "Candidate">>
    BY DEF Grant
  <2>4. row'["Candidate"] = Persons(u, v)
    BY <1>0, <2>2 DEF Begins, BeginGrants
  <2>5. Responsible("Candidate")' = {u}
    BY <2>4 DEF Responsible, Persons
  <2>6. \A g \in todo : \E w : g.key = <<w, "Candidate">>
    BY <2>1, <2>3, CandidateGrantsFit
  <2>7. \E g \in todo : g.key = <<u, "Candidate">> /\ g.level \in Strong
    BY <1>0, <2>1, <2>3, CandidateGrantsFit
  <2>8. QED BY <2>2, <2>5, <2>6, <2>7, BeginGrantsAnswer
<1>4. ASSUME NEW w \in People \cup {Nobody}, NewJob(q, u, v, w) PROVE AnsweredFor'
  <2>1. PICK bd \in People : bd = row["Client"].owner
    BY <1>4, NewJobBegins
  <2>2. PICK todo : todo = JobGrants(u, v, bd)
    OBVIOUS
  <2>3. PICK ignored : ignored = {<<w, "Job">>} \ {<<Nobody, "Job">>}
    OBVIOUS
  <2>4. PICK people : people = [Persons(u, v) EXCEPT !.assigned = w]
    OBVIOUS
  <2>5. Begins(q, "Job", people, todo, ignored)
    BY <1>4, <2>1, <2>2, <2>3, <2>4, NewJobBegins
  <2>6. row'["Job"] = people
    BY <1>0, <2>5 DEF Begins, BeginGrants
  <2>7. Responsible("Job")' = {u, v, w}
    BY <2>4, <2>6 DEF Responsible, Persons
  <2>8. \A g \in todo : \E a : g.key = <<a, "Job">>
    BY <2>2 DEF JobGrants, Grant
  <2>9. \E g \in todo : g.key = <<u, "Job">> /\ g.level \in Strong
    <3>1. Grant(<<u, "Job">>, "OWNER") \in todo
      BY <2>2, JobGrantsFit
    <3>2. QED BY <1>0, <3>1 DEF Grant
  <2>10. v # u => \E g \in todo : g.key = <<v, "Job">> /\ g.level \in Strong
    <3>1. v # u => Grant(<<v, "Job">>, "EDIT") \in todo
      BY <2>2, JobGrantsFit
    <3>2. QED BY <1>0, <3>1 DEF Grant
  <2>11. w # Nobody => <<w, "Job">> \in ignored
    BY <2>3
  <2>12. \A a \in Responsible("Job")' \ {Nobody} :
            <<a, "Job">> \in ignored \/ \E g \in todo : g.key = <<a, "Job">> /\ g.level \in Strong
    BY <2>7, <2>9, <2>10, <2>11
  <2>13. QED BY <2>5, <2>8, <2>12, BeginGrantsAnswer
<1>5. QED BY <1>1, <1>2, <1>3, <1>4

LEMMA AssignJobAnswers ==
    ASSUME AccessTyped, AnsweredFor, NEW q \in AccessCallers, NEW u \in People \cup {Nobody},
           AssignJob(q, u)
    PROVE  AnsweredFor'
<1>1. PICK todo : todo = {Grant(<<v, "Job">>, "EDIT") : v \in {u} \ {Nobody}}
  OBVIOUS
<1>2. PICK people : people = [row["Job"] EXCEPT !.assigned = u]
  OBVIOUS
<1>3. Begins(q, "Job", people, todo, {}) /\ row["Job"] \in Persona
  BY <1>1, <1>2, AssignJobBegins
<1>4. row \in [Types -> Persona] /\ "EDIT" \in Strong
  BY DEF AccessTyped, RowAccessTypeOK, Persona, Strong
<1>5. row'["Job"] = people
  BY <1>3, <1>4 DEF Begins, BeginGrants
<1>6. Responsible("Job")' = {row["Job"].creator, row["Job"].owner, u}
  BY <1>2, <1>3, <1>5 DEF Responsible, Persona
<1>7. Responsible("Job") = {row["Job"].creator, row["Job"].owner, row["Job"].assigned}
  BY DEF Responsible
<1>8. Grant(<<u, "Job">>, "EDIT").key = <<u, "Job">> /\ Grant(<<u, "Job">>, "EDIT").level = "EDIT"
  BY DEF Grant
<1>9. \A g \in todo : g = Grant(<<u, "Job">>, "EDIT") /\ g.key = <<u, "Job">> /\ g.level \in Strong
  BY <1>1, <1>4, <1>8
<1>10. u # Nobody => Grant(<<u, "Job">>, "EDIT") \in todo
  BY <1>1
<1>11. ASSUME NEW v \in Responsible("Job")' \ {Nobody}
       PROVE  \/ \E g \in todo : g.key = <<v, "Job">> /\ g.level \in Strong
              \/ v \in Responsible("Job") /\ \A g \in todo : g.key # <<v, "Job">>
  <2>1. CASE v = u
    BY <1>4, <1>8, <1>10, <1>11, <2>1
  <2>2. CASE v # u
    <3>1. v \in Responsible("Job")
      BY <1>6, <1>7, <1>11, <2>2
    <3>2. \A g \in todo : g.key # <<v, "Job">>
      BY <1>9, <2>2
    <3>3. QED BY <3>1, <3>2
  <2>3. QED BY <2>1, <2>2
<1>12. \A g \in todo : \E w : g.key = <<w, "Job">>
  BY <1>9
<1>13. QED BY <1>3, <1>11, <1>12, BeginGrantsAnswer

LEMMA PutOnAnswers ==
    ASSUME AccessTyped, AnsweredFor, NEW u \in People, NEW x \in Types,
           ChangeOwner(x, u) \/ ChangeAssignee(u)
    PROVE  AnsweredFor'
<1>0. PICK y \in Types : \E people : /\ PutOn(y, u, people)
                                     /\ \/ people = [row[y] EXCEPT !.owner = u]
                                        \/ people = [row[y] EXCEPT !.assigned = u]
  BY DEF ChangeOwner, ChangeAssignee, Types
<1>1. PICK people : /\ PutOn(y, u, people)
                    /\ \/ people = [row[y] EXCEPT !.owner = u]
                       \/ people = [row[y] EXCEPT !.assigned = u]
  BY <1>0
<1>2. row \in [Types -> Persona]
  BY DEF AccessTyped, RowAccessTypeOK, Persona
<1>3. /\ row' = [row EXCEPT ![y] = people] /\ ungranted' = ungranted \cup {<<u, y>>}
      /\ perm' = perm /\ audit' = audit /\ grants' = grants /\ torn' = torn
  BY <1>1 DEF PutOn
<1>4. row'[y] = people /\ \A z \in Types : z # y => row'[z] = row[z]
  BY <1>2, <1>3
<1>5. /\ people.creator = row[y].creator
      /\ people.owner \in {row[y].owner, u} /\ people.assigned \in {row[y].assigned, u}
  BY <1>1, <1>2 DEF Persona
<1>6. \A k : (Exempt(k) => Exempt(k)') /\ (Backed(k) => Backed(k)')
  BY <1>3 DEF Exempt, Revoked, Backed, Coming
<1>7. ASSUME NEW z \in Types, NEW v \in Responsible(z)' \ {Nobody}
      PROVE  (Exempt(<<v, z>>) \/ Backed(<<v, z>>))'
  <2>1. CASE z = y /\ v = u
    BY <1>3, <2>1 DEF Exempt
  <2>2. CASE z # y \/ v # u
    <3>1. v \in Responsible(z)
      BY <1>4, <1>5, <1>7, <2>2 DEF Responsible
    <3>2. QED BY <1>6, <3>1 DEF AnsweredFor
  <2>3. QED BY <2>1, <2>2
<1>8. \A p \in AccessCallers : \A g \in grants'[p] : g.pc = "delete" => Revoked(g.key)'
  BY <1>3 DEF AnsweredFor, Revoked
<1>9. QED BY <1>7, <1>8 DEF AnsweredFor, Revoked

LEMMA RevokeAnswers ==
    ASSUME AccessTyped, AnsweredFor, NEW q \in AccessCallers, NEW l \in Keys, Revoke(q, l)
    PROVE  AnsweredFor'
<1>1. PICK g : g = [pc |-> "audit", op |-> "revoke", key |-> l, level |-> "NONE", seen |-> perm[l]]
  OBVIOUS
<1>2. /\ grants[q] = {} /\ grants' = [grants EXCEPT ![q] = {g}] /\ perm' = perm
      /\ audit' = audit /\ torn' = torn /\ row' = row /\ ungranted' = ungranted
  BY <1>1 DEF Revoke
<1>3. /\ grants'[q] = {g} /\ \A p \in AccessCallers : p # q => grants'[p] = grants[p]
  BY <1>2 DEF AccessTyped
<1>4. g.op = "revoke" /\ g.pc = "audit"
  BY <1>1
<1>5. \A k : Exempt(k) => Exempt(k)'
  BY <1>2 DEF Exempt, Revoked
<1>6. ASSUME NEW k, Backed(k) PROVE Backed(k)'
  BY <1>2, <1>3, <1>4, <1>6, BackedStays
<1>7. \A x : Responsible(x)' = Responsible(x)
  BY <1>2 DEF Responsible
<1>8. \A p \in AccessCallers : \A h \in grants'[p] : h.pc = "delete" => Revoked(h.key)'
  BY <1>2, <1>3, <1>4 DEF AnsweredFor, Revoked
<1>9. QED BY <1>5, <1>6, <1>7, <1>8 DEF AnsweredFor, Revoked

LEMMA GrantStepsAnswer ==
    ASSUME AccessTyped, LogsFollow, AnsweredFor, NEW q \in AccessCallers, NEW g \in grants[q],
           GrantSteps(q, g)
    PROVE  AnsweredFor'
<1>1. g.key \in Keys /\ GrantFits(g) /\ g \in GrantRecord
  BY DEF AccessTyped, GrantFits, GrantRecord
<1>2. /\ row' = row /\ ungranted' = ungranted /\ torn \subseteq torn'
      /\ GrantFails(q, g) => g.key \in torn'
  BY DEF GrantSteps, FindPermission, RereadPermission, WritePermission, WriteAudit, GrantFails,
     Tears
<1>3. PICK new : /\ Becomes(q, g, new)
                 /\ new = {} \/ \E h : new = {h} /\ GrantFits(h) /\ Follows(q, g, h)
  BY GrantTurnsInto
<1>4. new = {} \/ \E h : new = {h} /\ GrantFits(h) /\ h.key = g.key
  BY <1>3 DEF Follows
<1>5. \A p \in AccessCallers : \A h \in grants'[p] :
         \/ p = q /\ h \in new
         \/ h \in grants[p] /\ ~(p = q /\ h.key = g.key)
  BY <1>3, <1>4, GrantBecomes
<1>6. \A p \in AccessCallers : \A h \in grants[p] : h \in grants'[p] \/ (p = q /\ h = g)
  BY <1>3, <1>4, GrantBecomes
<1>7. new \subseteq grants'[q]
  BY <1>3, <1>4, GrantBecomes
<1>8. \A k \in Keys : Revoked(k) => Revoked(k)'
  <2>1. ASSUME NEW k \in Keys PROVE \/ audit'[k] = audit[k]
                                    \/ \E a \in AuditRecord : audit'[k] = Append(audit[k], a)
    <3>1. CASE WriteAudit(q, g)
      BY <3>1, WriteAuditWrites
    <3>2. CASE ~WriteAudit(q, g)
      BY <3>2 DEF GrantSteps, FindPermission, RereadPermission, WritePermission, GrantFails
    <3>3. QED BY <3>1, <3>2
  <2>2. QED BY <2>1, RevokedStays
<1>9. \A k \in Keys : Exempt(k) => Exempt(k)'
  BY <1>2, <1>8 DEF Exempt
<1>10. WriteAudit(q, g) /\ g.op = "revoke" => Revoked(g.key)'
  <2>1. SUFFICES ASSUME WriteAudit(q, g), g.op = "revoke" PROVE Revoked(g.key)'
    OBVIOUS
  <2>2. PICK log \in Seq(AuditRecord) : log = audit[g.key]
    BY <1>1 DEF AccessTyped
  <2>3. PICK a \in AuditRecord : a = AuditOf(g)
    BY <2>1, WriteAuditWrites
  <2>4. a.action = "REVOKE"
    BY <2>1, <2>3 DEF AuditOf, ActionOf
  <2>5. PICK new2 : new2 = Append(log, a)
    OBVIOUS
  <2>6. Len(log) + 1 \in DOMAIN new2 /\ new2[Len(log) + 1] = a
    BY <2>5
  <2>7. audit'[g.key] = new2
    BY <2>1, <2>2, <2>3, <2>5, WriteAuditWrites
  <2>8. PICK k : k = g.key
    OBVIOUS
  <2>9. Revoked(k)'
    BY <2>4, <2>6, <2>7, <2>8 DEF Revoked
  <2>10. QED BY <2>8, <2>9
<1>11. ASSUME NEW k \in Keys, k # g.key, Backed(k) PROVE Backed(k)'
  <2>1. perm'[k] = perm[k]
    <3>1. CASE WritePermission(q, g)
      BY <1>11, <3>1, WritePermissionWrites
    <3>2. CASE ~WritePermission(q, g)
      BY <3>2 DEF GrantSteps, FindPermission, RereadPermission, WriteAudit, GrantFails
    <3>3. QED BY <3>1, <3>2
  <2>2. \A p \in AccessCallers : \A h \in grants'[p] : h.key = k => h \in grants[p]
    BY <1>4, <1>5, <1>11
  <2>3. \A p \in AccessCallers : \A h \in grants[p] : h.key = k => h \in grants'[p]
    BY <1>6, <1>11
  <2>4. QED BY <1>11, <2>1, <2>2, <2>3, BackedStays
<1>12. ASSUME NEW k \in Keys, k = g.key, Backed(k), ~Exempt(k)' PROVE Backed(k)'
  <2>1. \A p \in AccessCallers : \A h \in grants'[p] :
           h.key = k /\ h.op = "grant" => h.level \in Strong
    BY <1>3, <1>5, <1>12 DEF Follows, Backed
  <2>2. Coming(k) => Coming(k)' \/ (g.op = "grant" /\ g.pc # "audit")
    BY <1>6 DEF Coming
  <2>3. g.op = "grant" => g.level \in Strong
    BY <1>12 DEF Backed
  <2>4. k \notin torn' /\ k \notin torn /\ ~Revoked(k)' /\ ~Revoked(k)
    BY <1>2, <1>8, <1>12 DEF Exempt
  <2>5. perm[k].level \in Strong \/ Coming(k)
    BY <1>12 DEF Backed
  <2>6. ASSUME \E h \in new : h.pc # "audit", g.op = "grant" PROVE Coming(k)'
    <3>1. PICK h \in new : h.pc # "audit"
      BY <2>6
    <3>2. h.key = k /\ h.op = "grant"
      BY <1>3, <1>12, <2>6 DEF Follows
    <3>3. QED BY <1>7, <3>1, <3>2 DEF Coming
  <2>7. perm'[k].level \in Strong \/ Coming(k)'
    <3>1. CASE FindPermission(q, g)
      <4>1. perm' = perm /\ g.pc = "find" /\ g.op = "grant"
        BY <1>1, <3>1 DEF FindPermission, GrantFits, GrantRecord
      <4>2. PICK now : now = perm[k]
        OBVIOUS
      <4>3. CASE now.level = "NONE" \/ now.level # g.level
        <5>1. g.level # "NONE"
          BY <1>1, <4>1 DEF GrantFits, Levels
        <5>2. \/ Becomes(q, g, {[g EXCEPT !.pc = "create"]})
              \/ Becomes(q, g, {[g EXCEPT !.pc = "reread", !.seen = now]})
          <6>1. CASE now.level = "NONE"
            BY <1>12, <3>1, <4>2, <5>1, <6>1 DEF FindPermission
          <6>2. CASE now.level # "NONE"
            BY <1>12, <3>1, <4>2, <4>3, <6>2 DEF FindPermission
          <6>3. QED BY <6>1, <6>2
        <5>3. \E h : h \in grants'[q] /\ h.key = k /\ h.op = "grant" /\ h.pc # "audit"
          <6>1. PICK c : c = [g EXCEPT !.pc = "create"]
            OBVIOUS
          <6>2. PICK r : r = [g EXCEPT !.pc = "reread", !.seen = now]
            OBVIOUS
          <6>3. /\ c.key = k /\ c.op = "grant" /\ c.pc = "create"
                /\ r.key = k /\ r.op = "grant" /\ r.pc = "reread"
            BY <1>1, <1>12, <4>1, <6>1, <6>2 DEF GrantRecord
          <6>4. c \in grants'[q] \/ r \in grants'[q]
            BY <5>2, <6>1, <6>2 DEF Becomes, AccessTyped
          <6>5. QED BY <6>3, <6>4
        <5>4. QED BY <5>3 DEF Coming
      <4>4. CASE now.level # "NONE" /\ now.level = g.level
        BY <2>3, <4>1, <4>2, <4>4
      <4>5. QED BY <4>3, <4>4
    <3>2. CASE RereadPermission(q, g)
      <4>1. perm' = perm /\ g.pc = "reread" /\ g.op = "grant"
        BY <1>1, <3>2 DEF RereadPermission, GrantFits, GrantRecord
      <4>2. g.seen = perm[k] /\ g.seen.level # "NONE"
        BY <1>1, <1>12, <2>4, <4>1 DEF LogsFollow, LogFollows, Reading, GrantFits
      <4>3. PICK now : now = perm[k]
        OBVIOUS
      <4>4. PICK u : u = [g EXCEPT !.pc = "update", !.seen = now]
        OBVIOUS
      <4>5. Becomes(q, g, {u})
        BY <1>12, <3>2, <4>2, <4>3, <4>4 DEF RereadPermission
      <4>6. u.key = k /\ u.op = "grant" /\ u.pc = "update"
        BY <1>1, <1>12, <4>1, <4>4 DEF GrantRecord
      <4>7. u \in grants'[q]
        BY <4>5 DEF Becomes, AccessTyped
      <4>8. QED BY <4>6, <4>7 DEF Coming
    <3>3. CASE WritePermission(q, g)
      <4>1. perm'[k].level = g.level
        BY <1>12, <3>3, WritePermissionWrites
      <4>2. g.pc # "delete"
        BY <1>12, <2>4 DEF AnsweredFor
      <4>3. g.op = "grant"
        BY <1>1, <3>3, <4>2 DEF WritePermission, GrantFits, GrantRecord
      <4>4. QED BY <2>3, <4>1, <4>3
    <3>4. CASE WriteAudit(q, g)
      <4>1. perm' = perm /\ g.pc = "audit"
        BY <3>4 DEF WriteAudit
      <4>2. QED BY <2>2, <2>5, <4>1
    <3>5. CASE GrantFails(q, g)
      BY <1>2, <1>12, <2>4, <3>5
    <3>6. QED BY <3>1, <3>2, <3>3, <3>4, <3>5 DEF GrantSteps
  <2>8. QED BY <2>1, <2>7 DEF Backed, Coming
<1>13. ASSUME NEW x \in Types, NEW u \in Responsible(x)' \ {Nobody}
       PROVE  (Exempt(<<u, x>>) \/ Backed(<<u, x>>))'
  <2>1. u \in Responsible(x) \ {Nobody}
    BY <1>2, <1>13 DEF Responsible
  <2>2. PICK k \in Keys : k = <<u, x>>
    BY <2>1, ResponsibleAre
  <2>3. Exempt(k) \/ Backed(k)
    BY <2>1, <2>2 DEF AnsweredFor
  <2>4. Exempt(k)' \/ Backed(k)'
    BY <1>9, <1>11, <1>12, <2>3
  <2>5. QED BY <2>2, <2>4
<1>14. ASSUME NEW p \in AccessCallers, NEW h \in grants'[p], h.pc = "delete"
       PROVE  Revoked(h.key)'
  <2>1. CASE h \in new
    <3>1. Follows(q, g, h)
      BY <1>3, <2>1
    <3>2. h.key = g.key /\ Revoked(g.key)'
      BY <1>10, <1>14, <3>1 DEF Follows
    <3>3. QED BY <3>2
  <2>2. CASE h \in grants[p]
    <3>1. PICK k \in Keys : k = h.key
      BY <2>2 DEF AccessTyped, GrantRecord
    <3>2. Revoked(k)
      BY <1>14, <2>2, <3>1 DEF AnsweredFor
    <3>3. Revoked(k)'
      BY <1>8, <3>2
    <3>4. QED BY <3>1, <3>3
  <2>3. QED BY <1>5, <2>1, <2>2
<1>15. QED BY <1>13, <1>14 DEF AnsweredFor, Revoked

LEMMA HoldsAnswered ==
    ASSUME NEW rows, NEW given, Holds(rows, given), GrantsOf(given), AccessTyped,
           \A x \in Types : \A u \in Responsible(x) \ {Nobody} :
              \E g \in given : g.key = <<u, x>> /\ g.level \in Strong
    PROVE  AnsweredFor
<1>1. grants = [q \in AccessCallers |-> {}]
  BY DEF Holds
<1>2. ASSUME NEW x \in Types, NEW u \in Responsible(x) \ {Nobody} PROVE Backed(<<u, x>>)
  <2>1. PICK k \in Keys : k = <<u, x>>
    BY <1>2, ResponsibleAre
  <2>2. PICK g \in given : g.key = k /\ g.level \in Strong
    BY <1>2, <2>1
  <2>3. PICK h \in given : h.key = k /\ perm[k] = [id |-> 1, level |-> h.level]
    BY <2>2, HoldsWhatWasGiven
  <2>4. h = g
    BY <2>2, <2>3 DEF GrantsOf
  <2>5. perm[k].level \in Strong
    BY <2>2, <2>3, <2>4
  <2>6. QED BY <1>1, <2>1, <2>5 DEF Backed
<1>3. QED BY <1>1, <1>2 DEF AnsweredFor

LEMMA AnsweredBegins == RowAccessInit => AnsweredFor
<1>0. "OWNER" \in Strong /\ "EDIT" \in Strong
  BY DEF Strong
<1>1. ASSUME NoRows, AccessTyped PROVE AnsweredFor
  <2>1. PICK rows : rows = [x \in Types |-> Absent]
    OBVIOUS
  <2>2. GrantsOf({}) /\ Holds(rows, {})
    BY <1>1, <2>1 DEF GrantsOf, NoRows
  <2>3. \A x \in Types : row[x] = Absent
    BY <2>1, <2>2 DEF Holds
  <2>4. \A x \in Types : Responsible(x) = {Nobody}
    BY <2>3 DEF Responsible, Absent
  <2>5. QED BY <1>1, <2>2, <2>4, HoldsAnswered
<1>2. ASSUME NEW bd \in People, NEW u \in People, NEW v \in People, AccessTyped,
             Holds(RowsAtStart(bd, u, v), GivenAtStart(bd, u, v))
      PROVE  AnsweredFor
  <2>1. PICK given : given = GivenAtStart(bd, u, v)
    OBVIOUS
  <2>2. PICK rows : rows = RowsAtStart(bd, u, v)
    OBVIOUS
  <2>3. row = rows /\ Holds(rows, given) /\ GrantsOf(given)
    BY <1>2, <2>1, <2>2, GivenAtStartFits DEF Holds
  <2>4. /\ Responsible("Client") = {bd} /\ Responsible("Job") = {u, v, Nobody}
        /\ Responsible("Candidate") = {u} /\ Responsible("JobApplication") = {Nobody}
    BY <2>2, <2>3 DEF Responsible, RowsAtStart, Persons, Absent
  <2>5. \A w, x, l : Grant(<<w, x>>, l).key = <<w, x>> /\ Grant(<<w, x>>, l).level = l
    BY DEF Grant
  <2>6. Grant(<<bd, "Client">>, "OWNER") \in given
    BY <2>1 DEF GivenAtStart
  <2>7. Grant(<<u, "Candidate">>, "OWNER") \in given
    BY <2>1, CandidateGrantsFit DEF GivenAtStart
  <2>8. Grant(<<u, "Job">>, "OWNER") \in given
    BY <2>1, JobGrantsFit DEF GivenAtStart
  <2>9. v # u => Grant(<<v, "Job">>, "EDIT") \in given
    BY <2>1, JobGrantsFit DEF GivenAtStart
  <2>10. ASSUME NEW x \in Types, NEW w \in Responsible(x) \ {Nobody}
         PROVE  \E g \in given : g.key = <<w, x>> /\ g.level \in Strong
    <3>1. CASE x = "Client"
      BY <1>0, <2>4, <2>5, <2>6, <2>10, <3>1
    <3>2. CASE x = "Job"
      BY <1>0, <2>4, <2>5, <2>8, <2>9, <2>10, <3>2
    <3>3. CASE x = "Candidate"
      BY <1>0, <2>4, <2>5, <2>7, <2>10, <3>3
    <3>4. CASE x = "JobApplication"
      BY <2>4, <2>10, <3>4
    <3>5. QED BY <3>1, <3>2, <3>3, <3>4 DEF Types
  <2>11. QED BY <1>2, <2>3, <2>10, HoldsAnswered
<1>3. QED BY <1>1, <1>2, AccessBegins DEF RowAccessInit, RowsAtStart, GivenAtStart

LEMMA AnsweredKept ==
    ASSUME AccessTyped, LogsFollow, AnsweredFor, [RowAccessNext]_rowAccessVars
    PROVE  AnsweredFor'
<1>1. CASE UNCHANGED rowAccessVars
  BY <1>1 DEF AnsweredFor, Exempt, Revoked, Backed, Coming, Responsible, rowAccessVars
<1>2. ASSUME NEW u \in People, ChangeAssignee(u) \/ \E x \in Types : ChangeOwner(x, u)
      PROVE  AnsweredFor'
  <2>1. "Job" \in Types
    BY DEF Types
  <2>2. QED BY <1>2, <2>1, PutOnAnswers
<1>3. QED
  BY <1>1, <1>2, NewRowsAnswer, AssignJobAnswers, RevokeAnswers, GrantStepsAnswer
  DEF RowAccessNext, GrantSteps

(* Row access: whoever answers for a row finds it in the lists and may edit  *)
(* it once its grants ran, unless the grant failed, overlapped with another  *)
(* or was revoked, or an update or a new job named them without one          *)
(* (permission.service.ts, job.service.ts, candidate.service.ts).            *)
THEOREM ResponsibleEdit == RowAccessSpec => []ResponsibleMayEdit
<1>1. RowAccessInit => AccessTyped /\ LogsFollow /\ AnsweredFor
  BY AccessBegins, AnsweredBegins
<1>2. AccessTyped /\ LogsFollow /\ AnsweredFor /\ [RowAccessNext]_rowAccessVars
         => AccessTyped' /\ LogsFollow' /\ AnsweredFor'
  BY AccessTypedKept, LogsFollowKept, AnsweredKept
<1>3. AccessTyped /\ AnsweredFor => ResponsibleMayEdit
  BY AnsweredMayEdit
<1>4. QED BY <1>1, <1>2, <1>3, PTL DEF RowAccessSpec

-----------------------------------------------------------------------------
(* The shape of the tables. *)

(* The accounts of a behaviour that is another model's.                      *)
LEMMA NoAccountsBegin == NoAccounts => AccountsTyped /\ LimitPasses /\ ResetsInTurn
<1> SUFFICES ASSUME NoAccounts PROVE AccountsTyped /\ LimitPasses /\ ResetsInTurn
  OBVIOUS
<1>1. AccountTables({}, FALSE, Unset)
  BY DEF NoAccounts
<1>2. AccountsTyped /\ ResetsInTurn
  BY <1>1, AccountTablesTyped, AccountTablesInTurn
<1>3. asked = [count |-> links, expires |-> FALSE] /\ links = 0
  BY <1>1 DEF AccountTables
<1>4. QED BY <1>2, <1>3 DEF LimitPasses

(* Jobs: a call past its first await addresses a job or a client, and a job  *)
(* with a row has a client (job.service.ts, client.service.ts).              *)
THEOREM JobsKeepType == JobsSpec => []JobsTypeOK
<1>1. JobsTyped /\ CreatesAlone /\ [JobsNext]_jobsVars => JobsTyped' /\ CreatesAlone'
  BY JobsTypedKept, CreatesAloneKept
<1>2. JobsTyped => JobsTypeOK
  BY DEF JobsTyped
<1>3. QED BY <1>1, <1>2, JobsInitTyped, PTL DEF JobsSpec

(* Applications: a call past the choice of its application has one, and one  *)
(* that counts has a counter (job-application.service.ts).                   *)
THEOREM ApplicationsKeepType == ApplicationsSpec => []ApplicationsTypeOK
<1>1. ApplicationsTyped => ApplicationsTypeOK
  BY DEF ApplicationsTyped
<1>2. QED BY <1>1, ApplicationsTypedBegins, ApplicationsTypedKept, PTL DEF ApplicationsSpec

(* Teams: a call at its check or its write names a team and a parent it was  *)
(* given (team.service.ts).                                                  *)
THEOREM TeamsKeepType == TeamTreeSpec => []TeamTreeTypeOK
<1>1. TeamTreeInit => TeamsTyped
  BY TeamsBegin
<1>2. TeamsTyped => TeamTreeTypeOK
  BY DEF TeamsTyped
<1>3. QED BY <1>1, <1>2, TeamsTypedKept, PTL DEF TeamTreeSpec

(* Accounts: no count passes its limit by more than one, a used link was     *)
(* made, and the history holds passwords (user.service.ts, auth.service.ts). *)
THEOREM AccountsKeepType == AccountsSpec => []AccountsTypeOK
<1>1. AccountsTyped => AccountsTypeOK
  BY DEF AccountsTyped
<1>2. AccountsInit => AccountsTyped
  BY AccountsInitTyped
<1>3. QED BY <1>1, <1>2, AccountsTypedKept, PTL DEF AccountsSpec

(* Row access: permissions, their audit rows and the grants under way keep   *)
(* their shape (permission.service.ts).                                      *)
THEOREM AccessKeepsType == RowAccessSpec => []RowAccessTypeOK
<1>1. AccessTyped => RowAccessTypeOK
  BY DEF AccessTyped
<1>2. RowAccessInit => AccessTyped
  BY AccessBegins
<1>3. QED BY <1>1, <1>2, AccessTypedKept, PTL DEF RowAccessSpec
=============================================================================
