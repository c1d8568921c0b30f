------------------------------ MODULE GllueSync ------------------------------
(***************************************************************************)
(* Mirroring Gllue's tables (migration.service.ts, its mappers and crons).  *)
(* A cron starts a run; per table the run reads the cursor, asks for a page *)
(* of rows changed since, copies each row, and moves the cursor to the time *)
(* the page ended.  Nothing keeps two runs apart.  A row that fails, or     *)
(* whose parent is not mirrored yet, is passed over.                        *)
(***************************************************************************)
EXTENDS Naturals, FiniteSets, FiniteSetsExt, Sequences

CONSTANTS
    SrcRows,            \* ids of source rows: numbers
    TableOf, Parents,   \* table of each row, rows its foreign keys name
    PageLimit,          \* rows of a page (500)
    Runs,               \* cron runs that may be under way together
    MaxSourceChanges, MaxRuns, MaxFailures  \* bounds: changes in Gllue, runs, failures

(* The tables whose mappings a mapper cannot do without; the rest of a row   *)
(* is copied.  References to users are optional and nothing mirrors users.   *)
ClientMapper == {}
ClientContactMapper == {"client"}
CandidateMapper == {}
CandidateExperienceMapper == {"candidate"}
CandidateEducationMapper == {"candidate"}
CandidateLanguageMapper == {"candidate"}
JobMapper == {"client"}
JobApplicationMapper == {"candidate", "joborder"}
ApplicationStageMapper == {"jobsubmission"}
InterviewMapper == {"jobsubmission"}
OfferMapper == {"jobsubmission"}
Needs == [client |-> ClientMapper, clientcontact |-> ClientContactMapper,
          candidate |-> CandidateMapper, candidateexperience |-> CandidateExperienceMapper,
          candidateeducation |-> CandidateEducationMapper,
          candidatelanguage |-> CandidateLanguageMapper, joborder |-> JobMapper,
          jobsubmission |-> JobApplicationMapper, apply |-> ApplicationStageMapper,
          clientinterview |-> InterviewMapper, offersign |-> OfferMapper]

(* A service mirrors sets of tables one after the other, those of a set side *)
(* by side.                                                                  *)
ClientSync == <<{"client"}, {"clientcontact"}>>
CandidateSync ==
    <<{"candidate", "candidateexperience", "candidateeducation", "candidatelanguage"}>>
JobSync == <<{"joborder"}>>
ApplicationSync == <<{"jobsubmission"}, {"apply"}, {"clientinterview"}, {"offersign"}>>
Services == {ClientSync, CandidateSync, JobSync, ApplicationSync}

Tables == {TableOf[r] : r \in SrcRows}      \* a table without rows has nothing to do
TablesOf(s) == Tables \cap UNION {s[i] : i \in DOMAIN s}
EarlierThan(t, u) == \E s \in Services : \E i, j \in DOMAIN s : i < j /\ t \in s[i] /\ u \in s[j]

ASSUME GllueSyncAssumption ==
    /\ SrcRows \subseteq Nat /\ PageLimit \in Nat \ {0}
    /\ TableOf \in [SrcRows -> DOMAIN Needs] /\ Parents \in [SrcRows -> SUBSET SrcRows]
    /\ \A r \in SrcRows : {TableOf[p] : p \in Parents[r]} = Needs[TableOf[r]]
    /\ MaxSourceChanges \in Nat /\ MaxRuns \in Nat /\ MaxFailures \in Nat

VARIABLES
    source,         \* Gllue: [version, changed] of each row, version 0 for none
    instant,        \* the time, which passes with the changes in Gllue
    copies,         \* Cura: the versions held by the rows made for a source row
    mapping,        \* table migration_mappings: [to, checksum], to 0 for none
    syncCursor,     \* table migration_sync_cursors: lastSyncAt
    enabled,        \* migration_configs: syncEnabled and ACTIVE
    worker,         \* what each run does with each table
    twice,          \* history: rows two runs found unmapped together, or created, not mapped
    passed,         \* history: rows skipped, failed, or changed during their page
    runs, failures  \* runs and failures so far (bounds only)

gllueSyncVars ==
    <<source, instant, copies, mapping, syncCursor, enabled, worker, twice, passed, runs, failures>>

mirrorVars == <<source, instant, copies, mapping, syncCursor>>

Off == [pc |-> "off", since |-> 0, todo |-> {}, full |-> FALSE, found |-> 0]

GllueSyncInit ==
    /\ source = [r \in SrcRows |-> [version |-> 0, changed |-> 0]]
    /\ instant = 0
    /\ copies = [r \in SrcRows |-> <<>>]
    /\ mapping = [r \in SrcRows |-> [to |-> 0, checksum |-> 0]]
    /\ syncCursor = [t \in Tables |-> 0]
    /\ enabled = TRUE
    /\ worker = [w \in Runs |-> [t \in Tables |-> Off]]
    /\ twice = {} /\ passed = {}
    /\ runs = 0 /\ failures = 0

-----------------------------------------------------------------------------
(* A worker is inside a page from its query to the write of the cursor.      *)
InPage(w, t) == worker[w][t].pc \notin {"off", "waiting", "query"}
SourceRow(w, t) == Min({x[1] : x \in worker[w][t].todo})
Version(w, t) == CHOOSE v \in 1..MaxSourceChanges : <<SourceRow(w, t), v>> \in worker[w][t].todo

StepsTo(w, t, pc) == worker' = [worker EXCEPT ![w][t].pc = pc]
NextRow(w, t) ==
    LET rest == {x \in worker[w][t].todo : x[1] # SourceRow(w, t)} IN
    worker' = [worker EXCEPT ![w][t].todo = rest, ![w][t].found = 0,
                             ![w][t].pc = IF rest = {} THEN "advance" ELSE "find"]

(* Recruiters work in Gllue; a row appears after the rows it refers to.      *)
ChangeSource(r) ==
    /\ instant < MaxSourceChanges
    /\ \A p \in Parents[r] : source[p].version > 0
    /\ instant' = instant + 1
    /\ source' = [source EXCEPT ![r] = [version |-> @.version + 1, changed |-> instant + 1]]
    /\ passed' = IF \E w \in Runs : InPage(w, TableOf[r]) THEN passed \cup {r} ELSE passed \ {r}
    /\ UNCHANGED <<copies, mapping, syncCursor, enabled, worker, twice, runs, failures>>

(* initiateCutover ends the mirroring; runs under way do not notice.         *)
InitiateCutover ==
    /\ enabled
    /\ enabled' = FALSE
    /\ UNCHANGED <<mirrorVars, worker, twice, passed, runs, failures>>

Cron(w, s) ==
    /\ enabled
    /\ runs < MaxRuns /\ TablesOf(s) # {}
    /\ \A t \in Tables : worker[w][t].pc = "off"
    /\ runs' = runs + 1
    /\ worker' = [worker EXCEPT ![w] = [t \in Tables |->
          IF t \in TablesOf(s) THEN [Off EXCEPT !.pc = "waiting"] ELSE Off]]
    /\ UNCHANGED <<mirrorVars, enabled, twice, passed, failures>>

(* syncTable: the cursor is read once, however many pages follow.            *)
ReadCursor(w, t) ==
    /\ worker[w][t].pc = "waiting"
    /\ \A u \in Tables : EarlierThan(u, t) => worker[w][u].pc = "off"
    /\ worker' = [worker EXCEPT ![w][t].pc = "query", ![w][t].since = syncCursor[t]]
    /\ UNCHANGED <<mirrorVars, enabled, twice, passed, runs, failures>>

ChangedSince(t, since) ==
    {r \in SrcRows : TableOf[r] = t /\ source[r].version > 0 /\ source[r].changed > since}

Query(w, t) ==
    LET rows == ChangedSince(t, worker[w][t].since)
        page == {r \in rows : Cardinality({p \in rows : p < r}) < PageLimit}
    IN  /\ worker[w][t].pc = "query"
        /\ worker' = [worker EXCEPT ![w][t] =
              [@ EXCEPT !.pc = IF page = {} THEN "advance" ELSE "find",
                        !.todo = {<<r, source[r].version>> : r \in page},
                        !.full = Cardinality(page) = PageLimit]]
        /\ passed' = passed \cup (rows \ page)
        /\ UNCHANGED <<mirrorVars, enabled, twice, runs, failures>>

(* processRow: the mapping, the mapper, the row, the mapping again.          *)
UnchangedMutant(m, v) == m.to > 0
Unchanged(m, v) == m.to > 0 /\ m.checksum = v

FindMapping(w, t) ==
    LET r == SourceRow(w, t)
        m == mapping[r]
        makes(x) == /\ \/ worker[x][t].pc = "link"
                       \/ worker[x][t].pc \in {"map", "create"} /\ worker[x][t].found = 0
                    /\ SourceRow(x, t) = r
    IN
    /\ worker[w][t].pc = "find"
    /\ twice' = IF m.to = 0 /\ (\E x \in Runs \ {w} : makes(x)) THEN twice \cup {r} ELSE twice
    /\ IF Unchanged(m, Version(w, t))
       THEN NextRow(w, t)
       ELSE worker' = [worker EXCEPT ![w][t].pc = "map", ![w][t].found = m.to]
    /\ UNCHANGED <<mirrorVars, enabled, passed, runs, failures>>

ResolvesMutant(r) == TRUE
Resolves(r) == \A p \in Parents[r] : mapping[p].to > 0

MapRow(w, t) ==
    LET r == SourceRow(w, t) IN
    /\ worker[w][t].pc = "map"
    /\ IF Resolves(r)
       THEN /\ StepsTo(w, t, IF worker[w][t].found = 0 THEN "create" ELSE "update")
            /\ UNCHANGED passed
       ELSE NextRow(w, t) /\ passed' = passed \cup {r}
    /\ UNCHANGED <<mirrorVars, enabled, twice, runs, failures>>

CreateCopy(w, t) ==
    LET r == SourceRow(w, t) IN
    /\ worker[w][t].pc = "create"
    /\ copies' = [copies EXCEPT ![r] = Append(@, Version(w, t))]
    /\ worker' = [worker EXCEPT ![w][t].pc = "link", ![w][t].found = Len(copies[r]) + 1]
    /\ UNCHANGED <<source, instant, mapping, syncCursor, enabled, twice, passed, runs, failures>>

(* The unique index refuses a second mapping: one more row that failed.      *)
CreateMapping(w, t) ==
    LET r == SourceRow(w, t) IN
    /\ worker[w][t].pc = "link"
    /\ mapping' = IF mapping[r].to > 0 THEN mapping
                  ELSE [mapping EXCEPT ![r] = [to |-> worker[w][t].found,
                                               checksum |-> Version(w, t)]]
    /\ NextRow(w, t)
    /\ UNCHANGED <<source, instant, copies, syncCursor, enabled, twice, passed, runs, failures>>

UpdateCopy(w, t) ==
    /\ worker[w][t].pc = "update"
    /\ copies' = [copies EXCEPT ![SourceRow(w, t)][worker[w][t].found] = Version(w, t)]
    /\ StepsTo(w, t, "checksum")
    /\ UNCHANGED <<source, instant, mapping, syncCursor, enabled, twice, passed, runs, failures>>

UpdateChecksum(w, t) ==
    /\ worker[w][t].pc = "checksum"
    /\ mapping' = [mapping EXCEPT ![SourceRow(w, t)].checksum = Version(w, t)]
    /\ NextRow(w, t)
    /\ UNCHANGED <<source, instant, copies, syncCursor, enabled, twice, passed, runs, failures>>

(* A statement of a row fails; the error is counted and the next row taken.  *)
RowFails(w, t) ==
    LET r == SourceRow(w, t) IN
    /\ failures < MaxFailures /\ failures' = failures + 1
    /\ worker[w][t].pc \in {"find", "map", "create", "link", "update", "checksum"}
    /\ NextRow(w, t)
    /\ passed' = passed \cup {r}
    /\ twice' = IF worker[w][t].pc = "link" THEN twice \cup {r} ELSE twice
    /\ UNCHANGED <<mirrorVars, enabled, runs>>

AdvanceCursorMutant(w, t) ==
    /\ worker[w][t].pc = "advance"
    /\ syncCursor' = [syncCursor EXCEPT ![t] = instant]
    /\ worker' = [worker EXCEPT ![w][t] =
          IF ChangedSince(t, worker[w][t].since) # {} THEN [@ EXCEPT !.pc = "query"] ELSE Off]
    /\ UNCHANGED <<source, instant, copies, mapping, enabled, twice, passed, runs, failures>>
AdvanceCursor(w, t) ==
    /\ worker[w][t].pc = "advance"
    /\ syncCursor' = [syncCursor EXCEPT ![t] = instant]
    /\ worker' = [worker EXCEPT ![w][t] =
          IF worker[w][t].full THEN [@ EXCEPT !.pc = "query"] ELSE Off]
    /\ UNCHANGED <<source, instant, copies, mapping, enabled, twice, passed, runs, failures>>

(* The query or the cursor's write throws: the tables after it are left out, *)
(* those beside it go on.  A process that ends stops its workers one by one. *)
SyncFails(w, t) ==
    /\ failures < MaxFailures /\ failures' = failures + 1
    /\ worker[w][t].pc # "off"
    /\ worker' = [worker EXCEPT ![w] = [u \in Tables |->
          IF u = t \/ EarlierThan(t, u) THEN Off ELSE worker[w][u]]]
    /\ twice' = IF worker[w][t].pc = "link" THEN twice \cup {SourceRow(w, t)} ELSE twice
    /\ UNCHANGED <<mirrorVars, enabled, passed, runs>>

SyncStep(w, t) ==
    \/ ReadCursor(w, t) \/ Query(w, t) \/ FindMapping(w, t) \/ MapRow(w, t)
    \/ CreateCopy(w, t) \/ CreateMapping(w, t) \/ UpdateCopy(w, t) \/ UpdateChecksum(w, t)
    \/ AdvanceCursor(w, t)

GllueSyncNext ==
    \/ \E r \in SrcRows : ChangeSource(r)
    \/ InitiateCutover
    \/ \E w \in Runs, s \in Services : Cron(w, s)
    \/ \E w \in Runs, t \in Tables : SyncStep(w, t) \/ RowFails(w, t) \/ SyncFails(w, t)

GllueSyncSpec == GllueSyncInit /\ [][GllueSyncNext]_gllueSyncVars

(* The driver answers every statement, or fails it, after a while.           *)
GllueSyncFairSpec ==
    GllueSyncSpec /\ \A w \in Runs, t \in Tables : WF_gllueSyncVars(SyncStep(w, t))

-----------------------------------------------------------------------------
GllueSyncTypeOK ==
    /\ source \in [SrcRows -> [version : 0..MaxSourceChanges, changed : 0..MaxSourceChanges]]
    /\ instant \in 0..MaxSourceChanges
    /\ copies \in [SrcRows -> Seq(1..MaxSourceChanges)]
    /\ \A r \in SrcRows : mapping[r].to \in 0..Len(copies[r])
                       /\ mapping[r].checksum \in 0..MaxSourceChanges
    /\ syncCursor \in [Tables -> 0..MaxSourceChanges]
    /\ enabled \in BOOLEAN
    /\ \A w \in Runs, t \in Tables :
          /\ worker[w][t].pc \in {"off", "waiting", "query", "find", "map", "create", "link",
                                  "update", "checksum", "advance"}
          /\ worker[w][t].todo \subseteq SrcRows \X (1..MaxSourceChanges)
    /\ twice \subseteq SrcRows /\ passed \subseteq SrcRows
    /\ runs \in 0..MaxRuns /\ failures \in 0..MaxFailures

(* However often a row is mirrored, Cura has one row for it, and its parents *)
(* are mirrored before it; except that two runs may both find it unmapped,   *)
(* or one may end between the row and its mapping.                           *)
MirroredOnce ==
    \A r \in SrcRows :
        /\ r \in twice \/ Len(copies[r]) <= 1
        /\ copies[r] # <<>> => \A p \in Parents[r] : mapping[p].to > 0

(* A row that the next query will not return is mirrored as it is in Gllue,  *)
(* unless it was skipped or failed, changed during the page of its table, or *)
(* lay behind a full page: those wait for their next change.                 *)
CursorLeavesNothingBehind ==
    \A r \in SrcRows \ passed :
        source[r].version > 0 /\ source[r].changed <= syncCursor[TableOf[r]] =>
            /\ mapping[r].to > 0 /\ mapping[r].checksum = source[r].version
            /\ copies[r][mapping[r].to] = source[r].version

(* The run of a table ends, or it has asked for a full page: that page is    *)
(* asked for again with the cursor read at the start.                        *)
SyncEndsOrRepeats ==
    \A w \in Runs, t \in Tables :
        worker[w][t].pc # "off" ~> (worker[w][t].pc = "off" \/ worker[w][t].full)
=============================================================================
