--------------------------- MODULE CandidatesProofs ---------------------------
(* Proofs about Candidates for every set of rows, requests, mailboxes and   *)
(* spellings, and about the walk through a list (RowPages) for every finite *)
(* set of rows and every page size.                                         *)
EXTENDS Candidates, RowPages, SequenceTheorems, FiniteSetTheorems, TLAPS

Call == [pc : {"idle", "insert", "email", "contact"},
         id : CandidateIds \cup ContactIds \cup {NoEmail},
         email : Emails \cup {NoEmail}, primary : BOOLEAN, late : BOOLEAN]
CandidateRow == [row : Row3, email : Emails \cup {NoEmail}]
ContactRow == [row : Row3, primary : BOOLEAN]

(* A call at its write addresses a row of its own table.                     *)
CallsAddressRows ==
    \A q \in CrmCallers :
        /\ crmCall[q].pc \in {"insert", "email"} => crmCall[q].id \in CandidateIds
        /\ crmCall[q].pc = "contact" => crmCall[q].id \in ContactIds

Typed ==
    /\ candidate \in [CandidateIds -> CandidateRow]
    /\ contact \in [ContactIds -> ContactRow]
    /\ crmCall \in [CrmCallers -> Call]
    /\ beaten \subseteq CandidateIds /\ twoPrimaries \in BOOLEAN
    /\ CallsAddressRows

(* What a call found free is free until another call takes it, which makes   *)
(* the call late: this carries the check to the write.                       *)
FreeUntilLate ==
    \A q \in CrmCallers : crmCall[q].pc \in {"insert", "email"} /\ ~crmCall[q].late =>
        \A d \in CandidateIds \ {crmCall[q].id} :
            candidate[d].row = "live" => ~SameMailbox(candidate[d].email, crmCall[q].email)

LivePrimary(c) == contact[c].row = "live" /\ contact[c].primary

(* Between the clearing of the primaries and the insert there is none.       *)
ClearedForInsert ==
    ~twoPrimaries =>
        /\ \A c, d \in ContactIds : LivePrimary(c) /\ LivePrimary(d) => c = d
        /\ \A q \in CrmCallers : crmCall[q].pc = "contact" /\ crmCall[q].primary =>
              \A c \in ContactIds : ~LivePrimary(c)

CandidatesInv == Typed /\ LiveEmailsDiffer /\ FreeUntilLate /\ ClearedForInsert

-----------------------------------------------------------------------------
LEMMA NoCallType == NoCrmCall \in Call /\ NoCrmCall.pc = "idle"
BY DEF NoCrmCall, Call

LEMMA InitHolds == CandidatesInit => CandidatesInv
<1>1. ASSUME CandidatesInit PROVE Typed
  BY <1>1, NoCallType DEF CandidatesInit, Typed, CandidateRow, ContactRow, Row3, CallsAddressRows
<1>2. ASSUME CandidatesInit
      PROVE  LiveEmailsDiffer /\ FreeUntilLate /\ ClearedForInsert
  BY <1>2, NoCallType DEF CandidatesInit, LiveEmailsDiffer, FreeUntilLate, ClearedForInsert,
                          LivePrimary
<1>3. QED BY <1>1, <1>2 DEF CandidatesInv

(* A request begins to create a candidate or to change an email: it has just *)
(* looked for the mailbox among the live rows.                               *)
LEMMA StartHolds ==
    ASSUME CandidatesInv, NEW q \in CrmCallers, NEW pc \in {"insert", "email"},
           NEW c \in CandidateIds, NEW e \in Emails \cup {NoEmail}, StartCandidate(q, pc, c, e)
    PROVE  CandidatesInv'
<1>. DEFINE y == [NoCrmCall EXCEPT !.pc = pc, !.id = c, !.email = e]
<1>1. y \in Call /\ y.pc = pc /\ y.id = c /\ y.email = e
  BY DEF NoCrmCall, Call
<1>2. crmCall' = [crmCall EXCEPT ![q] = y] /\ UNCHANGED <<candidate, contact, beaten, twoPrimaries>>
  BY DEF StartCandidate, Started
<1>3. \A p \in CrmCallers : crmCall'[p] = IF p = q THEN y ELSE crmCall[p]
  BY <1>2 DEF CandidatesInv, Typed
<1>4. Typed'
  BY <1>1, <1>2, <1>3 DEF CandidatesInv, Typed, CallsAddressRows
<1>5. LiveEmailsDiffer'
  BY <1>2 DEF CandidatesInv, LiveEmailsDiffer
<1>6. FreeUntilLate'
  BY <1>1, <1>2, <1>3 DEF CandidatesInv, FreeUntilLate, StartCandidate, Conflict
<1>7. ClearedForInsert'
  BY <1>1, <1>2, <1>3 DEF CandidatesInv, ClearedForInsert, LivePrimary
<1>8. QED BY <1>4, <1>5, <1>6, <1>7 DEF CandidatesInv

(* The write of a candidate: every other call that waits to write the same   *)
(* mailbox becomes late, and a late write names its row in beaten.           *)
LEMMA WriteHolds ==
    ASSUME CandidatesInv, NEW q \in CrmCallers, WriteCandidate(q) PROVE CandidatesInv'
<1>. DEFINE r == crmCall[q]
<1>1. r \in Call /\ r.pc \in {"insert", "email"} /\ r.id \in CandidateIds
      /\ UNCHANGED <<contact, twoPrimaries>>
  BY DEF CandidatesInv, Typed, CallsAddressRows, WriteCandidate
<1>2. CASE UNCHANGED <<candidate, beaten>> /\ crmCall' = [crmCall EXCEPT ![q] = NoCrmCall]
  <2>1. \A p \in CrmCallers : crmCall'[p] = IF p = q THEN NoCrmCall ELSE crmCall[p]
    BY <1>2 DEF CandidatesInv, Typed
  <2>2. Typed'
    BY <1>1, <1>2, <2>1, NoCallType DEF CandidatesInv, Typed, CallsAddressRows
  <2>3. LiveEmailsDiffer' /\ FreeUntilLate' /\ ClearedForInsert'
    BY <1>1, <1>2, <2>1, NoCallType
       DEF CandidatesInv, LiveEmailsDiffer, FreeUntilLate, ClearedForInsert, LivePrimary
  <2>4. QED BY <2>2, <2>3 DEF CandidatesInv
<1>3. CASE ~(UNCHANGED <<candidate, beaten>> /\ crmCall' = [crmCall EXCEPT ![q] = NoCrmCall])
  <2>. DEFINE row == [row |-> IF r.pc = "insert" THEN "live" ELSE candidate[r.id].row,
                      email |-> r.email]
              late == {p \in CrmCallers : crmCall[p].pc \in {"insert", "email"} /\ p # q
                                             /\ SameMailbox(crmCall[p].email, r.email)}
  <2>1. /\ candidate' = [candidate EXCEPT ![r.id] = row]
        /\ beaten' = IF r.late THEN beaten \cup {r.id} ELSE beaten \ {r.id}
        /\ crmCall' = [p \in CrmCallers |-> IF p = q THEN NoCrmCall
                          ELSE IF p \in late THEN [crmCall[p] EXCEPT !.late = TRUE]
                          ELSE crmCall[p]]
    BY <1>1, <1>3 DEF CandidatesInv, Typed, WriteCandidate
  <2>2. row \in CandidateRow
    BY <1>1 DEF CandidatesInv, Typed, CandidateRow, Row3, Call
  <2>3. \A d \in CandidateIds : candidate'[d] = IF d = r.id THEN row ELSE candidate[d]
    BY <2>1 DEF CandidatesInv, Typed
  <2>4. ASSUME NEW p \in CrmCallers
        PROVE  /\ crmCall'[p] \in Call
               /\ p = q => crmCall'[p].pc = "idle"
               /\ p # q => /\ crmCall'[p].pc = crmCall[p].pc
                           /\ crmCall'[p].id = crmCall[p].id
                           /\ crmCall'[p].email = crmCall[p].email
                           /\ crmCall'[p].primary = crmCall[p].primary
                           /\ crmCall[p].late => crmCall'[p].late
                           /\ p \in late => crmCall'[p].late
    <3>1. crmCall[p] \in Call
      BY DEF CandidatesInv, Typed
    <3>2. QED BY <2>1, <3>1, NoCallType DEF Call
  <2>5. Typed'
    <3>1. crmCall' \in [CrmCallers -> Call]
      BY <2>1, <2>4
    <3>2. CallsAddressRows'
      BY <2>4 DEF CandidatesInv, Typed, CallsAddressRows
    <3>3. QED BY <1>1, <2>1, <2>2, <3>1, <3>2 DEF CandidatesInv, Typed
  <2>6. LiveEmailsDiffer'
    <3>1. ASSUME NEW c \in CandidateIds \ beaten', NEW d \in CandidateIds \ beaten',
                 candidate'[c].row = "live", candidate'[d].row = "live",
                 SameMailbox(candidate'[c].email, candidate'[d].email), c # d
          PROVE  FALSE
      <4>1. CASE c # r.id /\ d # r.id
        BY <2>1, <2>3, <3>1, <4>1 DEF CandidatesInv, LiveEmailsDiffer
      <4>2. CASE c = r.id \/ d = r.id
        <5>1. ~r.late
          BY <2>1, <3>1, <4>2
        <5>2. \A x \in CandidateIds \ {r.id} :
                  candidate[x].row = "live" => ~SameMailbox(candidate[x].email, r.email)
          BY <1>1, <5>1 DEF CandidatesInv, FreeUntilLate
        <5>3. QED BY <2>3, <3>1, <4>2, <5>2 DEF SameMailbox
      <4>3. QED BY <4>1, <4>2
    <3>2. QED BY <3>1 DEF LiveEmailsDiffer
  <2>7. FreeUntilLate'
    <3>1. ASSUME NEW p \in CrmCallers, crmCall'[p].pc \in {"insert", "email"}, ~crmCall'[p].late,
                 NEW d \in CandidateIds \ {crmCall'[p].id}, candidate'[d].row = "live"
          PROVE  ~SameMailbox(candidate'[d].email, crmCall'[p].email)
      <4>1. p # q
        BY <2>4, <3>1
      <4>2. /\ crmCall[p].pc \in {"insert", "email"} /\ ~crmCall[p].late
            /\ ~SameMailbox(crmCall[p].email, r.email)
            /\ crmCall'[p].email = crmCall[p].email /\ d # crmCall[p].id
        BY <2>4, <3>1, <4>1
      <4>3. CASE d = r.id
        BY <2>3, <4>2, <4>3 DEF SameMailbox
      <4>4. CASE d # r.id
        BY <2>3, <3>1, <4>2, <4>4 DEF CandidatesInv, FreeUntilLate
      <4>5. QED BY <4>3, <4>4
    <3>2. QED BY <3>1 DEF FreeUntilLate
  <2>8. ClearedForInsert'
    BY <1>1, <2>4 DEF CandidatesInv, ClearedForInsert, LivePrimary
  <2>9. QED BY <2>5, <2>6, <2>7, <2>8 DEF CandidatesInv
<1>4. QED BY <1>2, <1>3

(* The contact's two statements: no primary is left, then one is inserted.   *)
LEMMA CreateContactHolds ==
    ASSUME CandidatesInv, NEW q \in CrmCallers, NEW c \in ContactIds, NEW primary \in BOOLEAN,
           CreateContact(q, c, primary)
    PROVE  CandidatesInv'
<1>. DEFINE y == [NoCrmCall EXCEPT !.pc = "contact", !.id = c, !.primary = primary]
<1>1. y \in Call /\ y.pc = "contact" /\ y.id = c /\ y.primary = primary
  BY DEF NoCrmCall, Call
<1>2. crmCall' = [crmCall EXCEPT ![q] = y] /\ UNCHANGED <<candidate, beaten, twoPrimaries>>
  BY DEF CreateContact, Started
<1>3. \A p \in CrmCallers : crmCall'[p] = IF p = q THEN y ELSE crmCall[p]
  BY <1>2 DEF CandidatesInv, Typed
<1>4. /\ contact' \in [ContactIds -> ContactRow]
      /\ \A d \in ContactIds : LivePrimary(d)' => LivePrimary(d) /\ ~primary
  <2>1. CASE primary
    BY <2>1 DEF CreateContact, CandidatesInv, Typed, ContactRow, LivePrimary
  <2>2. CASE ~primary
    BY <2>2 DEF CreateContact, CandidatesInv, Typed, LivePrimary
  <2>3. QED BY <2>1, <2>2
<1>5. Typed'
  BY <1>1, <1>2, <1>3, <1>4 DEF CandidatesInv, Typed, CallsAddressRows
<1>6. LiveEmailsDiffer' /\ FreeUntilLate'
  BY <1>1, <1>2, <1>3 DEF CandidatesInv, LiveEmailsDiffer, FreeUntilLate
<1>7. ClearedForInsert'
  BY <1>1, <1>2, <1>3, <1>4 DEF CandidatesInv, ClearedForInsert
<1>8. QED BY <1>5, <1>6, <1>7 DEF CandidatesInv

LEMMA InsertContactHolds ==
    ASSUME CandidatesInv, NEW q \in CrmCallers, InsertContact(q) PROVE CandidatesInv'
<1>. DEFINE r == crmCall[q]
<1>1. r \in Call /\ r.pc = "contact" /\ r.id \in ContactIds
  BY DEF CandidatesInv, Typed, CallsAddressRows, InsertContact
<1>2. /\ contact' = [contact EXCEPT ![r.id] = [row |-> "live", primary |-> r.primary]]
      /\ crmCall' = [crmCall EXCEPT ![q] = NoCrmCall]
      /\ twoPrimaries' = (twoPrimaries \/ (r.primary /\ \E p \in CrmCallers \ {q} :
                                             crmCall[p].pc = "contact" /\ crmCall[p].primary))
      /\ UNCHANGED <<candidate, beaten>>
  BY DEF InsertContact
<1>3. \A p \in CrmCallers : crmCall'[p] = IF p = q THEN NoCrmCall ELSE crmCall[p]
  BY <1>2 DEF CandidatesInv, Typed
<1>4. \A d \in ContactIds : LivePrimary(d)' <=> IF d = r.id THEN r.primary ELSE LivePrimary(d)
  BY <1>1, <1>2 DEF CandidatesInv, Typed, Call, LivePrimary
<1>5. Typed'
  <2>1. contact' \in [ContactIds -> ContactRow]
    BY <1>1, <1>2 DEF CandidatesInv, Typed, ContactRow, Row3, Call
  <2>2. twoPrimaries' \in BOOLEAN
    BY <1>1, <1>2 DEF CandidatesInv, Typed, Call
  <2>3. QED BY <1>2, <1>3, <2>1, <2>2, NoCallType DEF CandidatesInv, Typed, CallsAddressRows
<1>6. LiveEmailsDiffer' /\ FreeUntilLate'
  BY <1>2, <1>3, NoCallType DEF CandidatesInv, LiveEmailsDiffer, FreeUntilLate
<1>7. ClearedForInsert'
  BY <1>1, <1>2, <1>3, <1>4, NoCallType DEF CandidatesInv, Typed, ClearedForInsert, Call
<1>8. QED BY <1>5, <1>6, <1>7 DEF CandidatesInv

(* Deletions and calls that stop only take away.                             *)
LEMMA DeleteHolds ==
    ASSUME CandidatesInv,
           \/ \E c \in CandidateIds : DeleteCandidate(c)
           \/ \E c \in ContactIds : DeleteContact(c)
           \/ \E q \in CrmCallers : CrmCallStops(q)
    PROVE  CandidatesInv'
<1>1. /\ UNCHANGED <<beaten, twoPrimaries>>
      /\ candidate' \in [CandidateIds -> CandidateRow] /\ contact' \in [ContactIds -> ContactRow]
      /\ \A d \in CandidateIds : /\ candidate'[d].email = candidate[d].email
                                 /\ candidate'[d].row = "live" => candidate[d].row = "live"
      /\ \A d \in ContactIds : LivePrimary(d)' => LivePrimary(d)
  BY DEF CandidatesInv, Typed, DeleteCandidate, DeleteContact, CrmCallStops, CandidateRow,
         ContactRow, Row3, LivePrimary
<1>2. /\ crmCall' \in [CrmCallers -> Call]
      /\ \A p \in CrmCallers : crmCall'[p] = crmCall[p] \/ crmCall'[p] = NoCrmCall
  BY NoCallType DEF CandidatesInv, Typed, DeleteCandidate, DeleteContact, CrmCallStops, Started
<1>3. Typed'
  BY <1>1, <1>2, NoCallType DEF CandidatesInv, Typed, CallsAddressRows
<1>4. LiveEmailsDiffer' /\ FreeUntilLate'
  BY <1>1, <1>2, NoCallType DEF CandidatesInv, LiveEmailsDiffer, FreeUntilLate
<1>5. ClearedForInsert'
  BY <1>1, <1>2, NoCallType DEF CandidatesInv, ClearedForInsert
<1>6. QED BY <1>3, <1>4, <1>5 DEF CandidatesInv

LEMMA StepHolds == CandidatesInv /\ [CandidatesNext]_candidatesVars => CandidatesInv'
<1>. SUFFICES ASSUME CandidatesInv, [CandidatesNext]_candidatesVars PROVE CandidatesInv'
  OBVIOUS
<1>1. CASE UNCHANGED candidatesVars
  BY <1>1 DEF candidatesVars, CandidatesInv, Typed, CallsAddressRows, LiveEmailsDiffer,
              FreeUntilLate, ClearedForInsert, LivePrimary
<1>2. ASSUME NEW q \in CrmCallers, NEW c \in CandidateIds, NEW e \in Emails \cup {NoEmail},
             CreateCandidateRow(q, c, e) \/ UpdateEmail(q, c, e)
      PROVE  CandidatesInv'
  BY <1>2, StartHolds DEF CreateCandidateRow, UpdateEmail
<1>3. QED
  BY <1>1, <1>2, WriteHolds, CreateContactHolds, InsertContactHolds, DeleteHolds
     DEF CandidatesNext

CallsCounted == crmCalls \in 0..MaxCrmCalls

LEMMA CallsCountedKept ==
    ASSUME CallsCounted, [CandidatesNext]_candidatesVars PROVE CallsCounted'
<1>1. crmCalls' = crmCalls \/ (crmCalls < MaxCrmCalls /\ crmCalls' = crmCalls + 1)
  BY DEF CandidatesNext, candidatesVars, CreateCandidateRow, UpdateEmail, StartCandidate,
         CreateContact, WriteCandidate, InsertContact, CrmCallStops, DeleteCandidate,
         DeleteContact, Started
<1>2. QED BY <1>1, CandidatesAssumption DEF CallsCounted

(* Candidates and contacts keep their shape, and each call at its write has  *)
(* the id of a row of the table it writes (candidate.service.ts,             *)
(* client-contact.service.ts).                                               *)
THEOREM CandidatesKeepType == CandidatesSpec => []CandidatesTypeOK
<1>1. CandidatesInit => CallsCounted
  BY CandidatesAssumption DEF CandidatesInit, CallsCounted
<1>2. CandidatesInv /\ CallsCounted => CandidatesTypeOK
  BY DEF CandidatesInv, Typed, CandidatesTypeOK, CandidateRow, ContactRow, Call, CallsCounted
<1>3. QED BY <1>1, <1>2, InitHolds, StepHolds, CallsCountedKept, PTL DEF CandidatesSpec

(* A call that looks for an email and then writes it lets no two live        *)
(* candidates share a mailbox, save when it was overtaken between the two.   *)
THEOREM EmailsDiffer == CandidatesSpec => []LiveEmailsDiffer
<1>1. CandidatesInv => LiveEmailsDiffer
  BY DEF CandidatesInv
<1>2. QED BY <1>1, InitHolds, StepHolds, PTL DEF CandidatesSpec

(* Clearing the primaries before the insert leaves a client at most one      *)
(* primary contact, save when two are created at the same time.              *)
THEOREM PrimaryIsOne == CandidatesSpec => []OnePrimaryContact
<1>1. CandidatesInv => OnePrimaryContact
  <2>. SUFFICES ASSUME CandidatesInv, ~twoPrimaries
                PROVE  Cardinality({c \in ContactIds : LivePrimary(c)}) <= 1
    BY DEF OnePrimaryContact, LivePrimary
  <2>. DEFINE S == {c \in ContactIds : LivePrimary(c)}
  <2>1. CASE S = {}
    BY <2>1, FS_EmptySet
  <2>2. CASE S # {}
    <3>1. PICK c \in S : S = {c}
      BY <2>2 DEF CandidatesInv, ClearedForInsert
    <3>2. QED BY <3>1, FS_Singleton
  <2>3. QED BY <2>1, <2>2
<1>2. QED BY <1>1, InitHolds, StepHolds, PTL DEF CandidatesSpec

-----------------------------------------------------------------------------
(* Lists page by page.                                                       *)

PageRow == [row : {"none", "live", "deleted"}, updatedAt : Nat]

PagesTyped ==
    /\ listRow \in [ListIds -> PageRow]
    /\ clock \in Nat
    /\ walk \in [pc : {"new", "walking", "done"}, backward : BOOLEAN, take : Nat,
                 cursor : ListIds \cup {NoCursor}, stamp : Nat]
    /\ shown \in Seq(ListIds)
    /\ steady \subseteq LiveRows
    /\ walk.pc # "new" => walk.take > 0
    /\ walk.pc = "new" => steady = {} /\ shown = << >> /\ walk.cursor = NoCursor

Never(i) == \A n \in DOMAIN shown : shown[n] # i
Once(i) == \E n \in DOMAIN shown : shown[n] = i /\ \A m \in DOMAIN shown : shown[m] = i => m = n

(* The row lies, in the direction of the walk, where the cursor's row lay     *)
(* when it became the cursor, or before.                                      *)
ReachedBy(b, cursor, stamp, i) ==
    LET t == listRow[i].updatedAt
    IN  IF b THEN t < stamp \/ (t = stamp /\ i <= cursor)
        ELSE t > stamp \/ (t = stamp /\ i >= cursor)
Reached(i) == ReachedBy(walk.backward, walk.cursor, walk.stamp, i)

(* Steady rows up to the cursor were shown, those behind it were not.         *)
WalkKept ==
    /\ walk.pc = "walking" /\ walk.cursor = NoCursor => \A i \in steady : Never(i)
    /\ walk.pc = "walking" /\ walk.cursor # NoCursor =>
          \A i \in steady : IF Reached(i) THEN Once(i) ELSE Never(i)
    /\ walk.pc = "done" => \A i \in steady : Once(i)

PagesInv == PagesTyped /\ (slipped = {} => WalkKept)

-----------------------------------------------------------------------------
(* The order of a finite set of rows.                                        *)

Rank(b, from, i) == Cardinality({j \in from : Before(b, j, i)})

(* The order of a list is strict and total, whichever way it is read.         *)
LEMMA OrderTotal ==
    ASSUME PagesTyped, NEW b \in BOOLEAN
    PROVE  /\ \A i \in ListIds : ~Before(b, i, i)
           /\ \A i, j \in ListIds : i # j => Before(b, i, j) \/ Before(b, j, i)
           /\ \A i, j, k \in ListIds : Before(b, i, j) /\ Before(b, j, k) => Before(b, i, k)
<1>1. ListIds \subseteq Nat /\ \A i \in ListIds : listRow[i].updatedAt \in Nat
  BY RowPagesAssumption DEF PagesTyped, PageRow
<1>2. \A i, j \in ListIds :
         /\ Before(b, i, j) => ~Before(b, j, i)
         /\ i # j => Before(b, i, j) \/ Before(b, j, i)
  BY <1>1 DEF Before, OrderBy, InvertOrderBy
<1>3. ASSUME NEW i \in ListIds, NEW j \in ListIds, NEW k \in ListIds,
             Before(b, i, j), Before(b, j, k)
      PROVE  Before(b, i, k)
  <2> DEFINE t(x) == listRow[x].updatedAt
  <2>1. /\ t(i) \in Nat /\ t(j) \in Nat /\ t(k) \in Nat
        /\ i \in Nat /\ j \in Nat /\ k \in Nat
    BY <1>1
  <2>2. CASE b
    BY <1>3, <2>1, <2>2 DEF Before, OrderBy, InvertOrderBy
  <2>3. CASE ~b
    BY <1>3, <2>1, <2>3 DEF Before, OrderBy, InvertOrderBy
  <2>4. QED BY <2>2, <2>3
<1>4. QED BY <1>2, <1>3

(* A row before another has fewer rows before it.                             *)
LEMMA RankGrows ==
    ASSUME PagesTyped, NEW b \in BOOLEAN, NEW from \in SUBSET ListIds,
           NEW i \in from, NEW j \in from, Before(b, i, j)
    PROVE  Rank(b, from, i) < Rank(b, from, j)
<1> DEFINE Lower(k) == {x \in from : Before(b, x, k)}
<1>1. IsFiniteSet(from)
  BY RowPagesAssumption, FS_Subset
<1>2. Lower(i) \subseteq Lower(j) /\ i \in Lower(j) \ Lower(i)
  BY OrderTotal
<1>3. IsFiniteSet(Lower(j)) /\ IsFiniteSet(Lower(i))
  BY <1>1, FS_Subset
<1>4. /\ Cardinality(Lower(i)) <= Cardinality(Lower(j))
      /\ Cardinality(Lower(i)) # Cardinality(Lower(j))
  <2> HIDE DEF Lower
  <2>1. QED BY <1>2, <1>3, FS_Subset
<1>5. Cardinality(Lower(i)) \in Nat /\ Cardinality(Lower(j)) \in Nat
  BY <1>3, FS_CardinalityType
<1>6. QED BY <1>4, <1>5 DEF Rank

LEMMA RankType ==
    ASSUME PagesTyped, NEW b \in BOOLEAN, NEW from \in SUBSET ListIds, NEW i \in from
    PROVE  Cardinality(from) \in Nat /\ Rank(b, from, i) \in 0..Cardinality(from) - 1
<1> DEFINE Lower == {x \in from : Before(b, x, i)}
<1>1. IsFiniteSet(from)
  BY RowPagesAssumption, FS_Subset
<1>2. Lower \subseteq from /\ Lower # from
  BY OrderTotal
<1>3. IsFiniteSet(Lower) /\ Cardinality(Lower) <= Cardinality(from)
      /\ Cardinality(Lower) # Cardinality(from)
  <2> HIDE DEF Lower
  <2>1. QED BY <1>1, <1>2, FS_Subset
<1>4. Cardinality(Lower) \in Nat /\ Cardinality(from) \in Nat
  BY <1>1, <1>3, FS_CardinalityType
<1>5. QED BY <1>3, <1>4 DEF Rank

(* Every rank below their number is the rank of one of the rows.              *)
LEMMA RanksTaken ==
    ASSUME PagesTyped, NEW b \in BOOLEAN, NEW from \in SUBSET ListIds,
           NEW n \in 1..Cardinality(from)
    PROVE  \E i \in from : Rank(b, from, i) = n - 1
<1> DEFINE N == Cardinality(from)
           f == [i \in from |-> Rank(b, from, i)]
<1>1. IsFiniteSet(from) /\ N \in Nat
  BY RowPagesAssumption, FS_Subset, FS_CardinalityType
<1>2. f \in [from -> 0..N - 1]
  BY RankType
<1>3. \A i, j \in from : f[i] = f[j] => i = j
  <2>1. SUFFICES ASSUME NEW i \in from, NEW j \in from, f[i] = f[j], i # j PROVE FALSE
    OBVIOUS
  <2>2. f[i] \in Int /\ f[j] \in Int
    BY RankType
  <2>3. CASE Before(b, i, j)
    BY <2>1, <2>2, <2>3, RankGrows
  <2>4. CASE Before(b, j, i)
    BY <2>1, <2>2, <2>4, RankGrows
  <2>5. QED BY <2>1, <2>3, <2>4, OrderTotal
<1>4. IsFiniteSet(0..N - 1) /\ Cardinality(0..N - 1) = N
  <2> HIDE DEF N
  <2>1. 0 \in Int /\ N - 1 \in Int
    BY <1>1
  <2>2. IsFiniteSet(0..N - 1)
        /\ Cardinality(0..N - 1) = IF 0 > N - 1 THEN 0 ELSE (N - 1) - 0 + 1
    BY <2>1, FS_Interval
  <2>3. QED BY <1>1, <2>2
<1> HIDE DEF f
<1>5. f \in Injection(from, 0..N - 1)
  BY <1>2, <1>3 DEF Injection, IsInjective
<1>6. f \in Surjection(from, 0..N - 1)
  BY <1>4, <1>5, FS_Injection
<1>7. n - 1 \in 0..N - 1
  BY <1>1
<1>8. PICK i \in from : f[i] = n - 1
  BY <1>6, <1>7 DEF Surjection
<1>9. QED BY <1>8 DEF f

(* InOrder lists every row of the set at the place its rank tells.            *)
LEMMA OrderedRows ==
    ASSUME PagesTyped, NEW b \in BOOLEAN, NEW from \in SUBSET ListIds
    PROVE  LET rows == InOrder(b, from)
           IN  /\ rows \in Seq(from) /\ Len(rows) = Cardinality(from)
               /\ \A i \in from : /\ Rank(b, from, i) + 1 \in 1..Len(rows)
                                  /\ rows[Rank(b, from, i) + 1] = i
               /\ \A n \in 1..Len(rows) : rows[n] \in from /\ Rank(b, from, rows[n]) = n - 1
<1> DEFINE rows == InOrder(b, from)
           N == Cardinality(from)
<1>1. N \in Nat
  BY RowPagesAssumption, FS_Subset, FS_CardinalityType
<1>2. \A n \in 1..N : rows[n] \in from /\ Rank(b, from, rows[n]) = n - 1
  <2>1. TAKE n \in 1..N
  <2>2. \E i \in from : Rank(b, from, i) = n - 1
    BY RanksTaken
  <2>3. rows[n] = CHOOSE i \in from : Rank(b, from, i) = n - 1
    BY DEF InOrder, Rank
  <2>4. QED BY <2>2, <2>3
<1>3. DOMAIN rows = 1..N
  BY DEF InOrder
<1>4. rows \in [1..N -> from]
  BY <1>2 DEF InOrder
<1>5. rows \in Seq(from) /\ Len(rows) = N
  BY <1>1, <1>3, <1>4
<1>6. ASSUME NEW i \in from
      PROVE  Rank(b, from, i) + 1 \in 1..N /\ rows[Rank(b, from, i) + 1] = i
  <2> DEFINE k == Rank(b, from, i)
  <2>1. k \in 0..N - 1
    BY RankType
  <2>2. k + 1 \in 1..N /\ (k + 1) - 1 = k
    BY <1>1, <2>1
  <2>3. rows[k + 1] \in from /\ Rank(b, from, rows[k + 1]) = k
    BY <1>2, <2>2
  <2>4. ~Before(b, i, rows[k + 1]) /\ ~Before(b, rows[k + 1], i)
    BY <2>1, <2>3, RankGrows
  <2>5. QED BY <2>2, <2>3, <2>4, OrderTotal
<1> HIDE DEF rows
<1>7. QED BY <1>2, <1>5, <1>6 DEF rows

-----------------------------------------------------------------------------
(* One page.                                                                 *)

From(b, c) == IF c = NoCursor THEN LiveRows ELSE {i \in LiveRows : ~Before(b, i, c)}
Skip(c) == IF c = NoCursor THEN 0 ELSE 1

(* The page has the rows from rank Skip on, each at its place.                *)
PageOf(page, b, c) ==
    /\ page \in Seq(From(b, c))
    /\ \A n \in 1..Len(page) : Rank(b, From(b, c), page[n]) = n - 1 + Skip(c)
    /\ \A i \in From(b, c) :
          LET k == Rank(b, From(b, c), i)
          IN  Skip(c) <= k /\ k < Skip(c) + Len(page) => page[k - Skip(c) + 1] = i

LEMMA FoundRows ==
    ASSUME PagesTyped, NEW b \in BOOLEAN, NEW c \in ListIds \cup {NoCursor}, NEW take \in Nat
    PROVE  LET rows == FindMany(b, c, take)
           IN  /\ PageOf(rows, b, c)
               /\ Len(rows) <= take
               /\ Len(rows) < take => Cardinality(From(b, c)) <= Skip(c) + Len(rows)
<1> DEFINE from == From(b, c)
           all == InOrder(b, from)
           skip == Skip(c)
           hi == IF skip + take < Len(all) THEN skip + take ELSE Len(all)
           rows == SubSeq(all, skip + 1, hi)
<1>1. FindMany(b, c, take) = rows
  BY DEF FindMany, From, Skip
<1>2. from \in SUBSET ListIds /\ skip \in {0, 1}
  BY DEF From, LiveRows, Skip
<1>3. /\ all \in Seq(from) /\ Len(all) = Cardinality(from)
      /\ \A i \in from : /\ Rank(b, from, i) + 1 \in 1..Len(all)
                         /\ all[Rank(b, from, i) + 1] = i
      /\ \A n \in 1..Len(all) : all[n] \in from /\ Rank(b, from, all[n]) = n - 1
  BY <1>2, OrderedRows
<1>4. ASSUME NEW i \in from PROVE Rank(b, from, i) \in Nat
  <2>1. Rank(b, from, i) \in 0..Cardinality(from) - 1
    BY <1>2, RankType
  <2>2. QED BY <2>1
<1> HIDE DEF all, from, skip
<1>5. Len(all) \in Nat /\ hi \in Nat /\ hi <= Len(all)
  BY <1>2, <1>3
<1>6. /\ rows \in Seq(from)
      /\ Len(rows) = IF hi < skip THEN 0 ELSE hi - skip
      /\ \A n \in 1..Len(rows) : rows[n] = all[n + skip] /\ n + skip \in 1..Len(all)
  <2> HIDE DEF hi
  <2>1. CASE hi <= skip
    <3>1. rows = << >>
      <4>1. hi < skip + 1 /\ skip + 1 \in Int /\ hi \in Int
        BY <1>2, <1>5, <2>1
      <4>2. QED BY <1>3, <4>1, SubSeqEmpty
    <3>2. QED BY <1>2, <1>5, <2>1, <3>1
  <2>2. CASE skip < hi
    <3>1. /\ skip + 1 \in Int /\ hi \in Int /\ skip + 1 <= hi
          /\ \A n \in skip + 1..hi : all[n] \in from
      BY <1>2, <1>3, <1>5, <2>2
    <3>2. /\ rows \in Seq(from) /\ Len(rows) = hi - (skip + 1) + 1
          /\ \A n \in 1..hi - (skip + 1) + 1 : rows[n] = all[(skip + 1) + n - 1]
      BY <3>1, SubSeqProperties
    <3> HIDE DEF rows
    <3>3. Len(rows) = hi - skip
      BY <1>2, <1>5, <3>2
    <3>4. ASSUME NEW n \in 1..Len(rows)
          PROVE  rows[n] = all[n + skip] /\ n + skip \in 1..Len(all)
      <4>1. n \in 1..hi - (skip + 1) + 1 /\ (skip + 1) + n - 1 = n + skip
        BY <1>2, <1>5, <3>3
      <4>2. QED BY <1>2, <1>5, <3>2, <3>3, <4>1
    <3>5. QED BY <1>2, <1>5, <2>2, <3>2, <3>3, <3>4
  <2>3. QED BY <1>2, <1>5, <2>1, <2>2
<1>7. ASSUME NEW n \in 1..Len(rows) PROVE Rank(b, from, rows[n]) = n - 1 + skip
  <2> HIDE DEF rows, hi
  <2>1. rows[n] = all[n + skip] /\ n + skip \in 1..Len(all)
    BY <1>6
  <2>2. Rank(b, from, all[n + skip]) = (n + skip) - 1
    BY <1>3, <2>1
  <2>3. n \in Int /\ skip \in Int
    BY <1>2
  <2>4. QED BY <2>1, <2>2, <2>3
<1>8. ASSUME NEW i \in from, skip <= Rank(b, from, i), Rank(b, from, i) < skip + Len(rows)
      PROVE  rows[Rank(b, from, i) - skip + 1] = i
  <2> DEFINE k == Rank(b, from, i)
  <2>1. k \in Nat /\ all[k + 1] = i
    BY <1>3, <1>4
  <2>2. skip <= k /\ k < skip + Len(rows)
    BY <1>8
  <2> HIDE DEF k, rows, hi
  <2>3. Len(rows) \in Nat /\ skip \in Nat
    BY <1>2, <1>5, <1>6
  <2>4. k - skip + 1 \in 1..Len(rows) /\ (k - skip + 1) + skip = k + 1
    BY <2>1, <2>2, <2>3
  <2>5. rows[k - skip + 1] = all[(k - skip + 1) + skip]
    BY <1>6, <2>4
  <2>6. QED BY <2>1, <2>4, <2>5 DEF k
<1>9. Len(rows) <= take /\ (Len(rows) < take => Cardinality(from) <= skip + Len(rows))
  BY <1>2, <1>3, <1>5, <1>6
<1> HIDE DEF rows
<1>10. QED BY <1>1, <1>6, <1>7, <1>8, <1>9 DEF PageOf, from, skip

(* What one call of findAll shows and where it leaves the walker.             *)
LEMMA PageShown ==
    ASSUME PagesTyped, NextPage
    PROVE  LET b == walk.backward
               c == walk.cursor
           IN  \E page :
                 /\ PageOf(page, b, c)
                 /\ shown' = shown \o page
                 /\ \/ /\ Len(page) = walk.take
                       /\ walk' = [walk EXCEPT !.cursor = page[Len(page)],
                                               !.stamp = listRow[page[Len(page)]].updatedAt]
                    \/ /\ Cardinality(From(b, c)) <= Skip(c) + Len(page)
                       /\ walk' = [walk EXCEPT !.pc = "done"]
<1> DEFINE b == walk.backward
           c == walk.cursor
           take == walk.take
           rows == FindMany(b, c, take + 1)
           page == IF Len(rows) > take THEN SubSeq(rows, 1, take) ELSE rows
           edges == IF b THEN Reverse(page) ELSE page
           endCursor == EndCursor(edges)
<1>1. b \in BOOLEAN /\ c \in ListIds \cup {NoCursor} /\ take \in Nat \ {0}
  BY DEF PagesTyped, NextPage
<1>2. /\ PageOf(rows, b, c) /\ Len(rows) <= take + 1
      /\ Len(rows) < take + 1 => Cardinality(From(b, c)) <= Skip(c) + Len(rows)
  <2>1. take + 1 \in Nat
    BY <1>1
  <2>2. QED BY <1>1, <2>1, FoundRows
<1> HIDE DEF rows
<1>3. shown' = shown \o page
      /\ walk' = IF Len(rows) > take
                 THEN [walk EXCEPT !.cursor = endCursor, !.stamp = listRow[endCursor].updatedAt]
                 ELSE [walk EXCEPT !.pc = "done"]
  BY DEF NextPage, rows
<1>4. rows \in Seq(From(b, c)) /\ Len(rows) \in Nat
  BY <1>2 DEF PageOf
<1>5. CASE Len(rows) > take
  <2>1. /\ page \in Seq(From(b, c)) /\ Len(page) = take
        /\ \A n \in 1..take : page[n] = rows[n] /\ n \in 1..Len(rows)
    <3>1. 1 \in 1..Len(rows) + 1 /\ take \in 1 - 1..Len(rows)
      BY <1>1, <1>4, <1>5
    <3>2. LET p == SubSeq(rows, 1, take)
          IN  /\ p \in Seq(From(b, c)) /\ Len(p) = take - 1 + 1
              /\ \A n \in 1..take - 1 + 1 : p[n] = rows[1 + n - 1]
      BY <1>4, <3>1, SubSeqProperties
    <3>3. page = SubSeq(rows, 1, take)
      BY <1>5
    <3> HIDE DEF page
    <3>4. take - 1 + 1 = take /\ \A n \in 1..take : 1 + n - 1 = n /\ n \in 1..Len(rows)
      BY <1>1, <1>4, <1>5
    <3>5. QED BY <3>2, <3>3, <3>4
  <2>2. PageOf(page, b, c)
    <3>1. ASSUME NEW n \in 1..Len(page)
          PROVE  Rank(b, From(b, c), page[n]) = n - 1 + Skip(c)
      <4> HIDE DEF page
      <4>1. page[n] = rows[n] /\ n \in 1..Len(rows)
        BY <2>1
      <4>2. QED BY <1>2, <4>1 DEF PageOf
    <3>2. ASSUME NEW i \in From(b, c), Skip(c) <= Rank(b, From(b, c), i),
                 Rank(b, From(b, c), i) < Skip(c) + Len(page)
          PROVE  page[Rank(b, From(b, c), i) - Skip(c) + 1] = i
      <4> DEFINE k == Rank(b, From(b, c), i)
                 s == Skip(c)
      <4>1. k \in Nat /\ s \in {0, 1}
        <5>1. From(b, c) \in SUBSET ListIds
          BY DEF From, LiveRows
        <5>2. k \in 0..Cardinality(From(b, c)) - 1
          BY <1>1, <5>1, RankType
        <5>3. QED BY <5>2 DEF Skip
      <4>2. s <= k /\ k < s + Len(page)
        BY <3>2
      <4>3. s <= k /\ k < s + Len(rows) => rows[k - s + 1] = i
        BY <1>2 DEF PageOf
      <4> HIDE DEF k, s
      <4>4. k - s + 1 \in 1..take
        BY <1>1, <2>1, <4>1, <4>2
      <4>5. rows[k - s + 1] = i
        BY <1>1, <1>4, <1>5, <2>1, <4>1, <4>2, <4>3
      <4>6. QED BY <2>1, <4>4, <4>5 DEF k, s
    <3> HIDE DEF page
    <3>3. QED BY <2>1, <3>1, <3>2 DEF PageOf
  <2>3. endCursor = page[Len(page)]
    <3> HIDE DEF page
    <3>1. CASE b
      <4>1. Reverse(page) = [n \in 1..Len(page) |-> page[(Len(page) - n) + 1]]
        BY DEF Reverse
      <4>2. Reverse(page)[1] = page[Len(page)]
        BY <1>1, <2>1, <4>1
      <4>3. QED BY <1>1, <3>1, <4>2 DEF EndCursor
    <3>2. CASE ~b
      BY <3>2 DEF EndCursor
    <3>3. QED BY <3>1, <3>2
  <2>4. walk' = [walk EXCEPT !.cursor = page[Len(page)],
                             !.stamp = listRow[page[Len(page)]].updatedAt]
    BY <1>3, <1>5, <2>3
  <2> HIDE DEF page, endCursor
  <2>5. QED BY <1>3, <2>1, <2>2, <2>4
<1>6. CASE ~(Len(rows) > take)
  <2>1. page = rows /\ Len(rows) < take + 1
    BY <1>1, <1>4, <1>6
  <2>2. QED BY <1>2, <1>3, <1>6, <2>1
<1>7. QED BY <1>5, <1>6

-----------------------------------------------------------------------------
(* The walk.                                                                 *)

LEMMA PagesInit == ASSUME RowPagesInit PROVE PagesInv
<1> DEFINE N == Cardinality(ListIds)
<1>1. N \in Nat /\ ListIds \subseteq Nat
  BY RowPagesAssumption, FS_CardinalityType
<1>2. listRow = [i \in ListIds |-> IF i <= N - 1 THEN [row |-> "live", updatedAt |-> i]
                                   ELSE [row |-> "none", updatedAt |-> 0]]
  BY DEF RowPagesInit
<1> HIDE DEF N
<1>3. listRow \in [ListIds -> PageRow]
  BY <1>1, <1>2 DEF PageRow
<1>4. clock \in Nat
  BY <1>1 DEF RowPagesInit, N
<1>5. shown = << >> /\ steady = {} /\ walk = [pc |-> "new", backward |-> FALSE, take |-> 0,
                                           cursor |-> NoCursor, stamp |-> 0]
  BY DEF RowPagesInit
<1>6. PagesTyped
  BY <1>3, <1>4, <1>5 DEF PagesTyped
<1>7. WalkKept
  BY <1>5 DEF WalkKept
<1>8. QED BY <1>6, <1>7 DEF PagesInv

(* Before the first page nothing was shown.                                   *)
LEMMA StartKept ==
    ASSUME PagesInv, NEW b \in BOOLEAN, NEW n \in PageSizes, StartWalk(b, n)
    PROVE  PagesInv'
<1>1. Take(n) \in Nat /\ Take(n) > 0
  BY RowPagesAssumption DEF Take, MaxPageSize
<1>2. /\ walk' = [walk EXCEPT !.pc = "walking", !.backward = b, !.take = Take(n)]
      /\ steady' = LiveRows /\ UNCHANGED <<listRow, clock, shown, slipped>>
  BY DEF StartWalk
<1>3. PagesTyped'
  BY <1>1, <1>2 DEF PagesInv, PagesTyped, LiveRows
<1>4. walk'.pc = "walking" /\ walk'.cursor = NoCursor /\ shown' = << >>
  BY <1>2 DEF PagesInv, PagesTyped, StartWalk
<1>5. WalkKept'
  BY <1>4 DEF WalkKept, Never
<1>6. QED BY <1>3, <1>5 DEF PagesInv

(* A change takes its row out of the steady ones and leaves the others.       *)
LEMMA ChangeKept ==
    ASSUME PagesInv, NEW i \in ListIds, NEW old, NEW new \in {"live", "deleted"},
           Change(i, old, new)
    PROVE  PagesInv'
<1>1. /\ listRow' = [listRow EXCEPT ![i] = [row |-> new, updatedAt |-> clock + 1]]
      /\ clock' = clock + 1 /\ steady' = steady \ {i} /\ UNCHANGED <<walk, shown, slipped>>
      /\ walk.pc = "walking"
  BY DEF Change
<1>2. \A k \in ListIds \ {i} : listRow'[k] = listRow[k]
  BY <1>1 DEF PagesInv, PagesTyped
<1>3. listRow' \in [ListIds -> PageRow] /\ clock' \in Nat
  BY <1>1 DEF PagesInv, PagesTyped, PageRow
<1>4. steady' \subseteq LiveRows'
  BY <1>1, <1>2 DEF PagesInv, PagesTyped, LiveRows
<1>5. PagesTyped'
  BY <1>1, <1>3, <1>4 DEF PagesInv, PagesTyped
<1>6. \A k \in steady' : k \in steady /\ (Reached(k)' <=> Reached(k))
  BY <1>1, <1>2 DEF PagesInv, PagesTyped, LiveRows, Reached, ReachedBy
<1>7. \A k : (Never(k)' <=> Never(k)) /\ (Once(k)' <=> Once(k))
  BY <1>1 DEF Never, Once
<1>8. WalkKept => WalkKept'
  BY <1>1, <1>6, <1>7 DEF WalkKept
<1>9. QED BY <1>1, <1>5, <1>8 DEF PagesInv

(* What a page adds to the rows shown.                                        *)
LEMMA ShownMore ==
    ASSUME PagesTyped, NEW page \in Seq(ListIds), shown' = shown \o page, NEW i
    PROVE  /\ (\A n \in 1..Len(page) : page[n] # i) =>
                 (Never(i) => Never(i)') /\ (Once(i) => Once(i)')
           /\ \A n \in 1..Len(page) :
                 page[n] = i /\ (\A m \in 1..Len(page) : page[m] = i => m = n) /\ Never(i)
                    => Once(i)'
<1> DEFINE L == Len(shown)
<1>1. shown \in Seq(ListIds) /\ L \in Nat /\ Len(page) \in Nat
  BY DEF PagesTyped
<1>2. /\ DOMAIN shown = 1..L /\ DOMAIN shown' = 1..L + Len(page)
      /\ \A n \in 1..L : shown'[n] = shown[n]
      /\ \A n \in 1..Len(page) : shown'[L + n] = page[n]
      /\ \A n \in 1..L + Len(page) : n \notin 1..L => n - L \in 1..Len(page)
      /\ \A n \in 1..L + Len(page) : n \notin 1..L => shown'[n] = page[n - L]
  BY <1>1
<1> HIDE DEF L
<1>3. ASSUME \A n \in 1..Len(page) : page[n] # i, Never(i) PROVE Never(i)'
  <2>1. ASSUME NEW n \in 1..L + Len(page) PROVE shown'[n] # i
    <3>1. CASE n \in 1..L
      BY <1>2, <1>3, <3>1 DEF Never
    <3>2. CASE n \notin 1..L
      BY <1>2, <1>3, <3>2
    <3>3. QED BY <3>1, <3>2
  <2>2. QED BY <1>2, <2>1 DEF Never
<1>4. ASSUME \A n \in 1..Len(page) : page[n] # i, Once(i) PROVE Once(i)'
  <2>1. PICK n \in 1..L : shown[n] = i /\ \A m \in 1..L : shown[m] = i => m = n
    BY <1>2, <1>4 DEF Once
  <2>2. n \in DOMAIN shown' /\ shown'[n] = i
    BY <1>1, <1>2, <2>1
  <2>3. ASSUME NEW m \in DOMAIN shown', shown'[m] = i PROVE m = n
    <3>1. m \in 1..L + Len(page)
      BY <1>2, <2>3
    <3>2. CASE m \in 1..L
      BY <1>2, <2>1, <2>3, <3>2
    <3>3. CASE m \notin 1..L
      BY <1>2, <1>4, <2>3, <3>1, <3>3
    <3>4. QED BY <3>2, <3>3
  <2>4. QED BY <2>2, <2>3 DEF Once
<1>5. ASSUME NEW n \in 1..Len(page), page[n] = i, Never(i),
             \A m \in 1..Len(page) : page[m] = i => m = n
      PROVE  Once(i)'
  <2>1. L + n \in DOMAIN shown' /\ shown'[L + n] = i
    BY <1>1, <1>2, <1>5
  <2>2. ASSUME NEW m \in DOMAIN shown', shown'[m] = i PROVE m = L + n
    <3>1. m \notin 1..L
      BY <1>2, <1>5, <2>2 DEF Never
    <3>2. m - L \in 1..Len(page) /\ page[m - L] = i
      BY <1>2, <2>2, <3>1
    <3>3. m - L = n
      BY <1>5, <3>2
    <3>4. m \in 1..L + Len(page)
      BY <1>2, <2>2
    <3>5. \A k \in 1..L + Len(page) : k - L = n => k = L + n
      BY <1>1
    <3>6. QED BY <3>3, <3>4, <3>5
  <2>3. QED BY <2>1, <2>2 DEF Once
<1>6. QED BY <1>3, <1>4, <1>5

(* By the order of now: a row is reached when it is the cursor's or before it.*)
LEMMA ReachedIs ==
    ASSUME PagesTyped, NEW b \in BOOLEAN, NEW c \in ListIds, NEW i \in ListIds
    PROVE  ReachedBy(b, c, listRow[c].updatedAt, i) <=> i = c \/ Before(b, i, c)
<1>1. ListIds \subseteq Nat /\ \A k \in ListIds : listRow[k].updatedAt \in Nat
  BY RowPagesAssumption DEF PagesTyped, PageRow
<1>2. QED BY <1>1 DEF ReachedBy, Before, OrderBy, InvertOrderBy

(* The rows a page can still show: those at rank Skip or later.               *)
Ahead(b, c, i) == i \in From(b, c) /\ Skip(c) <= Rank(b, From(b, c), i)

(* The cursor's row, when it stands where it stood, is the first the query    *)
(* finds and the one it skips.                                                *)
LEMMA AheadIs ==
    ASSUME PagesTyped, NEW b \in BOOLEAN, NEW c \in LiveRows, NEW i \in LiveRows
    PROVE  /\ c \in From(b, c) /\ Rank(b, From(b, c), c) = 0
           /\ Ahead(b, c, i) <=> ~(i = c \/ Before(b, i, c))
<1>1. c \in ListIds /\ c # NoCursor /\ i \in ListIds
  BY RowPagesAssumption DEF LiveRows, NoCursor
<1>2. From(b, c) = {k \in LiveRows : ~Before(b, k, c)} /\ From(b, c) \in SUBSET ListIds
      /\ Skip(c) = 1
  BY <1>1 DEF From, LiveRows, Skip
<1>3. c \in From(b, c)
  BY <1>1, <1>2, OrderTotal
<1>4. Rank(b, From(b, c), c) = 0
  <2>1. {j \in From(b, c) : Before(b, j, c)} = {}
    BY <1>2
  <2>2. QED BY <2>1, FS_EmptySet DEF Rank
<1>5. CASE i = c
  BY <1>2, <1>3, <1>4, <1>5 DEF Ahead
<1>6. CASE Before(b, i, c)
  BY <1>2, <1>3, <1>4, <1>6 DEF Ahead
<1>7. CASE i # c /\ ~Before(b, i, c)
  <2>1. i \in From(b, c) /\ Before(b, c, i)
    BY <1>1, <1>2, <1>7, OrderTotal
  <2>2. Rank(b, From(b, c), c) < Rank(b, From(b, c), i)
    BY <1>2, <1>3, <2>1, RankGrows
  <2>3. Rank(b, From(b, c), i) \in 0..Cardinality(From(b, c)) - 1
    BY <1>2, <2>1, RankType
  <2>4. Skip(c) <= Rank(b, From(b, c), i)
    BY <1>2, <1>4, <2>2, <2>3
  <2>5. QED BY <1>3, <1>4, <1>7, <2>1, <2>4 DEF Ahead
<1>8. QED BY <1>3, <1>4, <1>5, <1>6, <1>7

(* A page shows exactly the next rows from those ahead, each of them once.    *)
LEMMA PageShows ==
    ASSUME PagesTyped, NEW b \in BOOLEAN, NEW c \in ListIds \cup {NoCursor}, NEW page,
           PageOf(page, b, c), shown' = shown \o page, NEW i \in LiveRows
    PROVE  /\ ~Ahead(b, c, i) => (Never(i) => Never(i)') /\ (Once(i) => Once(i)')
           /\ Ahead(b, c, i) /\ Never(i) =>
                 IF Rank(b, From(b, c), i) < Skip(c) + Len(page) THEN Once(i)' ELSE Never(i)'
<1> DEFINE from == From(b, c)
           k == Rank(b, from, i)
           s == Skip(c)
<1>1. from \in SUBSET ListIds /\ s \in {0, 1} /\ i \in ListIds
  BY DEF From, LiveRows, Skip
<1>2. page \in Seq(ListIds) /\ Len(page) \in Nat
  BY <1>1 DEF PageOf
<1>3. /\ \A n \in 1..Len(page) : page[n] \in from /\ Rank(b, from, page[n]) = n - 1 + s
      /\ i \in from /\ s <= k /\ k < s + Len(page) => page[k - s + 1] = i
  BY DEF PageOf
<1>4. i \in from => k \in Nat
  <2>1. i \in from => k \in 0..Cardinality(from) - 1
    BY <1>1, RankType
  <2>2. QED BY <2>1
<1> HIDE DEF k
<1>5. ASSUME NEW n \in 1..Len(page), page[n] = i
      PROVE  i \in from /\ s <= k /\ k < s + Len(page) /\ n = k - s + 1
  <2>1. i \in from /\ k = n - 1 + s
    BY <1>3, <1>5 DEF k
  <2>2. QED BY <1>1, <1>2, <2>1
<1>6. CASE ~Ahead(b, c, i)
  <2>1. \A n \in 1..Len(page) : page[n] # i
    BY <1>5, <1>6 DEF Ahead, k
  <2>2. QED BY <1>2, <1>6, <2>1, ShownMore
<1>7. CASE Ahead(b, c, i) /\ Never(i) /\ k < s + Len(page)
  <2>1. i \in from /\ s <= k
    BY <1>7 DEF Ahead, k
  <2>2. k - s + 1 \in 1..Len(page) /\ page[k - s + 1] = i
    BY <1>1, <1>2, <1>3, <1>4, <1>7, <2>1
  <2>3. Once(i)'
    BY <1>2, <1>5, <1>7, <2>2, ShownMore
  <2>4. QED BY <1>7, <2>3 DEF k
<1>8. CASE Ahead(b, c, i) /\ Never(i) /\ ~(k < s + Len(page))
  <2>1. \A n \in 1..Len(page) : page[n] # i
    BY <1>5, <1>8
  <2>2. Never(i)'
    BY <1>2, <1>8, <2>1, ShownMore
  <2>3. QED BY <1>8, <2>2 DEF k
<1>9. QED BY <1>6, <1>7, <1>8 DEF k

(* The next cursor has behind it the rows the page did not come to.           *)
LEMMA NextReached ==
    ASSUME PagesTyped, NEW b \in BOOLEAN, NEW c \in LiveRows \cup {NoCursor}, NEW page,
           PageOf(page, b, c), Len(page) > 0, NEW i \in LiveRows
    PROVE  LET e == page[Len(page)]
           IN  ReachedBy(b, e, listRow[e].updatedAt, i) <=>
                  ~Ahead(b, c, i) \/ Rank(b, From(b, c), i) < Skip(c) + Len(page)
<1> DEFINE from == From(b, c)
           e == page[Len(page)]
<1>1. from \in SUBSET LiveRows /\ from \in SUBSET ListIds /\ i \in ListIds
  BY DEF From, LiveRows
<1>2. Len(page) \in 1..Len(page)
  BY DEF PageOf
<1>3. e \in from /\ Rank(b, from, e) = Len(page) - 1 + Skip(c)
  BY <1>2 DEF PageOf
<1>4. ReachedBy(b, e, listRow[e].updatedAt, i) <=> i = e \/ Before(b, i, e)
  BY <1>1, <1>3, ReachedIs
<1>5. Skip(c) \in {0, 1} /\ Len(page) \in Nat
  BY DEF Skip, PageOf
<1>6. CASE Ahead(b, c, i)
  <2>1. i \in from
    BY <1>6 DEF Ahead
  <2>2. Rank(b, from, i) \in 0..Cardinality(from) - 1
    BY <1>1, <2>1, RankType
  <2>3. Before(b, i, e) => Rank(b, from, i) < Rank(b, from, e)
    BY <1>1, <1>3, <2>1, RankGrows
  <2>4. Before(b, e, i) => Rank(b, from, e) < Rank(b, from, i)
    BY <1>1, <1>3, <2>1, RankGrows
  <2>5. i = e \/ Before(b, i, e) \/ Before(b, e, i)
    BY <1>1, <1>3, OrderTotal
  <2>6. Before(b, i, e) \/ i = e <=> Rank(b, from, i) < Skip(c) + Len(page)
    <3>1. CASE i = e
      BY <1>3, <1>5, <3>1
    <3>2. CASE Before(b, i, e)
      BY <1>3, <1>5, <2>2, <2>3, <3>2
    <3>3. CASE Before(b, e, i)
      <4>1. i # e /\ ~Before(b, i, e)
        BY <1>3, <1>5, <2>2, <2>3, <2>4, <3>3
      <4>2. QED BY <1>3, <1>5, <2>2, <2>4, <3>3, <4>1
    <3>4. QED BY <2>5, <3>1, <3>2, <3>3
  <2>7. QED BY <1>4, <1>6, <2>6
<1>7. CASE ~Ahead(b, c, i)
  <2>1. c \in LiveRows
    <3>1. SUFFICES ASSUME c = NoCursor PROVE FALSE
      OBVIOUS
    <3>2. i \in from /\ Skip(c) = 0
      BY <3>1 DEF From, Skip
    <3>3. Rank(b, from, i) \in 0..Cardinality(from) - 1
      BY <1>1, <3>2, RankType
    <3>4. QED BY <1>7, <3>2, <3>3 DEF Ahead
  <2>2. c \in ListIds /\ c # NoCursor /\ Skip(c) = 1
    BY <2>1, RowPagesAssumption DEF LiveRows, NoCursor, Skip
  <2>3. Rank(b, from, c) = 0 /\ (i = c \/ Before(b, i, c))
    BY <1>7, <2>1, AheadIs
  <2>4. e # c
    BY <1>2, <1>3, <1>5, <2>2, <2>3
  <2>5. ~Before(b, e, c)
    BY <1>3, <2>2 DEF From
  <2>6. e \in ListIds /\ Before(b, c, e)
    BY <1>1, <1>3, <2>2, <2>4, <2>5, OrderTotal
  <2>7. Before(b, i, e)
    BY <1>1, <2>2, <2>3, <2>6, OrderTotal
  <2>8. QED BY <1>4, <1>7, <2>7
<1>8. QED BY <1>6, <1>7

LEMMA PageTyped ==
    ASSUME PagesInv, NextPage
    PROVE  PagesTyped'
<1> DEFINE b == walk.backward
           c == walk.cursor
<1>1. PICK page :
        /\ PageOf(page, b, c) /\ shown' = shown \o page
        /\ \/ /\ Len(page) = walk.take
              /\ walk' = [walk EXCEPT !.cursor = page[Len(page)],
                                      !.stamp = listRow[page[Len(page)]].updatedAt]
           \/ walk' = [walk EXCEPT !.pc = "done"]
  BY PageShown DEF PagesInv
<1>2. page \in Seq(ListIds) /\ From(b, c) \subseteq ListIds
  BY <1>1 DEF PageOf, From, LiveRows
<1>3. /\ walk.pc = "walking" /\ walk.take \in Nat /\ walk.take > 0
      /\ UNCHANGED <<listRow, clock, steady>>
  BY DEF NextPage, PagesInv, PagesTyped
<1>4. shown' \in Seq(ListIds)
  BY <1>1, <1>2 DEF PagesInv, PagesTyped
<1>5. /\ walk' \in [pc : {"new", "walking", "done"}, backward : BOOLEAN, take : Nat,
                    cursor : ListIds \cup {NoCursor}, stamp : Nat]
      /\ walk'.pc # "new" /\ walk'.take > 0
  <2>1. CASE walk' = [walk EXCEPT !.pc = "done"]
    BY <1>3, <2>1 DEF PagesInv, PagesTyped
  <2>2. CASE Len(page) = walk.take /\ walk' = [walk EXCEPT !.cursor = page[Len(page)],
                                          !.stamp = listRow[page[Len(page)]].updatedAt]
    <3>1. page[Len(page)] \in ListIds
      BY <1>2, <1>3, <2>2
    <3>2. listRow[page[Len(page)]].updatedAt \in Nat
      BY <3>1 DEF PagesInv, PagesTyped, PageRow
    <3>3. QED BY <1>3, <2>2, <3>1, <3>2 DEF PagesInv, PagesTyped
  <2>3. QED BY <1>1, <2>1, <2>2
<1>6. QED BY <1>3, <1>4, <1>5 DEF PagesInv, PagesTyped, LiveRows

LEMMA PageKept ==
    ASSUME PagesInv, NextPage, slipped' = {}
    PROVE  WalkKept'
<1> DEFINE b == walk.backward
           c == walk.cursor
<1>1. PICK page :
        /\ PageOf(page, b, c) /\ shown' = shown \o page
        /\ \/ /\ Len(page) = walk.take
              /\ walk' = [walk EXCEPT !.cursor = page[Len(page)],
                                      !.stamp = listRow[page[Len(page)]].updatedAt]
           \/ /\ Cardinality(From(b, c)) <= Skip(c) + Len(page)
              /\ walk' = [walk EXCEPT !.pc = "done"]
  BY PageShown DEF PagesInv
<1>2. /\ walk.pc = "walking" /\ b \in BOOLEAN /\ c \in ListIds \cup {NoCursor}
      /\ walk.take \in Nat /\ walk.take > 0
      /\ listRow' = listRow /\ steady' = steady /\ steady \subseteq LiveRows
  BY DEF NextPage, PagesInv, PagesTyped
<1>3. slipped = {} /\ (c # NoCursor => c \in LiveRows /\ listRow[c].updatedAt = walk.stamp)
  BY DEF NextPage
<1>4. WalkKept
  BY <1>3 DEF PagesInv
<1>5. ASSUME NEW i \in steady
      PROVE  IF Ahead(b, c, i) THEN Never(i) ELSE Once(i)
  <2>1. i \in LiveRows
    BY <1>2
  <2>2. CASE c = NoCursor
    <3>1. Never(i)
      BY <1>2, <1>4, <2>2 DEF WalkKept
    <3>2. i \in From(b, c) /\ Skip(c) = 0 /\ From(b, c) \in SUBSET ListIds
      BY <2>1, <2>2 DEF From, Skip, LiveRows
    <3>3. Rank(b, From(b, c), i) \in 0..Cardinality(From(b, c)) - 1
      BY <1>2, <3>2, RankType DEF PagesInv
    <3>4. QED BY <3>1, <3>2, <3>3 DEF Ahead
  <2>3. CASE c # NoCursor
    <3>1. c \in ListIds /\ i \in ListIds
      BY <1>2, <2>1, <2>3 DEF LiveRows
    <3>2. Reached(i) <=> i = c \/ Before(b, i, c)
      BY <1>2, <1>3, <2>3, <3>1, ReachedIs DEF Reached, PagesInv
    <3>3. Ahead(b, c, i) <=> ~Reached(i)
      BY <1>2, <1>3, <2>1, <2>3, <3>2, AheadIs DEF PagesInv
    <3>4. QED BY <1>2, <1>4, <2>3, <3>3 DEF WalkKept
  <2>4. QED BY <2>2, <2>3
<1>6. ASSUME NEW i \in steady
      PROVE  IF ~Ahead(b, c, i) \/ Rank(b, From(b, c), i) < Skip(c) + Len(page)
             THEN Once(i)' ELSE Never(i)'
  <2>1. i \in LiveRows
    BY <1>2
  <2>2. QED BY <1>1, <1>2, <1>5, <2>1, PageShows DEF PagesInv
<1>7. CASE /\ Len(page) = walk.take
           /\ walk' = [walk EXCEPT !.cursor = page[Len(page)],
                                   !.stamp = listRow[page[Len(page)]].updatedAt]
  <2> DEFINE e == page[Len(page)]
  <2>1. e \in ListIds
    BY <1>1, <1>2, <1>7 DEF PageOf, From, LiveRows
  <2>2. /\ walk'.pc = "walking" /\ walk'.cursor = e /\ e # NoCursor
        /\ walk'.backward = b /\ walk'.stamp = listRow[e].updatedAt
    BY <1>2, <1>7, <2>1, RowPagesAssumption DEF PagesInv, PagesTyped, NoCursor
  <2>3. ASSUME NEW i \in steady PROVE IF Reached(i)' THEN Once(i)' ELSE Never(i)'
    <3>1. ReachedBy(b, e, listRow[e].updatedAt, i) <=>
             ~Ahead(b, c, i) \/ Rank(b, From(b, c), i) < Skip(c) + Len(page)
      <4>1. c \in LiveRows \cup {NoCursor} /\ i \in LiveRows /\ Len(page) > 0
        BY <1>2, <1>3, <1>7
      <4>2. QED BY <1>1, <1>2, <4>1, NextReached DEF PagesInv
    <3>2. Reached(i)' <=> ReachedBy(b, e, listRow[e].updatedAt, i)
      BY <1>2, <2>2 DEF Reached, ReachedBy
    <3>3. QED BY <1>6, <3>1, <3>2
  <2>4. QED BY <1>2, <2>2, <2>3 DEF WalkKept
<1>8. CASE /\ Cardinality(From(b, c)) <= Skip(c) + Len(page)
           /\ walk' = [walk EXCEPT !.pc = "done"]
  <2>1. walk'.pc = "done"
    BY <1>8 DEF PagesInv, PagesTyped
  <2>2. ASSUME NEW i \in steady PROVE Once(i)'
    <3>1. CASE ~Ahead(b, c, i)
      BY <1>6, <3>1
    <3>2. CASE Ahead(b, c, i)
      <4>1. i \in From(b, c) /\ From(b, c) \in SUBSET ListIds
        BY <3>2 DEF Ahead, From, LiveRows
      <4>2. /\ Cardinality(From(b, c)) \in Nat
            /\ Rank(b, From(b, c), i) \in 0..Cardinality(From(b, c)) - 1
        BY <1>2, <4>1, RankType DEF PagesInv
      <4>3. Skip(c) \in {0, 1} /\ Len(page) \in Nat
        BY <1>1 DEF Skip, PageOf
      <4>4. Rank(b, From(b, c), i) < Skip(c) + Len(page)
        BY <1>8, <4>2, <4>3
      <4>5. QED BY <1>6, <4>4
    <3>3. QED BY <3>1, <3>2
  <2>3. QED BY <1>2, <2>1, <2>2 DEF WalkKept
<1>9. QED BY <1>1, <1>7, <1>8

LEMMA PagesStep == ASSUME PagesInv, [RowPagesNext]_rowPagesVars PROVE PagesInv'
<1>1. CASE \E b \in BOOLEAN, n \in PageSizes : StartWalk(b, n)
  BY <1>1, StartKept
<1>2. CASE NextPage
  BY <1>2, PageTyped, PageKept DEF PagesInv
<1>3. CASE \E i \in ListIds : CreateRow(i) \/ UpdateRow(i) \/ DeleteRow(i)
  <2>1. PICK i \in ListIds : CreateRow(i) \/ UpdateRow(i) \/ DeleteRow(i)
    BY <1>3
  <2>2. PICK old \in {"none", "live"}, new \in {"live", "deleted"} : Change(i, old, new)
    BY <2>1 DEF CreateRow, UpdateRow, DeleteRow
  <2>3. QED BY <2>2, ChangeKept
<1>4. CASE UNCHANGED rowPagesVars
  <2>1. PagesTyped'
    BY <1>4 DEF rowPagesVars, PagesInv, PagesTyped, LiveRows
  <2>2. WalkKept => WalkKept'
    BY <1>4 DEF rowPagesVars, WalkKept, Never, Once, Reached, ReachedBy
  <2>3. QED BY <1>4, <2>1, <2>2 DEF rowPagesVars, PagesInv
<1>5. QED BY <1>1, <1>2, <1>3, <1>4 DEF RowPagesNext

(* No row and no cursor is stamped later than the clock, and the clock stops. *)
Stamped ==
    /\ clock <= MaxStamp
    /\ \A i \in ListIds : listRow[i].updatedAt <= clock
    /\ walk.stamp <= clock
    /\ slipped \subseteq {"deleted", "moved"}

LEMMA StampIs == MaxStamp \in Nat /\ Cardinality(ListIds) <= MaxStamp
BY RowPagesAssumption, FS_CardinalityType DEF MaxStamp

LEMMA StampedAtStart == ASSUME RowPagesInit PROVE Stamped
<1>1. PICK N : N = Cardinality(ListIds)
  OBVIOUS
<1>2. N \in Nat /\ ListIds \subseteq Nat
  BY <1>1, RowPagesAssumption, FS_CardinalityType
<1>3. listRow = [i \in ListIds |-> IF i <= N - 1 THEN [row |-> "live", updatedAt |-> i]
                                   ELSE [row |-> "none", updatedAt |-> 0]]
  BY <1>1 DEF RowPagesInit
<1>4. clock = N /\ walk.stamp = 0 /\ slipped = {}
  BY <1>1 DEF RowPagesInit
<1>5. \A i \in ListIds : listRow[i].updatedAt <= N
  BY <1>2, <1>3
<1>6. QED BY <1>1, <1>2, <1>4, <1>5, StampIs DEF Stamped

LEMMA StampedStays ==
    ASSUME PagesTyped, Stamped, [RowPagesNext]_rowPagesVars PROVE Stamped'
<1>1. /\ clock \in Nat /\ listRow \in [ListIds -> PageRow]
      /\ walk \in [pc : {"new", "walking", "done"}, backward : BOOLEAN, take : Nat,
                   cursor : ListIds \cup {NoCursor}, stamp : Nat]
  BY DEF PagesTyped
<1>2. CASE UNCHANGED rowPagesVars
  BY <1>2 DEF rowPagesVars, Stamped
<1>3. ASSUME NEW b \in BOOLEAN, NEW n \in PageSizes, StartWalk(b, n) PROVE Stamped'
  <2>1. walk' = [walk EXCEPT !.pc = "walking", !.backward = b, !.take = Take(n)]
        /\ UNCHANGED <<listRow, clock, slipped>>
    BY <1>3 DEF StartWalk
  <2>2. QED BY <1>1, <2>1 DEF Stamped
<1>4. CASE NextPage
  <2>1. slipped' \subseteq {"deleted", "moved"} /\ UNCHANGED <<listRow, clock>>
    BY <1>4 DEF NextPage, Stamped
  <2>2. walk'.stamp <= clock
    <3>1. PICK page : /\ PageOf(page, walk.backward, walk.cursor)
                      /\ \/ /\ Len(page) = walk.take
                            /\ walk' = [walk EXCEPT !.cursor = page[Len(page)],
                                                    !.stamp = listRow[page[Len(page)]].updatedAt]
                         \/ walk' = [walk EXCEPT !.pc = "done"]
      BY <1>4, PageShown
    <3>2. CASE walk' = [walk EXCEPT !.pc = "done"]
      BY <1>1, <3>2 DEF Stamped
    <3>3. CASE /\ Len(page) = walk.take
               /\ walk' = [walk EXCEPT !.cursor = page[Len(page)],
                                       !.stamp = listRow[page[Len(page)]].updatedAt]
      <4>1. walk.take > 0
        BY <1>4 DEF PagesTyped, NextPage
      <4>2. page \in Seq(ListIds)
        BY <3>1 DEF PageOf, From, LiveRows
      <4>3. page[Len(page)] \in ListIds
        BY <1>1, <3>3, <4>1, <4>2
      <4>4. walk'.stamp = listRow[page[Len(page)]].updatedAt
        BY <1>1, <3>3
      <4>5. QED BY <4>3, <4>4 DEF Stamped
    <3>4. QED BY <3>1, <3>2, <3>3
  <2>3. QED BY <2>1, <2>2 DEF Stamped
<1>5. ASSUME NEW i \in ListIds, NEW old, NEW new \in {"live", "deleted"}, Change(i, old, new)
      PROVE  Stamped'
  <2>1. PICK m : m = [row |-> new, updatedAt |-> clock + 1]
    OBVIOUS
  <2>2. /\ clock < MaxStamp /\ clock' = clock + 1 /\ UNCHANGED <<walk, slipped>>
        /\ listRow' = [listRow EXCEPT ![i] = m]
    BY <1>5, <2>1 DEF Change
  <2>3. \A k \in ListIds : listRow'[k] = IF k = i THEN m ELSE listRow[k]
    BY <1>1, <2>2
  <2>4. \A k \in ListIds : listRow[k].updatedAt \in Nat
    BY <1>1 DEF PageRow
  <2>5. walk.stamp \in Nat /\ m.updatedAt = clock + 1
    BY <1>1, <2>1
  <2>6. QED BY <1>1, <2>2, <2>3, <2>4, <2>5, StampIs DEF Stamped
<1>6. QED
  BY <1>2, <1>3, <1>4, <1>5 DEF RowPagesNext, CreateRow, UpdateRow, DeleteRow

(* Lists: rows and pages keep their shape, and no row or cursor has a stamp  *)
(* later than the last one given out, the clock (findAll of the list         *)
(* services).                                                                *)
THEOREM PagesKeepType == RowPagesSpec => [](RowPagesTypeOK /\ Stamped)
<1>1. PagesInv => PagesTyped
  BY DEF PagesInv
<1>2. PagesTyped /\ Stamped => RowPagesTypeOK
  <2> SUFFICES ASSUME PagesTyped, Stamped PROVE RowPagesTypeOK
    OBVIOUS
  <2>1. /\ clock \in Nat /\ listRow \in [ListIds -> PageRow]
        /\ walk \in [pc : {"new", "walking", "done"}, backward : BOOLEAN, take : Nat,
                     cursor : ListIds \cup {NoCursor}, stamp : Nat]
        /\ shown \in Seq(ListIds) /\ steady \subseteq ListIds
    BY DEF PagesTyped, LiveRows
  <2>2. \A i \in ListIds : /\ listRow[i].updatedAt \in 0..MaxStamp
                           /\ listRow[i] \in PageRow
    BY <2>1, StampIs DEF Stamped, PageRow
  <2>3. \A i \in ListIds : listRow[i] \in [row : {"none", "live", "deleted"},
                                           updatedAt : 0..MaxStamp]
    BY <2>2 DEF PageRow
  <2>4. walk.stamp \in 0..MaxStamp /\ clock \in 0..MaxStamp
    BY <2>1, StampIs DEF Stamped
  <2>5. QED BY <2>1, <2>3, <2>4 DEF RowPagesTypeOK, Stamped
<1>3. QED BY <1>1, <1>2, PagesInit, PagesStep, StampedAtStart, StampedStays, PTL
          DEF RowPagesSpec

(* What is never shown is shown no times, what is shown once one time.        *)
LEMMA TimesIs ==
    ASSUME NEW i
    PROVE  (Never(i) => Times(i) = 0) /\ (Once(i) => Times(i) = 1)
<1>1. ASSUME Never(i) PROVE Times(i) = 0
  <2>1. {n \in DOMAIN shown : shown[n] = i} = {}
    BY <1>1 DEF Never
  <2>2. QED BY <2>1, FS_EmptySet DEF Times
<1>2. ASSUME Once(i) PROVE Times(i) = 1
  <2>1. PICK n \in DOMAIN shown : shown[n] = i /\ \A m \in DOMAIN shown : shown[m] = i => m = n
    BY <1>2 DEF Once
  <2>2. {m \in DOMAIN shown : shown[m] = i} = {n}
    BY <2>1
  <2>3. QED BY <2>2, FS_Singleton DEF Times
<1>3. QED BY <1>1, <1>2

(* A walk through a list shows every row nobody changed at most once, and     *)
(* has shown each of them when it is done, unless a cursor's row was deleted  *)
(* or updated before the next page (findAll with resolveCursorPaging).        *)
THEOREM WalksShowEachOnce == RowPagesSpec => []WalkShowsEachOnce
<1>1. PagesInv => WalkShowsEachOnce
  <2>1. SUFFICES ASSUME PagesInv, slipped = {}, NEW i \in steady
                 PROVE  Times(i) <= 1 /\ (walk.pc = "done" => Times(i) = 1)
    BY DEF WalkShowsEachOnce
  <2>2. walk.pc \in {"walking", "done"} /\ WalkKept
    BY <2>1 DEF PagesInv, PagesTyped
  <2>3. (Never(i) \/ Once(i)) /\ (walk.pc = "done" => Once(i))
    BY <2>2 DEF WalkKept
  <2>4. QED BY <2>3, TimesIs
<1>2. QED BY <1>1, PagesInit, PagesStep, PTL DEF RowPagesSpec
=============================================================================
