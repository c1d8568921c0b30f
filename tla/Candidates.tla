----------------------------- MODULE Candidates -----------------------------
(***************************************************************************)
(* The two rules the API keeps by looking before it writes: no two live     *)
(* candidates share an email up to case (candidate.service.ts), and a       *)
(* client has one primary contact (client-contact.service.ts).  The         *)
(* database enforces less: exact emails are unique, deleted rows included,  *)
(* and nothing limits primary contacts.                                     *)
(***************************************************************************)
EXTENDS Naturals, FiniteSets

CONSTANTS
    CandidateIds, ContactIds,
    Mailboxes, Spellings,   \* an email is a mailbox in one of its spellings
    CrmCallers,             \* requests that run an operation of this module
    MaxCrmCalls,            \* bound: operations started in a behaviour
    NoEmail                 \* null; also the mailbox of a call that sets none

Emails == Mailboxes \X Spellings

ASSUME CandidatesAssumption == NoEmail \notin Emails /\ MaxCrmCalls \in Nat

VARIABLES
    candidate,      \* table candidates: [row, email]
    contact,        \* table client_contacts of one client: [row, primary]
    crmCall,        \* what each request is doing
    beaten,         \* history: candidates whose email was taken after their check
    twoPrimaries,   \* history: a primary contact was created after another's clear
    crmCalls        \* operations started so far (bound only)

candidatesVars == <<candidate, contact, crmCall, beaten, twoPrimaries, crmCalls>>

Row3 == {"none", "live", "deleted"}
NoCrmCall == [pc |-> "idle", id |-> NoEmail, email |-> NoEmail, primary |-> FALSE, late |-> FALSE]

CandidatesInit ==
    /\ candidate = [c \in CandidateIds |-> [row |-> "none", email |-> NoEmail]]
    /\ contact = [c \in ContactIds |-> [row |-> "none", primary |-> FALSE]]
    /\ crmCall = [q \in CrmCallers |-> NoCrmCall]
    /\ beaten = {} /\ twoPrimaries = FALSE
    /\ crmCalls = 0

Started(call) ==
    /\ crmCalls < MaxCrmCalls
    /\ crmCalls' = crmCalls + 1
    /\ crmCall' = call

SameMailbox(e, f) == e # NoEmail /\ f # NoEmail /\ e[1] = f[1]
Fresh(id) == \A q \in CrmCallers : crmCall[q].id # id

-----------------------------------------------------------------------------
(* create and update, up to the insensitive look-up among live rows.         *)
ConflictMutant(id, e) == \E d \in CandidateIds \ {id} :
                            candidate[d].row = "live" /\ e # NoEmail /\ candidate[d].email = e
Conflict(id, e) == \E d \in CandidateIds \ {id} :
                      candidate[d].row = "live" /\ SameMailbox(candidate[d].email, e)

StartCandidate(q, pc, c, e) ==
    /\ crmCall[q].pc = "idle"
    /\ ~Conflict(c, e)
    /\ Started([crmCall EXCEPT ![q] = [NoCrmCall EXCEPT !.pc = pc, !.id = c, !.email = e]])
    /\ UNCHANGED <<candidate, contact, beaten, twoPrimaries>>

CreateCandidateRow(q, c, e) ==
    candidate[c].row = "none" /\ Fresh(c) /\ StartCandidate(q, "insert", c, e)

UpdateEmail(q, c, e) == candidate[c].row = "live" /\ StartCandidate(q, "email", c, e)

(* The write; the unique index refuses an exact email any row holds.         *)
WriteCandidate(q) ==
    LET r == crmCall[q]
        taken == \E d \in CandidateIds \ {r.id} : r.email # NoEmail /\ candidate[d].email = r.email
        late == {p \in CrmCallers : crmCall[p].pc \in {"insert", "email"} /\ p # q
                                       /\ SameMailbox(crmCall[p].email, r.email)}
    IN  /\ r.pc \in {"insert", "email"}
        /\ IF taken
           THEN /\ UNCHANGED <<candidate, beaten>>
                /\ crmCall' = [crmCall EXCEPT ![q] = NoCrmCall]
           ELSE /\ candidate' = [candidate EXCEPT ![r.id] =
                      [row |-> IF r.pc = "insert" THEN "live" ELSE @.row, email |-> r.email]]
                /\ crmCall' = [p \in CrmCallers |-> IF p = q THEN NoCrmCall
                                 ELSE IF p \in late THEN [crmCall[p] EXCEPT !.late = TRUE]
                                 ELSE crmCall[p]]
                /\ beaten' = IF r.late THEN beaten \cup {r.id} ELSE beaten \ {r.id}
        /\ UNCHANGED <<contact, twoPrimaries, crmCalls>>

DeleteCandidate(c) ==
    /\ candidate[c].row = "live"
    /\ Started(crmCall)
    /\ candidate' = [candidate EXCEPT ![c].row = "deleted"]
    /\ UNCHANGED <<contact, beaten, twoPrimaries>>

-----------------------------------------------------------------------------
(* ClientContactService.create: the primaries are cleared, then the row is   *)
(* inserted.                                                                 *)
CreateContactMutant(q, c, primary) ==
    /\ contact[c].row = "none" /\ Fresh(c) /\ crmCall[q].pc = "idle"
    /\ Started([crmCall EXCEPT ![q] = [NoCrmCall EXCEPT !.pc = "contact", !.id = c,
                                                        !.primary = primary]])
    /\ UNCHANGED <<candidate, contact, beaten, twoPrimaries>>
CreateContact(q, c, primary) ==
    /\ contact[c].row = "none" /\ Fresh(c) /\ crmCall[q].pc = "idle"
    /\ Started([crmCall EXCEPT ![q] = [NoCrmCall EXCEPT !.pc = "contact", !.id = c,
                                                        !.primary = primary]])
    /\ contact' = IF primary
                  THEN [d \in ContactIds |-> IF contact[d].row = "live"
                                             THEN [contact[d] EXCEPT !.primary = FALSE]
                                             ELSE contact[d]]
                  ELSE contact
    /\ UNCHANGED <<candidate, beaten, twoPrimaries>>

InsertContact(q) ==
    LET r == crmCall[q] IN
    /\ r.pc = "contact"
    /\ contact' = [contact EXCEPT ![r.id] = [row |-> "live", primary |-> r.primary]]
    /\ twoPrimaries' = (twoPrimaries \/ (r.primary /\ \E p \in CrmCallers \ {q} :
                                           crmCall[p].pc = "contact" /\ crmCall[p].primary))
    /\ crmCall' = [crmCall EXCEPT ![q] = NoCrmCall]
    /\ UNCHANGED <<candidate, beaten, crmCalls>>

DeleteContact(c) ==
    /\ contact[c].row = "live"
    /\ Started(crmCall)
    /\ contact' = [contact EXCEPT ![c].row = "deleted"]
    /\ UNCHANGED <<candidate, beaten, twoPrimaries>>

(* A call that stops leaves what it wrote: at worst no primary contact.      *)
CrmCallStops(q) ==
    /\ crmCall[q].pc # "idle"
    /\ crmCall' = [crmCall EXCEPT ![q] = NoCrmCall]
    /\ UNCHANGED <<candidate, contact, beaten, twoPrimaries, crmCalls>>

CandidatesNext ==
    \/ \E q \in CrmCallers :
          \/ \E c \in CandidateIds, e \in Emails \cup {NoEmail} :
                CreateCandidateRow(q, c, e) \/ UpdateEmail(q, c, e)
          \/ \E c \in ContactIds, primary \in BOOLEAN : CreateContact(q, c, primary)
          \/ WriteCandidate(q) \/ InsertContact(q) \/ CrmCallStops(q)
    \/ \E c \in CandidateIds : DeleteCandidate(c)
    \/ \E c \in ContactIds : DeleteContact(c)

CandidatesSpec == CandidatesInit /\ [][CandidatesNext]_candidatesVars

-----------------------------------------------------------------------------
CandidatesTypeOK ==
    /\ candidate \in [CandidateIds -> [row : Row3, email : Emails \cup {NoEmail}]]
    /\ contact \in [ContactIds -> [row : Row3, primary : BOOLEAN]]
    /\ crmCall \in [CrmCallers ->
          [pc : {"idle", "insert", "email", "contact"},
           id : CandidateIds \cup ContactIds \cup {NoEmail},
           email : Emails \cup {NoEmail}, primary : BOOLEAN, late : BOOLEAN]]
    /\ beaten \subseteq CandidateIds /\ twoPrimaries \in BOOLEAN
    /\ crmCalls \in 0..MaxCrmCalls

(* Two live candidates have different mailboxes, unless one was written      *)
(* after another call took the mailbox it had found free.                    *)
LiveEmailsDiffer ==
    \A c, d \in CandidateIds \ beaten :
        /\ candidate[c].row = "live" /\ candidate[d].row = "live"
        /\ SameMailbox(candidate[c].email, candidate[d].email)
        => c = d

(* A client has at most one live primary contact, unless two were created at *)
(* the same time.                                                            *)
OnePrimaryContact ==
    ~twoPrimaries =>
        Cardinality({c \in ContactIds : contact[c].row = "live" /\ contact[c].primary}) <= 1
=============================================================================
