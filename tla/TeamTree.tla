------------------------------ MODULE TeamTree ------------------------------
(***************************************************************************)
(* The tree of teams (team.service.ts): create, update with a new parent,   *)
(* softDelete.  A move is refused when the new parent is below the team;    *)
(* the team, the parent and the subtree are read by three statements before *)
(* the fourth writes.  Memberships are in AccessTokens.                     *)
(***************************************************************************)
EXTENDS Naturals

CONSTANTS
    TreeTeams,
    TeamCallers,    \* requests that run an operation of this module
    MaxTeamCalls,   \* bound: operations started in a behaviour
    Root            \* "no parent"; also the team of an idle request

ASSUME TeamTreeAssumption == Root \notin TreeTeams /\ MaxTeamCalls \in Nat

VARIABLES
    team,           \* table teams: [row, parent]
    teamCall,       \* what each request is doing
    overtaken,      \* history: a team moved between the check of a move and its write
    teamCalls       \* operations started so far (bound only)

teamTreeVars == <<team, teamCall, overtaken, teamCalls>>

NoTeamCall == [pc |-> "idle", team |-> Root, parent |-> Root]

TeamTreeInit ==
    /\ team = [t \in TreeTeams |-> [row |-> "none", parent |-> Root]]
    /\ teamCall = [q \in TeamCallers |-> NoTeamCall]
    /\ overtaken = FALSE
    /\ teamCalls = 0

IsLive(t) == t \in TreeTeams /\ team[t].row = "live"

ExpandTeamTreeMutant(t) == {s \in TreeTeams : IsLive(s) /\ t \in {s, team[s].parent}}
(* expandTeamTree: t, if it is live, and the live teams below members of the *)
(* result: what any set that holds t and, with a team, its live children has *)
(* in it.  On a cycle the query, a UNION ALL, would not end.                 *)
HoldsTree(T, t) ==
    /\ IsLive(t) => t \in T
    /\ \A s \in TreeTeams : IsLive(s) /\ team[s].parent \in T => s \in T
ExpandTeamTree(t) ==
    {s \in TreeTeams : IsLive(s) /\ \A T \in SUBSET TreeTeams : HoldsTree(T, t) => s \in T}

-----------------------------------------------------------------------------
BeginTeamCall(q, call) ==
    /\ teamCall[q].pc = "idle"
    /\ teamCalls < MaxTeamCalls
    /\ teamCalls' = teamCalls + 1
    /\ teamCall' = [teamCall EXCEPT ![q] = call]
    /\ UNCHANGED <<team, overtaken>>

CreateTeam(q, t, p) ==
    /\ team[t].row = "none"
    /\ \A r \in TeamCallers : teamCall[r].team # t
    /\ p # Root => IsLive(p)
    /\ BeginTeamCall(q, [pc |-> "insert", team |-> t, parent |-> p])

(* update with a parentId; null makes the team a root without further checks. *)
MoveTeam(q, t, p) ==
    /\ IsLive(t)
    /\ BeginTeamCall(q, [pc |-> IF p = Root THEN "move" ELSE "parent", team |-> t, parent |-> p])

DeleteTeam(q, t) ==
    /\ IsLive(t)
    /\ BeginTeamCall(q, [pc |-> "delete", team |-> t, parent |-> Root])

FindNewParent(q) ==
    /\ teamCall[q].pc = "parent"
    /\ teamCall' = [teamCall EXCEPT ![q] = IF IsLive(@.parent) THEN [@ EXCEPT !.pc = "expand"]
                                           ELSE NoTeamCall]
    /\ UNCHANGED <<team, overtaken, teamCalls>>

CheckCycle(q) ==
    LET r == teamCall[q] IN
    /\ r.pc = "expand"
    /\ teamCall' = [teamCall EXCEPT ![q] = IF r.parent \in ExpandTeamTree(r.team) THEN NoTeamCall
                                           ELSE [r EXCEPT !.pc = "move"]]
    /\ UNCHANGED <<team, overtaken, teamCalls>>

(* The write, by id alone.  It takes effect while other moves may have been  *)
(* checked and not yet written; a delete ends a chain that a later create    *)
(* or move cannot restore, since a deleted team never comes back.            *)
WriteTeam(q) ==
    LET r == teamCall[q] IN
    /\ r.pc \in {"insert", "move", "delete"}
    /\ team' = [team EXCEPT ![r.team] =
          IF r.pc = "delete" THEN [@ EXCEPT !.row = "deleted"]
          ELSE [row |-> IF r.pc = "insert" THEN "live" ELSE @.row, parent |-> r.parent]]
    /\ overtaken' = (overtaken \/ (/\ r.pc = "move" /\ r.parent # Root
                                   /\ \E p \in TeamCallers \ {q} :
                                         teamCall[p].pc = "move" /\ teamCall[p].parent # Root))
    /\ teamCall' = [teamCall EXCEPT ![q] = NoTeamCall]
    /\ UNCHANGED teamCalls

TeamTreeNext == \E q \in TeamCallers :
    \/ \E t \in TreeTeams, p \in TreeTeams \cup {Root} : CreateTeam(q, t, p) \/ MoveTeam(q, t, p)
    \/ \E t \in TreeTeams : DeleteTeam(q, t)
    \/ FindNewParent(q) \/ CheckCycle(q) \/ WriteTeam(q)

TeamTreeSpec == TeamTreeInit /\ [][TeamTreeNext]_teamTreeVars

-----------------------------------------------------------------------------
TeamTreeTypeOK ==
    /\ team \in [TreeTeams -> [row : {"none", "live", "deleted"},
                               parent : TreeTeams \cup {Root}]]
    /\ teamCall \in [TeamCallers ->
          [pc : {"idle", "insert", "parent", "expand", "move", "delete"},
           team : TreeTeams \cup {Root}, parent : TreeTeams \cup {Root}]]
    /\ overtaken \in BOOLEAN
    /\ teamCalls \in 0..MaxTeamCalls

(* No chain of parents among live teams returns to where it began, so the    *)
(* query of expandTeamTree ends: each set of live teams has one whose parent *)
(* is outside the set.  Two moves that were both checked before either was   *)
(* written are the exception.                                                *)
LiveTeamsAreATree ==
    ~overtaken =>
        \A S \in SUBSET {t \in TreeTeams : IsLive(t)} :
            S # {} => \E t \in S : team[t].parent \notin S
=============================================================================
