------------------------------ MODULE RowPages ------------------------------
(***************************************************************************)
(* Walking a list page by page (findAll of jobs, clients and candidates,    *)
(* which are alike) while rows are created, updated and deleted.  The       *)
(* default order is the latest update first, ties by id; a page after a     *)
(* cursor begins at the cursor's row, wherever that row is now, and skips   *)
(* one.  The query itself is Prisma's.                                      *)
(***************************************************************************)
EXTENDS Naturals, FiniteSets, Sequences, SequencesExt

CONSTANTS
    ListIds,        \* ids of rows, numbers but 0: ULIDs grow with creation
    PageSizes,      \* what the walker may ask for
    MaxListChanges  \* bound: creations, updates and deletions in a behaviour

ASSUME RowPagesAssumption ==
    /\ ListIds \subseteq Nat \ {0} /\ IsFiniteSet(ListIds)
    /\ PageSizes \subseteq Nat \ {0} /\ MaxListChanges \in Nat

VARIABLES
    listRow,    \* the rows: [row, updatedAt]
    clock,      \* the last updatedAt given out
    walk,       \* the walker: direction, page size, cursor, whether it is done
    shown,      \* the ids it was shown, in the order of its pages
    steady,     \* history: rows live at the start and not changed since
    slipped     \* history: what became of cursors: "deleted", "moved"

rowPagesVars == <<listRow, clock, walk, shown, steady, slipped>>

LiveRows == {i \in ListIds : listRow[i].row = "live"}
NoCursor == 0
MaxStamp == Cardinality(ListIds) + MaxListChanges

(* All ids but the last have a row; the walk has not begun.                       *)
RowPagesInit ==
    /\ \E n \in {Cardinality(ListIds) - 1} :
          listRow = [i \in ListIds |-> IF i <= n THEN [row |-> "live", updatedAt |-> i]
                                       ELSE [row |-> "none", updatedAt |-> 0]]
    /\ clock = Cardinality(ListIds)
    /\ walk = [pc |-> "new", backward |-> FALSE, take |-> 0, cursor |-> NoCursor, stamp |-> 0]
    /\ shown = <<>> /\ steady = {} /\ slipped = {}

-----------------------------------------------------------------------------
(* buildOrderBy (default): updatedAt descending, then id descending.         *)
OrderBy(i, j) == \/ listRow[i].updatedAt > listRow[j].updatedAt
                 \/ listRow[i].updatedAt = listRow[j].updatedAt /\ i > j
InvertOrderBy(i, j) == OrderBy(j, i)
Before(backward, i, j) == IF backward THEN InvertOrderBy(i, j) ELSE OrderBy(i, j)

(* The rows of a set from first to last: the n-th has n - 1 before it.        *)
InOrder(backward, from) ==
    [n \in 1..Cardinality(from) |->
        CHOOSE i \in from : Cardinality({j \in from : Before(backward, j, i)}) = n - 1]

(* findMany with where, orderBy, cursor and skip: the live rows at or behind *)
(* the cursor's row, which need not be live itself, without the first.       *)
FindManyMutant(backward, cursor, take) ==
    LET from == IF cursor = NoCursor THEN LiveRows
                ELSE {i \in LiveRows : ~Before(backward, i, cursor)}
        rows == InOrder(backward, from)
    IN  SubSeq(rows, 2, IF 1 + take < Len(rows) THEN 1 + take ELSE Len(rows))
FindMany(backward, cursor, take) ==
    LET from == IF cursor = NoCursor THEN LiveRows
                ELSE {i \in LiveRows : ~Before(backward, i, cursor)}
        rows == InOrder(backward, from)
        skip == IF cursor = NoCursor THEN 0 ELSE 1
    IN  SubSeq(rows, skip + 1, IF skip + take < Len(rows) THEN skip + take ELSE Len(rows))

(* resolveCursorPaging: last or before walk backward, sizes are capped.      *)
MaxPageSize == 100
Take(requested) == IF requested < MaxPageSize THEN requested ELSE MaxPageSize

StartWalk(backward, requested) ==
    /\ walk.pc = "new"
    /\ walk' = [walk EXCEPT !.pc = "walking", !.backward = backward, !.take = Take(requested)]
    /\ steady' = LiveRows
    /\ UNCHANGED <<listRow, clock, shown, slipped>>

(* findAll: one row more than the page tells whether another page exists.    *)
(* Backward pages are turned round for display; the walker goes on from the  *)
(* edge that is farthest, which is the last row of the query either way.     *)
EndCursor(page) == IF walk.backward THEN Head(page) ELSE page[Len(page)]

NextPage ==
    LET rows == FindMany(walk.backward, walk.cursor, walk.take + 1)
        hasExtra == Len(rows) > walk.take
        page == IF hasExtra THEN SubSeq(rows, 1, walk.take) ELSE rows
        edges == IF walk.backward THEN Reverse(page) ELSE page
        endCursor == EndCursor(edges)
        c == walk.cursor
    IN  /\ walk.pc = "walking"
        /\ shown' = shown \o page
        /\ walk' = IF hasExtra
                   THEN [walk EXCEPT !.cursor = endCursor,
                                     !.stamp = listRow[endCursor].updatedAt]
                   ELSE [walk EXCEPT !.pc = "done"]
        /\ slipped' = slipped
              \cup (IF c # NoCursor /\ c \notin LiveRows THEN {"deleted"} ELSE {})
              \cup (IF c # NoCursor /\ listRow[c].updatedAt # walk.stamp THEN {"moved"} ELSE {})
        /\ UNCHANGED <<listRow, clock, steady>>

(* Another request writes a row; a deletion leaves updatedAt new as well.    *)
Change(i, old, new) ==
    /\ walk.pc = "walking"
    /\ listRow[i].row = old
    /\ clock < MaxStamp
    /\ clock' = clock + 1
    /\ listRow' = [listRow EXCEPT ![i] = [row |-> new, updatedAt |-> clock + 1]]
    /\ steady' = steady \ {i}
    /\ UNCHANGED <<walk, shown, slipped>>

CreateRow(i) == Change(i, "none", "live")
UpdateRow(i) == Change(i, "live", "live")
DeleteRow(i) == Change(i, "live", "deleted")

RowPagesNext ==
    \/ \E backward \in BOOLEAN, n \in PageSizes : StartWalk(backward, n)
    \/ NextPage
    \/ \E i \in ListIds : CreateRow(i) \/ UpdateRow(i) \/ DeleteRow(i)

RowPagesSpec == RowPagesInit /\ [][RowPagesNext]_rowPagesVars

-----------------------------------------------------------------------------
RowPagesTypeOK ==
    /\ listRow \in [ListIds -> [row : {"none", "live", "deleted"}, updatedAt : 0..MaxStamp]]
    /\ clock \in 0..MaxStamp
    /\ walk \in [pc : {"new", "walking", "done"}, backward : BOOLEAN, take : Nat,
                 cursor : ListIds \cup {NoCursor}, stamp : 0..MaxStamp]
    /\ shown \in Seq(ListIds)
    /\ steady \subseteq ListIds /\ slipped \subseteq {"deleted", "moved"}

Times(i) == Cardinality({n \in DOMAIN shown : shown[n] = i})

(* No walk shows a row twice that nobody changed, and a walk that is done    *)
(* has shown every such row; unless the row a cursor stood on was deleted or *)
(* updated before the next page.                                             *)
WalkShowsEachOnce ==
    slipped = {} => \A i \in steady :
        /\ Times(i) <= 1
        /\ walk.pc = "done" => Times(i) = 1
=============================================================================
