SPECIFICATION Spec
CONSTANTS
    Users = {u1}
    Roles = {r1, r2}
    Perms = {p1}
    Wildcard = All
    PermSets = {{p1}, {All}}
    Readers = {q1, q2}
    Writers = {w1, w2}
    MaxTime = 3
    MaxWrites = 2
    NoOne = NoOne
    ErrorEtag = ErrorEtag
    NoEtag = NoEtag
SYMMETRY Symmetry
CHECK_DEADLOCK FALSE
INVARIANTS
    TypeOK
    AnswersMissNothing
    AnswersAddNothing
