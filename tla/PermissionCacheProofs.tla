------------------------ MODULE PermissionCacheProofs ------------------------
(* Proofs about PermissionCache for every number of users, roles, readers    *)
(* and writers, however far the clock runs and however many writes race.     *)
EXTENDS PermissionCache, WellFoundedInduction, TLAPS

-----------------------------------------------------------------------------
(* The inductive invariants. *)

Stamp(u, r) == Greatest(assignedAt[<<u, r>>], role[r].updatedAt)

(* Nothing is stamped with a time to come. *)
TablesTyped ==
    /\ now \in Nat
    /\ role \in [Roles -> [exists : BOOLEAN, perms : SUBSET AllPerms, updatedAt : Nat \ {0}]]
    /\ assignedAt \in [Users \X Roles -> Nat]
    /\ \A r \in Roles : role[r].updatedAt <= now
    /\ \A ur \in Users \X Roles : assignedAt[ur] <= now

ReaderWellFormed(x) ==
    /\ x.pc # "idle" => x.user \in Users
    /\ x.etag # NoEtag
    /\ x.pc # "roles" => x.rows = {}

WriterWellFormed(x) ==
    /\ x.pc = "assign" => x.user \in Users
    /\ x.pc # "idle" => x.role \in Roles
    /\ x.pc \in {"assign", "update"} => x.stamp # 0
    /\ x.stamp <= now

WellFormed ==
    /\ \A q \in Readers : ReaderWellFormed(reader[q])
    /\ \A w \in Writers : WriterWellFormed(writer[w])

TypeInv == TypeOK /\ TablesTyped /\ WellFormed

EtagsBounded == \A u \in Users : EtagOf(u) <= newest[u]

Allowed(u) == Admits(PermsOf(u))

(* What is, or is about to be, in the cache.                                 *)
Entries ==
    {[user |-> u, etag |-> cache[u].etag, perms |-> cache[u].perms] : u \in Users}
    \cup {[user |-> reader[q].user, etag |-> reader[q].etag, perms |-> reader[q].perms] :
             q \in {p \in Readers : reader[p].pc = "store"}}

(* An entry holds all that the user's rows no newer than its ETag grant, and *)
(* while the ETag of the database equals its own it is what they grant.      *)
EntryGood(n) ==
    n.etag \in Nat =>
       /\ n.etag <= newest[n.user]
       /\ n.user \notin late =>
             \A r \in RolesOf(n.user) :
                Stamp(n.user, r) <= n.etag => role[r].perms \subseteq Admits(n.perms)
       /\ n.user \notin late \cup removed /\ EtagOf(n.user) = n.etag =>
             n.perms = PermsOf(n.user)

EntriesGood == \A n \in Entries : EntryGood(n)

(* An answer of perms would do for the call x. *)
Fits(x, perms) ==
    /\ x.user \notin late => \A rp \in x.held : rp[2] \in Admits(perms)
    /\ x.user \notin late \cup removed => Admits(perms) \subseteq x.seen

Underway(x) == x.pc \in {"lookup", "fetch", "roles", "store"}

(* Between the two SELECTs: the rows no newer than the call's ETag are among *)
(* those it read, and all of them while the ETag is still the user's.        *)
RowsGood(x) ==
    /\ x.user \notin late /\ x.etag \in Nat =>
          \A r \in RolesOf(x.user) : Stamp(x.user, r) <= x.etag => r \in x.rows
    /\ x.user \notin late \cup removed /\ x.etag \in Nat /\ EtagOf(x.user) = x.etag =>
          x.rows = RolesOf(x.user)
    /\ x.user \notin removed => x.rows \subseteq RolesOf(x.user)
    /\ \A rp \in x.held : rp[1] \in x.rows

ReaderGood(x) ==
    /\ Underway(x) => x.held \subseteq GrantsOf(x.user) /\ Allowed(x.user) \subseteq x.seen
    /\ x.pc \in {"lookup", "fetch", "roles"} /\ x.etag \in Nat => x.etag <= newest[x.user]
    /\ x.pc = "lookup" /\ x.etag \in Nat =>
          \A n \in Entries : n.user = x.user /\ n.etag = x.etag => Fits(x, n.perms)
    /\ x.pc = "roles" => RowsGood(x)
    /\ x.pc \in {"store", "answered"} => Fits(x, x.perms)

ReadersGood == \A q \in Readers : ReaderGood(reader[q])

(* A call z about to store what a call x is about to look for has read the   *)
(* roles that were x's from its start on.                                    *)
PairGood(x, z) ==
    /\ x.pc = "lookup" /\ z.pc = "roles" /\ z.user = x.user
    /\ x.etag \in Nat /\ z.etag = x.etag /\ x.user \notin late
    => \A rp \in x.held : rp[1] \in z.rows

PairsGood == \A p, q \in Readers : PairGood(reader[p], reader[q])

CacheInv == EtagsBounded /\ EntriesGood /\ ReadersGood /\ PairsGood

-----------------------------------------------------------------------------
(* A set of times with a bound has a greatest one. *)

LEMMA Less == \A m, n \in Nat : <<m, n>> \in OpToRel(<, Nat) <=> m < n
BY DEF OpToRel

LEMMA LeastNatural ==
    ASSUME NEW T \in SUBSET Nat, T # {}
    PROVE  \E x \in T : \A y \in T : x <= y
<1>. DEFINE R == OpToRel(<, Nat)
<1>1. IsWellFoundedOn(R, Nat)
  BY NatLessThanWellFounded
<1>2. \A m, n \in Nat : <<m, n>> \in R <=> m < n
  BY Less
<1>. HIDE DEF R
<1>3. PICK x \in T : \A y \in T : ~(<<y, x>> \in R)
  BY <1>1, WFMin
<1>4. ASSUME NEW y \in T PROVE x <= y
  <2>1. x \in Nat /\ y \in Nat
    OBVIOUS
  <2>2. ~(y < x)
    BY <1>2, <1>3, <2>1
  <2>3. QED BY <2>1, <2>2
<1>5. QED BY <1>4

LEMMA MaxOfBounded ==
    ASSUME NEW T \in SUBSET Nat, T # {}, NEW b \in Nat, \A x \in T : x <= b
    PROVE  Max(T) \in T /\ \A x \in T : x <= Max(T)
<1>. DEFINE Bounds == {n \in Nat : \A x \in T : x <= n}
<1>1. PICK m \in Bounds : \A n \in Bounds : m <= n
  <2>1. b \in Bounds
    OBVIOUS
  <2>2. QED BY <2>1, LeastNatural, Zenon
<1>2. m \in Nat /\ \A x \in T : x <= m
  OBVIOUS
<1>3. m \in T
  <2>1. SUFFICES ASSUME m \notin T PROVE FALSE
    OBVIOUS
  <2>2. PICK t \in T : TRUE
    OBVIOUS
  <2>3. \A x \in T : x \in Nat /\ x < m
    BY <1>2, <2>1
  <2>4. m - 1 \in Bounds
    BY <1>2, <2>2, <2>3
  <2>5. QED BY <1>1, <1>2, <2>4
<1>4. \E x \in T : \A y \in T : x >= y
  BY <1>2, <1>3
<1>5. Max(T) \in T /\ \A y \in T : Max(T) >= y
  BY <1>4 DEF Max
<1>6. QED BY <1>5

-----------------------------------------------------------------------------
(* What the ETag says of the user's rows. *)

EtagIsNewest(u) ==
    /\ EtagOf(u) \in Nat
    /\ \A r \in RolesOf(u) : Stamp(u, r) \in Nat \ {0} /\ Stamp(u, r) <= EtagOf(u)
    /\ RolesOf(u) # {} => \E r \in RolesOf(u) : Stamp(u, r) = EtagOf(u)
    /\ RolesOf(u) = {} => EtagOf(u) = 0

LEMMA EtagsAreNewest == TablesTyped => \A u \in Users : EtagIsNewest(u)
<1>1. SUFFICES ASSUME TablesTyped, NEW u \in Users PROVE EtagIsNewest(u)
  OBVIOUS
<1>2. \A r \in RolesOf(u) : Stamp(u, r) \in Nat \ {0} /\ Stamp(u, r) <= now
  <2>1. ASSUME NEW r \in Roles PROVE <<u, r>> \in Users \X Roles
    OBVIOUS
  <2>2. ASSUME NEW r \in Roles
        PROVE  /\ assignedAt[<<u, r>>] \in Nat /\ assignedAt[<<u, r>>] <= now
               /\ role[r].updatedAt \in Nat \ {0} /\ role[r].updatedAt <= now
    BY <1>1, <2>1 DEF TablesTyped
  <2>3. QED BY <2>2 DEF RolesOf, Stamp, Greatest
<1>3. CASE RolesOf(u) = {}
  BY <1>3 DEF EtagIsNewest, EtagOf, NoPermissions
<1>4. CASE RolesOf(u) # {}
  <2>. DEFINE T == {Stamp(u, r) : r \in RolesOf(u)}
  <2>1. T \in SUBSET Nat /\ T # {} /\ now \in Nat /\ \A x \in T : x <= now
    BY <1>1, <1>2, <1>4 DEF TablesTyped
  <2>2. EtagOf(u) = Max(T)
    BY <1>4 DEF EtagOf, Stamp
  <2>. HIDE DEF T
  <2>3. EtagOf(u) \in T /\ \A x \in T : x <= EtagOf(u)
    BY <2>1, <2>2, MaxOfBounded
  <2>. USE DEF T
  <2>4. QED BY <1>2, <1>4, <2>1, <2>3 DEF EtagIsNewest
<1>5. QED BY <1>3, <1>4

LEMMA EtagsAreNewestNext == TablesTyped' => (\A u \in Users : EtagIsNewest(u))'
BY EtagsAreNewest, PTL

LEMMA WildcardAdmits ==
    ASSUME NEW rows, NEW perms, \A r \in rows : role[r].perms \subseteq AllPerms,
           \A r \in rows : role[r].perms \subseteq Admits(perms)
    PROVE  LET all == UNION {role[r].perms : r \in rows} IN
           Admits(IF Wildcard \in all THEN {Wildcard} ELSE all) \subseteq Admits(perms)
BY ConstantsAssumption DEF Admits, AllPerms

-----------------------------------------------------------------------------
(* Types. *)

ReaderRecord == [pc : {"idle", "lookup", "fetch", "roles", "store", "answered"},
                 user : Users \cup {NoOne}, etag : Etag, rows : SUBSET Roles,
                 perms : SUBSET AllPerms, held : SUBSET (Roles \X AllPerms),
                 seen : SUBSET AllPerms]
WriterRecord == [pc : {"idle", "assign", "update", "strip", "drop"},
                 user : Users \cup {NoOne}, role : Roles \cup {NoOne},
                 perms : SUBSET AllPerms, stamp : Nat]

(* The parts of TypeInv by the variables they are about. *)
ReadersTyped ==
    /\ reader \in [Readers -> ReaderRecord]
    /\ \A q \in Readers : ReaderWellFormed(reader[q])

WritersTyped ==
    /\ writer \in [Writers -> WriterRecord]
    /\ \A w \in Writers : WriterWellFormed(writer[w])

Assigned == \A ur \in Users \X Roles : assignedAt[ur] # 0 => role[ur[2]].exists

RestTyped ==
    /\ cache \in [Users -> [etag : Etag, perms : SUBSET AllPerms]]
    /\ now \in Nat \ {0}
    /\ newest \in [Users -> Nat]
    /\ late \subseteq Users
    /\ removed \subseteq Users
    /\ writes \in Nat

LEMMA TypeParts ==
    TypeInv <=> TablesTyped /\ Assigned /\ ReadersTyped /\ WritersTyped /\ RestTyped
<1>1. TypeInv => TablesTyped /\ Assigned /\ ReadersTyped /\ WritersTyped /\ RestTyped
  BY DEF TypeInv, TypeOK, WellFormed, Assigned, ReadersTyped, WritersTyped, RestTyped,
         ReaderRecord, WriterRecord
<1>2. TablesTyped /\ Assigned /\ ReadersTyped /\ WritersTyped /\ RestTyped => TypeInv
  BY DEF TypeInv, TypeOK, WellFormed, Assigned, ReadersTyped, WritersTyped, RestTyped,
         ReaderRecord, WriterRecord, TablesTyped
<1>3. QED BY <1>1, <1>2

LEMMA TypePartsNext ==
    (TypeInv <=> TablesTyped /\ Assigned /\ ReadersTyped /\ WritersTyped /\ RestTyped)'
BY TypeParts, PTL

LEMMA RowsTyped ==
    ASSUME TablesTyped, NEW rows \in SUBSET Roles
    PROVE  PermsIn(rows) \in SUBSET AllPerms
<1>1. \A r \in rows : role[r].perms \in SUBSET AllPerms
  BY DEF TablesTyped
<1>2. QED BY <1>1 DEF PermsIn, AllPerms

LEMMA PermsTyped ==
    ASSUME TablesTyped, NEW u \in Users
    PROVE  /\ PermsOf(u) \in SUBSET AllPerms /\ Allowed(u) \in SUBSET AllPerms
           /\ GrantsOf(u) \in SUBSET (Roles \X AllPerms)
<1>1. PermsOf(u) \in SUBSET AllPerms
  BY RowsTyped DEF PermsOf, RolesOf
<1>2. QED BY <1>1 DEF Allowed, Admits, GrantsOf

LEMMA PermsTypedNext ==
    ASSUME TablesTyped', NEW u \in Users
    PROVE  Allowed(u)' \in SUBSET AllPerms /\ GrantsOf(u)' \in SUBSET (Roles \X AllPerms)
<1>1. (\A r \in RolesOf(u) : role[r].perms \in SUBSET AllPerms)'
  BY DEF TablesTyped, RolesOf
<1>2. Allowed(u)' \in SUBSET AllPerms
  BY <1>1 DEF PermsOf, PermsIn, Allowed, Admits, AllPerms
<1>3. QED BY <1>2 DEF GrantsOf

LEMMA IdleTypes ==
    /\ IdleReader \in ReaderRecord /\ ReaderWellFormed(IdleReader)
    /\ IdleWriter \in WriterRecord
BY ConstantsAssumption
   DEF IdleReader, IdleWriter, ReaderRecord, WriterRecord, ReaderWellFormed, Etag, NoPermissions

LEMMA ReaderStep ==
    ASSUME TypeInv, NEW q \in Readers, NEW y \in ReaderRecord, ReaderWellFormed(y),
           reader' = [reader EXCEPT ![q] = y]
    PROVE  ReadersTyped'
BY TypeParts DEF ReadersTyped, ReaderWellFormed

LEMMA WriterStep ==
    ASSUME TypeInv, NEW w \in Writers, NEW y \in WriterRecord, WriterWellFormed(y),
           writer' = [writer EXCEPT ![w] = y], UNCHANGED now
    PROVE  WritersTyped'
BY TypeParts DEF WritersTyped, WriterWellFormed

LEMMA WriterIdles ==
    ASSUME TypeInv, NEW w \in Writers, writer' = [writer EXCEPT ![w] = IdleWriter],
           UNCHANGED now
    PROVE  WritersTyped'
<1>1. WriterWellFormed(IdleWriter)
  BY TypeParts DEF WriterWellFormed, IdleWriter, RestTyped
<1>2. QED BY <1>1, IdleTypes, WriterStep

(* The calls under way observe a database whose tables are typed. *)
LEMMA ObserveType ==
    ASSUME TypeInv, TablesTyped', Observe
    PROVE  ReadersTyped'
<1>1. \A q \in Readers : reader[q] \in ReaderRecord /\ ReaderWellFormed(reader[q])
  BY TypeParts DEF ReadersTyped
<1>2. ASSUME NEW q \in Readers, NEW allowed, allowed = [u \in Users |-> Allowed(u)'],
             NEW grants, grants = [u \in Users |-> GrantsOf(u)'],
             reader[q].pc \notin {"idle", "answered"}
      PROVE  LET x == [reader[q] EXCEPT !.held = @ \cap grants[reader[q].user],
                                        !.seen = @ \cup allowed[reader[q].user]]
             IN  x \in ReaderRecord /\ ReaderWellFormed(x)
  <2>1. reader[q].user \in Users
    BY <1>1, <1>2 DEF ReaderWellFormed, ReaderRecord
  <2>2. allowed[reader[q].user] \in SUBSET AllPerms
    BY <1>2, <2>1, PermsTypedNext
  <2>3. reader[q] \in ReaderRecord /\ ReaderWellFormed(reader[q])
    BY <1>1
  <2>4. PICK a, g : a = allowed[reader[q].user] /\ g = grants[reader[q].user]
    OBVIOUS
  <2>5. PICK x : x = [reader[q] EXCEPT !.held = @ \cap g, !.seen = @ \cup a]
    OBVIOUS
  <2>6. /\ x.pc = reader[q].pc /\ x.user = reader[q].user /\ x.etag = reader[q].etag
        /\ x.rows = reader[q].rows
    BY <2>3, <2>5 DEF ReaderRecord
  <2>7. ReaderWellFormed(x)
    BY <2>3, <2>6 DEF ReaderWellFormed
  <2>8. x \in ReaderRecord
    BY <2>2, <2>3, <2>4, <2>5 DEF ReaderRecord
  <2>9. QED BY <2>4, <2>5, <2>7, <2>8
<1>3. PICK allowed, grants : /\ allowed = [u \in Users |-> Allowed(u)']
                            /\ grants = [u \in Users |-> GrantsOf(u)']
  OBVIOUS
<1>4. reader' = [q \in Readers |->
                   IF reader[q].pc \in {"idle", "answered"} THEN reader[q]
                   ELSE [reader[q] EXCEPT !.held = @ \cap grants[reader[q].user],
                                          !.seen = @ \cup allowed[reader[q].user]]]
  BY <1>3 DEF Observe, Allowed
<1>5. \A q \in Readers : reader'[q] \in ReaderRecord /\ ReaderWellFormed(reader'[q])
  BY <1>1, <1>2, <1>3, <1>4
<1>6. QED BY <1>4, <1>5 DEF ReadersTyped, ReaderWellFormed

LEMMA StampedType ==
    ASSUME TypeInv, TablesTyped', NEW us \in SUBSET Users, Stamped(us),
           UNCHANGED <<cache, now, removed, writes>>
    PROVE  RestTyped'
<1>1. \A u \in Users : EtagOf(u)' \in Nat
  BY EtagsAreNewestNext DEF EtagIsNewest
<1>2. \A u \in Users : Greatest(newest[u], EtagOf(u)') \in Nat
  BY <1>1, TypeParts DEF RestTyped, Greatest
<1>3. newest' \in [Users -> Nat]
  BY <1>2 DEF Stamped
<1>4. late' \subseteq Users
  BY TypeParts DEF Stamped, RestTyped
<1>5. QED BY <1>3, <1>4, TypeParts DEF RestTyped

LEMMA InitType == ASSUME Init PROVE TypeInv
<1>1. TablesTyped
  <2>1. /\ role \in [Roles -> [exists : BOOLEAN, perms : SUBSET AllPerms, updatedAt : Nat \ {0}]]
        /\ \A r \in Roles : role[r].updatedAt = 1
    <3>1. role \in [Roles -> [exists : {TRUE}, perms : PermSets, updatedAt : {1}]]
      BY DEF Init
    <3>2. \A s \in PermSets : s \in SUBSET AllPerms
      BY ConstantsAssumption DEF AllPerms
    <3>3. ASSUME NEW x \in [exists : {TRUE}, perms : PermSets, updatedAt : {1}]
          PROVE  x \in [exists : BOOLEAN, perms : SUBSET AllPerms, updatedAt : Nat \ {0}]
                 /\ x.updatedAt = 1
      <4>1. PICK e \in {TRUE}, s \in PermSets : x = [exists |-> e, perms |-> s, updatedAt |-> 1]
        OBVIOUS
      <4>2. e \in BOOLEAN /\ s \in SUBSET AllPerms /\ 1 \in Nat \ {0}
        BY <3>2
      <4>3. QED BY <4>1, <4>2
    <3>4. QED BY <3>1, <3>3
  <2>2. assignedAt \in [Users \X Roles -> Nat]
    BY DEF Init
  <2>3. \A r \in Roles : role[r].updatedAt <= now
    BY <2>1 DEF Init
  <2>4. \A ur \in Users \X Roles : assignedAt[ur] <= now
    <3>1. \A ur \in Users \X Roles : assignedAt[ur] \in {0, 1} /\ now = 2
      BY DEF Init
    <3>2. QED BY <3>1
  <2>5. QED BY <2>1, <2>2, <2>3, <2>4 DEF Init, TablesTyped
<1>2. Assigned
  <2>1. \A r \in Roles : role[r].exists
    BY DEF Init
  <2>2. QED BY <2>1 DEF Assigned
<1>3. ReadersTyped
  BY IdleTypes DEF Init, ReadersTyped
<1>4. WritersTyped
  BY IdleTypes DEF Init, WritersTyped, WriterWellFormed, IdleWriter
<1>5. RestTyped
  <2>1. \A u \in Users : EtagOf(u) \in Nat
    BY <1>1, EtagsAreNewest DEF EtagIsNewest
  <2>2. cache \in [Users -> [etag : Etag, perms : SUBSET AllPerms]]
    BY DEF Init, NoEntry, Etag
  <2>3. QED BY <2>1, <2>2 DEF Init, RestTyped
<1>6. QED BY <1>1, <1>2, <1>3, <1>4, <1>5, TypeParts

(* A step that writes neither table. *)
LEMMA TablesKept ==
    ASSUME TypeInv, UNCHANGED <<role, assignedAt, now>>
    PROVE  TablesTyped' /\ Assigned'
BY TypeParts DEF TablesTyped, Assigned

LEMMA BeginTypes ==
    ASSUME TypeInv, NEW w \in Writers, NEW y \in WriterRecord, WriterWellFormed(y), Begin(w, y)
    PROVE  TypeInv'
<1>1. TablesTyped' /\ Assigned'
  BY TablesKept DEF Begin
<1>2. WritersTyped'
  BY WriterStep DEF Begin
<1>3. ReadersTyped'
  BY TypeParts DEF Begin, ReadersTyped, ReaderWellFormed
<1>4. RestTyped'
  BY TypeParts DEF Begin, RestTyped
<1>5. QED BY <1>1, <1>2, <1>3, <1>4, TypePartsNext

Begins(w) ==
    \/ \E u \in Users, r \in Roles : BeginAssignRole(w, u, r)
    \/ \E r \in Roles, perms \in PermSets : BeginUpdateRole(w, r, perms)
    \/ \E r \in Roles : BeginDeleteRole(w, r)

LEMMA BeginType ==
    ASSUME TypeInv, NEW w \in Writers, Begins(w)
    PROVE  TypeInv'
<1>1. now \in Nat \ {0} /\ \A perms \in PermSets : perms \in SUBSET AllPerms
  BY TypeParts, ConstantsAssumption DEF RestTyped, AllPerms
<1>2. ASSUME NEW u \in Users, NEW r \in Roles, BeginAssignRole(w, u, r) PROVE TypeInv'
  <2>. DEFINE y == [IdleWriter EXCEPT !.pc = "assign", !.user = u, !.role = r, !.stamp = now]
  <2>1. y \in WriterRecord
    BY <1>1, IdleTypes DEF WriterRecord
  <2>2. WriterWellFormed(y)
    BY <1>1 DEF WriterWellFormed, IdleWriter
  <2>3. QED BY <1>2, <2>1, <2>2, BeginTypes DEF BeginAssignRole
<1>3. ASSUME NEW r \in Roles, NEW perms \in PermSets, BeginUpdateRole(w, r, perms)
      PROVE  TypeInv'
  <2>. DEFINE y == [IdleWriter EXCEPT !.pc = "update", !.role = r, !.perms = perms,
                                      !.stamp = now]
  <2>1. y \in WriterRecord
    BY <1>1, IdleTypes DEF WriterRecord
  <2>2. WriterWellFormed(y)
    BY <1>1 DEF WriterWellFormed, IdleWriter
  <2>3. QED BY <1>3, <2>1, <2>2, BeginTypes DEF BeginUpdateRole
<1>4. ASSUME NEW r \in Roles, BeginDeleteRole(w, r) PROVE TypeInv'
  <2>. DEFINE y == [IdleWriter EXCEPT !.pc = "strip", !.role = r]
  <2>1. y \in WriterRecord
    BY <1>1, IdleTypes DEF WriterRecord
  <2>2. WriterWellFormed(y)
    BY <1>1 DEF WriterWellFormed, IdleWriter
  <2>3. QED BY <1>4, <2>1, <2>2, BeginTypes DEF BeginDeleteRole
<1>5. QED BY <1>2, <1>3, <1>4 DEF Begins

LEMMA CommitAssignType ==
    ASSUME TypeInv, NEW w \in Writers, CommitAssignRole(w)
    PROVE  TypeInv'
<1>1. PICK x \in WriterRecord : x = writer[w]
  BY TypeParts DEF WritersTyped
<1>2. x.pc = "assign" /\ x.user \in Users /\ x.role \in Roles /\ x.stamp \in Nat \ {0}
      /\ x.stamp <= now
  BY <1>1, TypeParts DEF CommitAssignRole, WritersTyped, WriterWellFormed, WriterRecord
<1>3. WritersTyped'
  BY WriterIdles DEF CommitAssignRole
<1>4. CASE role[x.role].exists /\ assignedAt[<<x.user, x.role>>] = 0
  <2>1. /\ assignedAt' = [assignedAt EXCEPT ![<<x.user, x.role>>] = x.stamp]
        /\ UNCHANGED role /\ Stamped({x.user}) /\ Observe
        /\ UNCHANGED <<cache, now, removed, writes>>
    BY <1>1, <1>4 DEF CommitAssignRole
  <2>2. \A ur \in Users \X Roles :
           assignedAt'[ur] = IF ur = <<x.user, x.role>> THEN x.stamp ELSE assignedAt[ur]
    BY <2>1, TypeParts DEF TablesTyped
  <2>3. TablesTyped'
    BY <1>2, <2>1, <2>2, TypeParts DEF TablesTyped
  <2>4. Assigned'
    BY <1>2, <1>4, <2>1, <2>2, TypeParts DEF Assigned
  <2>5. ReadersTyped' /\ RestTyped'
    BY <1>2, <2>1, <2>3, ObserveType, StampedType
  <2>6. QED BY <1>3, <2>3, <2>4, <2>5, TypePartsNext
<1>5. CASE ~(role[x.role].exists /\ assignedAt[<<x.user, x.role>>] = 0)
  <2>1. UNCHANGED <<role, assignedAt, reader, newest, late, cache, now, removed, writes>>
    BY <1>1, <1>5 DEF CommitAssignRole
  <2>2. TablesTyped' /\ Assigned'
    BY <2>1, TablesKept
  <2>3. ReadersTyped' /\ RestTyped'
    BY <2>1, TypeParts DEF ReadersTyped, ReaderWellFormed, RestTyped
  <2>4. QED BY <1>3, <2>2, <2>3, TypePartsNext
<1>6. QED BY <1>4, <1>5

LEMMA CommitUpdateType ==
    ASSUME TypeInv, NEW w \in Writers, CommitUpdateRole(w)
    PROVE  TypeInv'
<1>1. PICK x \in WriterRecord : x = writer[w]
  BY TypeParts DEF WritersTyped
<1>2. x.pc = "update" /\ x.role \in Roles /\ x.stamp \in Nat \ {0} /\ x.stamp <= now
      /\ x.perms \in SUBSET AllPerms
  BY <1>1, TypeParts DEF CommitUpdateRole, WritersTyped, WriterWellFormed, WriterRecord
<1>3. WritersTyped'
  BY WriterIdles DEF CommitUpdateRole
<1>4. CASE role[x.role].exists
  <2>1. /\ role' = [role EXCEPT ![x.role].perms = x.perms, ![x.role].updatedAt = x.stamp]
        /\ UNCHANGED assignedAt /\ Stamped({u \in Users : x.role \in RolesOf(u)}) /\ Observe
        /\ UNCHANGED <<cache, now, removed, writes>>
    BY <1>1, <1>4 DEF CommitUpdateRole
  <2>2. /\ \A r \in Roles : role'[r].exists = role[r].exists
        /\ \A r \in Roles : role'[r].updatedAt = role[r].updatedAt
                            \/ role'[r].updatedAt = x.stamp
    BY <2>1, TypeParts DEF TablesTyped
  <2>3. role' \in [Roles -> [exists : BOOLEAN, perms : SUBSET AllPerms, updatedAt : Nat \ {0}]]
    BY <1>2, <2>1, TypeParts DEF TablesTyped
  <2>4. TablesTyped'
    BY <1>2, <2>1, <2>2, <2>3, TypeParts DEF TablesTyped
  <2>5. Assigned'
    BY <2>1, <2>2, TypeParts DEF Assigned
  <2>6. ReadersTyped' /\ RestTyped'
    BY <2>1, <2>4, ObserveType, StampedType
  <2>7. QED BY <1>3, <2>4, <2>5, <2>6, TypePartsNext
<1>5. CASE ~role[x.role].exists
  <2>1. UNCHANGED <<role, assignedAt, reader, newest, late, cache, now, removed, writes>>
    BY <1>1, <1>5 DEF CommitUpdateRole
  <2>2. TablesTyped' /\ Assigned'
    BY <2>1, TablesKept
  <2>3. ReadersTyped' /\ RestTyped'
    BY <2>1, TypeParts DEF ReadersTyped, ReaderWellFormed, RestTyped
  <2>4. QED BY <1>3, <2>2, <2>3, TypePartsNext
<1>6. QED BY <1>4, <1>5

LEMMA UnassignType ==
    ASSUME TypeInv, NEW pairs \in SUBSET (Users \X Roles), Unassign(pairs),
           WritersTyped', UNCHANGED <<cache, now>>, writes' \in Nat
    PROVE  TypeInv'
<1>1. \A ur \in Users \X Roles : assignedAt'[ur] = 0 \/ assignedAt'[ur] = assignedAt[ur]
  BY DEF Unassign
<1>2. assignedAt' \in [Users \X Roles -> Nat]
  BY TypeParts DEF Unassign, TablesTyped
<1>3. TablesTyped'
  BY <1>1, <1>2, TypeParts DEF Unassign, TablesTyped
<1>4. Assigned'
  BY <1>1, TypeParts DEF Unassign, Assigned
<1>5. removed' \subseteq Users
  BY TypeParts DEF Unassign, RestTyped
<1>6. RestTyped'
  BY <1>5, TypeParts DEF Unassign, RestTyped
<1>7. ReadersTyped'
  BY <1>3, ObserveType DEF Unassign
<1>8. QED BY <1>3, <1>4, <1>6, <1>7, TypePartsNext

LEMMA RemoveRoleType ==
    ASSUME TypeInv, NEW u \in Users, NEW r \in Roles, RemoveRole(u, r)
    PROVE  TypeInv'
<1>1. WritersTyped'
  BY TypeParts DEF RemoveRole, WritersTyped, WriterWellFormed
<1>2. writes' \in Nat
  BY TypeParts DEF RemoveRole, RestTyped
<1>3. QED BY <1>1, <1>2, UnassignType DEF RemoveRole

LEMMA StripRoleType ==
    ASSUME TypeInv, NEW w \in Writers, StripRole(w)
    PROVE  TypeInv'
<1>1. writer[w] \in WriterRecord /\ WriterWellFormed(writer[w]) /\ writer[w].role \in Roles
  BY TypeParts DEF StripRole, WritersTyped, WriterWellFormed, WriterRecord
<1>2. PICK y : y = [writer[w] EXCEPT !.pc = "drop"]
  OBVIOUS
<1>3. y \in WriterRecord /\ WriterWellFormed(y)
  BY <1>1, <1>2 DEF WriterRecord, WriterWellFormed
<1>4. writer' = [writer EXCEPT ![w] = y]
  BY <1>2 DEF StripRole
<1>5. WritersTyped'
  BY <1>3, <1>4, WriterStep DEF StripRole
<1>6. writes' \in Nat
  BY TypeParts DEF StripRole, RestTyped
<1>7. QED BY <1>1, <1>5, <1>6, UnassignType DEF StripRole

LEMMA DropRoleType ==
    ASSUME TypeInv, NEW w \in Writers, DropRole(w)
    PROVE  TypeInv'
<1>1. PICK r \in Roles : r = writer[w].role
  BY TypeParts DEF DropRole, WritersTyped, WriterWellFormed, WriterRecord
<1>2. WritersTyped'
  BY WriterIdles DEF DropRole
<1>3. role' \in [Roles -> [exists : BOOLEAN, perms : SUBSET AllPerms, updatedAt : Nat \ {0}]]
  BY <1>1, TypeParts DEF DropRole, TablesTyped
<1>4. \A s \in Roles : role'[s].updatedAt = role[s].updatedAt
  BY <1>1, TypeParts DEF DropRole, TablesTyped
<1>5. TablesTyped'
  BY <1>3, <1>4, TypeParts DEF DropRole, TablesTyped
<1>6. \A ur \in Users \X Roles : assignedAt[ur] # 0 => role'[ur[2]].exists
  <2>1. SUFFICES ASSUME NEW u \in Users, NEW s \in Roles, assignedAt[<<u, s>>] # 0
                 PROVE  role'[s].exists
    OBVIOUS
  <2>2. role[s].exists
    BY <2>1, TypeParts DEF Assigned
  <2>3. s = r => role' = role
    BY <1>1, <2>1 DEF DropRole, RolesOf
  <2>4. s # r => role'[s] = role[s]
    BY <1>1, TypeParts DEF DropRole, TablesTyped
  <2>5. QED BY <2>2, <2>3, <2>4
<1>7. Assigned'
  BY <1>6 DEF Assigned, DropRole
<1>8. ReadersTyped' /\ RestTyped'
  BY TypeParts DEF DropRole, ReadersTyped, ReaderWellFormed, RestTyped
<1>9. QED BY <1>2, <1>5, <1>7, <1>8, TypePartsNext

LEMMA TickType == ASSUME TypeInv, Tick PROVE TypeInv'
<1>1. now' \in Nat \ {0} /\ now <= now' /\ now \in Nat
  BY TypeParts DEF Tick, RestTyped
<1>2. TablesTyped'
  BY <1>1, TypeParts DEF Tick, TablesTyped
<1>3. WritersTyped'
  BY <1>1, TypeParts DEF Tick, WritersTyped, WriterWellFormed, WriterRecord
<1>4. Assigned' /\ ReadersTyped'
  BY TypeParts DEF Tick, Assigned, ReadersTyped, ReaderWellFormed
<1>5. RestTyped'
  BY <1>1, TypeParts DEF Tick, RestTyped
<1>6. QED BY <1>2, <1>3, <1>4, <1>5, TypePartsNext

(* The call q becomes y; no table is written. *)
ReadStep(q, y) ==
    /\ y \in ReaderRecord /\ ReaderWellFormed(y)
    /\ reader' = [reader EXCEPT ![q] = y]
    /\ UNCHANGED <<role, assignedAt, writer, now, newest, late, removed, writes>>

(* y is the call x, further on. *)
Continues(x, y) == y.user = x.user /\ y.held = x.held /\ y.seen = x.seen

LEMMA ReaderType ==
    ASSUME TypeInv, NEW q \in Readers
    PROVE  reader[q] \in ReaderRecord /\ ReaderWellFormed(reader[q])
BY TypeParts DEF ReadersTyped

LEMMA CacheType ==
    ASSUME TypeInv, NEW u \in Users
    PROVE  cache[u].etag \in Etag /\ cache[u].perms \in SUBSET AllPerms
BY TypeParts DEF RestTyped

LEMMA ReadEtagStep ==
    ASSUME TypeInv, NEW q \in Readers, NEW u \in Users, ReadEtag(q, u)
    PROVE  \E y : /\ ReadStep(q, y) /\ UNCHANGED cache
                  /\ y.pc = "lookup" /\ y.user = u /\ y.etag \in {EtagOf(u), ErrorEtag}
                  /\ y.held = GrantsOf(u) /\ y.seen = Allowed(u)
<1>1. PICK etag \in {EtagOf(u), ErrorEtag} :
         reader' = [reader EXCEPT ![q] =
                      [pc |-> "lookup", user |-> u, etag |-> etag, rows |-> {}, perms |-> {},
                       held |-> GrantsOf(u), seen |-> Allowed(u)]]
  BY DEF ReadEtag, Allowed
<1>2. etag \in Etag /\ etag # NoEtag
  BY TypeParts, EtagsAreNewest, ConstantsAssumption DEF Etag, EtagIsNewest
<1>3. Allowed(u) \in SUBSET AllPerms /\ GrantsOf(u) \in SUBSET (Roles \X AllPerms)
  BY TypeParts, PermsTyped
<1>4. PICK y : y = [pc |-> "lookup", user |-> u, etag |-> etag, rows |-> {}, perms |-> {},
                    held |-> GrantsOf(u), seen |-> Allowed(u)]
  OBVIOUS
<1>5. y \in ReaderRecord /\ ReaderWellFormed(y)
  BY <1>2, <1>3, <1>4 DEF ReaderRecord, ReaderWellFormed
<1>6. ReadStep(q, y)
  BY <1>1, <1>4, <1>5 DEF ReadStep, ReadEtag
<1>7. QED BY <1>1, <1>4, <1>6 DEF ReadEtag

LEMMA LookupStep ==
    ASSUME TypeInv, NEW q \in Readers, Lookup(q)
    PROVE  \E y : /\ ReadStep(q, y) /\ UNCHANGED cache
                  /\ reader[q].pc = "lookup" /\ reader[q].user \in Users
                  /\ Continues(reader[q], y)
                  /\ \/ /\ y.pc = "answered"
                        /\ cache[reader[q].user].etag = reader[q].etag
                        /\ reader[q].etag \in Nat
                        /\ y.perms = cache[reader[q].user].perms
                     \/ y.pc = "fetch" /\ y.etag = reader[q].etag
<1>1. PICK x : x = reader[q]
  OBVIOUS
<1>2. x \in ReaderRecord /\ ReaderWellFormed(x) /\ x.pc = "lookup"
  BY <1>1, ReaderType DEF Lookup
<1>3. x.user \in Users /\ x.etag \in Etag \ {NoEtag}
  BY <1>2 DEF ReaderRecord, ReaderWellFormed
<1>4. PICK entry : entry = cache[x.user]
  OBVIOUS
<1>5. entry.etag \in Etag /\ entry.perms \in SUBSET AllPerms
  BY <1>3, <1>4, CacheType
<1>6. CASE entry.etag = x.etag /\ entry.etag # ErrorEtag
  <2>1. PICK y : y = [x EXCEPT !.pc = "answered", !.etag = NoPermissions, !.perms = entry.perms]
    OBVIOUS
  <2>2. reader' = [reader EXCEPT ![q] = y]
    BY <1>1, <1>4, <1>6, <2>1 DEF Lookup
  <2>3. y \in ReaderRecord
    BY <1>2, <1>5, <2>1 DEF ReaderRecord, Etag, NoPermissions
  <2>4. /\ y.pc = "answered" /\ y.etag = 0 /\ y.perms = entry.perms
        /\ y.user = x.user /\ y.held = x.held /\ y.seen = x.seen /\ y.rows = x.rows
    BY <1>2, <2>1 DEF ReaderRecord, NoPermissions
  <2>5. ReaderWellFormed(y)
    BY <1>2, <1>3, <2>4, ConstantsAssumption DEF ReaderWellFormed
  <2>6. x.etag \in Nat
    BY <1>3, <1>6 DEF Etag
  <2>7. ReadStep(q, y) /\ UNCHANGED cache
    BY <2>2, <2>3, <2>5 DEF ReadStep, Lookup
  <2>8. QED BY <1>1, <1>2, <1>3, <1>4, <1>6, <2>4, <2>6, <2>7 DEF Continues
<1>7. CASE ~(entry.etag = x.etag /\ entry.etag # ErrorEtag)
  <2>1. PICK y : y = [x EXCEPT !.pc = "fetch"]
    OBVIOUS
  <2>2. reader' = [reader EXCEPT ![q] = y]
    BY <1>1, <1>4, <1>7, <2>1 DEF Lookup
  <2>3. y \in ReaderRecord
    BY <1>2, <2>1 DEF ReaderRecord
  <2>4. /\ y.pc = "fetch" /\ y.etag = x.etag
        /\ y.user = x.user /\ y.held = x.held /\ y.seen = x.seen /\ y.rows = x.rows
    BY <1>2, <2>1 DEF ReaderRecord
  <2>5. ReaderWellFormed(y)
    BY <1>2, <1>3, <2>4 DEF ReaderWellFormed
  <2>7. ReadStep(q, y) /\ UNCHANGED cache
    BY <2>2, <2>3, <2>5 DEF ReadStep, Lookup
  <2>8. QED BY <1>1, <1>2, <1>3, <2>4, <2>7 DEF Continues
<1>8. QED BY <1>6, <1>7

LEMMA FetchAssignmentsStep ==
    ASSUME TypeInv, NEW q \in Readers, FetchAssignments(q)
    PROVE  \E y : /\ ReadStep(q, y) /\ UNCHANGED cache
                  /\ reader[q].pc = "fetch" /\ reader[q].user \in Users
                  /\ Continues(reader[q], y)
                  /\ y.pc = "roles" /\ y.etag = reader[q].etag
                  /\ y.rows = RolesOf(reader[q].user)
<1>1. PICK x : x = reader[q]
  OBVIOUS
<1>2. x \in ReaderRecord /\ ReaderWellFormed(x) /\ x.pc = "fetch"
  BY <1>1, ReaderType DEF FetchAssignments
<1>3. x.user \in Users /\ x.etag \in Etag \ {NoEtag}
  BY <1>2 DEF ReaderRecord, ReaderWellFormed
<1>4. PICK rows \in SUBSET Roles : rows = RolesOf(x.user)
  BY DEF RolesOf
<1>5. PICK y : y = [x EXCEPT !.pc = "roles", !.rows = rows]
  OBVIOUS
<1>6. reader' = [reader EXCEPT ![q] = y]
  BY <1>1, <1>4, <1>5, TypeParts DEF FetchAssignments, ReadersTyped
<1>7. y \in ReaderRecord
  BY <1>2, <1>4, <1>5 DEF ReaderRecord
<1>8. /\ y.pc = "roles" /\ y.etag = x.etag /\ y.rows = rows
      /\ y.user = x.user /\ y.held = x.held /\ y.seen = x.seen
  BY <1>2, <1>5 DEF ReaderRecord
<1>9. ReaderWellFormed(y)
  BY <1>3, <1>8 DEF ReaderWellFormed
<1>10. ReadStep(q, y) /\ UNCHANGED cache
  BY <1>6, <1>7, <1>9 DEF ReadStep, FetchAssignments
<1>11. QED BY <1>1, <1>2, <1>3, <1>4, <1>8, <1>10 DEF Continues

LEMMA FetchRolesStep ==
    ASSUME TypeInv, NEW q \in Readers, FetchRoles(q)
    PROVE  \E y : /\ ReadStep(q, y) /\ UNCHANGED cache
                  /\ reader[q].pc = "roles" /\ reader[q].user \in Users
                  /\ reader[q].rows \in SUBSET Roles
                  /\ Continues(reader[q], y)
                  /\ y.pc = "store" /\ y.etag = reader[q].etag
                  /\ y.perms = PermsIn(reader[q].rows)
<1>1. PICK x : x = reader[q]
  OBVIOUS
<1>2. x \in ReaderRecord /\ ReaderWellFormed(x) /\ x.pc = "roles"
  BY <1>1, ReaderType DEF FetchRoles
<1>3. x.user \in Users /\ x.etag \in Etag \ {NoEtag} /\ x.rows \in SUBSET Roles
  BY <1>2 DEF ReaderRecord, ReaderWellFormed
<1>4. PICK perms \in SUBSET AllPerms : perms = PermsIn(x.rows)
  BY <1>3, TypeParts, RowsTyped
<1>5. PICK y : y = [x EXCEPT !.pc = "store", !.rows = {}, !.perms = perms]
  OBVIOUS
<1>6. reader' = [reader EXCEPT ![q] = y]
  BY <1>1, <1>4, <1>5, TypeParts DEF FetchRoles, ReadersTyped
<1>7. y \in ReaderRecord
  BY <1>2, <1>4, <1>5 DEF ReaderRecord
<1>8. /\ y.pc = "store" /\ y.etag = x.etag /\ y.perms = perms /\ y.rows = {}
      /\ y.user = x.user /\ y.held = x.held /\ y.seen = x.seen
  BY <1>2, <1>5 DEF ReaderRecord
<1>9. ReaderWellFormed(y)
  BY <1>3, <1>8 DEF ReaderWellFormed
<1>10. ReadStep(q, y) /\ UNCHANGED cache
  BY <1>6, <1>7, <1>9 DEF ReadStep, FetchRoles
<1>11. QED BY <1>1, <1>2, <1>3, <1>4, <1>8, <1>10 DEF Continues

LEMMA FetchFailsStep ==
    ASSUME TypeInv, NEW q \in Readers, FetchFails(q)
    PROVE  ReadStep(q, IdleReader) /\ UNCHANGED cache
BY IdleTypes DEF FetchFails, ReadStep

LEMMA StoreStep ==
    ASSUME TypeInv, NEW q \in Readers, Store(q)
    PROVE  \E y : /\ ReadStep(q, y)
                  /\ cache' = [cache EXCEPT ![reader[q].user] =
                                 [etag |-> reader[q].etag, perms |-> reader[q].perms]]
                  /\ reader[q].pc = "store" /\ reader[q].user \in Users
                  /\ Continues(reader[q], y)
                  /\ y.pc = "answered" /\ y.perms = reader[q].perms
<1>1. PICK x : x = reader[q]
  OBVIOUS
<1>2. x \in ReaderRecord /\ ReaderWellFormed(x) /\ x.pc = "store"
  BY <1>1, ReaderType DEF Store
<1>3. x.user \in Users /\ x.etag \in Etag \ {NoEtag}
  BY <1>2 DEF ReaderRecord, ReaderWellFormed
<1>6. PICK y : y = [x EXCEPT !.pc = "answered", !.etag = NoPermissions]
  OBVIOUS
<1>7. reader' = [reader EXCEPT ![q] = y]
  BY <1>1, <1>6, TypeParts DEF Store, ReadersTyped
<1>8. y \in ReaderRecord
  BY <1>2, <1>6 DEF ReaderRecord, Etag, NoPermissions
<1>9. /\ y.pc = "answered" /\ y.etag = 0 /\ y.perms = x.perms
      /\ y.user = x.user /\ y.held = x.held /\ y.seen = x.seen /\ y.rows = x.rows
  BY <1>2, <1>6 DEF ReaderRecord, NoPermissions
<1>10. ReaderWellFormed(y)
  BY <1>2, <1>3, <1>9, ConstantsAssumption DEF ReaderWellFormed
<1>11. ReadStep(q, y)
  BY <1>7, <1>8, <1>10 DEF ReadStep, Store
<1>12. QED BY <1>1, <1>2, <1>3, <1>9, <1>11 DEF Continues, Store

LEMMA ReturnStep ==
    ASSUME TypeInv, NEW q \in Readers, Return(q)
    PROVE  ReadStep(q, IdleReader) /\ UNCHANGED cache
BY IdleTypes DEF Return, ReadStep

LEMMA ReadStepType ==
    ASSUME TypeInv, NEW q \in Readers, NEW y, ReadStep(q, y),
           cache' \in [Users -> [etag : Etag, perms : SUBSET AllPerms]]
    PROVE  TypeInv'
<1>1. ReadersTyped'
  BY ReaderStep DEF ReadStep
<1>2. TablesTyped' /\ Assigned'
  BY TablesKept DEF ReadStep
<1>3. WritersTyped' /\ RestTyped'
  BY TypeParts DEF ReadStep, WritersTyped, WriterWellFormed, RestTyped
<1>4. QED BY <1>1, <1>2, <1>3, TypePartsNext

LEMMA ReadType ==
    ASSUME TypeInv, NEW q \in Readers, Read(q)
    PROVE  TypeInv'
<1>1. cache \in [Users -> [etag : Etag, perms : SUBSET AllPerms]]
  BY TypeParts DEF RestTyped
<1>2. ASSUME NEW u \in Users, ReadEtag(q, u) PROVE TypeInv'
  BY <1>1, <1>2, ReadEtagStep, ReadStepType
<1>3. CASE Lookup(q)
  BY <1>1, <1>3, LookupStep, ReadStepType
<1>4. CASE FetchAssignments(q) \/ FetchRoles(q) \/ FetchFails(q)
  BY <1>1, <1>4, FetchAssignmentsStep, FetchRolesStep, FetchFailsStep, ReadStepType
<1>5. CASE Store(q)
  <2>1. PICK y : /\ ReadStep(q, y)
                 /\ cache' = [cache EXCEPT ![reader[q].user] =
                                [etag |-> reader[q].etag, perms |-> reader[q].perms]]
    BY <1>5, StoreStep
  <2>2. reader[q].etag \in Etag /\ reader[q].perms \in SUBSET AllPerms
    BY ReaderType DEF ReaderRecord
  <2>3. QED BY <1>1, <2>1, <2>2, ReadStepType
<1>6. CASE Return(q)
  BY <1>1, <1>6, ReturnStep, ReadStepType
<1>7. QED BY <1>2, <1>3, <1>4, <1>5, <1>6 DEF Read

LEMMA NextSteps ==
    ASSUME [Next]_vars
    PROVE  \/ \E w \in Writers : \/ Begins(w) \/ CommitAssignRole(w) \/ CommitUpdateRole(w)
                                 \/ StripRole(w) \/ DropRole(w)
           \/ \E u \in Users, r \in Roles : RemoveRole(u, r)
           \/ \E q \in Readers : Read(q)
           \/ Tick
           \/ UNCHANGED vars
BY DEF Next, Write, Begins

LEMMA StutterType == ASSUME TypeInv, UNCHANGED vars PROVE TypeInv'
<1>1. TablesTyped' /\ Assigned'
  BY TablesKept DEF vars
<1>2. ReadersTyped' /\ WritersTyped' /\ RestTyped'
  BY TypeParts DEF vars, ReadersTyped, ReaderWellFormed, WritersTyped, WriterWellFormed,
                   RestTyped
<1>3. QED BY <1>1, <1>2, TypePartsNext

LEMMA NextType == ASSUME TypeInv, [Next]_vars PROVE TypeInv'
<1>1. ASSUME NEW w \in Writers,
             \/ Begins(w) \/ CommitAssignRole(w) \/ CommitUpdateRole(w)
             \/ StripRole(w) \/ DropRole(w)
      PROVE  TypeInv'
  BY <1>1, BeginType, CommitAssignType, CommitUpdateType, StripRoleType, DropRoleType
<1>2. ASSUME NEW u \in Users, NEW r \in Roles, RemoveRole(u, r) PROVE TypeInv'
  BY <1>2, RemoveRoleType
<1>3. ASSUME NEW q \in Readers, Read(q) PROVE TypeInv'
  BY <1>3, ReadType
<1>4. QED BY <1>1, <1>2, <1>3, TickType, StutterType, NextSteps

(* The tables, the cache and the calls under way keep their types, and a     *)
(* role assigned to a user exists, for a delete and an assignment may race   *)
(* and the foreign key settles it (role.service.ts, remove and assignRole).  *)
(* Each call has what it uses: a user and an ETag that a query gave, the     *)
(* rows of a fetch between its two SELECTs only; a write has its user, role  *)
(* and a stamp no later than the clock.                                      *)
THEOREM TypeCorrect == Spec => [](TypeOK /\ WellFormed)
<1>1. Init => TypeInv
  BY InitType
<1>2. TypeInv /\ [Next]_vars => TypeInv'
  BY NextType
<1>3. TypeInv => TypeOK /\ WellFormed
  BY DEF TypeInv
<1>4. QED BY <1>1, <1>2, <1>3, PTL DEF Spec

-----------------------------------------------------------------------------
(* What a write of the tables does to the rows of one user: a row it stamps  *)
(* is newer than every ETag the user ever had, unless the user is late, and  *)
(* the ETag stays only if the permissions do, unless the user lost a row.    *)

Moved(u) ==
    /\ newest[u] <= newest'[u]
    /\ EtagOf(u)' <= newest'[u]
    /\ u \in late => u \in late'
    /\ u \in removed => u \in removed'
    /\ u \notin removed' => RolesOf(u) \subseteq RolesOf(u)'
    /\ u \notin late' =>
          \A r \in RolesOf(u)' : Stamp(u, r)' <= newest[u] =>
             r \in RolesOf(u) /\ Stamp(u, r)' = Stamp(u, r) /\ role'[r].perms = role[r].perms
    /\ u \notin late' \cup removed' /\ EtagOf(u)' <= newest[u] =>
          EtagOf(u)' = EtagOf(u) /\ PermsOf(u)' = PermsOf(u) /\ RolesOf(u)' = RolesOf(u)

(* The row of u and r is as it was. *)
SameRow(u, r) ==
    /\ assignedAt'[<<u, r>>] = assignedAt[<<u, r>>]
    /\ role'[r].updatedAt = role[r].updatedAt
    /\ role'[r].perms = role[r].perms

LEMMA SameRows ==
    ASSUME NEW u, RolesOf(u)' = RolesOf(u), \A r \in RolesOf(u) : SameRow(u, r)
    PROVE  /\ EtagOf(u)' = EtagOf(u) /\ PermsOf(u)' = PermsOf(u)
           /\ Allowed(u)' = Allowed(u) /\ GrantsOf(u)' = GrantsOf(u)
           /\ \A r \in RolesOf(u) : Stamp(u, r)' = Stamp(u, r)
<1>1. \A r \in RolesOf(u) : Stamp(u, r)' = Stamp(u, r)
  BY DEF SameRow, Stamp
<1>2. {Greatest(assignedAt'[<<u, r>>], role'[r].updatedAt) : r \in RolesOf(u)'}
        = {Greatest(assignedAt[<<u, r>>], role[r].updatedAt) : r \in RolesOf(u)}
  BY DEF SameRow
<1>3. {role'[r].perms : r \in RolesOf(u)'} = {role[r].perms : r \in RolesOf(u)}
  BY DEF SameRow
<1>4. EtagOf(u)' = EtagOf(u)
  BY <1>2 DEF EtagOf
<1>5. PermsOf(u)' = PermsOf(u)
  BY <1>3 DEF PermsOf, PermsIn
<1>6. Allowed(u)' = Allowed(u)
  BY <1>5 DEF Allowed, Admits
<1>7. GrantsOf(u)' = GrantsOf(u)
  BY DEF SameRow, GrantsOf, Admits
<1>8. QED BY <1>1, <1>4, <1>5, <1>6, <1>7

LEMMA UntouchedMoves ==
    ASSUME TypeInv, EtagsBounded, NEW u \in Users,
           RolesOf(u)' = RolesOf(u), \A r \in RolesOf(u) : SameRow(u, r),
           newest'[u] = newest[u], late \subseteq late', removed \subseteq removed'
    PROVE  Moved(u)
<1>1. newest[u] \in Nat /\ EtagOf(u) <= newest[u] /\ EtagOf(u) \in Nat
  BY TypeParts, EtagsAreNewest DEF RestTyped, EtagsBounded, EtagIsNewest
<1>2. /\ EtagOf(u)' = EtagOf(u) /\ PermsOf(u)' = PermsOf(u)
      /\ \A r \in RolesOf(u) : Stamp(u, r)' = Stamp(u, r)
  BY SameRows
<1>3. newest[u] <= newest'[u] /\ EtagOf(u)' <= newest'[u]
  BY <1>1, <1>2
<1>4. \A r \in RolesOf(u)' :
         r \in RolesOf(u) /\ Stamp(u, r)' = Stamp(u, r) /\ role'[r].perms = role[r].perms
  BY <1>2 DEF SameRow
<1>5. QED BY <1>2, <1>3, <1>4 DEF Moved

LEMMA StampedMoves ==
    ASSUME TypeInv, TypeInv', EtagsBounded, NEW u \in Users, NEW r0,
           newest'[u] = Greatest(newest[u], EtagOf(u)'),
           EtagOf(u)' <= newest[u] => u \in late',
           late \subseteq late', removed' = removed, RolesOf(u) \subseteq RolesOf(u)',
           \A r \in RolesOf(u)' : r # r0 => r \in RolesOf(u) /\ SameRow(u, r)
    PROVE  Moved(u)
<1>1. newest[u] \in Nat /\ EtagOf(u) <= newest[u] /\ EtagIsNewest(u)
  BY TypeParts, EtagsAreNewest DEF RestTyped, EtagsBounded
<1>2. EtagIsNewest(u)'
  BY TypePartsNext, EtagsAreNewestNext
<1>3. EtagOf(u) \in Nat /\ EtagOf(u)' \in Nat
  BY <1>1, <1>2 DEF EtagIsNewest
<1>4. newest[u] <= newest'[u] /\ EtagOf(u)' <= newest'[u]
  BY <1>1, <1>3 DEF Greatest
<1>5. \A r \in RolesOf(u)' : r # r0 => r \in RolesOf(u) /\ Stamp(u, r)' = Stamp(u, r)
                                       /\ role'[r].perms = role[r].perms
  BY DEF SameRow, Stamp
<1>6. ASSUME u \notin late' PROVE r0 \in RolesOf(u)' /\ ~(Stamp(u, r0)' <= newest[u])
  <2>1. ~(EtagOf(u)' <= newest[u])
    BY <1>6
  <2>2. RolesOf(u)' # {}
    BY <1>1, <1>2, <2>1 DEF EtagIsNewest
  <2>3. PICK r1 \in RolesOf(u)' : Stamp(u, r1)' = EtagOf(u)'
    BY <1>2, <2>2 DEF EtagIsNewest
  <2>4. r1 # r0 => Stamp(u, r1)' <= EtagOf(u) /\ Stamp(u, r1)' \in Nat
    BY <1>1, <1>5, <2>3 DEF EtagIsNewest
  <2>5. QED BY <1>1, <1>3, <2>1, <2>3, <2>4
<1>7. QED BY <1>4, <1>5, <1>6 DEF Moved

LEMMA LosesMoves ==
    ASSUME TypeInv, TypeInv', EtagsBounded, NEW u \in Users,
           newest'[u] = newest[u], late' = late, removed \subseteq removed',
           RolesOf(u)' \subseteq RolesOf(u), \A r \in RolesOf(u)' : SameRow(u, r),
           u \in removed'
    PROVE  Moved(u)
<1>1. newest[u] \in Nat /\ EtagOf(u) <= newest[u] /\ EtagIsNewest(u)
  BY TypeParts, EtagsAreNewest DEF RestTyped, EtagsBounded
<1>2. EtagIsNewest(u)'
  BY TypePartsNext, EtagsAreNewestNext
<1>3. \A r \in RolesOf(u)' : Stamp(u, r)' = Stamp(u, r) /\ role'[r].perms = role[r].perms
  BY DEF SameRow, Stamp
<1>4. EtagOf(u)' <= EtagOf(u)
  <2>1. CASE RolesOf(u)' = {}
    BY <1>1, <1>2, <2>1 DEF EtagIsNewest
  <2>2. CASE RolesOf(u)' # {}
    <3>1. PICK r \in RolesOf(u)' : Stamp(u, r)' = EtagOf(u)'
      BY <1>2, <2>2 DEF EtagIsNewest
    <3>2. QED BY <1>1, <1>3, <3>1 DEF EtagIsNewest
  <2>3. QED BY <2>1, <2>2
<1>5. EtagOf(u) \in Nat /\ EtagOf(u)' \in Nat
  BY <1>1, <1>2 DEF EtagIsNewest
<1>6. newest[u] <= newest'[u] /\ EtagOf(u)' <= newest'[u]
  BY <1>1, <1>4, <1>5
<1>7. \A r \in RolesOf(u)' :
         r \in RolesOf(u) /\ Stamp(u, r)' = Stamp(u, r) /\ role'[r].perms = role[r].perms
  BY <1>3
<1>8. QED BY <1>6, <1>7 DEF Moved

-----------------------------------------------------------------------------
(* Every write moves every user, and the calls under way observe it. *)

Observed(x, y) ==
    /\ y.pc = x.pc /\ y.user = x.user /\ y.etag = x.etag /\ y.perms = x.perms
    /\ y.rows = x.rows
    /\ y.held \subseteq x.held
    /\ x.seen \subseteq y.seen
    /\ Underway(x) => y.held \subseteq GrantsOf(x.user)' /\ Allowed(x.user)' \subseteq y.seen

TablesMove ==
    /\ UNCHANGED cache
    /\ \A u \in Users : Moved(u)
    /\ \A q \in Readers : Observed(reader[q], reader'[q])

LEMMA ObserveObserves ==
    ASSUME TypeInv, Observe, NEW q \in Readers
    PROVE  Observed(reader[q], reader'[q])
<1>1. PICK allowed, grants : /\ allowed = [u \in Users |-> Allowed(u)']
                            /\ grants = [u \in Users |-> GrantsOf(u)']
  OBVIOUS
<1>2. reader'[q] = IF reader[q].pc \in {"idle", "answered"} THEN reader[q]
                   ELSE [reader[q] EXCEPT !.held = @ \cap grants[reader[q].user],
                                          !.seen = @ \cup allowed[reader[q].user]]
  BY <1>1 DEF Observe, Allowed
<1>3. PICK x \in ReaderRecord : x = reader[q]
  BY ReaderType
<1>4. x.pc # "idle" => x.user \in Users
  BY <1>3, ReaderType DEF ReaderWellFormed
<1>5. PICK y : y = reader'[q]
  OBVIOUS
<1>6. CASE x.pc \in {"idle", "answered"}
  <2>1. y = x
    BY <1>2, <1>3, <1>5, <1>6
  <2>2. QED BY <1>3, <1>5, <1>6, <2>1 DEF Observed, Underway
<1>7. CASE x.pc \notin {"idle", "answered"}
  <2>1. PICK a, g : a = Allowed(x.user)' /\ g = GrantsOf(x.user)'
    OBVIOUS
  <2>2. allowed[x.user] = a /\ grants[x.user] = g
    BY <1>1, <1>4, <1>7, <2>1
  <2>3. y = [x EXCEPT !.held = @ \cap g, !.seen = @ \cup a]
    BY <1>2, <1>3, <1>5, <1>7, <2>2
  <2>4. /\ y.pc = x.pc /\ y.user = x.user /\ y.etag = x.etag /\ y.perms = x.perms
        /\ y.rows = x.rows /\ y.held = x.held \cap g /\ y.seen = x.seen \cup a
    BY <2>3 DEF ReaderRecord
  <2>5. /\ y.held \subseteq x.held /\ x.seen \subseteq y.seen
        /\ y.held \subseteq g /\ a \subseteq y.seen
    BY <2>4
  <2>6. Observed(x, y)
    BY <2>1, <2>4, <2>5 DEF Observed
  <2>7. QED BY <1>3, <1>5, <2>6
<1>8. QED BY <1>6, <1>7

(* A step that writes no row of a table moves nobody. *)
LEMMA QuietMoves ==
    ASSUME TypeInv, CacheInv, UNCHANGED <<assignedAt, cache, reader, newest, late, removed>>,
           \A r \in Roles : role'[r].perms = role[r].perms
                            /\ role'[r].updatedAt = role[r].updatedAt
    PROVE  TablesMove
<1>1. \A u \in Users : RolesOf(u)' = RolesOf(u) /\ \A r \in RolesOf(u) : SameRow(u, r)
  BY DEF RolesOf, SameRow
<1>2. \A u \in Users : Moved(u)
  BY <1>1, UntouchedMoves DEF CacheInv
<1>3. \A u \in Users : Allowed(u)' = Allowed(u) /\ GrantsOf(u)' = GrantsOf(u)
  BY <1>1, SameRows
<1>4. ASSUME NEW q \in Readers PROVE Observed(reader[q], reader'[q])
  <2>1. reader'[q] = reader[q] /\ ReaderGood(reader[q])
    BY DEF CacheInv, ReadersGood
  <2>2. Underway(reader[q]) => reader[q].user \in Users
    BY ReaderType DEF Underway, ReaderWellFormed
  <2>3. Underway(reader[q]) => /\ Allowed(reader[q].user)' = Allowed(reader[q].user)
                               /\ GrantsOf(reader[q].user)' = GrantsOf(reader[q].user)
    <3>1. PICK v : v = reader[q].user
      OBVIOUS
    <3>2. Underway(reader[q]) => Allowed(v)' = Allowed(v) /\ GrantsOf(v)' = GrantsOf(v)
      BY <1>3, <2>2, <3>1
    <3>3. reader'[q].user = v
      BY <2>1, <3>1
    <3>4. QED BY <3>1, <3>2, <3>3
  <2>4. QED BY <2>1, <2>3 DEF Observed, ReaderGood
<1>5. QED BY <1>2, <1>4 DEF TablesMove

LEMMA CommitAssignMoves ==
    ASSUME TypeInv, TypeInv', CacheInv, NEW w \in Writers, CommitAssignRole(w)
    PROVE  TablesMove
<1>1. PICK x \in WriterRecord : x = writer[w]
  BY TypeParts DEF WritersTyped
<1>2. x.user \in Users /\ x.role \in Roles /\ x.stamp # 0
  BY <1>1, TypeParts DEF CommitAssignRole, WritersTyped, WriterWellFormed, WriterRecord
<1>3. CASE ~(role[x.role].exists /\ assignedAt[<<x.user, x.role>>] = 0)
  BY <1>1, <1>3, QuietMoves DEF CommitAssignRole
<1>4. CASE role[x.role].exists /\ assignedAt[<<x.user, x.role>>] = 0
  <2>1. /\ assignedAt' = [assignedAt EXCEPT ![<<x.user, x.role>>] = x.stamp]
        /\ UNCHANGED role /\ Stamped({x.user}) /\ Observe
        /\ UNCHANGED <<cache, removed>>
    BY <1>1, <1>4 DEF CommitAssignRole
  <2>2. \A ur \in Users \X Roles :
           assignedAt'[ur] = IF ur = <<x.user, x.role>> THEN x.stamp ELSE assignedAt[ur]
    BY <2>1, TypeParts DEF TablesTyped
  <2>3. ASSUME NEW u \in Users PROVE Moved(u)
    <3>1. newest'[u] = Greatest(newest[u], EtagOf(u)') /\ late \subseteq late'
      BY <2>1 DEF Stamped
    <3>2. CASE u = x.user
      <4>1. EtagOf(u)' <= newest[u] => u \in late'
        BY <2>1, <3>2 DEF Stamped
      <4>2. /\ RolesOf(u) \subseteq RolesOf(u)'
            /\ \A r \in RolesOf(u)' : r # x.role => r \in RolesOf(u) /\ SameRow(u, r)
        BY <1>2, <2>1, <2>2 DEF RolesOf, SameRow
      <4>3. QED BY <2>1, <3>1, <4>1, <4>2, StampedMoves DEF CacheInv
    <3>3. CASE u # x.user
      <4>1. RolesOf(u)' = RolesOf(u) /\ \A r \in RolesOf(u) : SameRow(u, r)
        BY <2>1, <2>2, <3>3 DEF RolesOf, SameRow
      <4>2. newest'[u] = newest[u]
        BY <3>1, <4>1, SameRows, TypeParts, EtagsAreNewest
           DEF Greatest, CacheInv, EtagsBounded, RestTyped, EtagIsNewest
      <4>3. QED BY <2>1, <3>1, <4>1, <4>2, UntouchedMoves DEF CacheInv
    <3>4. QED BY <3>2, <3>3
  <2>4. QED BY <2>1, <2>3, ObserveObserves DEF TablesMove
<1>5. QED BY <1>3, <1>4

LEMMA CommitUpdateMoves ==
    ASSUME TypeInv, TypeInv', CacheInv, NEW w \in Writers, CommitUpdateRole(w)
    PROVE  TablesMove
<1>1. PICK x \in WriterRecord : x = writer[w]
  BY TypeParts DEF WritersTyped
<1>2. x.role \in Roles
  BY <1>1, TypeParts DEF CommitUpdateRole, WritersTyped, WriterWellFormed, WriterRecord
<1>3. CASE ~role[x.role].exists
  BY <1>1, <1>3, QuietMoves DEF CommitUpdateRole
<1>4. CASE role[x.role].exists
  <2>1. /\ role' = [role EXCEPT ![x.role].perms = x.perms, ![x.role].updatedAt = x.stamp]
        /\ UNCHANGED assignedAt /\ Stamped({u \in Users : x.role \in RolesOf(u)}) /\ Observe
        /\ UNCHANGED <<cache, removed>>
    BY <1>1, <1>4 DEF CommitUpdateRole
  <2>2. \A r \in Roles : r # x.role => role'[r] = role[r]
    BY <2>1, TypeParts DEF TablesTyped
  <2>3. ASSUME NEW u \in Users PROVE Moved(u)
    <3>1. newest'[u] = Greatest(newest[u], EtagOf(u)') /\ late \subseteq late'
      BY <2>1 DEF Stamped
    <3>2. RolesOf(u)' = RolesOf(u)
      BY <2>1 DEF RolesOf
    <3>3. \A r \in RolesOf(u) : r # x.role => SameRow(u, r)
      BY <2>1, <2>2 DEF RolesOf, SameRow
    <3>4. CASE x.role \in RolesOf(u)
      <4>1. EtagOf(u)' <= newest[u] => u \in late'
        BY <2>1, <3>4 DEF Stamped
      <4>2. \A r \in RolesOf(u)' : r # x.role => r \in RolesOf(u) /\ SameRow(u, r)
        BY <3>2, <3>3
      <4>3. QED BY <2>1, <3>1, <3>2, <4>1, <4>2, StampedMoves DEF CacheInv
    <3>5. CASE x.role \notin RolesOf(u)
      <4>1. \A r \in RolesOf(u) : SameRow(u, r)
        BY <3>3, <3>5
      <4>2. newest'[u] = newest[u]
        BY <3>1, <3>2, <4>1, SameRows, TypeParts, EtagsAreNewest
           DEF Greatest, CacheInv, EtagsBounded, RestTyped, EtagIsNewest
      <4>3. QED BY <2>1, <3>1, <3>2, <4>1, <4>2, UntouchedMoves DEF CacheInv
    <3>6. QED BY <3>4, <3>5
  <2>4. QED BY <2>1, <2>3, ObserveObserves DEF TablesMove
<1>5. QED BY <1>3, <1>4

LEMMA UnassignMoves ==
    ASSUME TypeInv, TypeInv', CacheInv, NEW pairs \in SUBSET (Users \X Roles), Unassign(pairs),
           UNCHANGED cache
    PROVE  TablesMove
<1>1. \A ur \in Users \X Roles : assignedAt'[ur] = IF ur \in pairs THEN 0 ELSE assignedAt[ur]
  BY DEF Unassign
<1>2. UNCHANGED <<role, newest, late>> /\ removed \subseteq removed' /\ Observe
  BY DEF Unassign
<1>3. ASSUME NEW u \in Users PROVE Moved(u)
  <2>1. /\ RolesOf(u)' \subseteq RolesOf(u)
        /\ \A r \in RolesOf(u)' : SameRow(u, r)
        /\ \A r \in RolesOf(u) : r \in RolesOf(u)' \/ <<u, r>> \in pairs
    BY <1>1, <1>2 DEF RolesOf, SameRow
  <2>2. CASE RolesOf(u)' = RolesOf(u)
    BY <1>2, <2>1, <2>2, UntouchedMoves DEF CacheInv
  <2>3. CASE RolesOf(u)' # RolesOf(u)
    <3>1. PICK r \in RolesOf(u) : <<u, r>> \in pairs
      BY <2>1, <2>3
    <3>2. <<u, r>> \in {p \in pairs : assignedAt[p] # 0} /\ <<u, r>>[1] = u
      BY <3>1 DEF RolesOf
    <3>3. u \in removed'
      BY <3>2 DEF Unassign
    <3>4. QED BY <1>2, <2>1, <3>3, LosesMoves DEF CacheInv
  <2>4. QED BY <2>2, <2>3
<1>4. QED BY <1>2, <1>3, ObserveObserves DEF TablesMove

LEMMA DropRoleMoves ==
    ASSUME TypeInv, TypeInv', CacheInv, NEW w \in Writers, DropRole(w)
    PROVE  TablesMove
<1>1. \A r \in Roles : role'[r].perms = role[r].perms /\ role'[r].updatedAt = role[r].updatedAt
  BY TypeParts DEF DropRole, TablesTyped
<1>2. QED BY <1>1, QuietMoves DEF DropRole

LEMMA RoleStepMoves ==
    ASSUME TypeInv, TypeInv', CacheInv,
           \/ \E w \in Writers : \/ Begins(w) \/ CommitAssignRole(w) \/ CommitUpdateRole(w)
                                 \/ StripRole(w) \/ DropRole(w)
           \/ \E u \in Users, r \in Roles : RemoveRole(u, r)
           \/ Tick
           \/ UNCHANGED vars
    PROVE  TablesMove
<1>1. ASSUME NEW w \in Writers, Begins(w) PROVE TablesMove
  <2>1. UNCHANGED <<role, assignedAt, cache, reader, newest, late, removed>>
    BY <1>1 DEF Begins, BeginAssignRole, BeginUpdateRole, BeginDeleteRole, Begin
  <2>2. QED BY <2>1, QuietMoves
<1>2. ASSUME NEW w \in Writers, StripRole(w) PROVE TablesMove
  <2>1. writer[w].role \in Roles
    BY <1>2, TypeParts DEF StripRole, WritersTyped, WriterWellFormed, WriterRecord
  <2>2. QED BY <1>2, <2>1, UnassignMoves DEF StripRole
<1>3. ASSUME NEW u \in Users, NEW r \in Roles, RemoveRole(u, r) PROVE TablesMove
  BY <1>3, UnassignMoves DEF RemoveRole
<1>4. CASE Tick \/ UNCHANGED vars
  BY <1>4, QuietMoves DEF Tick, vars
<1>5. QED BY <1>1, <1>2, <1>3, <1>4, CommitAssignMoves, CommitUpdateMoves, DropRoleMoves

-----------------------------------------------------------------------------
(* The entries and the calls under way keep their promises. *)

LEMMA EntryType ==
    ASSUME TypeInv, NEW n \in Entries
    PROVE  n.user \in Users
<1>1. CASE \E u \in Users :
              n = [user |-> u, etag |-> cache[u].etag, perms |-> cache[u].perms]
  BY <1>1
<1>2. CASE \E q \in Readers :
              /\ reader[q].pc = "store"
              /\ n = [user |-> reader[q].user, etag |-> reader[q].etag,
                      perms |-> reader[q].perms]
  <2>1. PICK q \in Readers :
           /\ reader[q].pc = "store"
           /\ n = [user |-> reader[q].user, etag |-> reader[q].etag, perms |-> reader[q].perms]
    BY <1>2
  <2>2. reader[q].user \in Users
    BY <2>1, ReaderType DEF ReaderWellFormed
  <2>3. QED BY <2>1, <2>2
<1>3. QED BY <1>1, <1>2 DEF Entries

LEMMA TablesMoveKeepsEntries ==
    ASSUME TypeInv, TypeInv', CacheInv, TablesMove
    PROVE  Entries' = Entries /\ EntriesGood'
<1>1. Entries' = Entries
  <2>1. \A q \in Readers : /\ reader'[q].pc = reader[q].pc
                           /\ reader'[q].user = reader[q].user
                           /\ reader'[q].etag = reader[q].etag
                           /\ reader'[q].perms = reader[q].perms
    BY DEF TablesMove, Observed
  <2>2. {p \in Readers : reader'[p].pc = "store"} = {p \in Readers : reader[p].pc = "store"}
    BY <2>1
  <2>3. {[user |-> reader'[q].user, etag |-> reader'[q].etag, perms |-> reader'[q].perms] :
            q \in {p \in Readers : reader'[p].pc = "store"}}
          = {[user |-> reader[q].user, etag |-> reader[q].etag, perms |-> reader[q].perms] :
                q \in {p \in Readers : reader[p].pc = "store"}}
    BY <2>1, <2>2
  <2>4. cache' = cache
    BY DEF TablesMove
  <2>5. QED BY <2>3, <2>4 DEF Entries
<1>2. ASSUME NEW n \in Entries PROVE EntryGood(n)'
  <2>1. PICK u, e, perms : u = n.user /\ e = n.etag /\ perms = n.perms
    OBVIOUS
  <2>2. u \in Users /\ Moved(u) /\ EntryGood(n)
    BY <2>1, EntryType DEF TablesMove, CacheInv, EntriesGood
  <2>3. SUFFICES ASSUME e \in Nat
                 PROVE  /\ e <= newest'[u]
                        /\ u \notin late' =>
                              \A r \in RolesOf(u)' : Stamp(u, r)' <= e =>
                                 role'[r].perms \subseteq Admits(perms)
                        /\ u \notin late' \cup removed' /\ EtagOf(u)' = e =>
                              perms = PermsOf(u)'
    BY <2>1 DEF EntryGood, Admits
  <2>4. newest[u] \in Nat /\ newest'[u] \in Nat /\ newest[u] <= newest'[u] /\ e <= newest[u]
    BY <2>1, <2>2, <2>3, TypeParts, TypePartsNext DEF RestTyped, EntryGood, Moved
  <2>5. ASSUME u \notin late', NEW r \in RolesOf(u)', Stamp(u, r)' <= e
        PROVE  role'[r].perms \subseteq Admits(perms)
    <3>1. Stamp(u, r)' \in Nat
      BY <2>2, TypePartsNext, EtagsAreNewestNext DEF EtagIsNewest
    <3>2. Stamp(u, r)' <= newest[u]
      BY <2>3, <2>4, <2>5, <3>1
    <3>3. r \in RolesOf(u) /\ Stamp(u, r) <= e /\ role'[r].perms = role[r].perms
      BY <2>2, <2>5, <3>2 DEF Moved
    <3>4. u \notin late
      BY <2>2, <2>5 DEF Moved
    <3>5. QED BY <2>1, <2>2, <2>3, <3>3, <3>4 DEF EntryGood
  <2>6. ASSUME u \notin late' \cup removed', EtagOf(u)' = e PROVE perms = PermsOf(u)'
    <3>1. EtagOf(u)' <= newest[u]
      BY <2>4, <2>6
    <3>2. EtagOf(u) = e /\ PermsOf(u)' = PermsOf(u) /\ u \notin late \cup removed
      BY <2>2, <2>6, <3>1 DEF Moved
    <3>3. QED BY <2>1, <2>2, <2>3, <3>2 DEF EntryGood
  <2>7. e <= newest'[u]
    BY <2>3, <2>4
  <2>8. QED BY <2>5, <2>6, <2>7
<1>3. QED BY <1>1, <1>2 DEF EntriesGood

(* What fits a call fits it as it goes on, while rows are written.           *)
LEMMA FitsKept ==
    ASSUME NEW x, NEW y, NEW perms, Fits(x, perms), Observed(x, y),
           late \cap {x.user} \subseteq late', removed \cap {x.user} \subseteq removed'
    PROVE  /\ y.user \notin late' => \A rp \in y.held : rp[2] \in Admits(perms)
           /\ y.user \notin late' \cup removed' => Admits(perms) \subseteq y.seen
BY DEF Fits, Observed

(* So do the rows read by a first SELECT while rows are written.             *)
LEMMA RowsKept ==
    ASSUME TypeInv, TypeInv', NEW u \in Users, Moved(u), NEW x, NEW y, RowsGood(x),
           x.user = u, x.etag \in Nat => x.etag <= newest[u],
           y.user = u, y.etag = x.etag, y.rows = x.rows, y.held \subseteq x.held
    PROVE  RowsGood(y)'
<1>1. newest[u] \in Nat /\ EtagIsNewest(u) /\ EtagIsNewest(u)'
  BY TypeParts, TypePartsNext, EtagsAreNewest, EtagsAreNewestNext DEF RestTyped
<1>2. /\ u \notin late' => u \notin late
      /\ u \notin removed' => u \notin removed
  BY DEF Moved
<1>3. ASSUME u \notin late', x.etag \in Nat, NEW r \in RolesOf(u)', Stamp(u, r)' <= x.etag
      PROVE  r \in x.rows
  <2>1. Stamp(u, r)' <= newest[u]
    BY <1>1, <1>3 DEF EtagIsNewest
  <2>2. r \in RolesOf(u) /\ Stamp(u, r) <= x.etag
    BY <1>3, <2>1 DEF Moved
  <2>3. QED BY <1>2, <1>3, <2>2 DEF RowsGood
<1>4. ASSUME u \notin late' \cup removed', x.etag \in Nat, EtagOf(u)' = x.etag
      PROVE  x.rows = RolesOf(u)'
  <2>1. EtagOf(u) = x.etag /\ RolesOf(u)' = RolesOf(u)
    BY <1>4 DEF Moved
  <2>2. QED BY <1>2, <1>4, <2>1 DEF RowsGood
<1>5. u \notin removed' => x.rows \subseteq RolesOf(u)'
  BY <1>2 DEF RowsGood, Moved
<1>6. \A rp \in y.held : rp[1] \in y.rows
  BY DEF RowsGood
<1>7. QED BY <1>3, <1>4, <1>5, <1>6 DEF RowsGood

LEMMA TablesMoveKeepsReaders ==
    ASSUME TypeInv, TypeInv', CacheInv, TablesMove
    PROVE  ReadersGood'
<1>1. Entries' = Entries
  BY TablesMoveKeepsEntries
<1>2. ASSUME NEW q \in Readers, NEW x, x = reader[q], NEW y, y = reader'[q]
      PROVE  ReaderGood(y)'
  <2>1. Observed(x, y) /\ ReaderGood(x)
    BY <1>2 DEF TablesMove, CacheInv, ReadersGood
  <2>2. CASE x.pc = "idle"
    BY <2>1, <2>2 DEF Observed, ReaderGood, Underway
  <2>3. CASE x.pc # "idle"
    <3>1. PICK u \in Users : u = x.user
      BY <1>2, <2>3, ReaderType DEF ReaderWellFormed
    <3>2. Moved(u) /\ newest[u] \in Nat /\ newest'[u] \in Nat
      BY TypeParts, TypePartsNext DEF TablesMove, RestTyped
    <3>3. late \cap {x.user} \subseteq late' /\ removed \cap {x.user} \subseteq removed'
      BY <3>1, <3>2 DEF Moved
    <3>4. y.pc = x.pc /\ y.user = u /\ y.etag = x.etag /\ y.perms = x.perms
      BY <2>1, <3>1 DEF Observed
    <3>5. \A perms : Fits(x, perms) => Fits(y, perms)'
      BY <2>1, <3>3, FitsKept DEF Fits, Admits
    <3>6. Underway(y) => y.held \subseteq GrantsOf(y.user)' /\ Allowed(y.user)' \subseteq y.seen
      BY <2>1, <3>1, <3>4 DEF Observed, Underway
    <3>7. y.pc \in {"lookup", "fetch", "roles"} /\ y.etag \in Nat => y.etag <= newest'[y.user]
      <4>1. y.pc \in {"lookup", "fetch", "roles"} /\ y.etag \in Nat => y.etag <= newest[u]
        BY <2>1, <3>1, <3>4 DEF ReaderGood
      <4>2. newest[u] <= newest'[u]
        BY <3>2 DEF Moved
      <4>3. QED BY <3>2, <3>4, <4>1, <4>2
    <3>8. ASSUME y.pc = "lookup", y.etag \in Nat, NEW n \in Entries,
                 n.user = y.user, n.etag = y.etag
          PROVE  Fits(y, n.perms)'
      BY <2>1, <3>1, <3>4, <3>5, <3>8 DEF ReaderGood
    <3>9. y.pc \in {"store", "answered"} => Fits(y, y.perms)'
      BY <2>1, <3>4, <3>5 DEF ReaderGood
    <3>10. y.pc = "roles" => RowsGood(y)'
      <4>1. SUFFICES ASSUME x.pc = "roles" PROVE RowsGood(y)'
        BY <3>4
      <4>2. RowsGood(x) /\ (x.etag \in Nat => x.etag <= newest[u])
        BY <2>1, <3>1, <4>1 DEF ReaderGood
      <4>3. y.rows = x.rows /\ y.held \subseteq x.held
        BY <2>1 DEF Observed
      <4>4. QED BY <3>1, <3>2, <3>4, <4>2, <4>3, RowsKept
    <3>11. QED BY <1>1, <3>6, <3>7, <3>8, <3>9, <3>10 DEF ReaderGood, Underway
  <2>4. QED BY <2>2, <2>3
<1>3. ASSUME NEW q \in Readers PROVE ReaderGood(reader[q])'
  <2>1. PICK x, y : x = reader[q] /\ y = reader'[q]
    OBVIOUS
  <2>2. ReaderGood(y)'
    BY <1>2, <2>1
  <2>3. QED BY <2>1, <2>2 DEF ReaderGood, RowsGood, Underway, Fits
<1>4. QED BY <1>3 DEF ReadersGood

LEMMA TablesMoveKeepsPairs ==
    ASSUME TypeInv, CacheInv, TablesMove
    PROVE  PairsGood'
<1>1. ASSUME NEW p \in Readers, NEW q \in Readers, NEW x, NEW z,
             x = reader'[p], z = reader'[q]
      PROVE  PairGood(x, z)'
  <2>1. /\ Observed(reader[p], x) /\ Observed(reader[q], z)
        /\ PairGood(reader[p], reader[q])
    BY <1>1 DEF TablesMove, CacheInv, PairsGood
  <2>2. SUFFICES ASSUME x.pc = "lookup", z.pc = "roles", z.user = x.user,
                        x.etag \in Nat, z.etag = x.etag, x.user \notin late'
                 PROVE  \A rp \in x.held : rp[1] \in z.rows
    BY DEF PairGood
  <2>3. PICK u \in Users : u = x.user
    BY <2>1, <2>2, ReaderType DEF Observed, ReaderWellFormed
  <2>4. u \notin late
    BY <2>2, <2>3 DEF TablesMove, Moved
  <2>5. \A rp \in reader[p].held : rp[1] \in reader[q].rows
    BY <2>1, <2>2, <2>3, <2>4 DEF PairGood, Observed
  <2>6. QED BY <2>1, <2>5 DEF Observed
<1>2. ASSUME NEW p \in Readers, NEW q \in Readers PROVE PairGood(reader[p], reader[q])'
  <2>1. PICK x, z : x = reader'[p] /\ z = reader'[q]
    OBVIOUS
  <2>2. QED BY <1>1, <2>1 DEF PairGood
<1>3. QED BY <1>2 DEF PairsGood

LEMMA TablesMoveInv ==
    ASSUME TypeInv, TypeInv', CacheInv, TablesMove
    PROVE  CacheInv'
<1>1. EtagsBounded'
  BY DEF TablesMove, Moved, EtagsBounded
<1>2. QED BY <1>1, TablesMoveKeepsEntries, TablesMoveKeepsReaders, TablesMoveKeepsPairs
             DEF CacheInv

(* A step of the call q: the entries it leaves are good and fit every call   *)
(* that stood at its lookup, and the call itself goes on as it should.       *)
LEMMA ReadStepInv ==
    ASSUME TypeInv, CacheInv, NEW q \in Readers, NEW y, ReadStep(q, y),
           NEW new, new = Entries', \A n \in new : EntryGood(n),
           \A n \in new : \A p \in Readers \ {q} :
              /\ reader[p].pc = "lookup" /\ reader[p].etag \in Nat
              /\ n.user = reader[p].user /\ n.etag = reader[p].etag
              => Fits(reader[p], n.perms),
           \A p \in Readers \ {q} : PairGood(y, reader[p]) /\ PairGood(reader[p], y),
           Underway(y) => y.held \subseteq GrantsOf(y.user) /\ Allowed(y.user) \subseteq y.seen,
           y.pc \in {"lookup", "fetch", "roles"} /\ y.etag \in Nat => y.etag <= newest[y.user],
           y.pc = "lookup" /\ y.etag \in Nat =>
              \A n \in new : n.user = y.user /\ n.etag = y.etag => Fits(y, n.perms),
           y.pc = "roles" => RowsGood(y),
           y.pc \in {"store", "answered"} => Fits(y, y.perms)
    PROVE  CacheInv'
<1>1. /\ role' = role /\ assignedAt' = assignedAt
      /\ newest' = newest /\ late' = late /\ removed' = removed
  BY DEF ReadStep
<1>2. EtagsBounded'
  BY <1>1 DEF CacheInv, EtagsBounded, EtagOf, RolesOf
<1>3. ASSUME NEW n \in new PROVE EntryGood(n)'
  <2>1. EntryGood(n)
    OBVIOUS
  <2>2. QED BY <1>1, <2>1 DEF EntryGood, Stamp, EtagOf, PermsOf, PermsIn, RolesOf,
                                 Admits
<1>4. EntriesGood'
  BY <1>3 DEF EntriesGood
<1>5. ASSUME NEW p \in Readers, NEW x, x = reader'[p] PROVE ReaderGood(x)'
  <2>1. /\ Underway(x) =>
              x.held \subseteq GrantsOf(x.user) /\ Allowed(x.user) \subseteq x.seen
        /\ x.pc \in {"lookup", "fetch", "roles"} /\ x.etag \in Nat => x.etag <= newest[x.user]
        /\ x.pc = "lookup" /\ x.etag \in Nat =>
              \A n \in new : n.user = x.user /\ n.etag = x.etag => Fits(x, n.perms)
        /\ x.pc = "roles" => RowsGood(x)
        /\ x.pc \in {"store", "answered"} => Fits(x, x.perms)
    <3>1. CASE p = q
      <4>1. x = y
        BY <1>5, <3>1, TypeParts DEF ReadStep, ReadersTyped
      <4>2. QED BY <4>1
    <3>2. CASE p # q
      <4>1. x = reader[p]
        BY <1>5, <3>2, TypeParts DEF ReadStep, ReadersTyped
      <4>2. ReaderGood(x)
        BY <4>1 DEF CacheInv, ReadersGood
      <4>3. QED BY <3>2, <4>1, <4>2 DEF ReaderGood
    <3>3. QED BY <3>1, <3>2
  <2>2. Allowed(x.user)' = Allowed(x.user) /\ GrantsOf(x.user)' = GrantsOf(x.user)
    <3>1. PICK u : u = x.user
      OBVIOUS
    <3>2. Allowed(u)' = Allowed(u)
      BY <1>1 DEF Allowed, PermsOf, PermsIn, RolesOf, Admits
    <3>3. GrantsOf(u)' = GrantsOf(u)
      BY <1>1 DEF GrantsOf, RolesOf, Admits
    <3>4. Allowed(x.user)' = Allowed(x.user)
      BY <3>1, <3>2 DEF Allowed, PermsOf, PermsIn, RolesOf, Admits
    <3>5. GrantsOf(x.user)' = GrantsOf(x.user)
      BY <3>1, <3>3 DEF GrantsOf, RolesOf, Admits
    <3>6. QED BY <3>4, <3>5
  <2>3. \A perms : Fits(x, perms) => Fits(x, perms)'
    BY <1>1 DEF Fits, Admits
  <2>4. RowsGood(x) => RowsGood(x)'
    BY <1>1 DEF RowsGood, Stamp, EtagOf, RolesOf
  <2>5. QED BY <1>1, <2>1, <2>2, <2>3, <2>4 DEF ReaderGood, Underway
<1>6. ASSUME NEW p \in Readers PROVE ReaderGood(reader[p])'
  <2>1. PICK x : x = reader'[p]
    OBVIOUS
  <2>2. ReaderGood(x)'
    BY <1>5, <2>1
  <2>3. QED BY <2>1, <2>2 DEF ReaderGood, RowsGood, Underway, Fits
<1>7. ReadersGood'
  BY <1>6 DEF ReadersGood
<1>8. ASSUME NEW p1 \in Readers, NEW p2 \in Readers PROVE PairGood(reader[p1], reader[p2])'
  <2>1. PICK x, z : x = reader'[p1] /\ z = reader'[p2]
    OBVIOUS
  <2>2. /\ p1 = q => x = y
        /\ p1 # q => x = reader[p1]
        /\ p2 = q => z = y
        /\ p2 # q => z = reader[p2]
    BY <2>1, TypeParts DEF ReadStep, ReadersTyped
  <2>3. PairGood(x, z)
    <3>1. CASE p1 # q /\ p2 # q
      BY <2>2, <3>1 DEF CacheInv, PairsGood
    <3>2. CASE p1 = q /\ p2 # q
      BY <2>2, <3>2
    <3>3. CASE p1 # q /\ p2 = q
      BY <2>2, <3>3
    <3>4. CASE p1 = q /\ p2 = q
      <4>1. x.pc = z.pc
        BY <2>2, <3>4
      <4>2. QED BY <4>1 DEF PairGood
    <3>5. QED BY <3>1, <3>2, <3>3, <3>4
  <2>4. QED BY <1>1, <2>1, <2>3 DEF PairGood
<1>9. PairsGood'
  BY <1>8 DEF PairsGood
<1>10. QED BY <1>2, <1>4, <1>7, <1>9 DEF CacheInv

(* The entries after a step of the call q that leaves the cache alone.       *)
LEMMA EntriesAfter ==
    ASSUME TypeInv, NEW q \in Readers, NEW y, ReadStep(q, y), UNCHANGED cache,
           NEW n \in Entries'
    PROVE  \/ n \in Entries
           \/ /\ y.pc = "store"
              /\ n = [user |-> y.user, etag |-> y.etag, perms |-> y.perms]
<1>1. CASE \E u \in Users :
              n = [user |-> u, etag |-> cache'[u].etag, perms |-> cache'[u].perms]
  BY <1>1 DEF Entries
<1>2. CASE \E p \in {p \in Readers : reader'[p].pc = "store"} :
              n = [user |-> reader'[p].user, etag |-> reader'[p].etag,
                   perms |-> reader'[p].perms]
  <2>1. PICK p \in Readers :
           /\ reader'[p].pc = "store"
           /\ n = [user |-> reader'[p].user, etag |-> reader'[p].etag,
                   perms |-> reader'[p].perms]
    BY <1>2
  <2>2. CASE p = q
    <3>1. reader'[p] = y
      BY <2>2, TypeParts DEF ReadStep, ReadersTyped
    <3>2. QED BY <2>1, <3>1
  <2>3. CASE p # q
    <3>1. reader'[p] = reader[p]
      BY <2>3, TypeParts DEF ReadStep, ReadersTyped
    <3>2. QED BY <2>1, <3>1 DEF Entries
  <2>4. QED BY <2>2, <2>3
<1>3. QED BY <1>1, <1>2 DEF Entries

LEMMA OldEntries ==
    ASSUME TypeInv, CacheInv, NEW n \in Entries
    PROVE  /\ EntryGood(n)
           /\ \A p \in Readers :
                 /\ reader[p].pc = "lookup" /\ reader[p].etag \in Nat
                 /\ n.user = reader[p].user /\ n.etag = reader[p].etag
                 => Fits(reader[p], n.perms)
BY DEF CacheInv, EntriesGood, ReadersGood, ReaderGood

(* The rows of a user grant no more than what covers them all grants.        *)
LEMMA AllowedCovered ==
    ASSUME TypeInv, NEW u \in Users, NEW perms,
           \A r \in RolesOf(u) : role[r].perms \subseteq Admits(perms)
    PROVE  \A rp \in GrantsOf(u) : rp[2] \in Admits(perms)
<1>1. \A r \in RolesOf(u) : Admits(role[r].perms) \subseteq Admits(perms)
  BY ConstantsAssumption DEF Admits, AllPerms
<1>2. QED BY <1>1 DEF GrantsOf

(* What one role grants, and what fewer roles grant, is granted by them all. *)
LEMMA RowAdmitted ==
    ASSUME TypeInv, NEW rows \in SUBSET Roles, NEW r \in rows
    PROVE  /\ role[r].perms \subseteq Admits(PermsIn(rows))
           /\ Admits(role[r].perms) \subseteq Admits(PermsIn(rows))
<1>1. role[r].perms \subseteq AllPerms
  BY TypeParts DEF TablesTyped
<1>2. PICK all : all = UNION {role[s].perms : s \in rows}
  OBVIOUS
<1>3. role[r].perms \subseteq all
  BY <1>2
<1>4. PermsIn(rows) = IF Wildcard \in all THEN {Wildcard} ELSE all
  BY <1>2 DEF PermsIn
<1>5. QED BY <1>1, <1>3, <1>4 DEF Admits

LEMMA FewerAdmitted ==
    ASSUME TypeInv, NEW u \in Users, NEW rows, rows \subseteq RolesOf(u)
    PROVE  Admits(PermsIn(rows)) \subseteq Allowed(u)
<1>1. RolesOf(u) \in SUBSET Roles
  BY DEF RolesOf
<1>2. \A r \in rows : role[r].perms \subseteq AllPerms
  BY <1>1, TypeParts DEF TablesTyped
<1>3. \A r \in rows : role[r].perms \subseteq Admits(PermsOf(u))
  BY <1>1, RowAdmitted DEF PermsOf
<1>4. LET all == UNION {role[r].perms : r \in rows} IN
      Admits(IF Wildcard \in all THEN {Wildcard} ELSE all) \subseteq Admits(PermsOf(u))
  BY <1>2, <1>3, WildcardAdmits
<1>5. QED BY <1>4 DEF Allowed, PermsIn

(* The ETag is read, and with it what the user is allowed: an entry with     *)
(* that ETag covers every row.                                               *)
LEMMA ReadEtagInv ==
    ASSUME TypeInv, CacheInv, NEW q \in Readers, NEW u \in Users, ReadEtag(q, u)
    PROVE  CacheInv'
<1>1. PICK y : /\ ReadStep(q, y) /\ UNCHANGED cache
               /\ y.pc = "lookup" /\ y.user = u /\ y.etag \in {EtagOf(u), ErrorEtag}
               /\ y.held = GrantsOf(u) /\ y.seen = Allowed(u)
  BY ReadEtagStep
<1>2. PICK new : new = Entries'
  OBVIOUS
<1>3. \A n \in new : n \in Entries
  BY <1>1, <1>2, EntriesAfter
<1>4. ASSUME y.etag \in Nat, NEW n \in new, n.user = u, n.etag = y.etag
      PROVE  Fits(y, n.perms)
  <2>1. EntryGood(n) /\ n.etag = EtagOf(u) /\ EtagIsNewest(u)
    BY <1>1, <1>3, <1>4, OldEntries, TypeParts, EtagsAreNewest, ConstantsAssumption
  <2>2. ASSUME u \notin late PROVE \A rp \in GrantsOf(u) : rp[2] \in Admits(n.perms)
    <3>1. \A r \in RolesOf(u) : role[r].perms \subseteq Admits(n.perms)
      BY <1>4, <2>1, <2>2 DEF EntryGood, EtagIsNewest
    <3>2. QED BY <3>1, AllowedCovered
  <2>3. u \notin late \cup removed => n.perms = PermsOf(u)
    BY <1>4, <2>1 DEF EntryGood
  <2>4. QED BY <1>1, <2>2, <2>3 DEF Fits, Allowed
<1>5. y.etag \in Nat => y.etag <= newest[u]
  BY <1>1, ConstantsAssumption DEF CacheInv, EtagsBounded
<1>6. ASSUME NEW p \in Readers, reader[p].pc = "roles", reader[p].user = u,
             y.etag \in Nat, reader[p].etag = y.etag, u \notin late, NEW rp \in y.held
      PROVE  rp[1] \in reader[p].rows
  <2>1. rp[1] \in RolesOf(u)
    BY <1>1, <1>6 DEF GrantsOf
  <2>2. Stamp(u, rp[1]) <= y.etag
    BY <1>1, <1>6, <2>1, TypeParts, EtagsAreNewest, ConstantsAssumption DEF EtagIsNewest
  <2>3. RowsGood(reader[p])
    BY <1>6 DEF CacheInv, ReadersGood, ReaderGood
  <2>4. QED BY <1>6, <2>1, <2>2, <2>3 DEF RowsGood
<1>7. \A p \in Readers \ {q} : PairGood(y, reader[p]) /\ PairGood(reader[p], y)
  BY <1>1, <1>6 DEF PairGood
<1>8. QED BY <1>1, <1>2, <1>3, <1>4, <1>5, <1>7, OldEntries, ReadStepInv

LEMMA LookupInv ==
    ASSUME TypeInv, CacheInv, NEW q \in Readers, Lookup(q)
    PROVE  CacheInv'
<1>1. PICK x : x = reader[q]
  OBVIOUS
<1>2. PICK y : /\ ReadStep(q, y) /\ UNCHANGED cache
               /\ x.pc = "lookup" /\ x.user \in Users
               /\ Continues(x, y)
               /\ \/ /\ y.pc = "answered"
                     /\ cache[x.user].etag = x.etag
                     /\ x.etag \in Nat
                     /\ y.perms = cache[x.user].perms
                  \/ y.pc = "fetch" /\ y.etag = x.etag
  BY <1>1, LookupStep
<1>3. PICK new : new = Entries'
  OBVIOUS
<1>4. \A n \in new : n \in Entries
  BY <1>2, <1>3, EntriesAfter
<1>5. ReaderGood(x)
  BY <1>1 DEF CacheInv, ReadersGood
<1>6. Underway(y) => y.held \subseteq GrantsOf(y.user) /\ Allowed(y.user) \subseteq y.seen
  BY <1>2, <1>5 DEF ReaderGood, Underway, Continues
<1>7. y.pc \in {"lookup", "fetch", "roles"} /\ y.etag \in Nat => y.etag <= newest[y.user]
  BY <1>2, <1>5 DEF ReaderGood, Continues
<1>8. y.pc \in {"store", "answered"} => Fits(y, y.perms)
  <2>1. SUFFICES ASSUME y.pc = "answered" PROVE Fits(y, y.perms)
    BY <1>2
  <2>2. PICK n \in Entries : n = [user |-> x.user, etag |-> cache[x.user].etag,
                                  perms |-> cache[x.user].perms]
    BY <1>2 DEF Entries
  <2>3. n.user = x.user /\ n.etag = x.etag /\ n.perms = y.perms /\ x.etag \in Nat
    BY <1>2, <2>1, <2>2
  <2>4. Fits(x, y.perms)
    BY <1>2, <1>5, <2>3 DEF ReaderGood
  <2>5. QED BY <1>2, <2>4 DEF Fits, Continues
<1>9. \A p \in Readers \ {q} : PairGood(y, reader[p]) /\ PairGood(reader[p], y)
  BY <1>2 DEF PairGood
<1>10. QED BY <1>2, <1>3, <1>4, <1>6, <1>7, <1>8, <1>9, OldEntries, ReadStepInv

(* The rows read are those of the user, the ETag's among them, for the ETag  *)
(* was read first.                                                           *)
LEMMA FetchAssignmentsInv ==
    ASSUME TypeInv, CacheInv, NEW q \in Readers, FetchAssignments(q)
    PROVE  CacheInv'
<1>1. PICK x : x = reader[q]
  OBVIOUS
<1>2. PICK y : /\ ReadStep(q, y) /\ UNCHANGED cache
               /\ x.pc = "fetch" /\ x.user \in Users
               /\ Continues(x, y)
               /\ y.pc = "roles" /\ y.etag = x.etag
               /\ y.rows = RolesOf(x.user)
  BY <1>1, FetchAssignmentsStep
<1>3. PICK new : new = Entries'
  OBVIOUS
<1>4. \A n \in new : n \in Entries
  BY <1>2, <1>3, EntriesAfter
<1>5. ReaderGood(x)
  BY <1>1 DEF CacheInv, ReadersGood
<1>6. y.held \subseteq GrantsOf(y.user) /\ Allowed(y.user) \subseteq y.seen
  BY <1>2, <1>5 DEF ReaderGood, Underway, Continues
<1>7. y.etag \in Nat => y.etag <= newest[y.user]
  BY <1>2, <1>5 DEF ReaderGood, Continues
<1>8. RowsGood(y)
  BY <1>2, <1>6 DEF RowsGood, GrantsOf, Continues
<1>9. ASSUME NEW p \in Readers, reader[p].pc = "lookup", reader[p].user = y.user,
             NEW rp \in reader[p].held
      PROVE  rp[1] \in y.rows
  <2>1. reader[p].held \subseteq GrantsOf(y.user)
    BY <1>9 DEF CacheInv, ReadersGood, ReaderGood, Underway
  <2>2. QED BY <1>2, <1>9, <2>1 DEF GrantsOf, Continues
<1>10. \A p \in Readers \ {q} : PairGood(y, reader[p]) /\ PairGood(reader[p], y)
  BY <1>2, <1>9 DEF PairGood
<1>11. QED BY <1>2, <1>3, <1>4, <1>6, <1>7, <1>8, <1>10, OldEntries, ReadStepInv

(* What the rows admit when their roles are read fits every call that has    *)
(* held one of them all along.                                               *)
LEMMA FetchedFits ==
    ASSUME TypeInv, NEW x, NEW rows \in SUBSET Roles, x.user \in Users,
           x.held \subseteq GrantsOf(x.user), Allowed(x.user) \subseteq x.seen,
           x.user \notin late => \A rp \in x.held : rp[1] \in rows,
           x.user \notin removed => rows \subseteq RolesOf(x.user)
    PROVE  Fits(x, PermsIn(rows))
<1>1. ASSUME x.user \notin late, NEW rp \in x.held PROVE rp[2] \in Admits(PermsIn(rows))
  <2>1. rp[1] \in rows /\ rp[2] \in Admits(role[rp[1]].perms)
    BY <1>1 DEF GrantsOf
  <2>2. QED BY <2>1, RowAdmitted
<1>2. x.user \notin removed => Admits(PermsIn(rows)) \subseteq x.seen
  BY FewerAdmitted
<1>3. QED BY <1>1, <1>2 DEF Fits

(* The permissions fetched are at least those of every row the ETag has      *)
(* seen: such a row is as it was when the first SELECT returned it.          *)
LEMMA FetchRolesInv ==
    ASSUME TypeInv, CacheInv, NEW q \in Readers, FetchRoles(q)
    PROVE  CacheInv'
<1>1. PICK x : x = reader[q]
  OBVIOUS
<1>2. PICK y : /\ ReadStep(q, y) /\ UNCHANGED cache
               /\ x.pc = "roles" /\ x.user \in Users
               /\ x.rows \in SUBSET Roles
               /\ Continues(x, y)
               /\ y.pc = "store" /\ y.etag = x.etag
               /\ y.perms = PermsIn(x.rows)
  BY <1>1, FetchRolesStep
<1>3. PICK new : new = Entries'
  OBVIOUS
<1>4. PICK u \in Users : u = x.user
  BY <1>2
<1>5. ReaderGood(x) /\ RowsGood(x)
  BY <1>1, <1>2 DEF CacheInv, ReadersGood, ReaderGood
<1>6. PICK rows, perms : /\ rows \in SUBSET Roles /\ rows = x.rows
                         /\ perms = PermsIn(rows)
  BY <1>2
<1>7. y.user = u /\ y.held = x.held /\ y.seen = x.seen /\ y.perms = perms
  BY <1>2, <1>4, <1>6 DEF Continues
<1>8. y.held \subseteq GrantsOf(u) /\ Allowed(u) \subseteq y.seen
  BY <1>2, <1>4, <1>5, <1>7 DEF ReaderGood, Underway
<1>9. Fits(y, perms)
  BY <1>4, <1>5, <1>6, <1>7, <1>8, FetchedFits DEF RowsGood
<1>10. ASSUME NEW n \in new
       PROVE  n \in Entries \/ n = [user |-> u, etag |-> y.etag, perms |-> perms]
  BY <1>2, <1>3, <1>7, EntriesAfter
<1>11. ASSUME NEW n, n = [user |-> u, etag |-> y.etag, perms |-> perms]
       PROVE  /\ EntryGood(n)
              /\ \A p \in Readers :
                    /\ reader[p].pc = "lookup" /\ reader[p].etag \in Nat
                    /\ n.user = reader[p].user /\ n.etag = reader[p].etag
                    => Fits(reader[p], n.perms)
  <2>1. n.user = u /\ n.etag = x.etag /\ n.perms = perms
    BY <1>2, <1>11
  <2>2. n.etag \in Nat => n.etag <= newest[u]
    BY <1>2, <1>4, <1>5, <2>1 DEF ReaderGood
  <2>3. ASSUME n.etag \in Nat, u \notin late, NEW r \in RolesOf(u), Stamp(u, r) <= n.etag
        PROVE  role[r].perms \subseteq Admits(perms)
    <3>1. r \in rows
      BY <1>4, <1>5, <1>6, <2>1, <2>3 DEF RowsGood
    <3>2. QED BY <1>6, <3>1, RowAdmitted
  <2>4. n.etag \in Nat /\ u \notin late \cup removed /\ EtagOf(u) = n.etag =>
           perms = PermsOf(u)
    BY <1>4, <1>5, <1>6, <2>1 DEF RowsGood, PermsOf
  <2>5. EntryGood(n)
    BY <2>1, <2>2, <2>3, <2>4 DEF EntryGood
  <2>6. ASSUME NEW p \in Readers, reader[p].pc = "lookup", reader[p].etag \in Nat,
               n.user = reader[p].user, n.etag = reader[p].etag
        PROVE  Fits(reader[p], n.perms)
    <3>1. PICK z : z = reader[p]
      OBVIOUS
    <3>2. z.held \subseteq GrantsOf(u) /\ Allowed(u) \subseteq z.seen /\ z.user = u
      BY <2>1, <2>6, <3>1 DEF CacheInv, ReadersGood, ReaderGood, Underway
    <3>3. PairGood(z, x)
      BY <1>1, <3>1 DEF CacheInv, PairsGood
    <3>4. u \notin late => \A rp \in z.held : rp[1] \in rows
      BY <1>2, <1>4, <1>6, <2>1, <2>6, <3>1, <3>2, <3>3 DEF PairGood
    <3>5. u \notin removed => rows \subseteq RolesOf(u)
      BY <1>4, <1>5, <1>6 DEF RowsGood
    <3>6. QED BY <1>6, <2>1, <3>1, <3>2, <3>4, <3>5, FetchedFits
  <2>7. QED BY <2>5, <2>6
<1>12. \A n \in new : /\ EntryGood(n)
                      /\ \A p \in Readers :
                            /\ reader[p].pc = "lookup" /\ reader[p].etag \in Nat
                            /\ n.user = reader[p].user /\ n.etag = reader[p].etag
                            => Fits(reader[p], n.perms)
  BY <1>10, <1>11, OldEntries
<1>13. \A p \in Readers \ {q} : PairGood(y, reader[p]) /\ PairGood(reader[p], y)
  BY <1>2 DEF PairGood
<1>14. QED BY <1>2, <1>3, <1>7, <1>8, <1>9, <1>12, <1>13, ReadStepInv

(* The entry stored is the one the call had, however old.                    *)
LEMMA StoreInv ==
    ASSUME TypeInv, CacheInv, NEW q \in Readers, Store(q)
    PROVE  CacheInv'
<1>1. PICK x : x = reader[q]
  OBVIOUS
<1>2. PICK y : /\ ReadStep(q, y)
               /\ cache' = [cache EXCEPT ![x.user] = [etag |-> x.etag, perms |-> x.perms]]
               /\ x.pc = "store" /\ x.user \in Users
               /\ Continues(x, y)
               /\ y.pc = "answered" /\ y.perms = x.perms
  BY <1>1, StoreStep
<1>3. PICK new : new = Entries'
  OBVIOUS
<1>4. ASSUME NEW n \in new PROVE n \in Entries
  <2>1. CASE \E u \in Users :
                n = [user |-> u, etag |-> cache'[u].etag, perms |-> cache'[u].perms]
    <3>1. PICK u \in Users :
             n = [user |-> u, etag |-> cache'[u].etag, perms |-> cache'[u].perms]
      BY <2>1
    <3>2. CASE u = x.user
      <4>1. cache'[u].etag = x.etag /\ cache'[u].perms = x.perms
        BY <1>2, <3>2, TypeParts DEF RestTyped
      <4>2. n = [user |-> reader[q].user, etag |-> reader[q].etag, perms |-> reader[q].perms]
        BY <1>1, <3>1, <3>2, <4>1
      <4>3. QED BY <1>1, <1>2, <4>2 DEF Entries
    <3>3. CASE u # x.user
      <4>1. cache'[u] = cache[u]
        BY <1>2, <3>3, TypeParts DEF RestTyped
      <4>2. QED BY <3>1, <4>1 DEF Entries
    <3>4. QED BY <3>2, <3>3
  <2>2. CASE \E p \in {p \in Readers : reader'[p].pc = "store"} :
                n = [user |-> reader'[p].user, etag |-> reader'[p].etag,
                     perms |-> reader'[p].perms]
    <3>1. PICK p \in Readers :
             /\ reader'[p].pc = "store"
             /\ n = [user |-> reader'[p].user, etag |-> reader'[p].etag,
                     perms |-> reader'[p].perms]
      BY <2>2
    <3>2. p # q
      BY <1>2, <3>1, TypeParts DEF ReadStep, ReadersTyped
    <3>3. reader'[p] = reader[p]
      BY <1>2, <3>2, TypeParts DEF ReadStep, ReadersTyped
    <3>4. QED BY <3>1, <3>3 DEF Entries
  <2>3. QED BY <1>3, <2>1, <2>2 DEF Entries
<1>5. ReaderGood(x)
  BY <1>1 DEF CacheInv, ReadersGood
<1>6. Fits(y, y.perms) /\ ~Underway(y)
  BY <1>2, <1>5 DEF ReaderGood, Fits, Continues, Underway
<1>7. \A p \in Readers \ {q} : PairGood(y, reader[p]) /\ PairGood(reader[p], y)
  BY <1>2 DEF PairGood
<1>8. QED BY <1>2, <1>3, <1>4, <1>6, <1>7, OldEntries, ReadStepInv

(* A call that has answered or failed leaves nothing behind.                 *)
LEMMA IdlesInv ==
    ASSUME TypeInv, CacheInv, NEW q \in Readers, ReadStep(q, IdleReader), UNCHANGED cache
    PROVE  CacheInv'
<1>1. PICK y : y = IdleReader /\ ReadStep(q, y)
  OBVIOUS
<1>2. y.pc = "idle"
  BY <1>1 DEF IdleReader
<1>3. PICK new : new = Entries'
  OBVIOUS
<1>4. \A n \in new : n \in Entries
  BY <1>1, <1>2, <1>3, EntriesAfter
<1>5. \A p \in Readers \ {q} : PairGood(y, reader[p]) /\ PairGood(reader[p], y)
  BY <1>2 DEF PairGood
<1>6. QED BY <1>1, <1>2, <1>3, <1>4, <1>5, OldEntries, ReadStepInv DEF Underway

LEMMA InitInv == ASSUME Init PROVE CacheInv
<1>1. TypeInv
  BY InitType
<1>2. EtagsBounded
  BY <1>1, TypeParts, EtagsAreNewest DEF Init, EtagsBounded, EtagIsNewest
<1>3. \A q \in Readers : reader[q].pc = "idle"
  BY DEF Init, IdleReader
<1>4. ReadersGood
  BY <1>3 DEF ReadersGood, ReaderGood, Underway
<1>5. ASSUME NEW n \in Entries PROVE n.etag = NoEtag
  <2>1. PICK u \in Users : n = [user |-> u, etag |-> cache[u].etag, perms |-> cache[u].perms]
    BY <1>3 DEF Entries
  <2>2. QED BY <2>1 DEF Init, NoEntry
<1>6. EntriesGood
  BY <1>5, ConstantsAssumption DEF EntriesGood, EntryGood
<1>7. PairsGood
  BY <1>3 DEF PairsGood, PairGood
<1>8. QED BY <1>2, <1>4, <1>6, <1>7 DEF CacheInv

LEMMA NextInv == ASSUME TypeInv, CacheInv, [Next]_vars PROVE CacheInv'
<1>1. TypeInv'
  BY NextType
<1>2. ASSUME NEW q \in Readers, Read(q) PROVE CacheInv'
  BY <1>2, ReadEtagInv, LookupInv, FetchAssignmentsInv, FetchRolesInv, StoreInv, ReturnStep,
     FetchFailsStep, IdlesInv DEF Read
<1>3. QED BY <1>1, <1>2, NextSteps, RoleStepMoves, TablesMoveInv

LEMMA Invariance == Spec => [](TypeInv /\ CacheInv)
<1>1. Init => TypeInv /\ CacheInv
  BY InitType, InitInv
<1>2. TypeInv /\ CacheInv /\ [Next]_vars => (TypeInv /\ CacheInv)'
  BY NextType, NextInv
<1>3. QED BY <1>1, <1>2, PTL DEF Spec

(* A request is never refused for a permission that a role of its user       *)
(* granted during the whole of it, unless a write committed behind a newer   *)
(* stamp: the ETag is read before the rows and the rows before their roles   *)
(* (permission-cache.service.ts), so what is stored under an ETag covers     *)
(* every row that old, whichever fetch stores last.                          *)
THEOREM NothingMissed == Spec => []AnswersMissNothing
<1>1. CacheInv => AnswersMissNothing
  BY DEF CacheInv, ReadersGood, ReaderGood, Fits, AnswersMissNothing
<1>2. QED BY <1>1, Invariance, PTL

(* A request is never granted a permission its user had at no moment of it,  *)
(* but for late stamps and removed assignments, which stamp nothing: an ETag *)
(* that is still the user's belongs to the permissions the user has.         *)
THEOREM NothingAdded == Spec => []AnswersAddNothing
<1>1. CacheInv => AnswersAddNothing
  BY DEF CacheInv, ReadersGood, ReaderGood, Fits, AnswersAddNothing
<1>2. QED BY <1>1, Invariance, PTL
=============================================================================
