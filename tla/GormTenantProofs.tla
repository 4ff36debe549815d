-------------------------- MODULE GormTenantProofs --------------------------
(***************************************************************************)
(* The tenant store on SQL tables: what its rows keep to while methods     *)
(* interleave their statements, that the tables go through the steps of a  *)
(* TenantStore, and what the methods answer that look at them twice.       *)
(***************************************************************************)
EXTENDS GormReads, TLAPS

LEMMA NothingSet ==
    /\ NoPerms \in [Operation -> Grant] /\ NoIds \in [Operation -> SUBSET RecordId]
    /\ RowId \subseteq Key /\ User \subseteq Key
  BY DEF NoPerms, NoIds, Grant, Key

(* n is d with the permissions p and the ids q in the rows of the key k.    *)
Written(d, n, k, p, q) ==
    /\ n \in Tables /\ n.name = d.name /\ n.assigned = d.assigned
    /\ n.perm = [d.perm EXCEPT ![k] = p]
    /\ n.ids = [d.ids EXCEPT ![k] = q]

LEMMA Writes ==
    ASSUME NEW d \in Tables, NEW k \in Key, NEW o \in Operation, NEW g \in Grant,
           NEW some \in SUBSET RecordId
    PROVE  LET p == d.perm[k]  q == d.ids[k]
           IN  /\ Written(d, d, k, p, q)
               /\ Written(d, WithPermission(d, k, o, g), k, [p EXCEPT ![o] = g], q)
               /\ d.perm[k][o] = Unset => WithoutPermission(d, k, o) = d
               /\ d.perm[k][o] # Unset =>
                     Written(d, WithoutPermission(d, k, o), k,
                             [p EXCEPT ![o] = Unset], [q EXCEPT ![o] = {}])
               /\ Written(d, WithIDs(d, k, o, some), k, p, [q EXCEPT ![o] = @ \cup some])
               /\ Written(d, WithoutIDs(d, k, o, some), k, p, [q EXCEPT ![o] = @ \ some])
<1> DEFINE p == d.perm[k]
           q == d.ids[k]
<1>1. /\ d.perm \in [Key -> [Operation -> Grant]]
      /\ d.ids \in [Key -> [Operation -> SUBSET RecordId]]
      /\ Unset \in Grant
  BY DEF Tables, Grant
<1>2. /\ p \in [Operation -> Grant] /\ q \in [Operation -> SUBSET RecordId]
      /\ [d.perm EXCEPT ![k] = p] = d.perm /\ [d.ids EXCEPT ![k] = q] = d.ids
  BY <1>1
<1>3. /\ \A x \in Grant : [d.perm EXCEPT ![k] = [p EXCEPT ![o] = x]] \in [Key -> [Operation -> Grant]]
      /\ \A x \in SUBSET RecordId :
            [d.ids EXCEPT ![k] = [q EXCEPT ![o] = x]] \in [Key -> [Operation -> SUBSET RecordId]]
  BY <1>1, <1>2
<1>4. q[o] \cup some \in SUBSET RecordId /\ q[o] \ some \in SUBSET RecordId
  BY <1>2
<1>5. Written(d, d, k, p, q)
  BY <1>2 DEF Written
<1>6. Written(d, WithPermission(d, k, o, g), k, [p EXCEPT ![o] = g], q)
  BY <1>2, <1>3 DEF Written, WithPermission, Tables
<1>7. p[o] = Unset => WithoutPermission(d, k, o) = d
  BY DEF WithoutPermission
<1>8. p[o] # Unset => Written(d, WithoutPermission(d, k, o), k,
                              [p EXCEPT ![o] = Unset], [q EXCEPT ![o] = {}])
  BY <1>1, <1>3 DEF Written, WithoutPermission, Tables
<1>9. /\ Written(d, WithIDs(d, k, o, some), k, p, [q EXCEPT ![o] = @ \cup some])
      /\ Written(d, WithoutIDs(d, k, o, some), k, p, [q EXCEPT ![o] = @ \ some])
  BY <1>2, <1>3, <1>4 DEF Written, WithIDs, WithoutIDs, Tables
<1> QED BY <1>5, <1>6, <1>7, <1>8, <1>9

(* Such a change touches the rows of the key k only. *)
OnlyKey(d, n, k) ==
    /\ n \in Tables /\ n.name = d.name /\ n.assigned = d.assigned
    /\ \A x \in Key \ {k} : n.perm[x] = d.perm[x] /\ n.ids[x] = d.ids[x]

LEMMA KeyWritten ==
    ASSUME NEW d \in Tables, NEW k \in Key, NEW o \in Operation
    PROVE  /\ \A g \in Scope : OnlyKey(d, WithPermission(d, k, o, g), k)
           /\ OnlyKey(d, WithoutPermission(d, k, o), k)
           /\ \A some \in SUBSET RecordId :
                /\ OnlyKey(d, WithIDs(d, k, o, some), k)
                /\ OnlyKey(d, WithoutIDs(d, k, o, some), k)
<1>1. ASSUME NEW n, NEW p, NEW q, Written(d, n, k, p, q)
      PROVE  OnlyKey(d, n, k)
  BY <1>1 DEF Written, OnlyKey, Tables
<1>2. OnlyKey(d, d, k)
  BY DEF OnlyKey
<1>3. \A g \in Scope : OnlyKey(d, WithPermission(d, k, o, g), k)
  BY <1>1, Writes DEF Grant
<1>4. OnlyKey(d, WithoutPermission(d, k, o), k)
  BY <1>1, <1>2, Writes DEF Grant
<1>5. ASSUME NEW some \in SUBSET RecordId
      PROVE  /\ OnlyKey(d, WithIDs(d, k, o, some), k)
             /\ OnlyKey(d, WithoutIDs(d, k, o, some), k)
  BY <1>1, Writes DEF Grant
<1> QED BY <1>3, <1>4, <1>5

LEMMA RoleRowsGone ==
    ASSUME NEW d \in Tables, NEW i \in RowId
    PROVE  LET n == WithoutRole(d, i)
           IN  /\ n \in Tables
               /\ n.name = [d.name EXCEPT ![i] = NoRole]
               /\ d.name \in [RowId -> Role \cup {NoRole}]
               /\ \A u \in User : n.assigned[u] = d.assigned[u] \ {i}
               /\ n.perm[i] = NoPerms /\ n.ids[i] = NoIds
               /\ \A x \in Key \ {i} : n.perm[x] = d.perm[x] /\ n.ids[x] = d.ids[x]
               /\ \A x \in RowId \ {i} : n.perm[x] = d.perm[x] /\ n.ids[x] = d.ids[x]
<1> DEFINE n == WithoutRole(d, i)
<1>1. i \in Key /\ RowId \subseteq Key
  BY NothingSet
<1>2. /\ n.name = [d.name EXCEPT ![i] = NoRole]
      /\ n.assigned = [u \in User |-> d.assigned[u] \ {i}]
      /\ n.perm = [d.perm EXCEPT ![i] = NoPerms]
      /\ n.ids = [d.ids EXCEPT ![i] = NoIds]
  BY DEF WithoutRole, Tables
<1>3. /\ n.name \in [RowId -> Role \cup {NoRole}]
      /\ d.name \in [RowId -> Role \cup {NoRole}]
      /\ n.assigned \in [User -> SUBSET RowId]
  BY <1>2 DEF Tables
<1>4. /\ d.perm \in [Key -> [Operation -> Grant]]
      /\ d.ids \in [Key -> [Operation -> SUBSET RecordId]]
  BY DEF Tables
<1>5. n.perm \in [Key -> [Operation -> Grant]]
  BY <1>1, <1>2, <1>4, NothingSet
<1>6. n.ids \in [Key -> [Operation -> SUBSET RecordId]]
  BY <1>1, <1>2, <1>4, NothingSet
<1>7. n \in Tables
  BY <1>3, <1>5, <1>6 DEF WithoutRole, Tables
<1> QED BY <1>1, <1>2, <1>3, <1>4, <1>7

LEMMA AssignmentWritten ==
    ASSUME NEW d \in Tables, NEW i \in RowId, NEW u \in User,
           NEW n \in {WithAssignment(d, u, i), WithoutAssignment(d, u, i)}
    PROVE  /\ n \in Tables /\ n.name = d.name /\ n.perm = d.perm /\ n.ids = d.ids
           /\ \A v \in User, x \in RowId \ {i} : x \in n.assigned[v] <=> x \in d.assigned[v]
<1>1. d.assigned \in [User -> SUBSET RowId]
  BY DEF Tables
<1>2. CASE n = WithAssignment(d, u, i)
  <2>1. n.assigned = [d.assigned EXCEPT ![u] = d.assigned[u] \cup {i}]
    BY <1>2 DEF WithAssignment, Tables
  <2>2. n.name = d.name /\ n.perm = d.perm /\ n.ids = d.ids /\ n \in Tables
    BY <1>2 DEF WithAssignment, Tables
  <2> QED BY <1>1, <2>1, <2>2
<1>3. CASE n = WithoutAssignment(d, u, i)
  <2>1. n.assigned = [d.assigned EXCEPT ![u] = d.assigned[u] \ {i}]
    BY <1>3 DEF WithoutAssignment, Tables
  <2>2. n.name = d.name /\ n.perm = d.perm /\ n.ids = d.ids /\ n \in Tables
    BY <1>3 DEF WithoutAssignment, Tables
  <2> QED BY <1>1, <2>1, <2>2
<1> QED BY <1>2, <1>3

-----------------------------------------------------------------------------
(* The invariant *)

(* A method that ends with tables in which only the row it found differs.  *)
LEMMA RowStep ==
    ASSUME Inv, NEW c \in Client, NEW n \in Tables, call[c].row \in RowId,
           Return(c, n), UNCHANGED raced, n.name = db.name,
           \A i \in RowId \ {call[c].row} :
              /\ n.perm[i] = db.perm[i] /\ n.ids[i] = db.ids[i]
              /\ \A u \in User : i \in n.assigned[u] <=> i \in db.assigned[u]
    PROVE  Inv'
<1>1. /\ db' = n /\ lastId' = lastId /\ raced' = raced
      /\ call' = [call EXCEPT ![c] = Idle] /\ TypeOK /\ lastId \in Nat
  BY MaxRowIdType DEF Return, Inv, TypeOK
<1>2. \A x \in Client : call'[x] = call[x] \/ call'[x] = Idle
  BY <1>1 DEF TypeOK
<1>3. TypeOK'
  BY <1>1 DEF TypeOK
<1>4. Live(db') = Live(db) /\ UniqueNames(db')
  BY <1>1 DEF Inv, UniqueNames, Live
<1>5. RowsNumbered'
  <2>1. call[c].row <= lastId
    BY DEF Inv, RowsNumbered
  <2>2. \A i \in RowId : i > lastId => i # call[c].row
    BY <1>1, <2>1 DEF RowId
  <2>3. \A i \in RowId : i > lastId => i \notin Live(db') /\ Unreferenced(db', i)
    BY <1>1, <1>4, <2>2 DEF Inv, RowsNumbered, Unreferenced
  <2>4. \A x \in Client : call'[x].row <= lastId
    BY <1>1, <1>2 DEF Inv, RowsNumbered, Idle
  <2> QED BY <1>1, <2>3, <2>4 DEF RowsNumbered
<1>6. OrphansOnlyByRace'
  <2> SUFFICES ASSUME NEW i \in RowId, i \notin Live(db), i \notin raced
               PROVE  Unreferenced(db', i) /\ \A x \in Client : call'[x].row # i
    BY <1>1, <1>4 DEF OrphansOnlyByRace
  <2>1. Unreferenced(db, i) /\ \A x \in Client : call[x].row # i
    BY DEF Inv, OrphansOnlyByRace
  <2>2. Unreferenced(db', i)
    BY <1>1, <2>1 DEF Unreferenced
  <2>3. i # 0
    BY DEF RowId
  <2> QED BY <1>2, <2>1, <2>2, <2>3 DEF Idle
<1> QED BY <1>3, <1>4, <1>5, <1>6 DEF Inv

(* What a busy method has found. *)
LEMMA Found ==
    ASSUME TypeOK, NEW c \in Client, call[c] # Idle
    PROVE  call[c].row \in RowId /\ call[c].next \in Statement /\ call[c] \in Busy
  BY DEF TypeOK, Busy

LEMMA FoundStatement ==
    ASSUME TypeOK, NEW c \in Client
    PROVE  /\ Does(c, "exists") \/ Does(c, "rename") => call[c].next.to \in Role
           /\ Does(c, "assign") \/ Does(c, "unassign") => call[c].next.sub \in User
           /\ Does(c, "set") => /\ call[c].next.operation \in Operation
                                /\ call[c].next.scope \in Scope
           /\ Does(c, "remove") => call[c].next.operation \in Operation
           /\ Does(c, "add_ids") \/ Does(c, "remove_ids") =>
                /\ call[c].next.operation \in Operation
                /\ call[c].next.some \in SUBSET RecordId
<1> SUFFICES ASSUME call[c] # Idle
             PROVE  /\ Does(c, "exists") \/ Does(c, "rename") => call[c].next.to \in Role
                    /\ Does(c, "assign") \/ Does(c, "unassign") => call[c].next.sub \in User
                    /\ Does(c, "set") => /\ call[c].next.operation \in Operation
                                         /\ call[c].next.scope \in Scope
                    /\ Does(c, "remove") => call[c].next.operation \in Operation
                    /\ Does(c, "add_ids") \/ Does(c, "remove_ids") =>
                         /\ call[c].next.operation \in Operation
                         /\ call[c].next.some \in SUBSET RecordId
  BY DEF Does
<1>1. call[c].next \in Statement
  BY Found
<1> QED BY <1>1, SomeScopeIsScope DEF Statement, Does

(* The methods on a user's permissions and ids (gorm.go:433-547). *)
LEMMA UserCallInv ==
    ASSUME Inv, UserCall
    PROVE  Inv'
<1>1. PICK u \in User, o \in Operation :
         \/ \E scope \in SomeScope : SetUserPermission(u, o, scope)
         \/ RemoveUserPermission(u, o)
         \/ \E some \in SUBSET RecordId :
               AddUserRestrictedIDs(u, o, some) \/ RemoveUserRestrictedIDs(u, o, some)
  BY DEF UserCall
<1>2. /\ OnlyKey(db, db', u)
      /\ UNCHANGED <<lastId, call, raced>>
  <2>1. u \in Key /\ db \in Tables
    BY NothingSet DEF Inv, TypeOK
  <2>2. /\ \A g \in Scope : OnlyKey(db, WithPermission(db, u, o, g), u)
        /\ OnlyKey(db, WithoutPermission(db, u, o), u)
        /\ \A some \in SUBSET RecordId :
             /\ OnlyKey(db, WithIDs(db, u, o, some), u)
             /\ OnlyKey(db, WithoutIDs(db, u, o, some), u)
    BY <2>1, KeyWritten
  <2> QED BY <1>1, <2>2, SomeScopeIsScope
          DEF SetUserPermission, RemoveUserPermission, AddUserRestrictedIDs,
              RemoveUserRestrictedIDs, AtOnce
<1>3. /\ db'.name = db.name /\ Live(db') = Live(db)
      /\ \A i \in RowId : Unreferenced(db', i) <=> Unreferenced(db, i)
  BY <1>2, KeysApart, NothingSet DEF OnlyKey, Live, Unreferenced
<1>4. TypeOK'
  BY <1>2 DEF OnlyKey, Inv, TypeOK
<1>5. UniqueNames(db')
  BY <1>3 DEF UniqueNames, Inv
<1>6. RowsNumbered'
  BY <1>2, <1>3 DEF RowsNumbered, Inv
<1>7. OrphansOnlyByRace'
  BY <1>2, <1>3 DEF OrphansOnlyByRace, Inv
<1> QED BY <1>4, <1>5, <1>6, <1>7 DEF Inv

(* CreateRole and EnsureRole (gorm.go:266-281). *)
LEMMA InsertRoleInv ==
    ASSUME Inv, NEW r \in Role, InsertRole(r)
    PROVE  Inv'
<1>1. PICK i \in RowId : NewRowId(i) /\ db' = [db EXCEPT !.name[i] = r]
  BY DEF InsertRole
<1>2. /\ i = lastId + 1 /\ lastId' = i /\ UNCHANGED <<call, raced>> /\ Named(db, r) = {}
      /\ TypeOK /\ lastId \in Nat /\ i > lastId /\ i \in Nat /\ RowId \subseteq Nat
      /\ r # NoRole
  BY <1>1, MaxRowIdType, NoRoleIsNoRole DEF InsertRole, NewRowId, Inv, TypeOK, RowId
<1>3. /\ db' \in Tables /\ db'.assigned = db.assigned /\ db'.perm = db.perm /\ db'.ids = db.ids
      /\ db'.name = [db.name EXCEPT ![i] = r] /\ db.name \in [RowId -> Role \cup {NoRole}]
  <2>1. db \in Tables
    BY <1>2 DEF TypeOK
  <2>2. db' \in Tables
    <3>1. \A d \in Tables : [d EXCEPT !.name[i] = r] \in Tables
      BY DEF Tables
    <3> QED BY <1>1, <2>1, <3>1
  <2> QED BY <1>1, <2>1, <2>2 DEF Tables
<1>4. Live(db') = Live(db) \cup {i}
  BY <1>2, <1>3 DEF Live
<1>5. \A x \in RowId : Unreferenced(db', x) <=> Unreferenced(db, x)
  BY <1>3 DEF Unreferenced
<1>6. TypeOK'
  BY <1>2, <1>3 DEF TypeOK, RowId
<1>7. UniqueNames(db')
  BY <1>2, <1>3, <1>4 DEF UniqueNames, Inv, Named, Live
<1>8. RowsNumbered'
  <2>1. \A x \in RowId : x > i => x > lastId /\ x # i
    BY <1>2
  <2>2. \A x \in Client : call[x].row <= lastId /\ call[x].row \in Nat
    <3>1. \A x \in Client : call[x] = Idle \/ call[x].row \in RowId
      BY <1>2 DEF TypeOK, Busy
    <3>2. \A x \in Client : call[x].row \in Nat
      <4> TAKE x \in Client
      <4>1. call[x] = Idle => call[x].row \in Nat
        BY DEF Idle
      <4>2. call[x].row \in RowId => call[x].row \in Nat
        BY MaxRowIdType DEF RowId
      <4> QED BY <3>1, <4>1, <4>2
    <3> QED BY <3>2 DEF Inv, RowsNumbered
  <2>3. \A x \in Client : call[x].row <= i
    BY <1>2, <2>2
  <2> QED BY <1>2, <1>4, <1>5, <2>1, <2>3 DEF RowsNumbered, Inv
<1>9. OrphansOnlyByRace'
  BY <1>2, <1>4, <1>5 DEF OrphansOnlyByRace, Inv
<1> QED BY <1>6, <1>7, <1>8, <1>9 DEF Inv

(* The look-up of a role's row (gorm.go:257-264). *)
LEMMA RoleByNameInv ==
    ASSUME Inv, NEW c \in Client, NEW r \in Role, NEW s \in Statement, RoleByName(c, r, s)
    PROVE  Inv'
<1>1. PICK i \in Named(db, r) : call' = [call EXCEPT ![c] = [row |-> i, next |-> s]]
  BY DEF RoleByName
<1>2. /\ UNCHANGED <<db, lastId, raced>> /\ TypeOK
      /\ i \in Live(db) /\ i \in RowId /\ lastId \in Nat /\ i \in Nat
  BY NoRoleIsNoRole, MaxRowIdType DEF RoleByName, Named, Live, Inv, TypeOK, RowId
<1>3. \A x \in Client : call'[x] = call[x] \/ call'[x].row = i
  BY <1>1, <1>2 DEF TypeOK
<1>4. TypeOK'
  BY <1>1, <1>2 DEF TypeOK, Busy
<1>5. i <= lastId
  BY <1>2 DEF Inv, RowsNumbered
<1>6. RowsNumbered'
  BY <1>2, <1>3, <1>5 DEF RowsNumbered, Inv
<1>7. OrphansOnlyByRace'
  BY <1>2, <1>3 DEF OrphansOnlyByRace, Inv
<1> QED BY <1>2, <1>4, <1>6, <1>7 DEF Inv

(* RenameRole (gorm.go:289-300). *)
LEMMA RenameInv ==
    ASSUME Inv, NEW c \in Client
    PROVE  /\ NewNameExists(c) => Inv'
           /\ NewNameIsFree(c) => Inv'
           /\ UpdateName(c) => Inv'
<1>1. ASSUME NewNameExists(c)
      PROVE  Inv'
  <2>1. call[c].row \in RowId
    BY <1>1, Found DEF NewNameExists, Does, Inv
  <2> QED BY <1>1, <2>1, RowStep DEF NewNameExists, Inv, TypeOK
<1>2. ASSUME NewNameIsFree(c)
      PROVE  Inv'
  <2>1. /\ UNCHANGED <<db, lastId, raced>> /\ call' = [call EXCEPT ![c].next.do = "rename"]
        /\ TypeOK /\ call[c].next.do = "exists" /\ call[c] # Idle
    BY <1>2 DEF NewNameIsFree, Does, Inv
  <2>2. call[c] \in Busy /\ call[c].next \in Statement
    BY <2>1, Found
  <2>3. call[c].next \in [do : {"exists", "rename"}, to : Role]
    BY <2>1, <2>2 DEF Statement
  <2>4. [call[c].next EXCEPT !.do = "rename"] \in Statement
    BY <2>3 DEF Statement
  <2>5. /\ call' = [call EXCEPT ![c] = [call[c] EXCEPT !.next = [call[c].next EXCEPT !.do = "rename"]]]
        /\ [call[c] EXCEPT !.next = [call[c].next EXCEPT !.do = "rename"]] \in Busy
    BY <2>1, <2>2, <2>4 DEF Busy
  <2>6. \A x \in Client : call'[x].row = call[x].row
    BY <2>1, <2>2, <2>5 DEF TypeOK, Busy
  <2>7. TypeOK'
    BY <2>1, <2>5 DEF TypeOK
  <2>8. RowsNumbered' /\ OrphansOnlyByRace'
    BY <2>1, <2>6 DEF Inv, RowsNumbered, OrphansOnlyByRace
  <2> QED BY <2>1, <2>7, <2>8 DEF Inv
<1>3. ASSUME UpdateName(c)
      PROVE  Inv'
  <2> DEFINE i == call[c].row
             r == call[c].next.to
  <2>1. /\ i \in RowId /\ r \in Role /\ db \in Tables /\ TypeOK
        /\ db' = WithName(db, i, r) /\ UNCHANGED raced /\ Return(c, db')
    BY <1>3, Found, FoundStatement DEF UpdateName, Does, Inv, TypeOK, Return
  <2>2. CASE db' = db
    BY <2>1, <2>2, RowStep
  <2>3. CASE i \in Live(db) /\ Named(db, r) = {} /\ db' = [db EXCEPT !.name[i] = r]
    <3>1. /\ db' \in Tables /\ db'.assigned = db.assigned /\ db'.perm = db.perm /\ db'.ids = db.ids
          /\ db'.name = [db.name EXCEPT ![i] = r] /\ db.name \in [RowId -> Role \cup {NoRole}]
      BY <2>1, <2>3 DEF Tables
    <3>2. Live(db') = Live(db)
      BY <2>1, <2>3, <3>1, NoRoleIsNoRole DEF Live
    <3>3. \A x \in RowId : Unreferenced(db', x) <=> Unreferenced(db, x)
      BY <3>1 DEF Unreferenced
    <3>4. UniqueNames(db')
      BY <2>1, <2>3, <3>1, <3>2 DEF UniqueNames, Inv, Named, Live
    <3>5. /\ lastId' = lastId /\ raced' = raced /\ call' = [call EXCEPT ![c] = Idle]
      BY <2>1 DEF Return
    <3>6. \A x \in Client : call'[x] = call[x] \/ call'[x].row = 0
      BY <2>1, <3>5 DEF TypeOK, Idle
    <3>7. TypeOK'
      BY <2>1, <3>1, <3>5 DEF TypeOK
    <3>8. RowsNumbered'
      <4>1. lastId \in Nat
        BY <2>1, MaxRowIdType DEF TypeOK
      <4> QED BY <3>2, <3>3, <3>5, <3>6, <4>1 DEF Inv, RowsNumbered
    <3>9. OrphansOnlyByRace'
      <4>1. \A x \in RowId : x # 0
        BY DEF RowId
      <4> QED BY <3>2, <3>3, <3>5, <3>6, <4>1 DEF Inv, OrphansOnlyByRace
    <3> QED BY <3>4, <3>7, <3>8, <3>9 DEF Inv
  <2> QED BY <2>1, <2>2, <2>3 DEF WithName
<1> QED BY <1>1, <1>2, <1>3

(* DeleteRole (gorm.go:302-315): the row is gone with all that refers to   *)
(* it, and counts as raced when another method has found it.               *)
LEMMA DeleteRoleInv ==
    ASSUME Inv, NEW c \in Client, DeleteRole(c)
    PROVE  Inv'
<1> DEFINE i == call[c].row
<1>1. /\ i \in RowId /\ db \in Tables /\ TypeOK /\ db' = WithoutRole(db, i)
      /\ lastId' = lastId /\ call' = [call EXCEPT ![c] = Idle] /\ lastId \in Nat
      /\ raced' \in {raced, raced \cup {i}}
      /\ (\E x \in Client \ {c} : call[x].row = i) => i \in raced'
  BY Found, MaxRowIdType DEF DeleteRole, Does, Inv, TypeOK, Return
<1>2. /\ db' \in Tables
      /\ db'.name = [db.name EXCEPT ![i] = NoRole] /\ db.name \in [RowId -> Role \cup {NoRole}]
      /\ \A u \in User : db'.assigned[u] = db.assigned[u] \ {i}
      /\ db'.perm[i] = NoPerms /\ db'.ids[i] = NoIds
      /\ \A x \in RowId \ {i} : db'.perm[x] = db.perm[x] /\ db'.ids[x] = db.ids[x]
  BY <1>1, RoleRowsGone
<1>3. Live(db') = Live(db) \ {i}
  BY <1>1, <1>2 DEF Live
<1>4. /\ Unreferenced(db', i)
      /\ \A x \in RowId : Unreferenced(db, x) => Unreferenced(db', x)
  BY <1>1, <1>2 DEF Unreferenced
<1>5. \A x \in Client : call'[x] = IF x = c THEN Idle ELSE call[x]
  BY <1>1 DEF TypeOK
<1>6. TypeOK'
  BY <1>1, <1>2 DEF TypeOK
<1>7. UniqueNames(db')
  BY <1>1, <1>2, <1>3 DEF UniqueNames, Inv, Live
<1>8. RowsNumbered'
  BY <1>1, <1>3, <1>4, <1>5 DEF RowsNumbered, Inv, Idle
<1>9. OrphansOnlyByRace'
  <2> SUFFICES ASSUME NEW x \in RowId, x \notin Live(db'), x \notin raced'
               PROVE  Unreferenced(db', x) /\ \A y \in Client : call'[y].row # x
    BY DEF OrphansOnlyByRace
  <2>1. x # 0
    BY DEF RowId
  <2>2. CASE x = i
    BY <1>1, <1>4, <1>5, <2>1, <2>2 DEF Idle
  <2>3. CASE x # i
    <3>1. x \notin Live(db) /\ x \notin raced
      BY <1>1, <1>3, <2>3
    <3>2. Unreferenced(db, x) /\ \A y \in Client : call[y].row # x
      BY <3>1 DEF Inv, OrphansOnlyByRace
    <3> QED BY <1>4, <1>5, <2>1, <3>2 DEF Idle
  <2> QED BY <2>2, <2>3
<1> QED BY <1>6, <1>7, <1>8, <1>9 DEF Inv

(* The other methods on a role write rows that refer to the one they found *)
(* (gorm.go:329-500).                                                      *)
LEMMA RoleWriteInv ==
    ASSUME Inv, NEW c \in Client,
           \/ AssignRole(c) \/ UnassignRole(c)
           \/ SetRolePermission(c) \/ RemoveRolePermission(c)
           \/ AddRoleRestrictedIDs(c) \/ RemoveRoleRestrictedIDs(c)
    PROVE  Inv'
<1> DEFINE i == call[c].row
<1>1. /\ i \in RowId /\ i \in Key /\ db \in Tables /\ TypeOK
  BY Found, NothingSet
     DEF AssignRole, UnassignRole, SetRolePermission, RemoveRolePermission,
         AddRoleRestrictedIDs, RemoveRoleRestrictedIDs, Does, Inv, TypeOK
<1>2. ASSUME NEW n, OnlyKey(db, n, i), Return(c, n), UNCHANGED raced
      PROVE  Inv'
  BY <1>1, <1>2, RowStep, NothingSet DEF OnlyKey
<1>3. ASSUME NEW u \in User, NEW n \in {WithAssignment(db, u, i), WithoutAssignment(db, u, i)},
             Return(c, n), UNCHANGED raced
      PROVE  Inv'
  BY <1>1, <1>3, AssignmentWritten, RowStep
<1>4. CASE AssignRole(c) \/ UnassignRole(c)
  BY <1>1, <1>3, <1>4, FoundStatement DEF AssignRole, UnassignRole
<1>5. CASE SetRolePermission(c)
  BY <1>1, <1>2, <1>5, FoundStatement, KeyWritten DEF SetRolePermission
<1>6. CASE RemoveRolePermission(c)
  BY <1>1, <1>2, <1>6, FoundStatement, KeyWritten DEF RemoveRolePermission
<1>7. CASE AddRoleRestrictedIDs(c) \/ RemoveRoleRestrictedIDs(c)
  BY <1>1, <1>2, <1>7, FoundStatement, KeyWritten
     DEF AddRoleRestrictedIDs, RemoveRoleRestrictedIDs
<1> QED BY <1>4, <1>5, <1>6, <1>7

(* Whatever methods interleave their statements, names stay unique, ids    *)
(* are fresh, and only a row that was deleted under a method that had      *)
(* found it is ever referred to without being there (gorm.go:252-551).     *)
THEOREM RowsInv == Spec => []Inv
<1>1. Init => Inv
  <2> SUFFICES ASSUME Init PROVE Inv
    OBVIOUS
  <2>1. db \in Tables /\ Live(db) = {} /\ \A i \in RowId : Unreferenced(db, i)
    BY NothingSet DEF Init, EmptyTables, Tables, Live, Unreferenced
  <2>2. \A i \in RowId : i # 0
    BY DEF RowId
  <2>3. TypeOK
    BY <2>1, MaxRowIdType DEF Init, TypeOK
  <2> QED BY <2>1, <2>2, <2>3
          DEF Init, Inv, UniqueNames, RowsNumbered, OrphansOnlyByRace, Idle
<1>2. Inv /\ [Next]_vars => Inv'
  <2>1. ASSUME Inv, UNCHANGED vars PROVE Inv'
    BY <2>1 DEF vars, Inv, TypeOK, RowsNumbered, OrphansOnlyByRace
  <2>2. ASSUME Inv, NEW c \in Client, Act(c) PROVE Inv'
    BY <2>2, RenameInv, DeleteRoleInv, RoleWriteInv DEF Act
  <2> QED BY <2>1, <2>2, InsertRoleInv, UserCallInv, RoleByNameInv DEF Next
<1> QED BY <1>1, <1>2, PTL DEF Spec

-----------------------------------------------------------------------------
(* Tables with unique names. *)
Good(d) == d \in Tables /\ UniqueNames(d)

(* A role is in the tables what its row is, and nothing without a row. *)
LEMMA RowSeen ==
    ASSUME NEW d, Good(d), NEW i \in Live(d)
    PROVE  LET r == d.name[i]
           IN  /\ i \in RowId /\ r \in Role /\ r \in RoleNames(d) /\ r \notin User
               /\ Permissions(d, r) = d.perm[i] /\ RestrictedIDs(d, r) = d.ids[i]
               /\ \A u \in User : r \in UserRoles(d, u) <=> i \in d.assigned[u]
               /\ \A j \in RowId : d.name[j] = r <=> j = i
<1> DEFINE r == d.name[i]
<1>1. i \in RowId /\ r \in Role /\ r \notin User
  BY SubjectsApart DEF Live, Good, Tables
<1>2. \A j \in RowId : d.name[j] = r <=> j = i
  BY <1>1 DEF Live, Good, UniqueNames
<1>3. Named(d, r) # {} /\ KeyOf(d, r) = i
  BY <1>1, <1>2 DEF Named, KeyOf
<1>4. \A u \in User : r \in UserRoles(d, u) <=> i \in d.assigned[u]
  BY <1>1, <1>2 DEF UserRoles, Live, Good, Tables
<1> QED BY <1>1, <1>2, <1>3, <1>4 DEF RoleNames, Permissions, RestrictedIDs

LEMMA NoRowSeen ==
    ASSUME NEW d, Good(d), NEW r \in Role, Named(d, r) = {}
    PROVE  /\ r \notin RoleNames(d) /\ r \notin User
           /\ Permissions(d, r) = NoPerms /\ RestrictedIDs(d, r) = NoIds
           /\ \A u \in User : r \notin UserRoles(d, u)
  BY SubjectsApart DEF Named, RoleNames, Permissions, RestrictedIDs, UserRoles, Live

LEMMA UserSeen ==
    ASSUME NEW d, NEW u \in User
    PROVE  Permissions(d, u) = d.perm[u] /\ RestrictedIDs(d, u) = d.ids[u]
  BY DEF Permissions, RestrictedIDs, KeyOf

(* Every role has one row, or none. *)
LEMMA RowOrNone ==
    ASSUME NEW d, NEW r \in Role, Named(d, r) # {}
    PROVE  \E i \in Live(d) : d.name[i] = r
  BY NoRoleIsNoRole DEF Named, Live

LEMMA RolesSeen ==
    ASSUME NEW d, Good(d)
    PROVE  /\ RoleNames(d) \subseteq Role
           /\ \A u \in User : UserRoles(d, u) \subseteq RoleNames(d)
           /\ \A r \in Role : r \in RoleNames(d) <=> Named(d, r) # {}
  BY NoRoleIsNoRole DEF Good, Tables, Live, RoleNames, UserRoles, Named

LEMMA ViewTyped ==
    ASSUME NEW d, Good(d)
    PROVE  View(d) \in TenantData
<1>1. \A s \in Subject : /\ Permissions(d, s) \in [Operation -> Grant]
                         /\ RestrictedIDs(d, s) \in [Operation -> SUBSET RecordId]
  <2> TAKE s \in Subject
  <2>0. d \in Tables /\ RowId \subseteq Key /\ User \subseteq Key
    BY NothingSet DEF Good
  <2>1. CASE s \in User
    BY <2>0, <2>1, UserSeen DEF Tables
  <2>2. CASE s \in Role /\ Named(d, s) = {}
    BY <2>2, NoRowSeen, NothingSet
  <2>3. CASE s \in Role /\ Named(d, s) # {}
    <3>1. PICK i \in Live(d) : d.name[i] = s
      BY <2>3, RowOrNone
    <3> QED BY <2>0, <3>1, RowSeen DEF Tables
  <2> QED BY <2>1, <2>2, <2>3 DEF Subject
<1>2. /\ RoleNames(d) \in SUBSET Role
      /\ \A u \in User : UserRoles(d, u) \in SUBSET Role
  BY RolesSeen
<1> QED BY <1>1, <1>2 DEF View, TenantData

(* A tenant's data is the view once it agrees with what is seen.           *)
LEMMA ViewIs ==
    ASSUME NEW d, NEW t \in TenantData,
           t.roles = RoleNames(d),
           \A u \in User : t.assigned[u] = UserRoles(d, u),
           \A s \in Subject : t.perm[s] = Permissions(d, s) /\ t.ids[s] = RestrictedIDs(d, s)
    PROVE  View(d) = t
<1>1. /\ t.assigned = [u \in User |-> UserRoles(d, u)]
      /\ t.perm = [s \in Subject |-> Permissions(d, s)]
      /\ t.ids = [s \in Subject |-> RestrictedIDs(d, s)]
  BY DEF TenantData
<1>2. t = [roles |-> t.roles, assigned |-> t.assigned, perm |-> t.perm, ids |-> t.ids]
  BY DEF TenantData
<1> QED BY <1>1, <1>2 DEF View

LEMMA ViewFields ==
    ASSUME NEW d
    PROVE  /\ View(d).roles = RoleNames(d)
           /\ \A u \in User : View(d).assigned[u] = UserRoles(d, u)
           /\ \A s \in Subject : /\ View(d).perm[s] = Permissions(d, s)
                                 /\ View(d).ids[s] = RestrictedIDs(d, s)
  BY DEF View

-----------------------------------------------------------------------------
(* What a change of the tables is to one look at them *)

(* Of a row that is not there nothing is seen. *)
LEMMA DeadRow ==
    ASSUME NEW d, NEW n, Good(d), Good(n), NEW i \in RowId \ Live(d), n.name = d.name,
           \A x \in Key \ {i} : n.perm[x] = d.perm[x] /\ n.ids[x] = d.ids[x],
           \A u \in User, x \in RowId \ {i} : x \in n.assigned[u] <=> x \in d.assigned[u]
    PROVE  View(n) = View(d)
<1>1. Live(n) = Live(d) /\ RoleNames(n) = RoleNames(d)
  BY DEF Live, RoleNames
<1>2. \A u \in User : UserRoles(n, u) = UserRoles(d, u)
  BY <1>1 DEF UserRoles, Live, Good, Tables
<1>3. \A s \in Subject : /\ Permissions(n, s) = Permissions(d, s)
                         /\ RestrictedIDs(n, s) = RestrictedIDs(d, s)
  <2> TAKE s \in Subject
  <2>1. CASE s \in User
    BY <2>1, UserSeen, KeysApart, NothingSet
  <2>2. CASE s \in Role /\ Named(d, s) = {}
    BY <2>2, NoRowSeen DEF Named
  <2>3. CASE s \in Role /\ Named(d, s) # {}
    <3>1. PICK j \in Live(d) : d.name[j] = s
      BY <2>3, RowOrNone
    <3>2. j \in RowId /\ j \in Live(n) /\ j # i /\ j \in Key
      BY <1>1, <3>1, NothingSet DEF Live
    <3> QED BY <3>1, <3>2, RowSeen
  <2> QED BY <2>1, <2>2, <2>3 DEF Subject
<1> QED BY <1>1, <1>2, <1>3 DEF View

(* The data t with the permissions p and the ids q of the subject s, and   *)
(* with the roles mine of the user u.                                      *)
WithSubject(t, s, p, q) == [t EXCEPT !.perm[s] = p, !.ids[s] = q]
WithRoles(t, u, mine) == [t EXCEPT !.assigned[u] = mine]

(* The subject a key stands for. *)
SubjectOf(d, k) == IF k \in User THEN k ELSE d.name[k]

(* New permissions and ids for a user or for a role's row. *)
LEMMA KeySeen ==
    ASSUME NEW d, NEW n, Good(d), Good(n), NEW k \in User \cup Live(d), NEW p, NEW q,
           Written(d, n, k, p, q)
    PROVE  LET s == SubjectOf(d, k)
           IN  /\ s \in Subject /\ Visible!Subject = Subject
               /\ s \in User \/ s \in View(d).roles
               /\ View(d).perm[s] = d.perm[k] /\ View(d).ids[s] = d.ids[k]
               /\ View(n) = WithSubject(View(d), s, p, q)
<1> DEFINE s == SubjectOf(d, k)
           t == WithSubject(View(d), s, p, q)
<1>1. /\ k \in Key /\ n.name = d.name /\ n.assigned = d.assigned
      /\ n.perm[k] = p /\ n.ids[k] = q
      /\ \A x \in Key \ {k} : n.perm[x] = d.perm[x] /\ n.ids[x] = d.ids[x]
      /\ p \in [Operation -> Grant] /\ q \in [Operation -> SUBSET RecordId]
  BY NothingSet DEF Written, Good, Tables, Live
<1>2. /\ s \in Subject
      /\ Permissions(d, s) = d.perm[k] /\ RestrictedIDs(d, s) = d.ids[k]
      /\ Permissions(n, s) = p /\ RestrictedIDs(n, s) = q
      /\ s \in User \/ s \in RoleNames(d)
  <2>1. CASE k \in User
    BY <1>1, <2>1, UserSeen DEF SubjectOf, Subject
  <2>2. CASE k \in Live(d) /\ k \notin User
    <3>1. k \in Live(n) /\ n.name[k] = d.name[k] /\ s = d.name[k]
      BY <1>1, <2>2 DEF Live, SubjectOf
    <3> QED BY <1>1, <2>2, <3>1, RowSeen DEF Subject
  <2> QED BY <2>1, <2>2
<1>3. ASSUME NEW x \in Subject, x # s
      PROVE  /\ Permissions(n, x) = Permissions(d, x)
             /\ RestrictedIDs(n, x) = RestrictedIDs(d, x)
  <2>1. CASE x \in User
    BY <1>1, <1>3, <2>1, UserSeen, NothingSet DEF SubjectOf
  <2>2. CASE x \in Role /\ Named(d, x) = {}
    BY <1>1, <2>2, NoRowSeen DEF Named
  <2>3. CASE x \in Role /\ Named(d, x) # {}
    <3>1. PICK j \in Live(d) : d.name[j] = x
      BY <2>3, RowOrNone
    <3>2. j \in RowId /\ j \in Live(n) /\ n.name[j] = x /\ j \in Key
      BY <1>1, <3>1, NothingSet DEF Live
    <3>3. j # k
      BY <1>3, <3>1, <3>2, KeysApart DEF SubjectOf
    <3> QED BY <1>1, <3>1, <3>2, <3>3, RowSeen
  <2> QED BY <2>1, <2>2, <2>3 DEF Subject
<1>4. Live(n) = Live(d) /\ RoleNames(n) = RoleNames(d)
  BY <1>1 DEF Live, RoleNames
<1>5. \A u \in User : UserRoles(n, u) = UserRoles(d, u)
  BY <1>1, <1>4 DEF UserRoles
<1>6. View(d) \in TenantData
  BY ViewTyped
<1>7. /\ t.roles = View(d).roles /\ t.assigned = View(d).assigned
      /\ t.perm = [View(d).perm EXCEPT ![s] = p] /\ t.ids = [View(d).ids EXCEPT ![s] = q]
      /\ t \in TenantData
  BY <1>1, <1>6 DEF TenantData, WithSubject
<1>8. \A x \in Subject : t.perm[x] = Permissions(n, x) /\ t.ids[x] = RestrictedIDs(n, x)
  BY <1>2, <1>3, <1>6, <1>7, ViewFields DEF TenantData
<1>9. View(n) = t
  <2>1. t.roles = RoleNames(n) /\ \A u \in User : t.assigned[u] = UserRoles(n, u)
    BY <1>4, <1>5, <1>7, ViewFields
  <2> HIDE DEF t
  <2> QED BY <1>7, <1>8, <2>1, ViewIs
<1>10. Visible!Subject = Subject
  BY DEF Visible!Subject, Subject
<1>11. /\ s \in User \/ s \in View(d).roles
       /\ View(d).perm[s] = d.perm[k] /\ View(d).ids[s] = d.ids[k]
  BY <1>2, ViewFields
<1> QED BY <1>2, <1>9, <1>10, <1>11

(* n is d with the name r in the row i. *)
Renamed(d, n, i, r) == n = [d EXCEPT !.name[i] = r]

(* What is seen of a role is seen under its row's new name. *)
LEMMA RenameSeen ==
    ASSUME NEW d, NEW n, Good(d), Good(n), NEW i \in Live(d), NEW r \in Role,
           Named(d, r) = {}, Renamed(d, n, i, r)
    PROVE  View(n) = Visible!MoveRole(View(d), d.name[i], r)
<1> DEFINE a == d.name[i]
           t == Visible!MoveRole(View(d), a, r)
<1>1. /\ n.assigned = d.assigned /\ n.perm = d.perm /\ n.ids = d.ids
      /\ n.name = [d.name EXCEPT ![i] = r] /\ n.name[i] = r
      /\ i \in RowId /\ a # r /\ a \in Role /\ r # NoRole /\ a # NoRole
      /\ \A j \in RowId \ {i} : n.name[j] = d.name[j]
  BY NoRoleIsNoRole DEF Good, Tables, Live, Named, Renamed
<1>2. Live(n) = Live(d)
  BY <1>1 DEF Live
<1>3. \A j \in RowId : d.name[j] = a <=> j = i
  BY RowSeen
<1>4. \A j \in Live(d) : n.name[j] = IF d.name[j] = a THEN r ELSE d.name[j]
  BY <1>1, <1>3 DEF Live
<1>5. RoleNames(n) = (RoleNames(d) \ {a}) \cup {r}
  <2>1. \A x \in RoleNames(n) : x \in (RoleNames(d) \ {a}) \cup {r}
    BY <1>2, <1>4 DEF RoleNames
  <2>2. \A x \in RoleNames(d) \ {a} : x \in RoleNames(n)
    BY <1>2, <1>4 DEF RoleNames
  <2>3. r \in RoleNames(n)
    BY <1>1, <1>2 DEF RoleNames
  <2> QED BY <2>1, <2>2, <2>3
<1>6. ASSUME NEW u \in User
      PROVE  UserRoles(n, u) = IF a \in UserRoles(d, u) THEN (UserRoles(d, u) \ {a}) \cup {r}
                               ELSE UserRoles(d, u)
  <2>1. a \in UserRoles(d, u) <=> i \in d.assigned[u]
    BY RowSeen
  <2>2. \A x \in UserRoles(n, u) : x \in UserRoles(d, u) \ {a} \/ (x = r /\ i \in d.assigned[u])
    BY <1>1, <1>2, <1>3, <1>4 DEF UserRoles, Live
  <2>3. \A x \in UserRoles(d, u) \ {a} : x \in UserRoles(n, u)
    BY <1>1, <1>2, <1>4 DEF UserRoles
  <2>4. i \in d.assigned[u] => r \in UserRoles(n, u)
    BY <1>1, <1>2 DEF UserRoles
  <2> QED BY <2>1, <2>2, <2>3, <2>4
<1>7. ASSUME NEW x \in Subject
      PROVE  /\ x = a => Permissions(n, x) = NoPerms /\ RestrictedIDs(n, x) = NoIds
             /\ x = r => /\ Permissions(n, x) = Permissions(d, a)
                         /\ RestrictedIDs(n, x) = RestrictedIDs(d, a)
             /\ x \notin {a, r} => /\ Permissions(n, x) = Permissions(d, x)
                                  /\ RestrictedIDs(n, x) = RestrictedIDs(d, x)
  <2>0. a \notin User /\ r \notin User
    BY <1>1, SubjectsApart
  <2>1. CASE x = a
    <3>1. Named(n, a) = {}
      BY <1>1, <1>3 DEF Named
    <3> QED BY <1>1, <2>1, <3>1, NoRowSeen
  <2>2. CASE x = r
    <3>1. i \in Live(n)
      BY <1>2
    <3>2. Permissions(n, r) = n.perm[i] /\ RestrictedIDs(n, r) = n.ids[i]
      BY <1>1, <3>1, RowSeen
    <3>3. Permissions(d, a) = d.perm[i] /\ RestrictedIDs(d, a) = d.ids[i]
      BY RowSeen
    <3> QED BY <1>1, <2>2, <3>2, <3>3
  <2>3. CASE x \in User
    BY <1>1, <2>0, <2>3, UserSeen
  <2>4. CASE x \in Role \ {a, r} /\ Named(d, x) = {}
    <3>1. Named(n, x) = {}
      BY <1>1, <2>4 DEF Named
    <3> QED BY <2>4, <3>1, NoRowSeen
  <2>5. CASE x \in Role \ {a, r} /\ Named(d, x) # {}
    <3>1. PICK j \in Live(d) : d.name[j] = x
      BY <2>5, RowOrNone
    <3>2. j \in Live(n) /\ n.name[j] = x
      BY <1>2, <1>4, <2>5, <3>1
    <3>3. Permissions(n, x) = n.perm[j] /\ RestrictedIDs(n, x) = n.ids[j]
      BY <3>2, RowSeen
    <3>4. Permissions(d, x) = d.perm[j] /\ RestrictedIDs(d, x) = d.ids[j]
      BY <3>1, RowSeen
    <3> QED BY <1>1, <2>5, <3>3, <3>4
  <2> QED BY <2>1, <2>2, <2>3, <2>4, <2>5 DEF Subject
<1>8. View(d) \in TenantData /\ Visible!NoPerms = NoPerms /\ Visible!NoIds = NoIds
  BY ViewTyped DEF Visible!NoPerms, NoPerms, Visible!NoIds, NoIds, Visible!Unset, Unset
<1>9. /\ t.roles = (View(d).roles \ {a}) \cup {r}
      /\ t.assigned = [u \in User |-> IF a \in View(d).assigned[u]
                                      THEN (View(d).assigned[u] \ {a}) \cup {r}
                                      ELSE View(d).assigned[u]]
      /\ t.perm = [View(d).perm EXCEPT ![a] = NoPerms, ![r] = View(d).perm[a]]
      /\ t.ids = [View(d).ids EXCEPT ![a] = NoIds, ![r] = View(d).ids[a]]
  BY <1>8 DEF Visible!MoveRole, TenantData
<1>10. /\ t.assigned \in [User -> SUBSET Role] /\ t.roles \in SUBSET Role
       /\ View(d).perm \in [Subject -> [Operation -> Grant]]
       /\ View(d).ids \in [Subject -> [Operation -> SUBSET RecordId]]
       /\ a \in Subject /\ r \in Subject
  BY <1>1, <1>8, <1>9 DEF TenantData, Subject
<1>11. /\ t.perm \in [Subject -> [Operation -> Grant]]
       /\ t.ids \in [Subject -> [Operation -> SUBSET RecordId]]
  <2> HIDE DEF t
  <2>1. /\ View(d).perm[a] \in [Operation -> Grant]
        /\ View(d).ids[a] \in [Operation -> SUBSET RecordId]
    BY <1>10
  <2>2. \A f \in [Subject -> [Operation -> Grant]], p, q \in [Operation -> Grant] :
           [f EXCEPT ![a] = p, ![r] = q] \in [Subject -> [Operation -> Grant]]
    BY <1>10
  <2>3. \A f \in [Subject -> [Operation -> SUBSET RecordId]],
           p, q \in [Operation -> SUBSET RecordId] :
           [f EXCEPT ![a] = p, ![r] = q] \in [Subject -> [Operation -> SUBSET RecordId]]
    BY <1>10
  <2>4. NoPerms \in [Operation -> Grant] /\ NoIds \in [Operation -> SUBSET RecordId]
    BY NothingSet
  <2>5. [View(d).perm EXCEPT ![a] = NoPerms, ![r] = View(d).perm[a]]
           \in [Subject -> [Operation -> Grant]]
    BY <1>10, <2>1, <2>2, <2>4
  <2>6. [View(d).ids EXCEPT ![a] = NoIds, ![r] = View(d).ids[a]]
           \in [Subject -> [Operation -> SUBSET RecordId]]
    BY <1>10, <2>1, <2>3, <2>4
  <2> QED BY <1>9, <2>5, <2>6
<1>12. t \in TenantData
  BY <1>8, <1>10, <1>11 DEF Visible!MoveRole, TenantData
<1>13. \A x \in Subject : t.perm[x] = Permissions(n, x) /\ t.ids[x] = RestrictedIDs(n, x)
  <2> HIDE DEF t
  <2> TAKE x \in Subject
  <2>1. x = a => t.perm[x] = NoPerms /\ t.ids[x] = NoIds
    BY <1>1, <1>9, <1>10
  <2>2. x = r => t.perm[x] = View(d).perm[a] /\ t.ids[x] = View(d).ids[a]
    BY <1>1, <1>9, <1>10
  <2>3. x \notin {a, r} => t.perm[x] = View(d).perm[x] /\ t.ids[x] = View(d).ids[x]
    BY <1>9, <1>10
  <2> QED BY <1>7, <1>10, <2>1, <2>2, <2>3, ViewFields
<1>14. \A u \in User : t.assigned[u] = UserRoles(n, u)
  <2> HIDE DEF t
  <2> QED BY <1>6, <1>9, ViewFields
<1> HIDE DEF t
<1>15. t.roles = RoleNames(n)
  BY <1>5, <1>9, ViewFields
<1> QED BY <1>12, <1>13, <1>14, <1>15, ViewIs DEF t

(* A row that nothing refers to is a role with nothing. *)
LEMMA InsertSeen ==
    ASSUME NEW d, NEW n, Good(d), Good(n), NEW i \in RowId \ Live(d), Unreferenced(d, i),
           NEW r \in Role, Named(d, r) = {}, Renamed(d, n, i, r)
    PROVE  View(n) = Visible!AddRole(View(d), r)
<1> DEFINE t == Visible!AddRole(View(d), r)
<1>1. /\ n.assigned = d.assigned /\ n.perm = d.perm /\ n.ids = d.ids
      /\ n.name = [d.name EXCEPT ![i] = r] /\ n.name[i] = r /\ r # NoRole
      /\ \A j \in RowId \ {i} : n.name[j] = d.name[j]
  BY NoRoleIsNoRole DEF Good, Tables, Renamed
<1>2. Live(n) = Live(d) \cup {i}
  BY <1>1 DEF Live
<1>3. \A j \in Live(d) : n.name[j] = d.name[j]
  BY <1>1 DEF Live
<1>4. RoleNames(n) = RoleNames(d) \cup {r}
  BY <1>1, <1>2, <1>3 DEF RoleNames
<1>5. \A u \in User : UserRoles(n, u) = UserRoles(d, u)
  BY <1>1, <1>2, <1>3 DEF UserRoles, Unreferenced
<1>6. ASSUME NEW x \in Subject
      PROVE  /\ Permissions(n, x) = IF x = r THEN NoPerms ELSE Permissions(d, x)
             /\ RestrictedIDs(n, x) = IF x = r THEN NoIds ELSE RestrictedIDs(d, x)
  <2>0. r \notin User
    BY SubjectsApart
  <2>1. CASE x = r
    <3>1. i \in Live(n) /\ n.name[i] = r
      BY <1>1, <1>2
    <3>2. Permissions(n, r) = n.perm[i] /\ RestrictedIDs(n, r) = n.ids[i]
      BY <3>1, RowSeen
    <3> QED BY <1>1, <2>1, <3>2 DEF Unreferenced
  <2>2. CASE x \in User
    BY <1>1, <2>0, <2>2, UserSeen
  <2>3. CASE x \in Role \ {r} /\ Named(d, x) = {}
    <3>1. Named(n, x) = {}
      BY <1>1, <2>3 DEF Named
    <3> QED BY <2>3, <3>1, NoRowSeen
  <2>4. CASE x \in Role \ {r} /\ Named(d, x) # {}
    <3>1. PICK j \in Live(d) : d.name[j] = x
      BY <2>4, RowOrNone
    <3>2. j \in Live(n) /\ n.name[j] = x
      BY <1>2, <1>3, <3>1
    <3>3. Permissions(n, x) = n.perm[j] /\ RestrictedIDs(n, x) = n.ids[j]
      BY <3>2, RowSeen
    <3>4. Permissions(d, x) = d.perm[j] /\ RestrictedIDs(d, x) = d.ids[j]
      BY <3>1, RowSeen
    <3> QED BY <1>1, <2>4, <3>3, <3>4
  <2> QED BY <2>1, <2>2, <2>3, <2>4 DEF Subject
<1>7. View(d) \in TenantData /\ Visible!NoPerms = NoPerms /\ Visible!NoIds = NoIds /\ r \in Subject
  BY ViewTyped DEF Visible!NoPerms, NoPerms, Visible!NoIds, NoIds, Visible!Unset, Unset, Subject
<1>8. /\ t.roles = View(d).roles \cup {r} /\ t.assigned = View(d).assigned
      /\ t.perm = [View(d).perm EXCEPT ![r] = NoPerms]
      /\ t.ids = [View(d).ids EXCEPT ![r] = NoIds]
      /\ t \in TenantData
  BY <1>7, NothingSet DEF Visible!AddRole, TenantData
<1>9. \A x \in Subject : t.perm[x] = Permissions(n, x) /\ t.ids[x] = RestrictedIDs(n, x)
  <2> HIDE DEF t
  <2> TAKE x \in Subject
  <2>1. View(d).perm \in [Subject -> [Operation -> Grant]]
        /\ View(d).ids \in [Subject -> [Operation -> SUBSET RecordId]]
    BY <1>7 DEF TenantData
  <2> QED BY <1>6, <1>8, <2>1, ViewFields
<1>10. t.roles = RoleNames(n) /\ \A u \in User : t.assigned[u] = UserRoles(n, u)
  <2> HIDE DEF t
  <2> QED BY <1>4, <1>5, <1>8, ViewFields
<1>11. View(n) = t
  <2> HIDE DEF t
  <2> QED BY <1>8, <1>9, <1>10, ViewIs
<1> QED BY <1>11

(* Deleting a role that is there; one that is not is a DeadRow. *)
LEMMA DeleteSeen ==
    ASSUME NEW d, Good(d), NEW i \in Live(d), Good(WithoutRole(d, i))
    PROVE  View(WithoutRole(d, i)) = Visible!DropRole(View(d), d.name[i])
<1> DEFINE n == WithoutRole(d, i)
           a == d.name[i]
           t == Visible!DropRole(View(d), a)
<1>1. /\ i \in RowId /\ a \in Role /\ a # NoRole /\ n.name = [d.name EXCEPT ![i] = NoRole]
      /\ \A u \in User : n.assigned[u] = d.assigned[u] \ {i}
      /\ \A x \in Key \ {i} : n.perm[x] = d.perm[x] /\ n.ids[x] = d.ids[x]
      /\ \A j \in RowId \ {i} : n.name[j] = d.name[j]
      /\ n.name[i] = NoRole
  BY RoleRowsGone, RowSeen, NoRoleIsNoRole DEF Good, Live
<1> HIDE DEF n
<1>2. Live(n) = Live(d) \ {i}
  BY <1>1 DEF Live
<1>3. \A j \in RowId : d.name[j] = a <=> j = i
  BY RowSeen
<1>4. RoleNames(n) = RoleNames(d) \ {a}
  BY <1>1, <1>2, <1>3 DEF RoleNames, Live
<1>5. \A u \in User : UserRoles(n, u) = UserRoles(d, u) \ {a}
  BY <1>1, <1>2, <1>3 DEF UserRoles, Live
<1>6. ASSUME NEW x \in Subject
      PROVE  /\ Permissions(n, x) = IF x = a THEN NoPerms ELSE Permissions(d, x)
             /\ RestrictedIDs(n, x) = IF x = a THEN NoIds ELSE RestrictedIDs(d, x)
  <2>0. Good(n) /\ a \notin User
    BY <1>1, SubjectsApart DEF n
  <2>1. CASE x = a
    <3>1. Named(n, a) = {}
      BY <1>1, <1>3 DEF Named
    <3> QED BY <1>1, <2>0, <2>1, <3>1, NoRowSeen
  <2>2. CASE x \in User
    BY <1>1, <2>0, <2>2, UserSeen, KeysApart, NothingSet
  <2>3. CASE x \in Role \ {a} /\ Named(d, x) = {}
    <3>1. Named(n, x) = {}
      BY <1>1, <2>3, NoRoleIsNoRole DEF Named
    <3> QED BY <2>0, <2>3, <3>1, NoRowSeen
  <2>4. CASE x \in Role \ {a} /\ Named(d, x) # {}
    <3>1. PICK j \in Live(d) : d.name[j] = x
      BY <2>4, RowOrNone
    <3>2. j \in Live(n) /\ n.name[j] = x /\ j \in Key \ {i}
      BY <1>1, <1>2, <2>4, <3>1, NothingSet DEF Live
    <3>3. Permissions(n, x) = n.perm[j] /\ RestrictedIDs(n, x) = n.ids[j]
      BY <2>0, <3>2, RowSeen
    <3>4. Permissions(d, x) = d.perm[j] /\ RestrictedIDs(d, x) = d.ids[j]
      BY <3>1, RowSeen
    <3> QED BY <1>1, <2>4, <3>2, <3>3, <3>4
  <2> QED BY <2>1, <2>2, <2>3, <2>4 DEF Subject
<1>7. View(d) \in TenantData /\ Visible!NoPerms = NoPerms /\ Visible!NoIds = NoIds /\ a \in Subject
  BY <1>1, ViewTyped
     DEF Visible!NoPerms, NoPerms, Visible!NoIds, NoIds, Visible!Unset, Unset, Subject
<1>8. /\ t.roles = View(d).roles \ {a}
      /\ t.assigned = [u \in User |-> View(d).assigned[u] \ {a}]
      /\ t.perm = [View(d).perm EXCEPT ![a] = NoPerms]
      /\ t.ids = [View(d).ids EXCEPT ![a] = NoIds]
      /\ t \in TenantData
  BY <1>7, NothingSet DEF Visible!DropRole, TenantData
<1>9. \A x \in Subject : t.perm[x] = Permissions(n, x) /\ t.ids[x] = RestrictedIDs(n, x)
  BY <1>6, <1>7, <1>8, ViewFields DEF TenantData
<1>10. View(n) = t
  <2> HIDE DEF t
  <2>1. t.roles = RoleNames(n) /\ \A u \in User : t.assigned[u] = UserRoles(n, u)
    BY <1>4, <1>5, <1>8, ViewFields
  <2> QED BY <1>8, <1>9, <2>1, ViewIs
<1> QED BY <1>10 DEF n

(* The rows of one user in user_roles. *)
LEMMA AssignmentSeen ==
    ASSUME NEW d, NEW n, Good(d), Good(n), NEW u \in User,
           n.name = d.name, n.perm = d.perm, n.ids = d.ids,
           \A v \in User \ {u} : n.assigned[v] = d.assigned[v]
    PROVE  View(n) = WithRoles(View(d), u, UserRoles(n, u))
<1> DEFINE mine == UserRoles(n, u)
           t == WithRoles(View(d), u, mine)
<1>1. Live(n) = Live(d) /\ RoleNames(n) = RoleNames(d)
  BY DEF Live, RoleNames
<1>2. \A v \in User \ {u} : UserRoles(n, v) = UserRoles(d, v)
  BY <1>1 DEF UserRoles
<1>3. \A x \in Subject : /\ Permissions(n, x) = Permissions(d, x)
                         /\ RestrictedIDs(n, x) = RestrictedIDs(d, x)
  BY DEF Permissions, RestrictedIDs, KeyOf, Named
<1>4. View(d) \in TenantData /\ mine \in SUBSET Role
  BY ViewTyped, RolesSeen
<1> HIDE DEF mine
<1>5. /\ t \in TenantData /\ t.roles = View(d).roles
      /\ t.perm = View(d).perm /\ t.ids = View(d).ids
      /\ t.assigned = [View(d).assigned EXCEPT ![u] = mine]
      /\ View(d).assigned \in [User -> SUBSET Role]
  BY <1>4 DEF TenantData, WithRoles
<1> HIDE DEF t
<1>6. \A v \in User : t.assigned[v] = UserRoles(n, v)
  BY <1>2, <1>5, ViewFields DEF mine
<1>7. \A x \in Subject : t.perm[x] = Permissions(n, x) /\ t.ids[x] = RestrictedIDs(n, x)
  BY <1>3, <1>5, ViewFields
<1>8. t.roles = RoleNames(n)
  BY <1>1, <1>5, ViewFields
<1> QED BY <1>5, <1>6, <1>7, <1>8, ViewIs DEF t, mine

LEMMA AssignSeen ==
    ASSUME NEW d, Good(d), NEW i \in Live(d), NEW u \in User, Good(WithAssignment(d, u, i))
    PROVE  View(WithAssignment(d, u, i)) = WithRoles(View(d), u, View(d).assigned[u] \cup {d.name[i]})
<1> DEFINE n == WithAssignment(d, u, i)
           a == d.name[i]
<1>1. /\ n.name = d.name /\ n.perm = d.perm /\ n.ids = d.ids
      /\ n.assigned[u] = d.assigned[u] \cup {i}
      /\ \A v \in User \ {u} : n.assigned[v] = d.assigned[v]
  BY DEF WithAssignment, Good, Tables
<1>2. Good(n)
  OBVIOUS
<1> HIDE DEF n
<1>3. i \in RowId /\ \A j \in RowId : d.name[j] = a <=> j = i
  BY RowSeen
<1>4. UserRoles(n, u) = UserRoles(d, u) \cup {a}
  BY <1>1, <1>3 DEF UserRoles, Live
<1>5. View(d).assigned[u] = UserRoles(d, u)
  BY ViewFields
<1>6. View(n) = WithRoles(View(d), u, UserRoles(n, u))
  BY <1>1, <1>2, AssignmentSeen
<1> QED BY <1>4, <1>5, <1>6 DEF n

LEMMA UnassignSeen ==
    ASSUME NEW d, Good(d), NEW i \in Live(d), NEW u \in User, Good(WithoutAssignment(d, u, i))
    PROVE  View(WithoutAssignment(d, u, i)) = WithRoles(View(d), u, View(d).assigned[u] \ {d.name[i]})
<1> DEFINE n == WithoutAssignment(d, u, i)
           a == d.name[i]
<1>1. /\ n.name = d.name /\ n.perm = d.perm /\ n.ids = d.ids
      /\ n.assigned[u] = d.assigned[u] \ {i}
      /\ \A v \in User \ {u} : n.assigned[v] = d.assigned[v]
  BY DEF WithoutAssignment, Good, Tables
<1>2. Good(n)
  OBVIOUS
<1> HIDE DEF n
<1>3. i \in RowId /\ \A j \in RowId : d.name[j] = a <=> j = i
  BY RowSeen
<1>4. UserRoles(n, u) = UserRoles(d, u) \ {a}
  BY <1>1, <1>3 DEF UserRoles, Live
<1>5. View(d).assigned[u] = UserRoles(d, u)
  BY ViewFields
<1>6. View(n) = WithRoles(View(d), u, UserRoles(n, u))
  BY <1>1, <1>2, AssignmentSeen
<1> QED BY <1>4, <1>5, <1>6 DEF n

-----------------------------------------------------------------------------
(* Steps of the tables as steps of the store *)

(* The view of the next tables. *)
LEMMA NextView ==
    View(db)' = View(db')
  BY DEF View, RoleNames, UserRoles, Permissions, RestrictedIDs, KeyOf, Named, Live

(* The view takes a step of the tenant store, or none. *)
StoreStep == Visible!Next \/ View(db') = View(db)

LEMMA CallIsStep ==
    ASSUME NEW out \in Visible!Outcome, Visible!Call(out)
    PROVE  StoreStep
  BY DEF StoreStep, Visible!Next

LEMMA Outcomes == "saved" \in Visible!Outcome
  BY DEF Visible!Outcome

(* The methods on permissions and restricted ids, of a role's row or of a  *)
(* user.                                                                   *)
LEMMA KeyStep ==
    ASSUME Good(db), Good(db'), NEW k \in Key, NEW o \in Operation,
           \/ \E g \in Scope : db' = WithPermission(db, k, o, g)
           \/ db' = WithoutPermission(db, k, o)
           \/ \E some \in SUBSET RecordId :
                 db' = WithIDs(db, k, o, some) \/ db' = WithoutIDs(db, k, o, some)
    PROVE  StoreStep
<1> DEFINE s == SubjectOf(db, k)
           v == View(db)
           p == db.perm[k]
           q == db.ids[k]
<1>1. db \in Tables
  BY DEF Good
<1>2. CASE k \notin User \cup Live(db)
  <2>1. k \in RowId \ Live(db)
    BY <1>2 DEF Key
  <2>2. OnlyKey(db, db', k)
    BY <1>1, KeyWritten
  <2> QED BY <2>1, <2>2, DeadRow DEF OnlyKey, StoreStep
<1>3. CASE k \in User \cup Live(db)
  <2>1. ASSUME NEW p2, NEW q2, Written(db, db', k, p2, q2)
        PROVE  View(db)' = WithSubject(v, s, p2, q2)
    <3>1. View(db') = WithSubject(v, s, p2, q2)
      BY <1>3, <2>1, KeySeen
    <3> QED BY <3>1, NextView
  <2>2. /\ s \in Subject /\ Visible!Subject = Subject /\ Visible!Known(s)
        /\ v.perm[s] = p /\ v.ids[s] = q
    <3>1. Written(db, db, k, p, q)
      BY <1>1, Writes DEF Grant
    <3> QED BY <1>3, <3>1, KeySeen DEF Visible!Known
  <2>3. /\ v \in TenantData /\ p \in [Operation -> Grant] /\ q \in [Operation -> SUBSET RecordId]
        /\ v.perm \in [Subject -> [Operation -> Grant]]
        /\ v.ids \in [Subject -> [Operation -> SUBSET RecordId]]
    BY <1>1, ViewTyped DEF Good, TenantData, Tables
  <2> HIDE DEF v, s
  <2>4. [v.perm EXCEPT ![s] = p] = v.perm /\ [v.ids EXCEPT ![s] = q] = v.ids
    BY <2>2, <2>3
  <2>5. CASE \E g \in Scope : db' = WithPermission(db, k, o, g)
    <3>1. PICK g \in Scope : db' = WithPermission(db, k, o, g)
      BY <2>5
    <3>2. View(db)' = WithSubject(v, s, [p EXCEPT ![o] = g], q)
      BY <1>1, <2>1, <3>1, Writes DEF Grant
    <3>3. View(db)' = [v EXCEPT !.perm[s][o] = g]
      BY <2>2, <2>3, <2>4, <3>2 DEF TenantData, WithSubject
    <3>4. Visible!SetPermission(s, o, g, "saved")
      BY <2>2, <3>3 DEF Visible!SetPermission, Visible!Saved, v
    <3>5. Visible!Call("saved")
      BY <2>2, <3>4 DEF Visible!Call, Visible!PermissionCall, Visible!Scope, Scope
    <3> QED BY <3>5, Outcomes, CallIsStep
  <2>6. CASE db' = WithoutPermission(db, k, o) /\ p[o] = Unset
    BY <1>1, <2>6, Writes DEF StoreStep, Grant
  <2>7. CASE db' = WithoutPermission(db, k, o) /\ p[o] # Unset
    <3>1. View(db)' = WithSubject(v, s, [p EXCEPT ![o] = Unset], [q EXCEPT ![o] = {}])
      BY <1>1, <2>1, <2>7, Writes DEF Grant
    <3>2. View(db)' = [v EXCEPT !.perm[s][o] = Unset, !.ids[s][o] = {}]
      BY <2>2, <2>3, <3>1 DEF TenantData, WithSubject
    <3>3. Visible!RemovePermission(s, o, "saved")
      BY <2>2, <2>7, <3>2 DEF Visible!RemovePermission, Visible!Saved, Visible!Unset, Unset, v
    <3>4. Visible!Call("saved")
      BY <2>2, <3>3 DEF Visible!Call, Visible!PermissionCall
    <3> QED BY <3>4, Outcomes, CallIsStep
  <2>8. ASSUME NEW some \in SUBSET RecordId, db' = WithIDs(db, k, o, some)
        PROVE  StoreStep
    <3>1. View(db)' = WithSubject(v, s, p, [q EXCEPT ![o] = @ \cup some])
      BY <1>1, <2>1, <2>8, Writes DEF Grant
    <3>2. View(db)' = [v EXCEPT !.ids[s][o] = @ \cup some]
      BY <2>2, <2>3, <2>4, <3>1 DEF TenantData, WithSubject
    <3>3. Visible!AddRestrictedIDs(s, o, some, "saved")
      BY <2>2, <3>2 DEF Visible!AddRestrictedIDs, Visible!Saved, v
    <3>4. Visible!Call("saved")
      BY <2>2, <3>3 DEF Visible!Call, Visible!PermissionCall
    <3> QED BY <3>4, Outcomes, CallIsStep
  <2>9. ASSUME NEW some \in SUBSET RecordId, db' = WithoutIDs(db, k, o, some)
        PROVE  StoreStep
    <3>1. View(db)' = WithSubject(v, s, p, [q EXCEPT ![o] = @ \ some])
      BY <1>1, <2>1, <2>9, Writes DEF Grant
    <3>2. View(db)' = [v EXCEPT !.ids[s][o] = @ \ some]
      BY <2>2, <2>3, <2>4, <3>1 DEF TenantData, WithSubject
    <3>3. Visible!RemoveRestrictedIDs(s, o, some, "saved")
      BY <2>2, <3>2 DEF Visible!RemoveRestrictedIDs, Visible!Saved, v
    <3>4. Visible!Call("saved")
      BY <2>2, <3>3 DEF Visible!Call, Visible!PermissionCall
    <3> QED BY <3>4, Outcomes, CallIsStep
  <2> QED BY <2>5, <2>6, <2>7, <2>8, <2>9
<1> QED BY <1>2, <1>3

(* CreateRole and EnsureRole. *)
LEMMA InsertStep ==
    ASSUME Inv, Good(db), Good(db'), NEW r \in Role, InsertRole(r)
    PROVE  StoreStep
<1>1. PICK i \in RowId : NewRowId(i) /\ Renamed(db, db', i, r)
  BY DEF InsertRole, Renamed
<1>2. i = lastId + 1 /\ Named(db, r) = {} /\ lastId \in Nat
  BY <1>1, MaxRowIdType DEF NewRowId, InsertRole, Inv, TypeOK
<1>3. i \notin Live(db) /\ Unreferenced(db, i)
  <2>1. i > lastId
    BY <1>2
  <2> QED BY <2>1 DEF Inv, RowsNumbered
<1>4. View(db)' = Visible!AddRole(View(db), r) /\ r \notin View(db).roles
  BY <1>1, <1>2, <1>3, InsertSeen, NoRowSeen, NextView, ViewFields
<1>5. Visible!CreateRole(r, "saved")
  BY <1>4 DEF Visible!CreateRole, Visible!Saved
<1>6. Visible!Call("saved")
  BY <1>5 DEF Visible!Call, Visible!RoleCall
<1> QED BY <1>6, Outcomes, CallIsStep

(* The update of a role's name. *)
LEMMA RenameStep ==
    ASSUME Good(db), Good(db'), NEW i \in RowId, NEW r \in Role, db' = WithName(db, i, r)
    PROVE  StoreStep
<1>1. CASE i \in Live(db) /\ Named(db, r) = {}
  <2> DEFINE a == db.name[i]
  <2>1. View(db)' = Visible!MoveRole(View(db), a, r)
    BY <1>1, RenameSeen, NextView DEF WithName, Renamed
  <2>2. r \notin View(db).roles /\ a \in View(db).roles /\ a \in Role
    BY <1>1, NoRowSeen, RowSeen, ViewFields
  <2> HIDE DEF a
  <2>3. Visible!RenameRole(a, r, "saved")
    BY <2>1, <2>2 DEF Visible!RenameRole, Visible!Saved
  <2>4. Visible!Call("saved")
    BY <2>2, <2>3 DEF Visible!Call, Visible!RoleCall
  <2> QED BY <2>4, Outcomes, CallIsStep
<1>2. CASE ~(i \in Live(db) /\ Named(db, r) = {})
  BY <1>2 DEF WithName, StoreStep
<1> QED BY <1>1, <1>2

LEMMA DeleteStep ==
    ASSUME Good(db), Good(db'), NEW i \in RowId, db' = WithoutRole(db, i)
    PROVE  StoreStep
<1>1. CASE i \in Live(db)
  <2> DEFINE a == db.name[i]
  <2>1. View(db)' = Visible!DropRole(View(db), a)
    BY <1>1, DeleteSeen, NextView
  <2>2. a \in View(db).roles /\ a \in Role
    BY <1>1, RowSeen, ViewFields
  <2> HIDE DEF a
  <2>3. Visible!DeleteRole(a, "saved")
    BY <2>1, <2>2 DEF Visible!DeleteRole, Visible!Saved
  <2>4. Visible!Call("saved")
    BY <2>2, <2>3 DEF Visible!Call, Visible!RoleCall
  <2> QED BY <2>4, Outcomes, CallIsStep
<1>2. CASE i \notin Live(db)
  <2>1. /\ \A x \in Key \ {i} : db'.perm[x] = db.perm[x] /\ db'.ids[x] = db.ids[x]
        /\ \A u \in User : db'.assigned[u] = db.assigned[u] \ {i}
        /\ db'.name = [db.name EXCEPT ![i] = NoRole]
    BY RoleRowsGone DEF Good
  <2>2. db'.name = db.name
    BY <1>2, <2>1 DEF Live, Good, Tables
  <2>3. \A u \in User, x \in RowId \ {i} : x \in db'.assigned[u] <=> x \in db.assigned[u]
    BY <2>1
  <2> QED BY <1>2, <2>1, <2>2, <2>3, DeadRow DEF StoreStep
<1> QED BY <1>1, <1>2

LEMMA AssignmentStep ==
    ASSUME Good(db), Good(db'), NEW i \in RowId, NEW u \in User,
           db' \in {WithAssignment(db, u, i), WithoutAssignment(db, u, i)}
    PROVE  StoreStep
<1>1. CASE i \notin Live(db)
  <2>1. /\ db'.name = db.name /\ db'.perm = db.perm /\ db'.ids = db.ids
        /\ \A v \in User, x \in RowId \ {i} : x \in db'.assigned[v] <=> x \in db.assigned[v]
    <3>1. db \in Tables
      BY DEF Good
    <3>2. db'.name = db.name /\ db'.perm = db.perm /\ db'.ids = db.ids
      BY <3>1, AssignmentWritten
    <3>3. ASSUME NEW v \in User, NEW x \in RowId \ {i}
          PROVE  x \in db'.assigned[v] <=> x \in db.assigned[v]
      <4>1. \/ db'.assigned = [db.assigned EXCEPT ![u] = @ \cup {i}]
            \/ db'.assigned = [db.assigned EXCEPT ![u] = @ \ {i}]
        BY <3>1 DEF WithAssignment, WithoutAssignment, Tables
      <4>2. db.assigned \in [User -> SUBSET RowId]
        BY <3>1 DEF Tables
      <4> QED BY <4>1, <4>2
    <3> QED BY <3>2, <3>3
  <2> QED BY <1>1, <2>1, DeadRow DEF StoreStep
<1>2. CASE i \in Live(db)
  <2> DEFINE a == db.name[i]
             v == View(db)
  <2>1. /\ v \in TenantData /\ a \in Role /\ a \in v.roles
        /\ v.assigned \in [User -> SUBSET Role]
    BY <1>2, ViewTyped, RowSeen, ViewFields DEF TenantData
  <2>2. CASE db' = WithAssignment(db, u, i)
    <3>1. View(db') = WithRoles(v, u, v.assigned[u] \cup {a})
      BY <1>2, <2>2, AssignSeen
    <3> HIDE DEF a, v
    <3>2. CASE a \in v.assigned[u]
      BY <2>1, <3>1, <3>2 DEF StoreStep, v, TenantData, WithRoles
    <3>3. CASE a \notin v.assigned[u]
      <4>1. Visible!AssignRole(u, a, "saved")
        BY <2>1, <3>1, <3>3, NextView DEF Visible!AssignRole, Visible!Saved, WithRoles, v
      <4>2. Visible!Call("saved")
        BY <2>1, <4>1 DEF Visible!Call, Visible!AssignmentCall
      <4> QED BY <4>2, Outcomes, CallIsStep
    <3> QED BY <3>2, <3>3
  <2>3. CASE db' = WithoutAssignment(db, u, i)
    <3>1. View(db') = WithRoles(v, u, v.assigned[u] \ {a})
      BY <1>2, <2>3, UnassignSeen
    <3> HIDE DEF a, v
    <3>2. CASE a \notin v.assigned[u]
      BY <2>1, <3>1, <3>2 DEF StoreStep, v, TenantData, WithRoles
    <3>3. CASE a \in v.assigned[u]
      <4>1. Visible!UnassignRole(u, a, "saved")
        BY <2>1, <3>1, <3>3, NextView DEF Visible!UnassignRole, Visible!Saved, WithRoles, v
      <4>2. Visible!Call("saved")
        BY <2>1, <4>1 DEF Visible!Call, Visible!AssignmentCall
      <4> QED BY <4>2, Outcomes, CallIsStep
    <3> QED BY <3>2, <3>3
  <2> QED BY <2>2, <2>3
<1> QED BY <1>1, <1>2

-----------------------------------------------------------------------------
(* Whatever the methods' statements do to the rows meanwhile, the tables   *)
(* go through the steps of a TenantStore: every statement that lands late  *)
(* is a call on the role under its present name, or nothing                *)
(* (gorm.go:283-551).                                                      *)
THEOREM SqlTablesImplementTenantStore == Spec => ImplementsTenantStore
<1>1. Init => Visible!Init
  <2> SUFFICES ASSUME Init PROVE View(db) = Visible!EmptyTenant
    BY DEF Visible!Init
  <2>1. Good(db) /\ Live(db) = {} /\ db = EmptyTables
    BY NothingSet, MaxRowIdType DEF Good, UniqueNames, Init, EmptyTables, Tables, Live
  <2>2. /\ \A r \in Role : Named(db, r) = {}
        /\ RoleNames(db) = {} /\ \A u \in User : UserRoles(db, u) = {}
    BY <2>1, NoRoleIsNoRole DEF Named, Live, RoleNames, UserRoles
  <2>3. \A s \in Subject : Permissions(db, s) = NoPerms /\ RestrictedIDs(db, s) = NoIds
    BY <2>1, <2>2, UserSeen, NoRowSeen, NothingSet DEF Subject, EmptyTables
  <2>4. Visible!EmptyTenant = EmptyTenant
    BY DEF Visible!EmptyTenant, EmptyTenant, Visible!Subject, Subject,
           Visible!NoPerms, NoPerms, Visible!NoIds, NoIds, Visible!Unset, Unset
  <2> QED BY <2>2, <2>3, <2>4 DEF View, EmptyTenant
<1>2. ASSUME Inv, Inv', [Next]_vars
      PROVE  [db' # db => [Visible!Next]_(View(db))]_vars
  <2>1. Good(db) /\ Good(db')
    BY <1>2 DEF Good, Inv, TypeOK
  <2>2. CASE UNCHANGED db
    BY <2>2, NextView
  <2>3. CASE \E r \in Role : InsertRole(r)
    BY <1>2, <2>1, <2>3, InsertStep, NextView DEF StoreStep
  <2>4. CASE UserCall
    <3>1. PICK u \in User, o \in Operation :
             \/ \E scope \in SomeScope : SetUserPermission(u, o, scope)
             \/ RemoveUserPermission(u, o)
             \/ \E some \in SUBSET RecordId :
                   AddUserRestrictedIDs(u, o, some) \/ RemoveUserRestrictedIDs(u, o, some)
      BY <2>4 DEF UserCall
    <3>2. StoreStep
      BY <2>1, <3>1, KeyStep, NothingSet, SomeScopeIsScope
         DEF SetUserPermission, RemoveUserPermission, AddUserRestrictedIDs,
             RemoveUserRestrictedIDs, AtOnce
    <3> QED BY <3>2, NextView DEF StoreStep
  <2>5. ASSUME NEW c \in Client, Act(c)
        PROVE  StoreStep
    <3> DEFINE i == call[c].row
    <3>1. TypeOK
      BY <1>2 DEF Inv
    <3>2. i \in RowId /\ i \in Key
      BY <2>5, <3>1, Found, NothingSet
         DEF Act, Does, NewNameExists, NewNameIsFree, UpdateName, DeleteRole, AssignRole,
             UnassignRole, SetRolePermission, RemoveRolePermission, AddRoleRestrictedIDs,
             RemoveRoleRestrictedIDs
    <3>3. CASE NewNameExists(c) \/ NewNameIsFree(c)
      BY <3>3 DEF NewNameExists, NewNameIsFree, Return, StoreStep
    <3>4. CASE UpdateName(c)
      BY <2>1, <3>1, <3>2, <3>4, FoundStatement, RenameStep DEF UpdateName, Return
    <3>5. CASE DeleteRole(c)
      BY <2>1, <3>2, <3>5, DeleteStep DEF DeleteRole, Return
    <3>6. CASE AssignRole(c) \/ UnassignRole(c)
      BY <2>1, <3>1, <3>2, <3>6, FoundStatement, AssignmentStep
         DEF AssignRole, UnassignRole, Return
    <3>7. CASE SetRolePermission(c)
      BY <2>1, <3>1, <3>2, <3>7, FoundStatement, KeyStep DEF SetRolePermission, Return
    <3>8. CASE RemoveRolePermission(c)
      BY <2>1, <3>1, <3>2, <3>8, FoundStatement, KeyStep DEF RemoveRolePermission, Return
    <3>9. CASE AddRoleRestrictedIDs(c) \/ RemoveRoleRestrictedIDs(c)
      BY <2>1, <3>1, <3>2, <3>9, FoundStatement, KeyStep
         DEF AddRoleRestrictedIDs, RemoveRoleRestrictedIDs, Return
    <3> QED BY <2>5, <3>3, <3>4, <3>5, <3>6, <3>7, <3>8, <3>9 DEF Act
  <2> QED BY <1>2, <2>2, <2>3, <2>4, <2>5, NextView DEF Next, vars, RoleByName, StoreStep
<1> QED BY <1>1, <1>2, RowsInv, PTL DEF Spec, ImplementsTenantStore

-----------------------------------------------------------------------------
(* What is proved of the tenant store holds of the tables. *)
Store == INSTANCE TenantStoreProofs WITH tenant <- View(db)

LEMMA SameNext ==
    /\ Visible!Init <=> Store!Init
    /\ Visible!Next <=> Store!Next
<1>1. Visible!Init <=> Store!Init
  BY DEF Visible!Init, Visible!EmptyTenant, Visible!Subject,
         Visible!NoPerms, Visible!NoIds, Visible!Unset,
         Store!Init, Store!EmptyTenant, Store!Subject, Store!NoPerms, Store!NoIds, Store!Unset
<1>2. ASSUME NEW out
      PROVE  Visible!RoleCall(out) <=> Store!RoleCall(out)
  BY DEF Visible!RoleCall, Visible!CreateRole, Visible!EnsureRole, Visible!DeleteRole,
         Visible!RenameRole, Visible!AddRole, Visible!DropRole, Visible!MoveRole,
         Visible!Saved, Visible!Noop, Visible!NotFound, Visible!Conflict,
         Visible!NoPerms, Visible!NoIds, Visible!Unset,
         Store!RoleCall, Store!CreateRole, Store!EnsureRole, Store!DeleteRole,
         Store!RenameRole, Store!AddRole, Store!DropRole, Store!MoveRole,
         Store!Saved, Store!Noop, Store!NotFound, Store!Conflict,
         Store!NoPerms, Store!NoIds, Store!Unset
<1>3. ASSUME NEW out
      PROVE  Visible!AssignmentCall(out) <=> Store!AssignmentCall(out)
  BY DEF Visible!AssignmentCall, Visible!AssignRole, Visible!UnassignRole,
         Visible!Saved, Visible!Noop, Visible!NotFound,
         Store!AssignmentCall, Store!AssignRole, Store!UnassignRole,
         Store!Saved, Store!Noop, Store!NotFound
<1>4. ASSUME NEW out
      PROVE  Visible!PermissionCall(out) <=> Store!PermissionCall(out)
  BY DEF Visible!PermissionCall, Visible!SetPermission, Visible!RemovePermission,
         Visible!AddRestrictedIDs, Visible!RemoveRestrictedIDs, Visible!Known,
         Visible!Saved, Visible!NotFound, Visible!Subject, Visible!Scope, Visible!Unset,
         Store!PermissionCall, Store!SetPermission, Store!RemovePermission,
         Store!AddRestrictedIDs, Store!RemoveRestrictedIDs, Store!Known,
         Store!Saved, Store!NotFound, Store!Subject, Store!Scope, Store!Unset
<1> QED BY <1>1, <1>2, <1>3, <1>4
        DEF Visible!Next, Visible!Call, Visible!Outcome, Store!Next, Store!Call, Store!Outcome

(* Although the statements of methods interleave, the tables never show a  *)
(* reference to a role that is missing, a rename or a creation that        *)
(* changes anybody's access, a revocation that widens it, or a method that *)
(* changes the access of others than it names (gorm.go:262-551).           *)
THEOREM SqlTablesTakeSafeSteps ==
    Spec => /\ []Store!Inv
            /\ Store!RenameAndCreateKeepAccess
            /\ Store!RevocationNeverWidens
            /\ Store!OnlyTheTargetIsAffected
<1>1. Visible!Init => Store!Init
  BY SameNext
<1>2. [db' # db => [Visible!Next]_(View(db))]_vars => [Store!Next]_(View(db))
  BY SameNext, NextView DEF vars
<1>3. ImplementsTenantStore => Store!Spec
  BY <1>1, <1>2, PTL DEF ImplementsTenantStore, Store!Spec
<1>4. Spec => Store!Spec
  BY <1>3, SqlTablesImplementTenantStore, PTL
<1>5. /\ Store!Spec => []Store!Inv
      /\ Store!Spec => Store!RenameAndCreateKeepAccess
      /\ Store!Spec => Store!RevocationNeverWidens
      /\ Store!Spec => Store!OnlyTheTargetIsAffected
  BY SubjectsApart, Store!StoreInv, Store!RenameAndCreateAreNeutral,
     Store!RevocationIsSafe, Store!CallsAffectTheirTarget
<1> QED BY <1>4, <1>5, PTL

-----------------------------------------------------------------------------
(* The reading methods *)

(* What one look shows is made of the rows the first SELECT finds.         *)
LEMMA OneLookIsOfRows ==
    ASSUME NEW d, Good(d), NEW m \in Method
    PROVE  /\ \A f : f \in AtOneLook(m, d) <=>
                        \E i \in Rows(m, d) \cap Live(d) : f \in Entries(m, d, i, d.name[i])
           /\ \A i \in Rows(m, d) \ Live(d) : \A r : Entries(m, d, i, r) = {}
           /\ Rows(m, d) \subseteq RowId
<1>1. CASE m.what = "user_roles"
  <2>1. m.sub \in User /\ d.assigned[m.sub] \subseteq RowId
    BY <1>1 DEF Method, Good, Tables
  <2>2. /\ AtOneLook(m, d) = {d.name[i] : i \in d.assigned[m.sub] \cap Live(d)}
        /\ Rows(m, d) = d.assigned[m.sub]
        /\ \A i, r : Entries(m, d, i, r) = {d.name[i]} \ {NoRole}
    BY <1>1 DEF AtOneLook, UserRoles, Rows, Entries
  <2> QED BY <2>1, <2>2 DEF Live
<1>2. CASE m.what = "grants"
  <2>1. m.roles \subseteq Role
    BY <1>2 DEF Method
  <2>2. Rows(m, d) = {i \in Live(d) : d.name[i] \in m.roles}
    BY <1>2 DEF Rows
  <2>3. \A i \in RowId, o \in Operation : d.perm[i][o] \in Scope \cup {Unset}
    BY NothingSet DEF Good, Tables, Grant
  <2>4. \A i, r, f : f \in Entries(m, d, i, r) <=>
           \E o \in Operation : d.perm[i][o] # Unset /\ f = <<r, o, d.perm[i][o]>>
    BY <1>2 DEF Entries
  <2>5. \A f : f \in AtOneLook(m, d) <=>
           \E r \in m.roles, o \in Operation :
              Permissions(d, r)[o] \in Scope /\ f = <<r, o, Permissions(d, r)[o]>>
    BY <1>2 DEF AtOneLook
  <2>6. \A g \in Scope : g # Unset
    BY DEF Scope, Unset
  <2>7. ASSUME NEW f, f \in AtOneLook(m, d)
        PROVE  \E i \in Rows(m, d) \cap Live(d) : f \in Entries(m, d, i, d.name[i])
    <3>1. PICK r \in m.roles, o \in Operation :
             Permissions(d, r)[o] \in Scope /\ f = <<r, o, Permissions(d, r)[o]>>
      BY <2>5, <2>7
    <3>2. Named(d, r) # {}
      BY <2>1, <2>6, <3>1, NoRowSeen DEF NoPerms
    <3>3. PICK i \in Live(d) : d.name[i] = r
      BY <2>1, <3>2, RowOrNone
    <3>4. Permissions(d, r) = d.perm[i]
      BY <3>3, RowSeen
    <3> QED BY <2>2, <2>4, <2>6, <3>1, <3>3, <3>4
  <2>8. ASSUME NEW i \in Rows(m, d) \cap Live(d), NEW f \in Entries(m, d, i, d.name[i])
        PROVE  f \in AtOneLook(m, d)
    <3>1. i \in Live(d) /\ i \in RowId /\ d.name[i] \in m.roles
      BY <2>2, <2>8 DEF Live
    <3>2. Permissions(d, d.name[i]) = d.perm[i]
      BY <3>1, RowSeen
    <3>3. PICK o \in Operation : d.perm[i][o] # Unset /\ f = <<d.name[i], o, d.perm[i][o]>>
      BY <2>4, <2>8
    <3>4. d.perm[i][o] \in Scope
      BY <2>3, <3>1, <3>3
    <3> QED BY <2>5, <3>1, <3>2, <3>3, <3>4
  <2>9. Rows(m, d) \subseteq RowId /\ Rows(m, d) \ Live(d) = {}
    BY <2>2 DEF Live
  <2> QED BY <2>7, <2>8, <2>9
<1>3. CASE m.what = "ids"
  <2>1. m.roles \subseteq Role /\ m.operation \in Operation
    BY <1>3 DEF Method
  <2>2. Rows(m, d) = {i \in Live(d) : d.name[i] \in m.roles}
    BY <1>3 DEF Rows
  <2>3. \A i \in RowId : d.ids[i][m.operation] \subseteq RecordId
    BY <2>1, NothingSet DEF Good, Tables
  <2>4. \A i, r, f : f \in Entries(m, d, i, r) <=>
           \E x \in d.ids[i][m.operation] : f = <<r, x>>
    BY <1>3 DEF Entries
  <2>5. \A f : f \in AtOneLook(m, d) <=>
           \E r \in m.roles, x \in RecordId :
              x \in RestrictedIDs(d, r)[m.operation] /\ f = <<r, x>>
    BY <1>3 DEF AtOneLook
  <2>6. NoIds[m.operation] = {}
    BY <2>1 DEF NoIds
  <2>7. ASSUME NEW f, f \in AtOneLook(m, d)
        PROVE  \E i \in Rows(m, d) \cap Live(d) : f \in Entries(m, d, i, d.name[i])
    <3>1. PICK r \in m.roles, x \in RecordId :
             x \in RestrictedIDs(d, r)[m.operation] /\ f = <<r, x>>
      BY <2>5, <2>7
    <3>2. Named(d, r) # {}
      BY <2>1, <2>6, <3>1, NoRowSeen
    <3>3. PICK i \in Live(d) : d.name[i] = r
      BY <2>1, <3>2, RowOrNone
    <3>4. RestrictedIDs(d, r) = d.ids[i]
      BY <3>3, RowSeen
    <3> QED BY <2>2, <2>4, <3>1, <3>3, <3>4
  <2>8. ASSUME NEW i \in Rows(m, d) \cap Live(d), NEW f \in Entries(m, d, i, d.name[i])
        PROVE  f \in AtOneLook(m, d)
    <3>1. i \in Live(d) /\ i \in RowId /\ d.name[i] \in m.roles
      BY <2>2, <2>8 DEF Live
    <3>2. RestrictedIDs(d, d.name[i]) = d.ids[i]
      BY <3>1, RowSeen
    <3>3. PICK x \in d.ids[i][m.operation] : f = <<d.name[i], x>>
      BY <2>4, <2>8
    <3>4. x \in RecordId
      BY <2>3, <3>1, <3>3
    <3> QED BY <2>5, <3>1, <3>2, <3>3, <3>4
  <2>9. Rows(m, d) \subseteq RowId /\ Rows(m, d) \ Live(d) = {}
    BY <2>2 DEF Live
  <2> QED BY <2>7, <2>8, <2>9
<1> QED BY <1>1, <1>2, <1>3 DEF Method

(* Without a change between them the two SELECTs are one look.             *)
LEMMA SelectsAtOnce ==
    ASSUME NEW d, Good(d), NEW m \in Method
    PROVE  Answer(FirstSelect(m, d), m, d) = AtOneLook(m, d)
<1>1. \A f : f \in Answer(FirstSelect(m, d), m, d) <=>
                \E i \in Rows(m, d) : f \in Entries(m, d, i, d.name[i])
  BY DEF Answer, FirstSelect
<1> QED BY <1>1, OneLookIsOfRows

-----------------------------------------------------------------------------
(* What a step of another handler does to the tables *)

KeysChange(d, n) == n.name = d.name /\ n.assigned = d.assigned
AssignmentsChange(d, n) == n.name = d.name /\ n.perm = d.perm /\ n.ids = d.ids
NameChanges(d, n) ==
    /\ n.assigned = d.assigned /\ n.perm = d.perm /\ n.ids = d.ids
    /\ \E k \in Live(d) \cap Live(n) : \A i \in RowId \ {k} : n.name[i] = d.name[i]
RowAppears(d, n, last) ==
    /\ n.assigned = d.assigned /\ n.perm = d.perm /\ n.ids = d.ids
    /\ \E k \in RowId : k > last /\ \A i \in RowId \ {k} : n.name[i] = d.name[i]
RowGoes(d, n) == \E k \in RowId : n = WithoutRole(d, k)

TablesStep(d, n, last) ==
    \/ KeysChange(d, n)
    \/ AssignmentsChange(d, n)
    \/ NameChanges(d, n)
    \/ RowAppears(d, n, last)
    \/ RowGoes(d, n)

LEMMA EveryStep ==
    ASSUME Inv, [Next]_vars
    PROVE  TablesStep(db, db', lastId) /\ lastId \in Nat /\ lastId' \in Nat /\ lastId' >= lastId
<1>1. TypeOK /\ db \in Tables /\ lastId \in Nat
  BY MaxRowIdType DEF Inv, TypeOK
<1>2. CASE UNCHANGED db /\ UNCHANGED lastId
  BY <1>1, <1>2 DEF TablesStep, KeysChange
<1>3. ASSUME NEW r \in Role, InsertRole(r)
      PROVE  RowAppears(db, db', lastId) /\ lastId' \in Nat /\ lastId' >= lastId
  <2>1. PICK i \in RowId : NewRowId(i) /\ db' = [db EXCEPT !.name[i] = r]
    BY <1>3 DEF InsertRole
  <2>2. i = lastId + 1 /\ lastId' = lastId + 1
    BY <2>1 DEF NewRowId
  <2>3. i > lastId /\ lastId' \in Nat /\ lastId' >= lastId
    BY <1>1, <2>2
  <2>4. /\ db'.assigned = db.assigned /\ db'.perm = db.perm /\ db'.ids = db.ids
        /\ \A x \in RowId \ {i} : db'.name[x] = db.name[x]
    BY <1>1, <2>1 DEF Tables
  <2> QED BY <2>3, <2>4 DEF RowAppears
<1>4. ASSUME UserCall
      PROVE  KeysChange(db, db') /\ lastId' = lastId
  <2>1. PICK u \in User, o \in Operation :
           \/ \E scope \in SomeScope : SetUserPermission(u, o, scope)
           \/ RemoveUserPermission(u, o)
           \/ \E some \in SUBSET RecordId :
                 AddUserRestrictedIDs(u, o, some) \/ RemoveUserRestrictedIDs(u, o, some)
    BY <1>4 DEF UserCall
  <2> QED BY <1>1, <2>1, KeyWritten, NothingSet, SomeScopeIsScope
          DEF SetUserPermission, RemoveUserPermission, AddUserRestrictedIDs,
              RemoveUserRestrictedIDs, AtOnce, OnlyKey, KeysChange
<1>5. ASSUME NEW c \in Client, Act(c)
      PROVE  TablesStep(db, db', lastId) /\ lastId' = lastId
  <2> DEFINE i == call[c].row
  <2>1. i \in RowId /\ i \in Key
    BY <1>1, <1>5, Found, NothingSet
       DEF Act, Does, NewNameExists, NewNameIsFree, UpdateName, DeleteRole, AssignRole,
           UnassignRole, SetRolePermission, RemoveRolePermission, AddRoleRestrictedIDs,
           RemoveRoleRestrictedIDs
  <2>2. CASE NewNameExists(c) \/ NewNameIsFree(c)
    BY <1>2, <2>2 DEF NewNameExists, NewNameIsFree, Return
  <2>3. CASE UpdateName(c)
    <3> DEFINE r == call[c].next.to
    <3>1. db' = WithName(db, i, r) /\ lastId' = lastId /\ r \in Role
      BY <1>1, <2>3, FoundStatement DEF UpdateName, Return
    <3>2. CASE db' = db
      BY <3>1, <3>2 DEF TablesStep, KeysChange
    <3>3. CASE i \in Live(db) /\ db' = [db EXCEPT !.name[i] = r]
      <4>1. /\ db'.assigned = db.assigned /\ db'.perm = db.perm /\ db'.ids = db.ids
            /\ db'.name = [db.name EXCEPT ![i] = r] /\ db.name \in [RowId -> Role \cup {NoRole}]
        BY <1>1, <3>3 DEF Tables
      <4>2. i \in Live(db) \cap Live(db')
        BY <2>1, <3>1, <3>3, <4>1, NoRoleIsNoRole DEF Live
      <4>3. \A x \in RowId \ {i} : db'.name[x] = db.name[x]
        BY <4>1
      <4>4. NameChanges(db, db')
        BY <4>1, <4>2, <4>3 DEF NameChanges
      <4> QED BY <3>1, <4>4 DEF TablesStep
    <3> QED BY <3>1, <3>2, <3>3 DEF WithName
  <2>4. CASE DeleteRole(c)
    BY <2>1, <2>4 DEF DeleteRole, Return, TablesStep, RowGoes
  <2>5. CASE AssignRole(c) \/ UnassignRole(c)
    <3>1. PICK u \in User : db' \in {WithAssignment(db, u, i), WithoutAssignment(db, u, i)}
      BY <1>1, <2>5, FoundStatement DEF AssignRole, UnassignRole, Return
    <3>2. AssignmentsChange(db, db')
      BY <1>1, <2>1, <3>1, AssignmentWritten DEF AssignmentsChange
    <3> QED BY <2>5, <3>2 DEF AssignRole, UnassignRole, Return, TablesStep
  <2>6. CASE SetRolePermission(c) \/ RemoveRolePermission(c)
    BY <1>1, <2>1, <2>6, FoundStatement, KeyWritten
       DEF SetRolePermission, RemoveRolePermission, Return, OnlyKey, KeysChange, TablesStep
  <2>7. CASE AddRoleRestrictedIDs(c) \/ RemoveRoleRestrictedIDs(c)
    BY <1>1, <2>1, <2>7, FoundStatement, KeyWritten
       DEF AddRoleRestrictedIDs, RemoveRoleRestrictedIDs, Return, OnlyKey, KeysChange, TablesStep
  <2> QED BY <1>5, <2>2, <2>3, <2>4, <2>5, <2>6, <2>7 DEF Act
<1> QED BY <1>1, <1>2, <1>3, <1>4, <1>5 DEF Next, vars, RoleByName, TablesStep

(* A row's name changes alone, and rows appear under fresh ids only.       *)
LEMMA NamesMove ==
    ASSUME NEW d, NEW n, Good(d), Good(n), NEW last \in Nat, TablesStep(d, n, last)
    PROVE  /\ \A i, j \in RowId : n.name[i] # d.name[i] /\ n.name[j] # d.name[j] => i = j
           /\ \A i \in Live(n) \ Live(d) : i > last
<1>1. CASE n.name = d.name
  BY <1>1 DEF Live
<1>2. CASE NameChanges(d, n)
  BY <1>2 DEF NameChanges, Live
<1>3. CASE RowAppears(d, n, last)
  BY <1>3 DEF RowAppears, Live
<1>4. CASE RowGoes(d, n)
  <2>1. PICK k \in RowId : n = WithoutRole(d, k)
    BY <1>4 DEF RowGoes
  <2>2. n.name = [d.name EXCEPT ![k] = NoRole] /\ d.name \in [RowId -> Role \cup {NoRole}]
    BY <2>1, RoleRowsGone DEF Good
  <2> QED BY <2>2 DEF Live
<1> QED BY <1>1, <1>2, <1>3, <1>4 DEF TablesStep, KeysChange, AssignmentsChange

(* One step between the SELECTs: the answer is that of before or after.    *)
LEMMA OneStepBetween ==
    ASSUME NEW d, NEW n, Good(d), Good(n), NEW last \in Nat, TablesStep(d, n, last),
           \A i \in RowId : i > last => i \notin Live(d) /\ Unreferenced(d, i),
           NEW m \in Method
    PROVE  Answer(FirstSelect(m, d), m, n) \in {AtOneLook(m, d), AtOneLook(m, n)}
<1> DEFINE answer == Answer(FirstSelect(m, d), m, n)
<1>1. \A f : f \in answer <=> \E i \in Rows(m, d) : f \in Entries(m, n, i, d.name[i])
  BY DEF Answer, FirstSelect
<1>2. /\ \A f : f \in AtOneLook(m, d) <=> \E i \in Rows(m, d) : f \in Entries(m, d, i, d.name[i])
      /\ \A f : f \in AtOneLook(m, n) <=> \E i \in Rows(m, n) : f \in Entries(m, n, i, n.name[i])
      /\ Rows(m, d) \subseteq RowId
  BY OneLookIsOfRows
<1>3. \A i, r : m.what = "user_roles" => Entries(m, n, i, r) = Entries(m, n, i, n.name[i])
  BY DEF Entries
<1>4. m.what = "user_roles" => m.sub \in User
  BY DEF Method
<1> HIDE DEF answer
<1>5. ASSUME Rows(m, n) = Rows(m, d), m.what = "user_roles" \/ n.name = d.name
      PROVE  answer = AtOneLook(m, n)
  BY <1>1, <1>2, <1>3, <1>5
<1>6. ASSUME \A i \in Rows(m, d) : Entries(m, n, i, d.name[i]) = Entries(m, d, i, d.name[i])
      PROVE  answer = AtOneLook(m, d)
  BY <1>1, <1>2, <1>6
<1>7. CASE KeysChange(d, n)
  <2>1. Rows(m, n) = Rows(m, d)
    BY <1>7 DEF KeysChange, Rows, Live
  <2> QED BY <1>5, <1>7, <2>1 DEF KeysChange, answer
<1>8. CASE AssignmentsChange(d, n)
  <2>1. \A i, r : Entries(m, n, i, r) = Entries(m, d, i, r)
    BY <1>8 DEF AssignmentsChange, Entries, Method
  <2> QED BY <1>6, <2>1 DEF answer
<1>9. CASE NameChanges(d, n)
  <2>1. CASE m.what = "user_roles"
    <3>1. Rows(m, n) = Rows(m, d)
      BY <1>9, <2>1 DEF NameChanges, Rows
    <3> QED BY <1>5, <2>1, <3>1 DEF answer
  <2>2. CASE m.what # "user_roles"
    <3>1. \A i, r : Entries(m, n, i, r) = Entries(m, d, i, r)
      BY <1>9, <2>2 DEF NameChanges, Entries, Method
    <3> QED BY <1>6, <3>1 DEF answer
  <2> QED BY <2>1, <2>2
<1>10. CASE RowAppears(d, n, last)
  <2>1. PICK k \in RowId : k > last /\ \A i \in RowId \ {k} : n.name[i] = d.name[i]
    BY <1>10 DEF RowAppears
  <2>2. k \notin Live(d) /\ \A u \in User : k \notin d.assigned[u]
    BY <2>1 DEF Unreferenced
  <2>3. k \notin Rows(m, d)
    BY <1>4, <2>2 DEF Rows
  <2>4. ASSUME NEW i \in Rows(m, d)
        PROVE  Entries(m, n, i, d.name[i]) = Entries(m, d, i, d.name[i])
    <3>1. n.name[i] = d.name[i]
      BY <1>2, <2>1, <2>3
    <3> QED BY <1>10, <3>1 DEF RowAppears, Entries, Method
  <2> QED BY <1>6, <2>4 DEF answer
<1>11. CASE RowGoes(d, n)
  <2>1. PICK k \in RowId : n = WithoutRole(d, k)
    BY <1>11 DEF RowGoes
  <2>2. /\ n.name = [d.name EXCEPT ![k] = NoRole] /\ d.name \in [RowId -> Role \cup {NoRole}]
        /\ \A u \in User : n.assigned[u] = d.assigned[u] \ {k}
        /\ n.perm[k] = NoPerms /\ n.ids[k] = NoIds
    BY <2>1, RoleRowsGone DEF Good
  <2>3. Rows(m, n) = Rows(m, d) \ {k}
    <3>1. CASE m.what = "user_roles"
      BY <1>4, <2>2, <3>1 DEF Rows
    <3>2. CASE m.what # "user_roles"
      BY <2>2, <3>2 DEF Rows, Live
    <3> QED BY <3>1, <3>2
  <2>4. \A r : Entries(m, n, k, r) = {}
    <3>1. n.name[k] = NoRole
      BY <2>2
    <3>2. \A o \in Operation : n.perm[k][o] = Unset /\ n.ids[k][o] = {}
      BY <2>2 DEF NoPerms, NoIds
    <3>3. m.what = "ids" => m.operation \in Operation
      BY DEF Method
    <3> QED BY <3>1, <3>2, <3>3 DEF Entries, Method
  <2>5. \A i \in Rows(m, d) \ {k} : n.name[i] = d.name[i]
    BY <1>2, <2>2
  <2>6. answer = AtOneLook(m, n)
    BY <1>1, <1>2, <2>3, <2>4, <2>5
  <2> QED BY <2>6 DEF answer
<1> QED BY <1>7, <1>8, <1>9, <1>10, <1>11 DEF TablesStep, answer

-----------------------------------------------------------------------------
(* The invariant of a reading method between its SELECTs *)

IsRead(rd) ==
    /\ rd = [method |-> rd.method, found |-> rd.found, first |-> rd.first, kept |-> rd.kept,
             changes |-> rd.changes, renamed |-> rd.renamed, deleted |-> rd.deleted]
    /\ rd.method \in Method
    /\ rd.changes \in 0 .. 2 /\ rd.renamed \in BOOLEAN /\ rd.deleted \in BOOLEAN

(* The rows found are of ids given out, and still bear the name they were  *)
(* found under, or are gone, unless one was renamed.                       *)
RowsFound(rd, d, last) ==
    /\ DOMAIN rd.found \subseteq RowId
    /\ \A i \in DOMAIN rd.found : i <= last
    /\ ~rd.renamed => \A i \in DOMAIN rd.found \cap Live(d) : d.name[i] = rd.found[i]
    /\ rd.method.what = "user_roles" =>
          rd.first = {rd.found[i] : i \in DOMAIN rd.found} \ {NoRole}
    /\ rd.method.what # "user_roles" =>
          /\ \A i \in DOMAIN rd.found : rd.found[i] \in rd.method.roles
          /\ ~rd.deleted => DOMAIN rd.found \subseteq Live(d)

(* What was true all along is of a row that was found. *)
KeptFound(rd, d) ==
    \A f \in rd.kept : \E i \in DOMAIN rd.found \cap Live(d) :
        d.name[i] = rd.found[i] /\ f \in Entries(rd.method, d, i, rd.found[i])

(* With one change so far the answer would be that of before or after. *)
ChangesCounted(rd, d) ==
    /\ rd.changes = 0 => /\ rd.found = FirstSelect(rd.method, d)
                         /\ rd.first = AtOneLook(rd.method, d)
    /\ rd.changes = 1 =>
          Answer(rd.found, rd.method, d) \in {rd.first, AtOneLook(rd.method, d)}

ReadGood(rd, d, last) ==
    IsRead(rd) /\ RowsFound(rd, d, last) /\ KeptFound(rd, d) /\ ChangesCounted(rd, d)

ReadInv == read # NoRead => ReadGood(read, db, lastId)

LEMMA BeginInv ==
    ASSUME Inv, NEW m \in Method, Begin(m)
    PROVE  ReadGood(read', db, lastId)
<1> DEFINE look == AtOneLook(m, db)
<1>1. read' = [method |-> m, found |-> FirstSelect(m, db), first |-> look, kept |-> look,
               changes |-> 0, renamed |-> FALSE, deleted |-> FALSE]
  BY DEF Begin
<1>2. Good(db) /\ lastId \in Nat
  BY MaxRowIdType DEF Inv, TypeOK, Good
<1>3. /\ DOMAIN FirstSelect(m, db) = Rows(m, db)
      /\ \A i \in Rows(m, db) : FirstSelect(m, db)[i] = db.name[i]
  BY DEF FirstSelect
<1>4. /\ \A f : f \in look <=>
                   \E i \in Rows(m, db) \cap Live(db) : f \in Entries(m, db, i, db.name[i])
      /\ \A i \in Rows(m, db) \ Live(db) : \A r : Entries(m, db, i, r) = {}
      /\ Rows(m, db) \subseteq RowId
  BY <1>2, OneLookIsOfRows
<1> HIDE DEF look
<1>5. \A i \in Rows(m, db) : i <= lastId
  <2> SUFFICES ASSUME NEW i \in Rows(m, db), ~(i <= lastId)
               PROVE  FALSE
    OBVIOUS
  <2>1. i \in RowId /\ i > lastId
    BY <1>2, <1>4 DEF RowId
  <2>2. i \notin Live(db) /\ \A u \in User : i \notin db.assigned[u]
    BY <2>1 DEF Inv, RowsNumbered, Unreferenced
  <2> QED BY <2>2 DEF Rows, Method
<1>6. m.what = "user_roles" => look = {db.name[i] : i \in Rows(m, db)} \ {NoRole}
  <2> SUFFICES ASSUME m.what = "user_roles"
               PROVE  look = {db.name[i] : i \in Rows(m, db)} \ {NoRole}
    OBVIOUS
  <2>1. \A i, r : Entries(m, db, i, r) = {db.name[i]} \ {NoRole}
    BY DEF Entries
  <2>2. \A f : f \in look <=> \E i \in Rows(m, db) : f \in {db.name[i]} \ {NoRole}
    BY <1>4, <2>1
  <2> QED BY <2>2
<1>7. m.what # "user_roles" =>
         Rows(m, db) \subseteq Live(db) /\ \A i \in Rows(m, db) : db.name[i] \in m.roles
  BY DEF Rows
<1>8. IsRead(read')
  BY <1>1 DEF IsRead
<1>9. RowsFound(read', db, lastId)
  <2>1. {FirstSelect(m, db)[i] : i \in Rows(m, db)} = {db.name[i] : i \in Rows(m, db)}
    BY <1>3
  <2> QED BY <1>1, <1>3, <1>4, <1>5, <1>6, <1>7, <2>1 DEF RowsFound
<1>10. KeptFound(read', db)
  BY <1>1, <1>3, <1>4 DEF KeptFound
<1>11. ChangesCounted(read', db)
  BY <1>1 DEF ChangesCounted, look
<1> QED BY <1>8, <1>9, <1>10, <1>11 DEF ReadGood

(* The rows a method found may be renamed or deleted by others, but no     *)
(* other row takes their place.                                            *)
LEMMA FoundLater ==
    ASSUME NEW d, NEW n, Good(d), Good(n), NEW last \in Nat, NEW next \in Nat, next >= last,
           TablesStep(d, n, last), NEW rd, IsRead(rd), RowsFound(rd, d, last),
           NEW new, IsRead(new), new.method = rd.method, new.found = rd.found,
           new.first = rd.first,
           ~new.renamed =>
              ~rd.renamed /\ \A i \in Live(d) \cap Live(n) : n.name[i] = d.name[i],
           ~new.deleted => ~rd.deleted /\ Live(d) \subseteq Live(n)
    PROVE  RowsFound(new, n, next)
<1> DEFINE dom == DOMAIN rd.found
<1>1. /\ dom \subseteq RowId
      /\ \A i \in dom : i <= last
      /\ ~rd.renamed => \A i \in dom \cap Live(d) : d.name[i] = rd.found[i]
  BY DEF RowsFound
<1>2. \A i \in dom : i \in Nat /\ i <= next
  BY <1>1, MaxRowIdType DEF RowId
<1>3. dom \cap Live(n) \subseteq Live(d)
  <2> SUFFICES ASSUME NEW i \in dom \cap Live(n), i \notin Live(d) PROVE FALSE
    OBVIOUS
  <2>1. i > last
    BY NamesMove
  <2> QED BY <1>1, <1>2, <2>1
<1>4. ASSUME ~new.renamed, NEW i \in dom \cap Live(n)
      PROVE  n.name[i] = rd.found[i]
  BY <1>1, <1>3, <1>4
<1>5. ASSUME rd.method.what # "user_roles"
      PROVE  /\ \A i \in dom : rd.found[i] \in rd.method.roles
             /\ ~new.deleted => dom \subseteq Live(n)
  BY <1>5 DEF RowsFound
<1>6. rd.method.what = "user_roles" => rd.first = {rd.found[i] : i \in dom} \ {NoRole}
  BY DEF RowsFound
<1> QED BY <1>1, <1>2, <1>4, <1>5, <1>6 DEF RowsFound

(* What was true before and after a change was true of the same row.       *)
LEMMA KeptLater ==
    ASSUME NEW d, NEW n, Good(d), Good(n), NEW last \in Nat, TablesStep(d, n, last),
           NEW rd, IsRead(rd), RowsFound(rd, d, last), KeptFound(rd, d),
           NEW new, new.method = rd.method, new.found = rd.found,
           new.kept = rd.kept \cap AtOneLook(rd.method, n)
    PROVE  KeptFound(new, n)
<1> DEFINE m == rd.method
<1> SUFFICES ASSUME NEW f \in rd.kept, f \in AtOneLook(m, n)
             PROVE  \E i \in DOMAIN rd.found \cap Live(n) :
                       n.name[i] = rd.found[i] /\ f \in Entries(m, n, i, rd.found[i])
  BY DEF KeptFound
<1>1. PICK i \in DOMAIN rd.found \cap Live(d) :
         d.name[i] = rd.found[i] /\ f \in Entries(m, d, i, d.name[i])
  BY DEF KeptFound
<1>2. m \in Method
  BY DEF IsRead
<1>3. PICK j \in Rows(m, n) \cap Live(n) : f \in Entries(m, n, j, n.name[j])
  BY <1>2, OneLookIsOfRows
<1>4. i \in RowId /\ j \in RowId /\ d.name[i] # NoRole /\ n.name[j] # NoRole
  BY <1>1, <1>3 DEF Live
<1>5. d.name[i] = n.name[j]
  <2>1. CASE m.what = "user_roles"
    BY <1>1, <1>3, <2>1 DEF Entries
  <2>2. CASE m.what = "grants"
    BY <1>1, <1>3, <2>2 DEF Entries
  <2>3. CASE m.what = "ids"
    BY <1>1, <1>3, <2>3 DEF Entries
  <2> QED BY <1>2, <2>1, <2>2, <2>3 DEF Method
<1>6. i = j
  <2> SUFFICES ASSUME i # j PROVE FALSE
    OBVIOUS
  <2>1. n.name[i] # d.name[i]
    BY <1>3, <1>4, <1>5 DEF Good, UniqueNames, Live
  <2>2. n.name[j] # d.name[j]
    BY <1>1, <1>4, <1>5 DEF Good, UniqueNames, Live
  <2> QED BY <1>4, <2>1, <2>2, NamesMove
<1> QED BY <1>1, <1>3, <1>5, <1>6

LEMMA ChangeInv ==
    ASSUME NEW d, NEW n, Good(d), Good(n), NEW last \in Nat, NEW next \in Nat, next >= last,
           TablesStep(d, n, last),
           \A i \in RowId : i > last => i \notin Live(d) /\ Unreferenced(d, i),
           NEW rd, ReadGood(rd, d, last), NEW renamed \in BOOLEAN, NEW deleted \in BOOLEAN,
           ~renamed => ~rd.renamed /\ \A i \in Live(d) \cap Live(n) : n.name[i] = d.name[i],
           ~deleted => ~rd.deleted /\ Live(d) \subseteq Live(n),
           NEW new, NEW kept, kept = rd.kept \cap AtOneLook(rd.method, n),
           NEW changes, changes = IF rd.changes = 0 THEN 1 ELSE 2,
           new = [method |-> rd.method, found |-> rd.found, first |-> rd.first, kept |-> kept,
                  changes |-> changes, renamed |-> renamed, deleted |-> deleted]
    PROVE  ReadGood(new, n, next)
<1>1. IsRead(rd) /\ RowsFound(rd, d, last) /\ KeptFound(rd, d) /\ ChangesCounted(rd, d)
  BY DEF ReadGood
<1>2. /\ new.method = rd.method /\ new.found = rd.found /\ new.first = rd.first
      /\ new.kept = kept
      /\ new.changes = changes /\ new.renamed = renamed /\ new.deleted = deleted
  OBVIOUS
<1>3. IsRead(new)
  <2>1. rd.method \in Method /\ changes \in 0 .. 2
    BY <1>1 DEF IsRead
  <2> QED BY <1>2, <2>1 DEF IsRead
<1>4. RowsFound(new, n, next)
  BY <1>1, <1>2, <1>3, FoundLater
<1>5. KeptFound(new, n)
  BY <1>1, <1>2, KeptLater
<1>6. ChangesCounted(new, n)
  <2>1. new.changes # 0 /\ (new.changes = 1 => rd.changes = 0)
    BY <1>2
  <2>2. ASSUME rd.changes = 0
        PROVE  Answer(rd.found, rd.method, n) \in {rd.first, AtOneLook(rd.method, n)}
    <3>1. /\ rd.found = FirstSelect(rd.method, d) /\ rd.first = AtOneLook(rd.method, d)
          /\ rd.method \in Method
      BY <1>1, <2>2 DEF ChangesCounted, IsRead
    <3> QED BY <3>1, OneStepBetween
  <2> QED BY <1>2, <2>1, <2>2 DEF ChangesCounted
<1> QED BY <1>3, <1>4, <1>5, <1>6 DEF ReadGood

LEMMA OtherInv ==
    ASSUME Inv, Inv', Other, ReadInv, read # NoRead
    PROVE  ReadGood(read', db', lastId')
<1>1. /\ Good(db) /\ Good(db') /\ lastId \in Nat /\ lastId' \in Nat /\ lastId' >= lastId
      /\ TablesStep(db, db', lastId)
      /\ \A i \in RowId : i > lastId => i \notin Live(db) /\ Unreferenced(db, i)
  <2>1. Good(db) /\ Good(db')
    BY DEF Inv, TypeOK, Good, UniqueNames, Live
  <2> QED BY <2>1, EveryStep DEF Other, Inv, RowsNumbered
<1>2. ReadGood(read, db, lastId)
  BY DEF ReadInv
<1>3. CASE db' = db
  <2>1. read' = read
    BY <1>3 DEF Other
  <2>2. \A i \in DOMAIN read.found : i <= lastId'
    <3>1. \A i \in DOMAIN read.found : i \in Nat /\ i <= lastId
      BY <1>2, MaxRowIdType DEF ReadGood, RowsFound, RowId
    <3> QED BY <1>1, <3>1
  <2>3. RowsFound(read, db, lastId')
    BY <1>2, <2>2 DEF ReadGood, RowsFound
  <2> QED BY <1>2, <1>3, <2>1, <2>3 DEF ReadGood
<1>4. CASE db' # db
  <2> DEFINE renamed == read.renamed \/ \E i \in Live(db) \cap Live(db') : db'.name[i] # db.name[i]
             deleted == read.deleted \/ ~(Live(db) \subseteq Live(db'))
  <2>1. read' = Noted
    BY <1>4 DEF Other
  <2>2. read' = [method |-> read.method, found |-> read.found, first |-> read.first,
                 kept |-> read.kept \cap AtOneLook(read.method, db'),
                 changes |-> IF read.changes = 0 THEN 1 ELSE 2,
                 renamed |-> renamed, deleted |-> deleted]
    BY <1>2, <2>1 DEF Noted, ReadGood, IsRead
  <2>3. renamed \in BOOLEAN /\ deleted \in BOOLEAN
    OBVIOUS
  <2>4. PICK d, n, rd, new : d = db /\ n = db' /\ rd = read /\ new = read'
    OBVIOUS
  <2>5. PICK re \in BOOLEAN, de \in BOOLEAN : re = renamed /\ de = deleted
    BY <2>3
  <2>6. PICK last \in Nat, next \in Nat : last = lastId /\ next = lastId'
    BY <1>1
  <2>7. PICK kept, changes : /\ kept = rd.kept \cap AtOneLook(rd.method, n)
                             /\ changes = IF rd.changes = 0 THEN 1 ELSE 2
    OBVIOUS
  <2>8. new = [method |-> rd.method, found |-> rd.found, first |-> rd.first, kept |-> kept,
               changes |-> changes, renamed |-> re, deleted |-> de]
    BY <2>2, <2>4, <2>5, <2>7
  <2>9. /\ ~re => ~rd.renamed /\ \A i \in Live(d) \cap Live(n) : n.name[i] = d.name[i]
        /\ ~de => ~rd.deleted /\ Live(d) \subseteq Live(n)
    BY <2>4, <2>5
  <2>10. /\ Good(d) /\ Good(n) /\ next >= last /\ TablesStep(d, n, last)
         /\ \A i \in RowId : i > last => i \notin Live(d) /\ Unreferenced(d, i)
         /\ ReadGood(rd, d, last)
    BY <1>1, <1>2, <2>4, <2>6
  <2>11. ReadGood(new, n, next)
    BY <2>7, <2>8, <2>9, <2>10, ChangeInv
  <2> QED BY <2>4, <2>6, <2>11
<1> QED BY <1>3, <1>4

(* The readers change nothing: the other handlers are those of GormTenant. *)
LEMMA ReadersOnlyRead == ReadSpec => Spec
<1>1. [ReadNext]_readVars => [Next]_vars
  BY DEF ReadNext, readVars, vars, Begin, End, Other
<1> QED BY <1>1, PTL DEF ReadSpec, ReadInit, Spec

LEMMA ReadsGood == ReadSpec => [](Inv /\ ReadInv)
<1>1. ReadSpec => []Inv
  BY ReadersOnlyRead, RowsInv, PTL
<1>2. read = NoRead => ReadInv
  BY DEF ReadInv
<1>3. Inv /\ Inv' /\ ReadInv /\ [ReadNext]_readVars => ReadInv'
  <2> SUFFICES ASSUME Inv, Inv', ReadInv, [ReadNext]_readVars, read' # NoRead
               PROVE  ReadGood(read', db', lastId')
    BY DEF ReadInv
  <2>1. CASE UNCHANGED readVars
    BY <2>1 DEF readVars, ReadInv
  <2>2. ASSUME NEW m \in Method, Begin(m)
        PROVE  ReadGood(read', db', lastId')
    <3>1. ReadGood(read', db, lastId) /\ db' = db /\ lastId' = lastId
      BY <2>2, BeginInv DEF Begin, vars
    <3> QED BY <3>1
  <2>3. ~End
    BY DEF End
  <2>4. CASE Other
    <3>1. read # NoRead
      BY <2>4 DEF Other
    <3> QED BY <2>4, <3>1, OtherInv
  <2> QED BY <2>1, <2>2, <2>3, <2>4 DEF ReadNext
<1> QED BY <1>1, <1>2, <1>3, PTL DEF ReadSpec, ReadInit

(* UserRoles, RoleGrants and RoleRestrictedIDs, with at most one change of *)
(* the tables between their two SELECTs, answer what the store held before *)
(* it or what it held after it (gorm.go:353-374, 502-527, 561-588).        *)
THEOREM OneChangeAnsweredWhole == ReadSpec => []OneChangeIsBeforeOrAfter
<1>1. Inv /\ ReadInv => OneChangeIsBeforeOrAfter
  <2> SUFFICES ASSUME Inv, ReadGood(read, db, lastId), read.changes < 2
               PROVE  Answered \in {read.first, Now}
    BY DEF ReadInv, OneChangeIsBeforeOrAfter
  <2>1. Good(db)
    BY DEF Inv, TypeOK, Good
  <2>2. IsRead(read) /\ ChangesCounted(read, db) /\ read.method \in Method
    BY DEF ReadGood, IsRead
  <2>3. read.changes = 0 \/ read.changes = 1
    BY <2>2 DEF IsRead
  <2>4. CASE read.changes = 0
    BY <2>1, <2>2, <2>4, SelectsAtOnce DEF ChangesCounted, Answered, Now
  <2> QED BY <2>2, <2>3, <2>4 DEF ChangesCounted, Answered, Now
<1> QED BY <1>1, ReadsGood, PTL

(* However much the tables change between the SELECTs, what was true from  *)
(* the first to the second is in the answer (gorm.go:353-588).             *)
THEOREM WhatStaysIsAnswered == ReadSpec => []KeptIsAnswered
<1>1. ReadInv => KeptIsAnswered
  <2> SUFFICES ASSUME ReadGood(read, db, lastId), NEW f \in read.kept
               PROVE  f \in Answered
    BY DEF ReadInv, KeptIsAnswered
  <2>1. PICK i \in DOMAIN read.found : f \in Entries(read.method, db, i, read.found[i])
    BY DEF ReadGood, KeptFound
  <2> QED BY <2>1 DEF Answered, Answer
<1> QED BY <1>1, ReadsGood, PTL

(* Without a rename in between no answer holds a role the user did not     *)
(* have, and without a deletion either none a grant or an id the roles do  *)
(* not have at the end (gorm.go:353-374, 502-527, 561-588).                *)
THEOREM AnswersAreOfTheStore == ReadSpec => []NothingIsMadeUp
<1>1. Inv /\ ReadInv => NothingIsMadeUp
  <2> SUFFICES ASSUME Inv, ReadGood(read, db, lastId), ~read.renamed, NEW f \in Answered
               PROVE  /\ read.method.what = "user_roles" => f \in read.first
                      /\ read.method.what # "user_roles" /\ ~read.deleted => f \in Now
    BY DEF ReadInv, NothingIsMadeUp
  <2> DEFINE m == read.method
  <2>1. PICK i \in DOMAIN read.found : f \in Entries(m, db, i, read.found[i])
    BY DEF Answered, Answer
  <2>2. /\ i \in RowId /\ m \in Method
        /\ i \in Live(db) => db.name[i] = read.found[i]
    BY <2>1 DEF ReadGood, RowsFound, IsRead
  <2>3. Good(db)
    BY DEF Inv, TypeOK, Good
  <2>4. ASSUME m.what = "user_roles" PROVE f \in read.first
    <3>1. f = db.name[i] /\ f # NoRole
      BY <2>1, <2>4 DEF Entries
    <3>2. f = read.found[i]
      BY <2>2, <3>1 DEF Live
    <3> QED BY <2>1, <2>4, <3>1, <3>2 DEF ReadGood, RowsFound
  <2>5. ASSUME m.what # "user_roles", ~read.deleted PROVE f \in Now
    <3>1. i \in Live(db) /\ read.found[i] \in m.roles
      BY <2>1, <2>5 DEF ReadGood, RowsFound
    <3>2. db.name[i] = read.found[i] /\ i \in Rows(m, db)
      BY <2>2, <2>5, <3>1 DEF Rows
    <3> QED BY <2>1, <2>2, <2>3, <3>1, <3>2, OneLookIsOfRows DEF Now
  <2> QED BY <2>4, <2>5
<1> QED BY <1>1, ReadsGood, PTL

=============================================================================
