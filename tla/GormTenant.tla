----------------------------- MODULE GormTenant -----------------------------
(***************************************************************************)
(* The tenant store in a SQL database (gormTenant, gorm.go:252-588).  A    *)
(* method on a role first looks its row up by name and then acts on the    *)
(* row's id, in a statement or transaction of its own; between the two any *)
(* other method may run, so the row may be renamed or deleted meanwhile.   *)
(* No foreign key ties the other tables to the roles.                      *)
(*                                                                         *)
(* Statements and transactions are indivisible, as on the one connection   *)
(* openGorm gives SQLite (gorm.go:114-120).  Names are unique by an index. *)
(***************************************************************************)
EXTENDS Sfbac

CONSTANTS
    Client,     \* handlers at work at the same time
    MaxRowId,   \* bound: role rows ever inserted
    SomeScope,  \* bound: the scopes that are set
    NoRole      \* the name of a row that is not there

RowId == 1 .. MaxRowId
Key == RowId \cup User      \* what the rows about permissions and ids refer to

ASSUME MaxRowIdType == MaxRowId \in Nat
ASSUME SomeScopeIsScope == SomeScope \subseteq Scope
ASSUME NoRoleIsNoRole == NoRole \notin Role
ASSUME KeysApart == RowId \cap User = {}

VARIABLES
    db,         \* the tables
    lastId,     \* the last id the database gave to a role row
    call,       \* each handler's method, once it has found the role's row
    raced       \* history: rows deleted while another method had found them

vars == <<db, lastId, call, raced>>

Tables ==
    [name     : [RowId -> Role \cup {NoRole}],                \* roles
     assigned : [User -> SUBSET RowId],                       \* user_roles
     perm     : [Key -> [Operation -> Grant]],                \* *_permissions
     ids      : [Key -> [Operation -> SUBSET RecordId]]]      \* *_restricted_ids

Live(d) == {i \in RowId : d.name[i] # NoRole}
Named(d, r) == {i \in RowId : d.name[i] = r}

(* What a method does to the row it has found; "exists" is the check of    *)
(* the new name that precedes "rename".                                    *)
Statement ==
    [do : {"exists", "rename"}, to : Role]
      \cup [do : {"delete"}]
      \cup [do : {"assign", "unassign"}, sub : User]
      \cup [do : {"set"}, operation : Operation, scope : SomeScope]
      \cup [do : {"remove"}, operation : Operation]
      \cup [do : {"add_ids", "remove_ids"},
            operation : Operation, some : SUBSET RecordId]

Idle == [row |-> 0]
Busy == [row : RowId, next : Statement]

(* The migrated, empty tables. *)
EmptyTables ==
    [name     |-> [i \in RowId |-> NoRole],
     assigned |-> [u \in User |-> {}],
     perm     |-> [k \in Key |-> NoPerms],
     ids      |-> [k \in Key |-> NoIds]]

Init ==
    /\ db = EmptyTables
    /\ lastId = 0
    /\ call = [c \in Client |-> Idle]
    /\ raced = {}

-----------------------------------------------------------------------------
(* Methods of one statement or transaction *)

(* A slip of the next definition: the ids of deleted rows are used again. *)
ReusedRowId(i) ==
    /\ i \in RowId /\ i \notin Live(db)
    /\ lastId' = IF i > lastId THEN i ELSE lastId

(* The database numbers the rows and does not give an id out twice. *)
NewRowId(i) == i \in RowId /\ i = lastId + 1 /\ lastId' = i

(* CreateRole and EnsureRole: the insert that finds no row of this name;   *)
(* otherwise they change nothing.                                          *)
InsertRole(r) ==
    /\ Named(db, r) = {}
    /\ \E i \in RowId : NewRowId(i) /\ db' = [db EXCEPT !.name[i] = r]
    /\ UNCHANGED <<call, raced>>

(* The upsert of a permission. *)
WithPermission(d, k, o, scope) == [d EXCEPT !.perm[k][o] = scope]

(* One transaction, rolled back when there is no permission to remove. *)
WithoutPermission(d, k, o) ==
    IF d.perm[k][o] = Unset
    THEN d ELSE [d EXCEPT !.perm[k][o] = Unset, !.ids[k][o] = {}]

WithIDs(d, k, o, new) == [d EXCEPT !.ids[k][o] = @ \cup new]
WithoutIDs(d, k, o, old) == [d EXCEPT !.ids[k][o] = @ \ old]

(* The methods on a user's permissions and ids look nothing up. *)
AtOnce(d) == db' = d /\ UNCHANGED <<lastId, call, raced>>

SetUserPermission(u, o, scope) == AtOnce(WithPermission(db, u, o, scope))
RemoveUserPermission(u, o) == AtOnce(WithoutPermission(db, u, o))
AddUserRestrictedIDs(u, o, new) == AtOnce(WithIDs(db, u, o, new))
RemoveUserRestrictedIDs(u, o, old) == AtOnce(WithoutIDs(db, u, o, old))

UserCall ==
    \E u \in User, o \in Operation :
        \/ \E scope \in SomeScope : SetUserPermission(u, o, scope)
        \/ RemoveUserPermission(u, o)
        \/ \E some \in SUBSET RecordId :
              AddUserRestrictedIDs(u, o, some) \/ RemoveUserRestrictedIDs(u, o, some)

-----------------------------------------------------------------------------
(* Methods on a role: roleByName, then the rest *)

(* When there is no such row the method answers not found, and changes     *)
(* nothing.  Without ids to remove RemoveRoleRestrictedIDs does not look.  *)
RoleByName(c, r, statement) ==
    /\ call[c] = Idle
    /\ statement.do # "rename"
    /\ statement.do = "remove_ids" => statement.some # {}
    /\ \E i \in Named(db, r) :
          call' = [call EXCEPT ![c] = [row |-> i, next |-> statement]]
    /\ UNCHANGED <<db, lastId, raced>>

Does(c, what) == call[c] # Idle /\ call[c].next.do = what

(* The method ends with the tables d. *)
Return(c, d) ==
    /\ db' = d
    /\ call' = [call EXCEPT ![c] = Idle]
    /\ UNCHANGED lastId

NewNameExists(c) ==
    /\ Does(c, "exists")
    /\ Named(db, call[c].next.to) # {}
    /\ Return(c, db)
    /\ UNCHANGED raced

NewNameIsFree(c) ==
    /\ Does(c, "exists")
    /\ Named(db, call[c].next.to) = {}
    /\ call' = [call EXCEPT ![c].next.do = "rename"]
    /\ UNCHANGED <<db, lastId, raced>>

(* A slip of the next definition: no unique index on the name. *)
WithNameAnyway(d, i, r) ==
    IF i \in Live(d) THEN [d EXCEPT !.name[i] = r] ELSE d

(* The update finds no row when it was deleted, and breaks the unique      *)
(* index when another row took the name since it was free.                 *)
WithName(d, i, r) ==
    IF i \in Live(d) /\ Named(d, r) = {} THEN [d EXCEPT !.name[i] = r] ELSE d

UpdateName(c) ==
    /\ Does(c, "rename")
    /\ Return(c, WithName(db, call[c].row, call[c].next.to))
    /\ UNCHANGED raced

(* A slip of the next definition: the rows of user_roles stay. *)
WithoutRoleOnly(d, i) ==
    [d EXCEPT !.name[i] = NoRole, !.perm[i] = NoPerms, !.ids[i] = NoIds]

(* The rows that refer to the role, then its own. *)
WithoutRole(d, i) ==
    [d EXCEPT !.name[i] = NoRole,
              !.assigned = [u \in User |-> d.assigned[u] \ {i}],
              !.perm[i] = NoPerms,
              !.ids[i] = NoIds]

DeleteRole(c) ==
    /\ Does(c, "delete")
    /\ Return(c, WithoutRole(db, call[c].row))
    /\ raced' = IF \E d \in Client \ {c} : call[d].row = call[c].row
                THEN raced \cup {call[c].row} ELSE raced

WithAssignment(d, u, i) == [d EXCEPT !.assigned[u] = @ \cup {i}]
WithoutAssignment(d, u, i) == [d EXCEPT !.assigned[u] = @ \ {i}]

AssignRole(c) ==
    /\ Does(c, "assign")
    /\ Return(c, WithAssignment(db, call[c].next.sub, call[c].row))
    /\ UNCHANGED raced

UnassignRole(c) ==
    /\ Does(c, "unassign")
    /\ Return(c, WithoutAssignment(db, call[c].next.sub, call[c].row))
    /\ UNCHANGED raced

SetRolePermission(c) ==
    /\ Does(c, "set")
    /\ Return(c, WithPermission(db, call[c].row, call[c].next.operation, call[c].next.scope))
    /\ UNCHANGED raced

RemoveRolePermission(c) ==
    /\ Does(c, "remove")
    /\ Return(c, WithoutPermission(db, call[c].row, call[c].next.operation))
    /\ UNCHANGED raced

AddRoleRestrictedIDs(c) ==
    /\ Does(c, "add_ids")
    /\ Return(c, WithIDs(db, call[c].row, call[c].next.operation, call[c].next.some))
    /\ UNCHANGED raced

RemoveRoleRestrictedIDs(c) ==
    /\ Does(c, "remove_ids")
    /\ Return(c, WithoutIDs(db, call[c].row, call[c].next.operation, call[c].next.some))
    /\ UNCHANGED raced

Act(c) ==
    \/ NewNameExists(c)
    \/ NewNameIsFree(c)
    \/ UpdateName(c)
    \/ DeleteRole(c)
    \/ AssignRole(c)
    \/ UnassignRole(c)
    \/ SetRolePermission(c)
    \/ RemoveRolePermission(c)
    \/ AddRoleRestrictedIDs(c)
    \/ RemoveRoleRestrictedIDs(c)

Next ==
    \/ \E r \in Role : InsertRole(r)
    \/ UserCall
    \/ \E c \in Client, r \in Role, s \in Statement : RoleByName(c, r, s)
    \/ \E c \in Client : Act(c)

Spec == Init /\ [][Next]_vars

-----------------------------------------------------------------------------
(* The tenant as one look at all tables shows it: everything is reached    *)
(* through the roles' rows.                                                *)

RoleNames(d) == {d.name[i] : i \in Live(d)}
UserRoles(d, u) == {d.name[i] : i \in d.assigned[u] \cap Live(d)}

KeyOf(d, s) == IF s \in User THEN s ELSE CHOOSE i \in RowId : d.name[i] = s

Permissions(d, s) ==
    IF s \in User \/ Named(d, s) # {} THEN d.perm[KeyOf(d, s)] ELSE NoPerms

RestrictedIDs(d, s) ==
    IF s \in User \/ Named(d, s) # {} THEN d.ids[KeyOf(d, s)] ELSE NoIds

View(d) ==
    [roles    |-> RoleNames(d),
     assigned |-> [u \in User |-> UserRoles(d, u)],
     perm     |-> [s \in Subject |-> Permissions(d, s)],
     ids      |-> [s \in Subject |-> RestrictedIDs(d, s)]]

Visible == INSTANCE TenantStore WITH tenant <- View(db)

-----------------------------------------------------------------------------
TypeOK ==
    /\ db \in Tables
    /\ lastId \in 0 .. MaxRowId
    /\ call \in [Client -> {Idle} \cup Busy]
    /\ raced \subseteq RowId

UniqueNames(d) == \A i, j \in Live(d) : d.name[i] = d.name[j] => i = j

Unreferenced(d, i) ==
    /\ d.perm[i] = NoPerms /\ d.ids[i] = NoIds
    /\ \A u \in User : i \notin d.assigned[u]

(* Nothing is known of a row that was not inserted yet. *)
RowsNumbered ==
    /\ \A i \in RowId : i > lastId => i \notin Live(db) /\ Unreferenced(db, i)
    /\ \A c \in Client : call[c].row <= lastId

(* "Cascades everything" (store.go:75), as far as that goes without        *)
(* foreign keys: rows that refer to a role that is gone were written by a  *)
(* method that had found the role before it was deleted, and by no other   *)
(* (gorm.go:302-336).                                                      *)
OrphansOnlyByRace ==
    \A i \in RowId \ (Live(db) \cup raced) :
        /\ Unreferenced(db, i)
        /\ \A c \in Client : call[c].row # i

(* Types, unique names, fresh ids and the cascade (gorm.go:252-551). *)
Inv == TypeOK /\ UniqueNames(db) /\ RowsNumbered /\ OrphansOnlyByRace

(* However the statements of concurrent methods interleave, the tables, as *)
(* a single look at them would show the tenant, change by the steps of a   *)
(* tenant store only: a write that comes late acts on the role under its   *)
(* new name or, when it was deleted, on rows that belong to no role        *)
(* (gorm.go:283-551).  What the reading methods see, who look twice, is    *)
(* GormReads' subject.  (This is Visible!Spec, asked only of steps that    *)
(* change the tables.)                                                     *)
ImplementsTenantStore ==
    Visible!Init /\ [][db' # db => [Visible!Next]_(View(db))]_vars

=============================================================================
