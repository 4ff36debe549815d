------------------------- MODULE AdminServiceProofs -------------------------
(***************************************************************************)
(* What the functions of admin.go promise while any number of handlers     *)
(* interleave their statements: users are provisioned before the tenant    *)
(* refers to them, and no grant names an operation that was never          *)
(* registered.                                                             *)
(***************************************************************************)
EXTENDS AdminService, TLAPS

(* The two promises as a predicate on the tenant's data, given the users   *)
(* provisioned and the operations ever registered.                         *)
Fits(t, users, ops) ==
    /\ t \in TenantData
    /\ \A u \in User \ users : t.assigned[u] = {} /\ t.perm[u] = NoPerms /\ t.ids[u] = NoIds
    /\ \A s \in Subject, o \in Operation :
          t.perm[s][o] # Unset \/ t.ids[s][o] # {} => o \in ops

(* What a handler in state k has already seen to. *)
Prepared(k, users, ops) ==
    /\ k # Idle /\ k.fn = "AssignRole" /\ k.at = "assign" => k.sub \in users
    /\ k # Idle /\ k.fn = "SetPermission" /\ k.at = "set" =>
          (k.subject \in User => k.subject \in users)
    /\ k \in UpdateRestrictedIDsCall => (k.subject \in User => k.subject \in users)
    /\ k \in SetPermissionCall \cup UpdateRestrictedIDsCall => k.operation \in ops

LEMMA InvByParts ==
    /\ Inv <=> /\ TypeOK /\ shared.operations \subseteq everRegistered
               /\ Fits(tenant, shared.users, everRegistered)
               /\ \A c \in Client : Prepared(call[c], shared.users, everRegistered)
    /\ Inv' <=> /\ TypeOK' /\ shared'.operations \subseteq everRegistered'
                /\ Fits(tenant', shared'.users, everRegistered')
                /\ \A c \in Client : Prepared(call'[c], shared'.users, everRegistered')
<1>1. Inv <=> /\ TypeOK /\ shared.operations \subseteq everRegistered
              /\ Fits(tenant, shared.users, everRegistered)
              /\ \A c \in Client : Prepared(call[c], shared.users, everRegistered)
  <2>1. CallsPrepared <=> \A c \in Client : Prepared(call[c], shared.users, everRegistered)
    BY DEF CallsPrepared, Prepared, At
  <2>2. TypeOK => (UsersProvisioned /\ GrantsOnceRegistered
                     <=> Fits(tenant, shared.users, everRegistered))
    BY DEF TypeOK, UsersProvisioned, GrantsOnceRegistered, Fits
  <2> QED BY <2>1, <2>2 DEF Inv
<1>2. Inv' <=> /\ TypeOK' /\ shared'.operations \subseteq everRegistered'
               /\ Fits(tenant', shared'.users, everRegistered')
               /\ \A c \in Client : Prepared(call'[c], shared'.users, everRegistered')
  <2>1. CallsPrepared' <=> \A c \in Client : Prepared(call'[c], shared'.users, everRegistered')
    BY DEF CallsPrepared, Prepared, At
  <2>2. TypeOK' => (UsersProvisioned' /\ GrantsOnceRegistered'
                      <=> Fits(tenant', shared'.users, everRegistered'))
    BY DEF TypeOK, UsersProvisioned, GrantsOnceRegistered, Fits
  <2> QED BY <2>1, <2>2 DEF Inv
<1> QED BY <1>1, <1>2

-----------------------------------------------------------------------------
(* The changes of the tenant's data. *)

LEMMA NothingSet ==
    /\ NoPerms \in [Operation -> Grant] /\ NoIds \in [Operation -> SUBSET RecordId]
    /\ \A o \in Operation : NoPerms[o] = Unset /\ NoIds[o] = {}
  BY DEF NoPerms, NoIds, Grant

(* The instance's names stand for the values Sfbac gives them here. *)
LEMMA SameValues ==
    /\ Tenant!NoPerms = NoPerms /\ Tenant!NoIds = NoIds
    /\ Tenant!EmptyTenant = EmptyTenant /\ Tenant!Unset = Unset
    /\ Tenant!Subject = Subject
  BY DEF Tenant!NoPerms, NoPerms, Tenant!NoIds, NoIds, Tenant!EmptyTenant, EmptyTenant,
         Tenant!Unset, Unset, Tenant!Subject, Subject

LEMMA EmptyFits ==
    ASSUME NEW users, NEW ops
    PROVE  Fits(EmptyTenant, users, ops)
<1>1. EmptyTenant \in TenantData
  BY NothingSet DEF EmptyTenant, TenantData
<1> QED BY <1>1, NothingSet DEF Fits, EmptyTenant, Subject

(* Provisioning and registering more is no harm. *)
LEMMA FitsMore ==
    ASSUME NEW t, NEW users, NEW ops, NEW users2, NEW ops2,
           Fits(t, users, ops), users \subseteq users2, ops \subseteq ops2
    PROVE  Fits(t, users2, ops2)
  BY DEF Fits

LEMMA PreparedMore ==
    ASSUME NEW k, NEW users, NEW ops, NEW users2, NEW ops2,
           Prepared(k, users, ops), users \subseteq users2, ops \subseteq ops2
    PROVE  Prepared(k, users2, ops2)
  BY DEF Prepared

(* Creating, renaming and deleting a role (admin.go:88-140). *)
LEMMA AddRoleFits ==
    ASSUME NEW users, NEW ops, NEW t, Fits(t, users, ops), NEW r \in Role
    PROVE  Fits(Tenant!AddRole(t, r), users, ops)
<1> DEFINE n == Tenant!AddRole(t, r)
<1>1. n \in TenantData
  BY NothingSet, SameValues DEF Fits, Tenant!AddRole, TenantData
<1>2. /\ n.assigned = t.assigned
      /\ \A s \in Subject \ {r} : n.perm[s] = t.perm[s] /\ n.ids[s] = t.ids[s]
      /\ n.perm[r] = NoPerms /\ n.ids[r] = NoIds
  BY SameValues DEF Fits, Tenant!AddRole, TenantData, Subject
<1> HIDE DEF n
<1>3. \A u \in User \ users : n.assigned[u] = {} /\ n.perm[u] = NoPerms /\ n.ids[u] = NoIds
  BY <1>2, SubjectsApart DEF Fits, Subject
<1>4. \A s \in Subject, o \in Operation :
         n.perm[s][o] # Unset \/ n.ids[s][o] # {} => o \in ops
  BY <1>2, NothingSet DEF Fits
<1> QED BY <1>1, <1>3, <1>4 DEF Fits, n

LEMMA MoveRoleFits ==
    ASSUME NEW users, NEW ops, NEW t, Fits(t, users, ops), NEW a \in Role, NEW b \in Role
    PROVE  Fits(Tenant!MoveRole(t, a, b), users, ops)
<1> DEFINE n == Tenant!MoveRole(t, a, b)
<1>1. t \in TenantData /\ a \in Subject /\ b \in Subject
  BY DEF Fits, Subject
<1>2. /\ n.roles = (t.roles \ {a}) \cup {b}
      /\ n.assigned = [u \in User |-> IF a \in t.assigned[u]
                                      THEN (t.assigned[u] \ {a}) \cup {b}
                                      ELSE t.assigned[u]]
      /\ n.perm = [t.perm EXCEPT ![a] = NoPerms, ![b] = t.perm[a]]
      /\ n.ids = [t.ids EXCEPT ![a] = NoIds, ![b] = t.ids[a]]
  <2>1. n.roles = (t.roles \ {a}) \cup {b}
    BY <1>1 DEF Tenant!MoveRole, TenantData
  <2>2. n.assigned = [u \in User |-> IF a \in t.assigned[u]
                                     THEN (t.assigned[u] \ {a}) \cup {b}
                                     ELSE t.assigned[u]]
    BY <1>1 DEF Tenant!MoveRole, TenantData
  <2>3. /\ n.perm = [t.perm EXCEPT ![a] = NoPerms, ![b] = t.perm[a]]
        /\ n.ids = [t.ids EXCEPT ![a] = NoIds, ![b] = t.ids[a]]
    BY <1>1, SameValues DEF Tenant!MoveRole, TenantData
  <2> QED BY <2>1, <2>2, <2>3
<1>3. n.roles \subseteq Role /\ n.assigned \in [User -> SUBSET Role]
  BY <1>1, <1>2 DEF TenantData
<1>4. /\ t.perm \in [Subject -> [Operation -> Grant]]
      /\ t.ids \in [Subject -> [Operation -> SUBSET RecordId]]
  BY <1>1 DEF TenantData
<1>5. n.perm \in [Subject -> [Operation -> Grant]]
  BY <1>1, <1>2, <1>4, NothingSet
<1>6. n.ids \in [Subject -> [Operation -> SUBSET RecordId]]
  BY <1>1, <1>2, <1>4, NothingSet
<1>7. n \in TenantData
  BY <1>1, <1>2, <1>3, <1>5, <1>6 DEF TenantData, Tenant!MoveRole, n
<1> HIDE DEF n
<1>8. \A u \in User \ users : n.assigned[u] = {} /\ n.perm[u] = NoPerms /\ n.ids[u] = NoIds
  <2> TAKE u \in User \ users
  <2>1. t.assigned[u] = {} /\ t.perm[u] = NoPerms /\ t.ids[u] = NoIds
    BY DEF Fits
  <2>2. u \in Subject /\ u # a /\ u # b
    BY SubjectsApart DEF Subject
  <2>3. n.assigned[u] = {}
    BY <1>2, <2>1
  <2>4. n.perm[u] = t.perm[u]
    BY <1>2, <1>4, <2>2
  <2>5. n.ids[u] = t.ids[u]
    BY <1>2, <1>4, <2>2
  <2> QED BY <2>1, <2>3, <2>4, <2>5
<1>9. \A s \in Subject, o \in Operation :
         n.perm[s][o] # Unset \/ n.ids[s][o] # {} => o \in ops
  <2> TAKE s \in Subject, o \in Operation
  <2>1. \A x \in Subject : t.perm[x][o] # Unset \/ t.ids[x][o] # {} => o \in ops
    BY DEF Fits
  <2>2. \/ n.perm[s] = NoPerms /\ n.ids[s] = NoIds
        \/ n.perm[s] = t.perm[a] /\ n.ids[s] = t.ids[a]
        \/ n.perm[s] = t.perm[s] /\ n.ids[s] = t.ids[s]
    BY <1>1, <1>2, <1>4
  <2> QED BY <1>1, <2>1, <2>2, NothingSet
<1> QED BY <1>7, <1>8, <1>9 DEF Fits, n

LEMMA DropRoleFits ==
    ASSUME NEW users, NEW ops, NEW t, Fits(t, users, ops), NEW r \in Role
    PROVE  Fits(Tenant!DropRole(t, r), users, ops)
<1> DEFINE n == Tenant!DropRole(t, r)
<1>1. n \in TenantData
  BY NothingSet, SameValues DEF Fits, Tenant!DropRole, TenantData
<1>2. /\ \A u \in User : n.assigned[u] = t.assigned[u] \ {r}
      /\ \A s \in Subject \ {r} : n.perm[s] = t.perm[s] /\ n.ids[s] = t.ids[s]
      /\ n.perm[r] = NoPerms /\ n.ids[r] = NoIds
  BY SameValues DEF Fits, Tenant!DropRole, TenantData, Subject
<1> HIDE DEF n
<1>3. \A u \in User \ users : n.assigned[u] = {} /\ n.perm[u] = NoPerms /\ n.ids[u] = NoIds
  BY <1>2, SubjectsApart DEF Fits, Subject
<1>4. \A s \in Subject, o \in Operation :
         n.perm[s][o] # Unset \/ n.ids[s][o] # {} => o \in ops
  BY <1>2, NothingSet DEF Fits
<1> QED BY <1>1, <1>3, <1>4 DEF Fits, n

(* Changing the assignments of one user. *)
LEMMA AssignmentFits ==
    ASSUME NEW users, NEW ops, NEW t, Fits(t, users, ops), NEW u \in User,
           NEW held \in SUBSET Role, held # {} => u \in users
    PROVE  Fits([t EXCEPT !.assigned[u] = held], users, ops)
  BY DEF Fits, TenantData

(* Changing the entry of one subject for one operation. *)
LEMMA EntryFits ==
    ASSUME NEW users, NEW ops, NEW t, Fits(t, users, ops),
           NEW s \in Subject, NEW o \in Operation,
           NEW g \in Grant, NEW i \in SUBSET RecordId,
           g # Unset \/ i # {} => o \in ops,
           s \in User => s \in users
    PROVE  Fits([t EXCEPT !.perm[s][o] = g, !.ids[s][o] = i], users, ops)
<1> DEFINE n == [t EXCEPT !.perm[s][o] = g, !.ids[s][o] = i]
<1>1. n \in TenantData
  BY DEF Fits, TenantData
<1>2. /\ n.assigned = t.assigned
      /\ \A x \in Subject \ {s} : n.perm[x] = t.perm[x] /\ n.ids[x] = t.ids[x]
      /\ \A p \in Operation \ {o} : n.perm[s][p] = t.perm[s][p] /\ n.ids[s][p] = t.ids[s][p]
      /\ n.perm[s][o] = g /\ n.ids[s][o] = i
  BY DEF Fits, TenantData
<1> HIDE DEF n
<1>3. \A u \in User \ users : n.assigned[u] = {} /\ n.perm[u] = NoPerms /\ n.ids[u] = NoIds
  BY <1>2 DEF Fits, Subject
<1>4. \A x \in Subject, p \in Operation :
         n.perm[x][p] # Unset \/ n.ids[x][p] # {} => p \in ops
  <2> TAKE x \in Subject, p \in Operation
  <2>1. CASE x # s \/ p # o
    BY <1>2, <2>1 DEF Fits
  <2>2. CASE x = s /\ p = o
    BY <1>2, <2>2
  <2> QED BY <2>1, <2>2
<1> QED BY <1>1, <1>3, <1>4 DEF Fits, n

-----------------------------------------------------------------------------
(* The store calls of the functions. *)

LEMMA RoleCallFits ==
    ASSUME NEW users, NEW ops, Fits(tenant, users, ops), NEW out, Tenant!RoleCall(out)
    PROVE  Fits(tenant', users, ops)
<1>1. PICK r \in Role :
         \/ Tenant!CreateRole(r, out) \/ Tenant!EnsureRole(r, out)
         \/ Tenant!DeleteRole(r, out)
         \/ \E b \in Role : Tenant!RenameRole(r, b, out)
  BY DEF Tenant!RoleCall
<1>2. CASE UNCHANGED tenant
  BY <1>2
<1>3. CASE Tenant!CreateRole(r, out) \/ Tenant!EnsureRole(r, out)
  BY <1>2, <1>3, AddRoleFits
     DEF Tenant!CreateRole, Tenant!EnsureRole, Tenant!Saved, Tenant!Noop, Tenant!Conflict
<1>4. CASE Tenant!DeleteRole(r, out)
  BY <1>2, <1>4, DropRoleFits DEF Tenant!DeleteRole, Tenant!Saved, Tenant!NotFound
<1>5. ASSUME NEW b \in Role, Tenant!RenameRole(r, b, out)
      PROVE  Fits(tenant', users, ops)
  BY <1>2, <1>5, MoveRoleFits
     DEF Tenant!RenameRole, Tenant!Saved, Tenant!NotFound, Tenant!Conflict
<1> QED BY <1>1, <1>3, <1>4, <1>5

LEMMA AssignFits ==
    ASSUME NEW users, NEW ops, Fits(tenant, users, ops), NEW out,
           NEW u \in users, u \in User, NEW r \in Role, Tenant!AssignRole(u, r, out)
    PROVE  Fits(tenant', users, ops)
<1>1. tenant.assigned[u] \cup {r} \in SUBSET Role
  BY DEF Fits, TenantData
<1>2. Fits([tenant EXCEPT !.assigned[u] = tenant.assigned[u] \cup {r}], users, ops)
  BY <1>1, AssignmentFits
<1> QED BY <1>2 DEF Tenant!AssignRole, Tenant!Saved, Tenant!Noop, Tenant!NotFound

LEMMA UnassignFits ==
    ASSUME NEW users, NEW ops, Fits(tenant, users, ops), NEW out,
           NEW u \in User, NEW r \in Role, Tenant!UnassignRole(u, r, out)
    PROVE  Fits(tenant', users, ops)
<1>1. CASE UNCHANGED tenant
  BY <1>1
<1>2. CASE /\ r \in tenant.assigned[u]
           /\ tenant' = [tenant EXCEPT !.assigned[u] = tenant.assigned[u] \ {r}]
  <2>1. u \in users /\ tenant.assigned[u] \ {r} \in SUBSET Role
    BY <1>2 DEF Fits, TenantData
  <2> QED BY <1>2, <2>1, AssignmentFits
<1> QED BY <1>1, <1>2 DEF Tenant!UnassignRole, Tenant!Saved, Tenant!NotFound

LEMMA RemovePermissionFits ==
    ASSUME NEW users, NEW ops, Fits(tenant, users, ops), NEW out,
           NEW s \in Subject, NEW o \in Operation, Tenant!RemovePermission(s, o, out)
    PROVE  Fits(tenant', users, ops)
<1>1. CASE UNCHANGED tenant
  BY <1>1
<1>2. CASE /\ tenant.perm[s][o] # Unset
           /\ tenant' = [tenant EXCEPT !.perm[s][o] = Unset, !.ids[s][o] = {}]
  <2>1. s \in User => s \in users
    BY <1>2, NothingSet DEF Fits
  <2>2. Unset \in Grant
    BY DEF Grant
  <2> QED BY <1>2, <2>1, <2>2, EntryFits
<1> QED BY <1>1, <1>2, SameValues DEF Tenant!RemovePermission, Tenant!Saved, Tenant!NotFound

(* The calls that give need what the functions check first. *)
LEMMA GivingFits ==
    ASSUME NEW users, NEW ops, Fits(tenant, users, ops), NEW out,
           NEW s \in Subject, NEW o \in Operation,
           o \in ops, s \in User => s \in users
    PROVE  /\ \A scope \in Scope :
                 Tenant!SetPermission(s, o, scope, out) => Fits(tenant', users, ops)
           /\ \A some \in SUBSET RecordId :
                 /\ Tenant!AddRestrictedIDs(s, o, some, out) => Fits(tenant', users, ops)
                 /\ Tenant!RemoveRestrictedIDs(s, o, some, out) => Fits(tenant', users, ops)
<1>1. /\ tenant \in TenantData
      /\ tenant.perm[s][o] \in Grant /\ tenant.ids[s][o] \in SUBSET RecordId
      /\ Scope \subseteq Grant
  BY DEF Fits, TenantData, Grant
<1>2. CASE UNCHANGED tenant
  BY <1>2
<1>3. ASSUME NEW scope \in Scope, Tenant!SetPermission(s, o, scope, out)
      PROVE  Fits(tenant', users, ops)
  <2>1. [tenant EXCEPT !.perm[s][o] = scope] =
          [tenant EXCEPT !.perm[s][o] = scope, !.ids[s][o] = tenant.ids[s][o]]
    BY <1>1 DEF TenantData
  <2>2. scope \in Grant
    BY <1>1
  <2>3. Fits([tenant EXCEPT !.perm[s][o] = scope, !.ids[s][o] = tenant.ids[s][o]], users, ops)
    BY <1>1, <2>2, EntryFits
  <2> QED BY <1>2, <1>3, <2>1, <2>3 DEF Tenant!SetPermission, Tenant!Saved, Tenant!NotFound
<1>4. ASSUME NEW i \in SUBSET RecordId
      PROVE  Fits([tenant EXCEPT !.ids[s][o] = i], users, ops)
  <2>1. [tenant EXCEPT !.ids[s][o] = i] =
          [tenant EXCEPT !.perm[s][o] = tenant.perm[s][o], !.ids[s][o] = i]
    BY <1>1 DEF TenantData
  <2>2. Fits([tenant EXCEPT !.perm[s][o] = tenant.perm[s][o], !.ids[s][o] = i], users, ops)
    BY <1>1, EntryFits
  <2> QED BY <2>1, <2>2
<1>5. ASSUME NEW some \in SUBSET RecordId, Tenant!AddRestrictedIDs(s, o, some, out)
      PROVE  Fits(tenant', users, ops)
  <2>1. Fits([tenant EXCEPT !.ids[s][o] = tenant.ids[s][o] \cup some], users, ops)
    BY <1>1, <1>4
  <2> QED BY <1>2, <1>5, <2>1 DEF Tenant!AddRestrictedIDs, Tenant!Saved, Tenant!NotFound
<1>6. ASSUME NEW some \in SUBSET RecordId, Tenant!RemoveRestrictedIDs(s, o, some, out)
      PROVE  Fits(tenant', users, ops)
  <2>1. Fits([tenant EXCEPT !.ids[s][o] = tenant.ids[s][o] \ some], users, ops)
    BY <1>1, <1>4
  <2> QED BY <1>2, <1>6, <2>1 DEF Tenant!RemoveRestrictedIDs, Tenant!Saved, Tenant!NotFound
<1> QED BY <1>3, <1>5, <1>6

(* A call of the shared store keeps its data well typed and unregisters no *)
(* user (json.go:106-206).                                                 *)
LEMMA SharedCalls ==
    ASSUME shared \in Shared!SharedData, NEW out
    PROVE  /\ Shared!Call(out) => /\ shared' \in Shared!SharedData
                                 /\ shared.users \subseteq shared'.users
           /\ \A u \in User : Shared!EnsureUser(u, out) => /\ Shared!Call(out)
                                                          /\ u \in shared'.users
<1>1. ASSUME NEW u \in User, Shared!EnsureUser(u, out)
      PROVE  /\ shared' \in Shared!SharedData
             /\ shared.users \subseteq shared'.users /\ u \in shared'.users
  BY <1>1 DEF Shared!EnsureUser, Shared!Saved, Shared!Noop, Shared!SharedData
<1>2. ASSUME NEW res \in Resource,
             \/ Shared!CreateResource(res, out) \/ Shared!EnsureResource(res, out)
             \/ Shared!DeleteResource(res, out)
      PROVE  shared' \in Shared!SharedData /\ shared.users \subseteq shared'.users
  BY <1>2 DEF Shared!CreateResource, Shared!EnsureResource, Shared!DeleteResource,
              Shared!AddResource, Shared!Saved, Shared!Noop, Shared!NotFound,
              Shared!Conflict, Shared!SharedData
<1>3. ASSUME NEW o \in Operation,
             \/ Shared!CreateOperation(o, out) \/ Shared!EnsureOperation(o, out)
             \/ Shared!DeleteOperation(o, out)
      PROVE  shared' \in Shared!SharedData /\ shared.users \subseteq shared'.users
  <2>1. CASE UNCHANGED shared
    BY <2>1
  <2>2. CASE shared' = Shared!AddOperation(shared, o)
    <3>1. ResourceOf[o] \in Resource
      BY ResourceOfIsTotal
    <3> QED BY <2>2, <3>1 DEF Shared!AddOperation, Shared!SharedData
  <2>3. CASE shared' = [shared EXCEPT !.operations = @ \ {o}]
    BY <2>3 DEF Shared!SharedData
  <2> QED BY <1>3, <2>1, <2>2, <2>3
          DEF Shared!CreateOperation, Shared!EnsureOperation, Shared!DeleteOperation,
              Shared!Saved, Shared!Noop, Shared!NotFound, Shared!Conflict
<1> QED BY <1>1, <1>2, <1>3
        DEF Shared!Call, Shared!ResourceCall, Shared!OperationCall, Shared!UserCall

-----------------------------------------------------------------------------
(* The handlers. *)

(* fn says which function a handler runs. *)
LEMMA WhichCall ==
    ASSUME TypeOK, NEW c \in Client, NEW at
    PROVE  /\ call[c] \in CallState
           /\ At(c, "AssignRole", at) => call[c] \in AssignRoleCall
           /\ At(c, "SetPermission", at) => call[c] \in SetPermissionCall
           /\ At(c, "UpdateRestrictedIDs", at) => call[c] \in UpdateRestrictedIDsCall
<1>1. call[c] \in CallState
  BY DEF TypeOK
<1> QED BY <1>1 DEF At, CallState, Idle, AssignRoleCall, SetPermissionCall, UpdateRestrictedIDsCall

LEMMA IdleIsPrepared ==
    ASSUME NEW users, NEW ops
    PROVE  Idle \in CallState /\ Prepared(Idle, users, ops)
  BY DEF Idle, CallState, Prepared, SetPermissionCall, UpdateRestrictedIDsCall

(* A step of handler c, to state k, that changes the shared store ... *)
LEMMA SharedStep ==
    ASSUME Inv, OnShared, shared' \in Shared!SharedData, shared.users \subseteq shared'.users,
           NEW c \in Client, NEW k \in CallState, call' = [call EXCEPT ![c] = k],
           Prepared(k, shared'.users, everRegistered')
    PROVE  Inv'
<1>1. /\ TypeOK /\ Fits(tenant, shared.users, everRegistered)
      /\ \A d \in Client : Prepared(call[d], shared.users, everRegistered)
  BY InvByParts
<1>2. /\ tenant' = tenant /\ everRegistered \subseteq everRegistered'
      /\ shared'.operations \subseteq everRegistered'
      /\ everRegistered' = everRegistered \cup shared'.operations
  BY DEF OnShared
<1>3. TypeOK'
  BY <1>1, <1>2 DEF TypeOK, Shared!SharedData
<1>4. Fits(tenant', shared'.users, everRegistered')
  BY <1>1, <1>2, FitsMore
<1>5. ASSUME NEW d \in Client
      PROVE  Prepared(call'[d], shared'.users, everRegistered')
  <2>1. CASE d = c
    BY <1>1, <2>1 DEF TypeOK
  <2>2. CASE d # c
    <3>1. call'[d] = call[d] /\ Prepared(call[d], shared.users, everRegistered)
      BY <1>1, <2>2 DEF TypeOK
    <3>2. Prepared(call[d], shared'.users, everRegistered')
      BY <1>2, <3>1, PreparedMore
    <3> QED BY <3>1, <3>2
  <2> QED BY <2>1, <2>2
<1> QED BY <1>2, <1>3, <1>4, <1>5, InvByParts

(* ... and one that changes the tenant's data, or nothing. *)
LEMMA TenantStep ==
    ASSUME Inv, OnTenant, Fits(tenant', shared.users, everRegistered),
           NEW c \in Client, NEW k \in CallState, call' = [call EXCEPT ![c] = k],
           Prepared(k, shared.users, everRegistered)
    PROVE  Inv'
<1>1. /\ TypeOK /\ shared.operations \subseteq everRegistered
      /\ \A d \in Client : Prepared(call[d], shared.users, everRegistered)
  BY InvByParts
<1>2. shared' = shared /\ everRegistered' = everRegistered
  BY DEF OnTenant
<1>3. TypeOK'
  BY <1>1, <1>2 DEF TypeOK, Fits
<1>4. \A d \in Client : Prepared(call'[d], shared'.users, everRegistered')
  BY <1>1, <1>2 DEF TypeOK
<1> QED BY <1>1, <1>2, <1>3, <1>4, InvByParts

LEMMA SharedCallInv ==
    ASSUME Inv, NEW c \in Client, SharedCall(c)
    PROVE  Inv'
<1>1. /\ TypeOK /\ shared \in Shared!SharedData
      /\ Prepared(Idle, shared'.users, everRegistered') /\ Idle \in CallState
  BY InvByParts, IdleIsPrepared DEF TypeOK
<1>2. /\ OnShared /\ call' = [call EXCEPT ![c] = Idle]
      /\ shared' \in Shared!SharedData /\ shared.users \subseteq shared'.users
  BY <1>1, SharedCalls DEF SharedCall, TypeOK
<1> QED BY <1>1, <1>2, SharedStep

LEMMA TenantCallInv ==
    ASSUME Inv, NEW c \in Client, TenantCall(c)
    PROVE  Inv'
<1>1. /\ TypeOK /\ Fits(tenant, shared.users, everRegistered)
      /\ Prepared(Idle, shared.users, everRegistered) /\ Idle \in CallState
  BY InvByParts, IdleIsPrepared
<1>2. OnTenant /\ call' = [call EXCEPT ![c] = Idle]
  BY <1>1 DEF TenantCall, TypeOK
<1>3. Fits(tenant', shared.users, everRegistered)
  BY <1>1, RoleCallFits, UnassignFits, RemovePermissionFits DEF TenantCall
<1> QED BY <1>1, <1>2, <1>3, TenantStep

(* AssignRole (admin.go:142-149). *)
LEMMA AssignInv ==
    ASSUME Inv, NEW c \in Client
    PROVE  /\ \A u \in User, r \in Role : AssignEnsureUser(c, u, r) => Inv'
           /\ Assign(c) => Inv'
<1>1. /\ TypeOK /\ Fits(tenant, shared.users, everRegistered)
      /\ shared \in Shared!SharedData
      /\ Prepared(call[c], shared.users, everRegistered)
  BY InvByParts DEF TypeOK
<1>2. ASSUME NEW u \in User, NEW r \in Role, AssignEnsureUser(c, u, r)
      PROVE  Inv'
  <2> DEFINE k == [fn |-> "AssignRole", at |-> "assign", sub |-> u, role |-> r]
  <2>1. /\ OnShared /\ call' = [call EXCEPT ![c] = k]
        /\ shared' \in Shared!SharedData /\ shared.users \subseteq shared'.users
        /\ u \in shared'.users
    BY <1>1, <1>2, SharedCalls DEF AssignEnsureUser, Enter
  <2>2. k \in CallState
    BY DEF CallState, AssignRoleCall
  <2>3. Prepared(k, shared'.users, everRegistered')
    BY <2>1 DEF Prepared, SetPermissionCall, UpdateRestrictedIDsCall
  <2> QED BY <2>1, <2>2, <2>3, SharedStep
<1>3. ASSUME Assign(c)
      PROVE  Inv'
  <2>1. call[c].sub \in User /\ call[c].role \in Role /\ call[c].sub \in shared.users
    BY <1>1, <1>3, WhichCall DEF Assign, At, AssignRoleCall, Prepared
  <2>2. OnTenant /\ call' = [call EXCEPT ![c] = Idle]
    BY <1>3 DEF Assign, Return
  <2>3. Fits(tenant', shared.users, everRegistered)
    BY <1>1, <1>3, <2>1, AssignFits DEF Assign
  <2> QED BY <2>2, <2>3, IdleIsPrepared, TenantStep
<1> QED BY <1>2, <1>3

(* SetRolePermission and SetUserPermission (admin.go:161-192). *)
LEMMA SetInv ==
    ASSUME Inv, NEW c \in Client
    PROVE  /\ \A s \in Subject, o \in Operation, scope \in RequestScope :
                 SetRequireOperation(c, s, o, scope) => Inv'
           /\ SetEnsureUser(c) => Inv'
           /\ Set(c) => Inv'
<1>1. /\ TypeOK /\ Fits(tenant, shared.users, everRegistered)
      /\ shared \in Shared!SharedData /\ shared.operations \subseteq everRegistered
      /\ Prepared(call[c], shared.users, everRegistered)
  BY InvByParts DEF TypeOK
<1>2. ASSUME NEW s \in Subject, NEW o \in Operation, NEW scope \in RequestScope,
             SetRequireOperation(c, s, o, scope)
      PROVE  Inv'
  <2> DEFINE k == SetCall(s, o, scope)
  <2>1. /\ OnTenant /\ tenant' = tenant /\ call' = [call EXCEPT ![c] = k]
        /\ o \in everRegistered
    BY <1>1, <1>2 DEF SetRequireOperation, Enter, ReadOnly, OnTenant
  <2>2. k \in CallState
    BY DEF CallState, SetPermissionCall, SetCall
  <2>3. Prepared(k, shared.users, everRegistered)
    BY <2>1 DEF Prepared, SetCall, UpdateRestrictedIDsCall
  <2> QED BY <1>1, <2>1, <2>2, <2>3, TenantStep
<1>3. ASSUME SetEnsureUser(c)
      PROVE  Inv'
  <2> DEFINE k == [call[c] EXCEPT !.at = "set"]
  <2>1. call[c] \in SetPermissionCall /\ call[c].at = "ensure"
    BY <1>1, <1>3, WhichCall DEF SetEnsureUser, At
  <2>2. k \in SetPermissionCall /\ k.subject = call[c].subject
        /\ k.operation = call[c].operation /\ k.fn = "SetPermission"
        /\ call[c].subject \in User
    BY <2>1 DEF SetPermissionCall, Subject
  <2>3. OnShared /\ call' = [call EXCEPT ![c] = k]
    BY <1>3 DEF SetEnsureUser, Goto
  <2>4. PICK out \in Shared!Outcome : Shared!EnsureUser(call[c].subject, out)
    BY <1>3 DEF SetEnsureUser
  <2>5. /\ shared' \in Shared!SharedData /\ shared.users \subseteq shared'.users
        /\ call[c].subject \in shared'.users
    BY <1>1, <2>2, <2>4, SharedCalls
  <2>6. call[c].operation \in everRegistered'
    BY <1>1, <2>1, <2>3 DEF Prepared, OnShared
  <2>7. Prepared(k, shared'.users, everRegistered')
    BY <2>2, <2>5, <2>6 DEF Prepared
  <2> QED BY <2>2, <2>3, <2>5, <2>7, SharedStep DEF CallState
<1>4. ASSUME Set(c)
      PROVE  Inv'
  <2>1. call[c] \in SetPermissionCall /\ call[c] # Idle
        /\ call[c].fn = "SetPermission" /\ call[c].at = "set"
    BY <1>1, <1>4, WhichCall DEF Set, At
  <2>2. /\ call[c].subject \in Subject /\ call[c].operation \in Operation
        /\ call[c].scope \in Scope
    BY <2>1, RequestScopeIsScope DEF SetPermissionCall
  <2>3. /\ call[c].operation \in everRegistered
        /\ call[c].subject \in User => call[c].subject \in shared.users
    BY <1>1, <2>1 DEF Prepared
  <2>4. OnTenant /\ call' = [call EXCEPT ![c] = Idle]
    BY <1>4 DEF Set, Return
  <2>5. Fits(tenant', shared.users, everRegistered)
    BY <1>1, <1>4, <2>2, <2>3, GivingFits DEF Set
  <2> QED BY <2>4, <2>5, IdleIsPrepared, TenantStep
<1> QED BY <1>2, <1>3, <1>4

(* UpdateRoleRestrictedIDs and UpdateUserRestrictedIDs (admin.go:200-230). *)
LEMMA UpdateInv ==
    ASSUME Inv, NEW c \in Client
    PROVE  /\ \A s \in Subject, o \in Operation, add, remove \in SUBSET RecordId :
                 UpdateRequirePermission(c, s, o, add, remove) => Inv'
           /\ UpdateAdd(c) => Inv'
           /\ UpdateRemove(c) => Inv'
<1>1. /\ TypeOK /\ Fits(tenant, shared.users, everRegistered)
      /\ Prepared(call[c], shared.users, everRegistered)
  BY InvByParts
<1>2. ASSUME NEW s \in Subject, NEW o \in Operation,
             NEW add \in SUBSET RecordId, NEW remove \in SUBSET RecordId,
             UpdateRequirePermission(c, s, o, add, remove)
      PROVE  Inv'
  <2> DEFINE k == UpdateCall(s, o, add, remove)
  <2>1. /\ OnTenant /\ tenant' = tenant /\ call' = [call EXCEPT ![c] = k]
        /\ tenant.perm[s][o] # Unset
    BY <1>2 DEF UpdateRequirePermission, Enter, ReadOnly, OnTenant
  <2>2. o \in everRegistered /\ (s \in User => s \in shared.users)
    BY <1>1, <2>1, NothingSet DEF Fits
  <2>3. k \in UpdateRestrictedIDsCall /\ k.fn = "UpdateRestrictedIDs"
        /\ k.subject = s /\ k.operation = o
    BY DEF UpdateRestrictedIDsCall, UpdateCall
  <2>4. Prepared(k, shared.users, everRegistered)
    BY <2>2, <2>3 DEF Prepared
  <2> QED BY <1>1, <2>1, <2>3, <2>4, TenantStep DEF CallState
<1>3. ASSUME call[c] \in UpdateRestrictedIDsCall
      PROVE  /\ call[c].subject \in Subject /\ call[c].operation \in Operation
             /\ call[c].add \in SUBSET RecordId /\ call[c].remove \in SUBSET RecordId
             /\ call[c].operation \in everRegistered
             /\ call[c].subject \in User => call[c].subject \in shared.users
  BY <1>1, <1>3 DEF UpdateRestrictedIDsCall, Prepared
<1>4. ASSUME UpdateAdd(c)
      PROVE  Inv'
  <2>1. call[c] \in UpdateRestrictedIDsCall /\ OnTenant
    BY <1>1, <1>4, WhichCall DEF UpdateAdd
  <2>2. Fits(tenant', shared.users, everRegistered)
    BY <1>1, <1>3, <1>4, <2>1, GivingFits DEF UpdateAdd
  <2>3. CASE Return(c)
    BY <2>1, <2>2, <2>3, IdleIsPrepared, TenantStep DEF Return
  <2>4. CASE Goto(c, "remove")
    <3> DEFINE k == [call[c] EXCEPT !.at = "remove"]
    <3>1. k \in UpdateRestrictedIDsCall /\ k.fn = "UpdateRestrictedIDs"
          /\ k.subject = call[c].subject /\ k.operation = call[c].operation
      BY <2>1 DEF UpdateRestrictedIDsCall
    <3>2. Prepared(k, shared.users, everRegistered)
      BY <1>3, <2>1, <3>1 DEF Prepared
    <3> QED BY <2>1, <2>2, <2>4, <3>1, <3>2, TenantStep DEF Goto, CallState
  <2> QED BY <1>4, <2>3, <2>4 DEF UpdateAdd
<1>5. ASSUME UpdateRemove(c)
      PROVE  Inv'
  <2>1. call[c] \in UpdateRestrictedIDsCall /\ OnTenant /\ Return(c)
    BY <1>1, <1>5, WhichCall DEF UpdateRemove
  <2>2. Fits(tenant', shared.users, everRegistered)
    BY <1>1, <1>3, <1>5, <2>1, GivingFits DEF UpdateRemove
  <2> QED BY <2>1, <2>2, IdleIsPrepared, TenantStep DEF Return
<1> QED BY <1>2, <1>4, <1>5

(* Whatever handlers do at the same time, whichever statement of whichever *)
(* function they are at, no user is referred to before being provisioned   *)
(* and no grant or id names an operation that was never registered.        *)
THEOREM AdminInv == Spec => []Inv
<1>1. Init => Inv
  <2> SUFFICES ASSUME Init PROVE Inv
    OBVIOUS
  <2>1. tenant = EmptyTenant /\ Fits(tenant, shared.users, everRegistered)
    BY EmptyFits, SameValues DEF Init, Tenant!Init
  <2>2. shared \in Shared!SharedData /\ shared.operations \subseteq everRegistered
    BY DEF Init, Shared!Init, Shared!SharedData
  <2>3. call \in [Client -> CallState]
        /\ \A c \in Client : Prepared(call[c], shared.users, everRegistered)
    BY IdleIsPrepared DEF Init
  <2>4. TypeOK
    BY <2>1, <2>2, <2>3 DEF TypeOK, Fits, Init
  <2> QED BY <2>1, <2>2, <2>3, <2>4, InvByParts
<1>2. Inv /\ [Next]_vars => Inv'
  <2>1. ASSUME Inv, UNCHANGED vars PROVE Inv'
    BY <2>1, InvByParts DEF vars, TypeOK
  <2>2. ASSUME Inv, NEW c \in Client,
               SharedCall(c) \/ TenantCall(c) \/ Begin(c) \/ Continue(c)
        PROVE  Inv'
    <3>1. CASE SharedCall(c) \/ TenantCall(c)
      BY <2>2, <3>1, SharedCallInv, TenantCallInv
    <3>2. CASE Begin(c)
      BY <2>2, <3>2, AssignInv, SetInv, UpdateInv DEF Begin
    <3>3. CASE Continue(c)
      BY <2>2, <3>3, AssignInv, SetInv, UpdateInv DEF Continue
    <3> QED BY <2>2, <3>1, <3>2, <3>3
  <2> QED BY <2>1, <2>2 DEF Next
<1> QED BY <1>1, <1>2, PTL DEF Spec

(* No user is referred to by the tenant's data before being provisioned    *)
(* (admin.go:142-149, 179-192).                                            *)
COROLLARY AdminProvisions == Spec => []UsersProvisioned
<1>1. Inv => UsersProvisioned
  BY DEF Inv
<1> QED BY <1>1, AdminInv, PTL

(* No grant or id names an operation that was never registered             *)
(* (admin.go:10-12, 167-170).                                              *)
COROLLARY AdminGrantsRegistered == Spec => []GrantsOnceRegistered
<1>1. Inv => GrantsOnceRegistered
  BY DEF Inv
<1> QED BY <1>1, AdminInv, PTL

(* The calls of the shared store keep the resources of its operations.     *)
LEMMA SharedCallsKeepResources ==
    ASSUME shared \in Shared!SharedData, OperationsHaveResources, NEW out
    PROVE  Shared!Call(out) => OperationsHaveResources'
<1> USE DEF OperationsHaveResources, Shared!ResourceRegistered
<1>1. ASSUME UNCHANGED shared
      PROVE  OperationsHaveResources'
  BY <1>1
<1>2. ASSUME NEW u \in User, Shared!EnsureUser(u, out)
      PROVE  OperationsHaveResources'
  BY <1>2 DEF Shared!EnsureUser, Shared!Saved, Shared!Noop, Shared!SharedData
<1>3. ASSUME NEW res \in Resource,
             \/ Shared!CreateResource(res, out) \/ Shared!EnsureResource(res, out)
             \/ Shared!DeleteResource(res, out)
      PROVE  OperationsHaveResources'
  <2>1. CASE shared' = Shared!AddResource(shared, res)
    BY <2>1 DEF Shared!AddResource, Shared!SharedData
  <2>2. CASE shared' = [shared EXCEPT
                          !.resources = @ \ {res},
                          !.operations = {o \in @ : ResourceOf[o] # res}]
    BY <2>2 DEF Shared!SharedData
  <2> QED BY <1>1, <1>3, <2>1, <2>2
          DEF Shared!CreateResource, Shared!EnsureResource, Shared!DeleteResource,
              Shared!Saved, Shared!Noop, Shared!NotFound, Shared!Conflict
<1>4. ASSUME NEW o \in Operation,
             \/ Shared!CreateOperation(o, out) \/ Shared!EnsureOperation(o, out)
             \/ Shared!DeleteOperation(o, out)
      PROVE  OperationsHaveResources'
  <2>1. CASE shared' = Shared!AddOperation(shared, o)
    BY <2>1 DEF Shared!AddOperation, Shared!SharedData
  <2>2. CASE shared' = [shared EXCEPT !.operations = @ \ {o}]
    BY <2>2 DEF Shared!SharedData
  <2> QED BY <1>1, <1>4, <2>1, <2>2
          DEF Shared!CreateOperation, Shared!EnsureOperation, Shared!DeleteOperation,
              Shared!Saved, Shared!Noop, Shared!NotFound, Shared!Conflict
<1> QED BY <1>2, <1>3, <1>4
        DEF Shared!Call, Shared!ResourceCall, Shared!OperationCall, Shared!UserCall

(* The same of the shared store alone: after any sequence of its calls the *)
(* resource of every registered operation is registered (json.go:106-206). *)
THEOREM SharedInv == Shared!Spec => []Shared!Inv
<1>1. Shared!Init => Shared!Inv
  BY DEF Shared!Init, Shared!Inv, Shared!TypeOK, Shared!ResourceRegistered, Shared!SharedData
<1>2. Shared!Inv /\ [Shared!Next]_shared => Shared!Inv'
  BY SharedCalls, SharedCallsKeepResources
     DEF Shared!Next, Shared!Inv, Shared!TypeOK, OperationsHaveResources, Shared!ResourceRegistered
<1> QED BY <1>1, <1>2, PTL DEF Shared!Spec

(* Whatever handlers run at the same time, and whichever operations they   *)
(* register or delete, the resource of every registered operation is       *)
(* registered (json.go:146-183, admin.go:37-65).                           *)
THEOREM AdminKeepsResources == Spec => []OperationsHaveResources
<1>1. Init => OperationsHaveResources
  BY DEF Init, Shared!Init, OperationsHaveResources, Shared!ResourceRegistered
<1>2. Inv /\ OperationsHaveResources /\ [Next]_vars => OperationsHaveResources'
  <2> SUFFICES ASSUME Inv, OperationsHaveResources, [Next]_vars
               PROVE  OperationsHaveResources'
    OBVIOUS
  <2>1. shared \in Shared!SharedData /\ TypeOK
    BY DEF Inv, TypeOK
  <2>2. CASE UNCHANGED shared
    BY <2>2 DEF OperationsHaveResources, Shared!ResourceRegistered
  <2>3. ASSUME NEW c \in Client, SharedCall(c)
        PROVE  OperationsHaveResources'
    BY <2>1, <2>3, SharedCallsKeepResources DEF SharedCall
  <2>4. ASSUME NEW c \in Client, NEW u \in User, NEW r \in Role, AssignEnsureUser(c, u, r)
        PROVE  OperationsHaveResources'
    BY <2>1, <2>4, SharedCalls, SharedCallsKeepResources DEF AssignEnsureUser
  <2>5. ASSUME NEW c \in Client, SetEnsureUser(c)
        PROVE  OperationsHaveResources'
    <3>1. call[c] \in SetPermissionCall /\ call[c].at = "ensure"
      BY <2>1, <2>5, WhichCall DEF SetEnsureUser, At
    <3>2. call[c].subject \in User
      BY <3>1 DEF SetPermissionCall
    <3> QED BY <2>1, <2>5, <3>2, SharedCalls, SharedCallsKeepResources DEF SetEnsureUser
  <2>6. ASSUME NEW c \in Client, TenantCall(c)
        PROVE  UNCHANGED shared
    BY <2>6 DEF TenantCall, OnTenant
  <2>7. ASSUME NEW c \in Client,
               NEW s \in Subject, NEW o \in Operation,
               \/ \E scope \in RequestScope : SetRequireOperation(c, s, o, scope)
               \/ \E add, remove \in SUBSET RecordId :
                     UpdateRequirePermission(c, s, o, add, remove)
        PROVE  UNCHANGED shared
    BY <2>7 DEF SetRequireOperation, UpdateRequirePermission, ReadOnly
  <2>8. ASSUME NEW c \in Client, Assign(c) \/ Set(c) \/ UpdateAdd(c) \/ UpdateRemove(c)
        PROVE  UNCHANGED shared
    BY <2>8 DEF Assign, Set, UpdateAdd, UpdateRemove, OnTenant
  <2>9. CASE Next
    <3>1. PICK c \in Client : SharedCall(c) \/ TenantCall(c) \/ Begin(c) \/ Continue(c)
      BY <2>9 DEF Next
    <3>2. CASE SharedCall(c) \/ TenantCall(c)
      BY <2>2, <2>3, <2>6, <3>2
    <3>3. CASE Begin(c)
      BY <2>2, <2>4, <2>7, <3>3 DEF Begin
    <3>4. CASE Continue(c)
      BY <2>2, <2>5, <2>8, <3>4 DEF Continue
    <3> QED BY <3>1, <3>2, <3>3, <3>4
  <2> QED BY <2>2, <2>9 DEF vars
<1> QED BY <1>1, <1>2, AdminInv, PTL DEF Spec
=============================================================================
